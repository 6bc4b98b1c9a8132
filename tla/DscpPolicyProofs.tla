-------------------------- MODULE DscpPolicyProofs --------------------------
(* The table of policies of DscpPolicy: its types, that an identifier      *)
(* names one policy (IdsUnique), that a response says what was done        *)
(* (AnswersTruthful), that the chains of the kernel are the table          *)
(* (RulesFollowTable), and that a lookup finds the best policy             *)
(* (LookupFindsBest), for any number of identifiers, monitors and          *)
(* requests.  The first two follow from DInv; the third takes AnswerInv,   *)
(* in the second part of the module, which relates the chains to the table *)
(* as sets, and the lists of statuses to both, while a policy is in hand;  *)
(* the fourth takes OrderInv, in the third part, which adds the order.     *)
(* The last is by induction on the table.                                  *)
EXTENDS DscpPolicy, Integers, FiniteSetTheorems, WellFoundedInduction, TLAPS

Unique(s) == \A j, k \in DOMAIN s : s[j].id = s[k].id => j = k
In(s, id) == \E k \in DOMAIN s : s[k].id = id
Els(s) == {s[k] : k \in DOMAIN s}

(* A thread in the middle of a policy it was asked to add or to remove.    *)
Busy == {"remove", "unlink", "add", "link"}
Pcs == {"none", "open", "wait", "clear", "flush", "answer", "free", "ended"}
         \cup Busy
Thread == [pc : Pcs, ev : Event, list : Seq(Status), cancelled : BOOLEAN]
GoodThread(t) ==
  /\ Len(t.list) <= StatusListSize
  /\ t.pc \in Busy => t.ev.op \in {"add", "remove"}
                      /\ Len(t.list) < StatusListSize
MonInv == mon \in [Mons -> Thread] /\ \A m \in Mons : GoodThread(mon[m])

TypeInv ==
  /\ dscp_policy_table \in Seq(Policy)
  /\ rules \in [Versions -> Seq(Policy)]
  /\ MonInv
  /\ queue \in [Mons -> Seq(Event)]
  /\ dscp_policy_mon_thread \in Mons \cup {NoMon}
  /\ reject_dscp_policies \in BOOLEAN
  /\ alone \in BOOLEAN

(* There is one monitor, and a policy that it is about to add is not in    *)
(* the table.                                                              *)
One == \A m, n \in Mons : Live(m) /\ Live(n) => m = n
Cleared(m) == mon[m].pc \in {"add", "link"} => ~Has(mon[m].ev.id)
DInv ==
  /\ TypeInv /\ Unique(dscp_policy_table)
  /\ alone => One /\ \A m \in Mons : Cleared(m)
-----------------------------------------------------------------------------
(* Sequences of policies.                                                  *)

(* Every non-empty set of numbers has a least one.                         *)
LEMMA LessThan ==
  \E R : IsWellFoundedOn(R, Nat) /\ \A x, y \in Nat : <<y, x>> \in R <=> y < x
<1>1. IsWellFoundedOn(OpToRel(<, Nat), Nat)
  BY NatLessThanWellFounded
<1>2. \A x, y \in Nat : <<y, x>> \in OpToRel(<, Nat) <=> y < x
  BY DEF OpToRel
<1> QED BY <1>1, <1>2, Zenon

LEMMA Least ==
  ASSUME NEW T \in SUBSET Nat, T # {}
  PROVE  \E x \in T : \A y \in T : x <= y
<1>1. PICK R : /\ IsWellFoundedOn(R, Nat)
               /\ \A x, y \in Nat : <<y, x>> \in R <=> y < x
  BY LessThan
<1>2. PICK x \in T : \A y \in T : ~(<<y, x>> \in R)
  <2>1. T \subseteq Nat
    OBVIOUS
  <2> QED BY <1>1, <2>1, WFMin
<1>3. \A y \in T : y \in Nat /\ ~(y < x)
  BY <1>1, <1>2
<1> QED BY <1>2, <1>3

LEMMA AtIsFirst ==
  ASSUME NEW s \in Seq(Policy), NEW id, In(s, id)
  PROVE  At(s, id) \in DOMAIN s /\ s[At(s, id)].id = id
<1> DEFINE T == {k \in DOMAIN s : s[k].id = id}
<1>1. DOMAIN s = 1..Len(s) /\ Len(s) \in Nat
  OBVIOUS
<1>2. T \in SUBSET Nat /\ T # {}
  BY <1>1 DEF In
<1>3. PICK k \in T : \A j \in T : k <= j
  BY <1>2, Least
<1>4. \A j \in 1..(k - 1) : s[j].id # id
  BY <1>1, <1>3
<1> QED BY <1>3, <1>4 DEF At

(* An element is taken out: the others stay.                               *)
LEMMA RemoveAtProps ==
  ASSUME NEW s \in Seq(Policy), NEW i \in DOMAIN s
  PROVE  LET r == RemoveAt(s, i) IN
           /\ r \in Seq(Policy) /\ Len(r) = Len(s) - 1
           /\ \A k \in DOMAIN r :
                /\ k \in Int
                /\ r[k] = s[IF k < i THEN k ELSE k + 1]
                /\ (IF k < i THEN k ELSE k + 1) \in DOMAIN s \ {i}
<1>1. /\ DOMAIN s = 1..Len(s) /\ Len(s) \in Nat /\ i \in 1..Len(s)
  OBVIOUS
<1>2. PICK a : a = SubSeq(s, 1, i - 1)
  OBVIOUS
<1>3. PICK b : b = SubSeq(s, i + 1, Len(s))
  OBVIOUS
<1>4. /\ a \in Seq(Policy) /\ Len(a) = i - 1
      /\ \A k \in 1..(i - 1) : a[k] = s[k]
  BY <1>1, <1>2
<1>5. /\ b \in Seq(Policy) /\ Len(b) = Len(s) - i
      /\ \A k \in 1..(Len(s) - i) : b[k] = s[k + i]
  BY <1>1, <1>3
<1>6. PICK r : r = a \o b
  OBVIOUS
<1>7. /\ r \in Seq(Policy) /\ Len(r) = Len(s) - 1 /\ DOMAIN r = 1..(Len(s) - 1)
  <2>1. r \in Seq(Policy) /\ Len(r) = Len(a) + Len(b)
    <3>1. a \in Seq(Policy) /\ b \in Seq(Policy)
      BY <1>4, <1>5
    <3> QED BY <1>6, <3>1
  <2>2. Len(r) = Len(s) - 1
    BY <1>1, <1>4, <1>5, <2>1
  <2>3. DOMAIN r = 1..Len(r)
    BY <2>1
  <2> QED BY <2>1, <2>2, <2>3
<1>8. ASSUME NEW k \in DOMAIN r
      PROVE  /\ k \in Int
             /\ r[k] = s[IF k < i THEN k ELSE k + 1]
             /\ (IF k < i THEN k ELSE k + 1) \in DOMAIN s \ {i}
  <2>1. k \in Int /\ k >= 1 /\ k <= Len(s) - 1
    BY <1>1, <1>7
  <2>2. CASE k < i
    BY <1>1, <1>4, <1>5, <1>6, <2>1, <2>2
  <2>3. CASE ~(k < i)
    <3>1. r[k] = b[k - (i - 1)]
      BY <1>1, <1>4, <1>5, <1>6, <2>1, <2>3
    <3>2. /\ k - (i - 1) \in 1..(Len(s) - i)
          /\ (k - (i - 1)) + i = k + 1
      BY <1>1, <2>1, <2>3
    <3>3. b[k - (i - 1)] = s[k + 1]
      BY <1>5, <3>2
    <3> QED BY <1>1, <2>1, <2>3, <3>1, <3>3
  <2> QED BY <2>2, <2>3
<1>9. RemoveAt(s, i) = r
  BY <1>2, <1>3, <1>6 DEF RemoveAt
<1> QED BY <1>7, <1>8, <1>9

LEMMA WithoutProps ==
  ASSUME NEW s \in Seq(Policy), NEW id
  PROVE  LET r == Without(s, id) IN
           /\ r \in Seq(Policy)
           /\ \A o : In(r, o) => In(s, o)
           /\ Unique(s) => /\ Unique(r) /\ ~In(r, id)
                            /\ Els(r) = {p \in Els(s) : p.id # id}
<1>1. CASE ~In(s, id)
  <2>1. Without(s, id) = s
    BY <1>1 DEF Without, In
  <2>2. Els(s) = {p \in Els(s) : p.id # id}
    BY <1>1 DEF In, Els
  <2> QED BY <1>1, <2>1, <2>2
<1>2. CASE In(s, id)
  <2>1. PICK i : i = At(s, id)
    OBVIOUS
  <2>2. i \in DOMAIN s /\ s[i].id = id
    BY <1>2, <2>1, AtIsFirst
  <2>3. PICK r : r = RemoveAt(s, i)
    OBVIOUS
  <2>4. /\ r \in Seq(Policy) /\ Len(r) = Len(s) - 1
        /\ \A k \in DOMAIN r :
             /\ k \in Int
             /\ r[k] = s[IF k < i THEN k ELSE k + 1]
             /\ (IF k < i THEN k ELSE k + 1) \in DOMAIN s \ {i}
    BY <2>2, <2>3, RemoveAtProps
  <2>5. Without(s, id) = r
    BY <1>2, <2>1, <2>3 DEF Without, In
  <2>6. \A o : In(r, o) => In(s, o)
    BY <2>4 DEF In
  <2>7. ASSUME Unique(s) PROVE Unique(r) /\ ~In(r, id)
    <3>1. ASSUME NEW j \in DOMAIN r, NEW k \in DOMAIN r, r[j].id = r[k].id
          PROVE  j = k
      <4>1. (IF j < i THEN j ELSE j + 1) = (IF k < i THEN k ELSE k + 1)
        BY <2>4, <2>7, <3>1 DEF Unique
      <4>2. j \in Int /\ k \in Int /\ i \in Int
        BY <2>2, <2>4
      <4> QED BY <4>1, <4>2
    <3>2. ASSUME NEW k \in DOMAIN r PROVE r[k].id # id
      BY <2>2, <2>4, <2>7 DEF Unique
    <3> QED BY <3>1, <3>2 DEF Unique, In
  <2>8. ASSUME Unique(s) PROVE Els(r) = {p \in Els(s) : p.id # id}
    <3>1. Els(r) \subseteq Els(s)
      BY <2>4 DEF Els
    <3>2. \A p \in Els(r) : p.id # id
      BY <2>7, <2>8 DEF In, Els
    <3>3. ASSUME NEW k \in DOMAIN s, s[k].id # id PROVE s[k] \in Els(r)
      <4>1. /\ DOMAIN s = 1..Len(s) /\ DOMAIN r = 1..(Len(s) - 1)
            /\ Len(s) \in Nat /\ k \in 1..Len(s) /\ i \in 1..Len(s) /\ k # i
        BY <2>2, <2>4, <3>3
      <4>2. CASE k < i
        <5>1. k \in DOMAIN r /\ r[k] = s[k]
          BY <2>4, <4>1, <4>2
        <5> QED BY <5>1 DEF Els
      <4>3. CASE k > i
        <5>1. k - 1 \in DOMAIN r /\ ~(k - 1 < i) /\ (k - 1) + 1 = k
          BY <4>1, <4>3
        <5>2. r[k - 1] = s[k]
          BY <2>4, <5>1
        <5> QED BY <5>1, <5>2 DEF Els
      <4> QED BY <4>1, <4>2, <4>3
    <3>4. \A p \in Els(s) : p.id # id => p \in Els(r)
      BY <3>3 DEF Els
    <3> QED BY <3>1, <3>2, <3>4
  <2> QED BY <2>4, <2>5, <2>6, <2>7, <2>8
<1> QED BY <1>1, <1>2

(* A policy is put in: at a place that there is, and the others stay.      *)
LEMMA InsertAtPlaces ==
  ASSUME NEW s \in Seq(Policy), NEW p \in Policy, NEW i \in 1..(Len(s) + 1)
  PROVE  LET r == InsertAt(s, i, p) IN
           /\ r \in Seq(Policy) /\ DOMAIN r = 1..(Len(s) + 1)
           /\ \A k \in DOMAIN r :
                /\ k \in Int
                /\ k = i => r[k] = p
                /\ k < i => r[k] = s[k] /\ k \in DOMAIN s
                /\ k > i => r[k] = s[k - 1] /\ k - 1 \in DOMAIN s
<1>1. /\ DOMAIN s = 1..Len(s) /\ Len(s) \in Nat /\ i \in Nat /\ i >= 1
      /\ i <= Len(s) + 1
  OBVIOUS
<1>2. PICK a : a = SubSeq(s, 1, i - 1)
  OBVIOUS
<1>3. PICK b : b = SubSeq(s, i, Len(s))
  OBVIOUS
<1>4. /\ a \in Seq(Policy) /\ Len(a) = i - 1
      /\ \A k \in 1..(i - 1) : a[k] = s[k]
  BY <1>1, <1>2
<1>5. /\ b \in Seq(Policy) /\ Len(b) = Len(s) + 1 - i
      /\ \A k \in 1..(Len(s) + 1 - i) : b[k] = s[k + (i - 1)]
  BY <1>1, <1>3
<1>6. PICK c : c = a \o <<p>>
  OBVIOUS
<1>7. /\ c \in Seq(Policy) /\ Len(c) = i /\ c[i] = p
      /\ \A k \in 1..(i - 1) : c[k] = s[k]
  BY <1>1, <1>4, <1>6
<1>8. PICK r : r = c \o b
  OBVIOUS
<1>9. /\ r \in Seq(Policy) /\ Len(r) = Len(s) + 1 /\ DOMAIN r = 1..(Len(s) + 1)
  <2>1. r \in Seq(Policy) /\ Len(r) = Len(c) + Len(b)
    BY <1>5, <1>7, <1>8
  <2>2. Len(r) = Len(s) + 1
    BY <1>1, <1>5, <1>7, <2>1
  <2>3. DOMAIN r = 1..Len(r)
    BY <2>1
  <2> QED BY <2>1, <2>2, <2>3
<1>10. \A k \in 1..i : r[k] = c[k]
  BY <1>1, <1>5, <1>7, <1>8
<1>11. ASSUME NEW k \in (i + 1)..(Len(s) + 1) PROVE r[k] = s[k - 1]
  <2>1. r[k] = b[k - i]
    BY <1>1, <1>5, <1>7, <1>8
  <2>2. k - i \in 1..(Len(s) + 1 - i) /\ (k - i) + (i - 1) = k - 1
    BY <1>1
  <2> QED BY <1>5, <2>1, <2>2
<1>12. ASSUME NEW k \in DOMAIN r
       PROVE  /\ k \in Int
              /\ k = i => r[k] = p
              /\ k < i => r[k] = s[k] /\ k \in DOMAIN s
              /\ k > i => r[k] = s[k - 1] /\ k - 1 \in DOMAIN s
  BY <1>1, <1>7, <1>9, <1>10, <1>11
<1>13. InsertAt(s, i, p) = r
  BY <1>2, <1>3, <1>6, <1>8 DEF InsertAt
<1> QED BY <1>9, <1>12, <1>13

LEMMA InsertAtProps ==
  ASSUME NEW s \in Seq(Policy), NEW p \in Policy, NEW i \in 1..(Len(s) + 1)
  PROVE  LET r == InsertAt(s, i, p) IN
           /\ r \in Seq(Policy)
           /\ Unique(s) /\ ~In(s, p.id) => Unique(r)
           /\ Els(r) = Els(s) \cup {p}
<1>1. /\ DOMAIN s = 1..Len(s) /\ Len(s) \in Nat /\ i \in Nat /\ i >= 1
      /\ i <= Len(s) + 1
  OBVIOUS
<1>2. PICK r : r = InsertAt(s, i, p)
  OBVIOUS
<1>3. r \in Seq(Policy) /\ DOMAIN r = 1..(Len(s) + 1)
  BY <1>2, InsertAtPlaces
<1>4. ASSUME NEW k \in DOMAIN r
       PROVE  /\ k \in Int
              /\ k = i => r[k] = p
              /\ k < i => r[k] = s[k] /\ k \in DOMAIN s
              /\ k > i => r[k] = s[k - 1] /\ k - 1 \in DOMAIN s
  BY <1>2, InsertAtPlaces
<1>5. ASSUME Unique(s), ~In(s, p.id) PROVE Unique(r)
  <2> SUFFICES ASSUME NEW j \in DOMAIN r, NEW k \in DOMAIN r,
                      r[j].id = r[k].id, j < k
               PROVE  FALSE
    <3>1. \A j \in DOMAIN r : j \in Int
      BY <1>4
    <3>2. \A j, k \in DOMAIN r : r[j].id = r[k].id => ~(j < k)
      OBVIOUS
    <3>3. \A j, k \in DOMAIN r : r[j].id = r[k].id => j = k
      BY <3>1, <3>2
    <3> QED BY <3>3 DEF Unique
  <2>1. j \in Int /\ k \in Int
    BY <1>4
  <2>2. CASE j = i
    BY <1>1, <1>4, <1>5, <2>1, <2>2 DEF In
  <2>3. CASE k = i
    BY <1>1, <1>4, <1>5, <2>1, <2>3 DEF In
  <2>4. CASE j < i /\ k < i
    BY <1>1, <1>4, <1>5, <2>1, <2>4 DEF Unique
  <2>5. CASE j < i /\ k > i
    BY <1>1, <1>4, <1>5, <2>1, <2>5 DEF Unique
  <2>6. CASE j > i /\ k > i
    BY <1>1, <1>4, <1>5, <2>1, <2>6 DEF Unique
  <2> QED BY <1>1, <2>1, <2>2, <2>3, <2>4, <2>5, <2>6
<1>6. Els(r) = Els(s) \cup {p}
  <2>1. Els(r) \subseteq Els(s) \cup {p}
    <3>1. ASSUME NEW k \in DOMAIN r PROVE r[k] \in Els(s) \cup {p}
      BY <1>1, <1>4 DEF Els
    <3> QED BY <3>1 DEF Els
  <2>2. p \in Els(r)
    <3>1. i \in DOMAIN r /\ r[i] = p
      BY <1>1, <1>3, <1>4
    <3> QED BY <3>1 DEF Els
  <2>3. ASSUME NEW k \in DOMAIN s PROVE s[k] \in Els(r)
    <3>0. k \in 1..Len(s)
      BY <1>1
    <3>1. CASE k < i
      <4>1. k \in DOMAIN r /\ r[k] = s[k]
        BY <1>1, <1>3, <1>4, <3>0, <3>1
      <4> QED BY <4>1 DEF Els
    <3>2. CASE k >= i
      <4>1. k + 1 \in DOMAIN r /\ k + 1 > i /\ (k + 1) - 1 = k
        BY <1>1, <1>3, <3>0, <3>2
      <4>2. r[k + 1] = s[k]
        BY <1>4, <4>1
      <4> QED BY <4>1, <4>2 DEF Els
    <3> QED BY <1>1, <3>0, <3>1, <3>2
  <2> QED BY <2>1, <2>2, <2>3 DEF Els
<1> QED BY <1>2, <1>3, <1>5, <1>6

(* The place of a policy, in the table and among the rules.                *)
LEMMA CoarserProps ==
  ASSUME dscp_policy_table \in Seq(Policy), NEW score \in Nat
  PROVE  /\ Coarser(score) \in Seq(Policy)
         /\ Len(Coarser(score)) + 1 \in 1..(Len(dscp_policy_table) + 1)
<1> DEFINE t == dscp_policy_table
           T == {k \in DOMAIN t : t[k].score > score}
<1>1. /\ DOMAIN t = 1..Len(t) /\ Len(t) \in Nat
      /\ \A k \in DOMAIN t : t[k].score \in Nat
  <2>1. DOMAIN t = 1..Len(t) /\ Len(t) \in Nat
    OBVIOUS
  <2>2. \A k \in DOMAIN t : t[k] \in Policy
    OBVIOUS
  <2> QED BY <2>1, <2>2 DEF Policy
<1>2. CASE T = {}
  <2>1. Coarser(score) = t
    BY <1>2 DEF Coarser
  <2> QED BY <1>1, <2>1
<1>3. CASE T # {}
  <2>1. T \in SUBSET Nat
    BY <1>1
  <2>2. PICK k \in T : \A j \in T : k <= j
    BY <1>3, <2>1, Least
  <2>3. \A j \in 1..(k - 1) : t[j].score <= score
    BY <1>1, <2>2
  <2>4. PICK n : n = CHOOSE i \in DOMAIN t :
                       /\ t[i].score > score
                       /\ \A j \in 1..(i - 1) : t[j].score <= score
    OBVIOUS
  <2>5. n \in DOMAIN t
    BY <2>2, <2>3, <2>4
  <2>6. Coarser(score) = SubSeq(t, 1, n - 1)
    BY <1>3, <2>4 DEF Coarser
  <2>7. n \in 1..Len(t)
    BY <1>1, <2>5
  <2>8. PICK c : c = SubSeq(t, 1, n - 1)
    OBVIOUS
  <2>9. c \in Seq(Policy) /\ Len(c) = n - 1
    BY <1>1, <2>7, <2>8
  <2> QED BY <1>1, <2>6, <2>7, <2>8, <2>9
<1> QED BY <1>2, <1>3

LEMMA RuleNumProps ==
  ASSUME dscp_policy_table \in Seq(Policy), NEW p \in Policy
  PROVE  RuleNum(p) \in Nat /\ RuleNum(p) >= 1
<1>1. PICK c : c = Coarser(p.score)
  OBVIOUS
<1>2. c \in Seq(Policy)
  BY <1>1, CoarserProps DEF Policy
<1>3. DOMAIN c = 1..Len(c) /\ Len(c) \in Nat
  BY <1>2
<1>4. IsFiniteSet(DOMAIN c)
  BY <1>3, FS_Interval
<1> DEFINE S == {k \in DOMAIN c : c[k].name = <<>> /\ c[k].ver = p.ver}
<1>5. IsFiniteSet(S)
  BY <1>4, FS_Subset
<1>6. Cardinality(S) \in Nat
  BY <1>5, FS_CardinalityType
<1>7. RuleNum(p) = Cardinality(S) + 1
  BY <1>1 DEF RuleNum
<1> HIDE DEF S
<1> QED BY <1>6, <1>7
-----------------------------------------------------------------------------
(* One thread.                                                             *)

LEMMA EventsTyped ==
  /\ \A op \in {"start", "clear", "end", "disconnected"} : Signal(op) \in Event
  /\ Item \subseteq Event
<1>1. AnyId \in Ids /\ AnyKind \in Kinds
  BY DscpAssumption DEF AnyId, AnyKind
<1> QED BY <1>1 DEF Signal, Item, Event

LEMMA SetThread ==
  ASSUME MonInv, NEW m \in Mons, NEW t \in Thread, GoodThread(t),
         mon' = [mon EXCEPT ![m] = t]
  PROVE  /\ MonInv' /\ mon'[m] = t
         /\ \A n \in Mons : n # m => mon'[n] = mon[n]
BY DEF MonInv

LEMMA GoesProps ==
  ASSUME MonInv, NEW m \in Mons, NEW pc \in Pcs,
         pc \in Busy => mon[m].pc \in Busy, Goes(m, pc)
  PROVE  /\ MonInv' /\ mon'[m].pc = pc
         /\ pc \notin {"wait", "ended"} => mon'[m].ev = mon[m].ev
         /\ mon'[m].list = mon[m].list /\ mon'[m].cancelled = mon[m].cancelled
         /\ \A n \in Mons : n # m => mon'[n] = mon[n]
<1>1. mon[m] \in Thread /\ GoodThread(mon[m])
  BY DEF MonInv
<1>2. Signal("end") \in Event
  BY EventsTyped
<1>3. PICK e : e = IF pc \in {"wait", "ended"} THEN Signal("end") ELSE mon[m].ev
  OBVIOUS
<1>4. PICK t : t = [mon[m] EXCEPT !.pc = pc, !.ev = e]
  OBVIOUS
<1>5. /\ t \in Thread /\ t.pc = pc /\ t.ev = e /\ t.list = mon[m].list
      /\ t.cancelled = mon[m].cancelled
  BY <1>1, <1>2, <1>3, <1>4 DEF Thread
<1>6. GoodThread(t)
  BY <1>1, <1>3, <1>5 DEF GoodThread, Busy
<1>7. mon' = [mon EXCEPT ![m] = t]
  BY <1>3, <1>4 DEF Goes, MonInv
<1> QED BY <1>3, <1>5, <1>6, <1>7, SetThread

LEMMA NotesProps ==
  ASSUME MonInv, NEW m \in Mons, mon[m].pc \in Busy,
         NEW op \in {"add", "remove", "none"}, NEW st \in {"success", "reject"},
         Notes(m, op, st)
  PROVE  /\ MonInv' /\ mon'[m].pc = "wait"
         /\ mon'[m].cancelled = mon[m].cancelled
         /\ mon'[m].list = Append(mon[m].list, [id |-> mon[m].ev.id, op |-> op,
                                                status |-> st])
         /\ \A n \in Mons : n # m => mon'[n] = mon[n]
<1>1. /\ mon[m] \in Thread /\ GoodThread(mon[m])
  BY DEF MonInv
<1>2. PICK e : e = Signal("end")
  OBVIOUS
<1>3. e \in Event
  BY <1>2, EventsTyped
<1>4. PICK x : x = [id |-> mon[m].ev.id, op |-> op, status |-> st]
  OBVIOUS
<1>5. x \in Status
  BY <1>1, <1>4 DEF Thread, Event, Status
<1>6. PICK l : l = Append(mon[m].list, x)
  OBVIOUS
<1>7. l \in Seq(Status) /\ Len(l) <= StatusListSize
  <2>1. mon[m].list \in Seq(Status) /\ Len(mon[m].list) < StatusListSize
    BY <1>1 DEF Thread, GoodThread
  <2>2. l \in Seq(Status) /\ Len(l) = Len(mon[m].list) + 1
    BY <1>5, <1>6, <2>1
  <2>3. Len(mon[m].list) \in Nat
    BY <2>1
  <2> QED BY <2>1, <2>2, <2>3, DscpAssumption
<1>8. PICK t : t = [mon[m] EXCEPT !.pc = "wait", !.ev = e, !.list = l]
  OBVIOUS
<1>9. /\ t \in Thread /\ t.pc = "wait" /\ t.list = l
      /\ t.cancelled = mon[m].cancelled
  BY <1>1, <1>3, <1>7, <1>8 DEF Thread, Pcs
<1>10. GoodThread(t)
  BY <1>7, <1>9 DEF GoodThread, Busy
<1>11. mon' = [mon EXCEPT ![m] = t]
  BY <1>2, <1>4, <1>6, <1>8 DEF Notes, MonInv
<1>12. /\ MonInv' /\ mon'[m] = t /\ \A n \in Mons : n # m => mon'[n] = mon[n]
  BY <1>9, <1>10, <1>11, SetThread
<1> QED BY <1>4, <1>6, <1>9, <1>12

(* What follows the removal, by what was asked for.                        *)
LEMMA ReplacedCases ==
  ASSUME NEW m, Replaced(m)
  PROVE  \/ Notes(m, "remove", "success")
         \/ Notes(m, "none", "reject")
         \/ Goes(m, "link") /\ mon[m].ev.kind.name # <<>>
         \/ Goes(m, "add") /\ ~(mon[m].ev.kind.name # <<>>)
<1>1. PICK e : e = mon[m].ev
  OBVIOUS
<1>2. IF e.op = "remove" THEN Notes(m, "remove", "success")
      ELSE IF ~e.good THEN Notes(m, "none", "reject")
      ELSE Goes(m, IF e.kind.name # <<>> THEN "link" ELSE "add")
  BY <1>1 DEF Replaced
<1> QED BY <1>1, <1>2, Zenon

LEMMA ReplacedProps ==
  ASSUME MonInv, NEW m \in Mons, mon[m].pc \in Busy, Replaced(m)
  PROVE  /\ MonInv' /\ mon'[m].pc \in {"wait", "add", "link"}
         /\ mon'[m].pc # "wait" => mon'[m].ev = mon[m].ev
         /\ \A n \in Mons : n # m => mon'[n] = mon[n]
<1>1. CASE Notes(m, "remove", "success") \/ Notes(m, "none", "reject")
  BY <1>1, NotesProps
<1>2. CASE Goes(m, "link") \/ Goes(m, "add")
  BY <1>2, GoesProps DEF Pcs, Busy
<1> QED BY <1>1, <1>2, ReplacedCases
-----------------------------------------------------------------------------
(* The invariant, by who makes the step.                                   *)

(* A step of the monitor: it is the only one, and has only its own policy  *)
(* to see to.                                                              *)
LEMMA MonStep ==
  ASSUME DInv, alone, NEW m \in Mons, Live(m), TypeInv',
         \A n \in Mons : n # m => mon'[n] = mon[n],
         Unique(dscp_policy_table'), Cleared(m)'
  PROVE  DInv'
<1>1. \A n \in Mons : Live(n)' => n = m
  BY DEF DInv, One, Live
<1>2. One'
  BY <1>1 DEF One
<1>3. ASSUME NEW n \in Mons, n # m PROVE Cleared(n)'
  BY <1>1, <1>3 DEF Cleared, Live
<1> QED BY <1>2, <1>3 DEF DInv

(* A step of the server thread that only takes away.                       *)
LEMMA ServerStep ==
  ASSUME DInv, alone, TypeInv',
         \A n \in Mons : mon'[n].pc = mon[n].pc /\ mon'[n].ev = mon[n].ev,
         Unique(dscp_policy_table'),
         \A id : In(dscp_policy_table', id) => In(dscp_policy_table, id)
  PROVE  DInv'
<1>1. One'
  BY DEF DInv, One, Live
<1>2. ASSUME NEW n \in Mons PROVE Cleared(n)'
  BY DEF DInv, Cleared, Has, In
<1> QED BY <1>1, <1>2 DEF DInv
-----------------------------------------------------------------------------
(* The steps.                                                              *)

(* What a removal does to the table, and a command to the rules.           *)
LEMMA TableWithout ==
  ASSUME TypeInv, Unique(dscp_policy_table), NEW id,
         dscp_policy_table' = Without(dscp_policy_table, id)
  PROVE  /\ dscp_policy_table' \in Seq(Policy) /\ Unique(dscp_policy_table')
         /\ ~In(dscp_policy_table', id)
         /\ \A o : In(dscp_policy_table', o) => In(dscp_policy_table, o)
<1>1. PICK r : r = Without(dscp_policy_table, id)
  OBVIOUS
<1>2. dscp_policy_table \in Seq(Policy)
  BY DEF TypeInv
<1>3. /\ r \in Seq(Policy) /\ Unique(r) /\ ~In(r, id)
      /\ \A o : In(r, o) => In(dscp_policy_table, o)
  BY <1>1, <1>2, WithoutProps
<1>4. dscp_policy_table' = r
  BY <1>1
<1> QED BY <1>3, <1>4

LEMMA TableEmpty ==
  ASSUME dscp_policy_table' = <<>>
  PROVE  /\ dscp_policy_table' \in Seq(Policy) /\ Unique(dscp_policy_table')
         /\ \A o : ~In(dscp_policy_table', o)
BY DEF Unique, In

LEMMA RulesWithout ==
  ASSUME TypeInv, NEW id, NEW v,
         rules' = [rules EXCEPT ![v] = Without(@, id)]
  PROVE  rules' \in [Versions -> Seq(Policy)]
<1>1. rules \in [Versions -> Seq(Policy)]
  BY DEF TypeInv
<1>2. \A s \in Seq(Policy) : Without(s, id) \in Seq(Policy)
  BY WithoutProps
<1>3. PICK r : r = Without(rules[v], id)
  OBVIOUS
<1>4. rules' = [rules EXCEPT ![v] = r]
  BY <1>1, <1>3
<1>5. v \in Versions => r \in Seq(Policy)
  BY <1>1, <1>2, <1>3
<1> QED BY <1>1, <1>4, <1>5

(* The access point reports to the monitors.                               *)
LEMMA ReportStep ==
  ASSUME DInv, alone, NEW e \in Event, Report(e),
         UNCHANGED <<dscp_policy_table, rules, mon, dscp_policy_mon_thread,
                     reject_dscp_policies, server, alone>>
  PROVE  DInv'
<1>1. queue \in [Mons -> Seq(Event)]
  BY DEF DInv, TypeInv
<1>2. \A m \in Mons : Append(queue[m], e) \in Seq(Event)
  BY <1>1
<1>3. queue' = [m \in Mons |-> IF Attached(m) THEN Append(queue[m], e)
                                              ELSE queue[m]]
  BY DEF Report
<1>4. \A m \in Mons : queue'[m] \in Seq(Event)
  BY <1>1, <1>2, <1>3
<1>5. queue' \in [Mons -> Seq(Event)]
  BY <1>3, <1>4
<1>6. TypeInv'
  BY <1>5 DEF DInv, TypeInv, MonInv
<1> QED BY <1>6, ServerStep DEF DInv

LEMMA ApStep ==
  ASSUME DInv, alone,
         \/ \E op \in {"start", "clear"} : ApRequest(op)
         \/ \E e \in Item : ApItem(e)
         \/ ApEnd \/ ApLeaves
  PROVE  DInv'
<1>1. ASSUME NEW op \in {"start", "clear"}, ApRequest(op) PROVE DInv'
  <2>1. Signal(op) \in Event
    BY EventsTyped
  <2> QED BY <1>1, <2>1, ReportStep DEF ApRequest
<1>2. ASSUME NEW e \in Item, ApItem(e) PROVE DInv'
  <2>1. e \in Event
    BY EventsTyped
  <2> QED BY <1>2, <2>1, ReportStep DEF ApItem
<1>3. CASE ApEnd
  <2>1. Signal("end") \in Event
    BY EventsTyped
  <2> QED BY <1>3, <2>1, ReportStep DEF ApEnd
<1>4. CASE ApLeaves
  <2>1. Signal("disconnected") \in Event
    BY EventsTyped
  <2> QED BY <1>4, <2>1, ReportStep DEF ApLeaves
<1> QED BY <1>1, <1>2, <1>3, <1>4

(* An event that a monitor takes from its queue.                           *)
LEMMA TakenProps ==
  ASSUME MonInv, NEW m \in Mons, mon[m].pc = "wait", NEW e \in Event,
         Taken(m, e)
  PROVE  /\ MonInv' /\ mon'[m].pc \in {"wait", "clear", "answer", "remove"}
         /\ mon'[m].cancelled = mon[m].cancelled
         /\ mon'[m].pc = "clear" =>
              mon'[m].ev.op = "disconnected" \/ mon'[m].list = <<>>
         /\ \/ mon'[m].list \in {<<>>, mon[m].list}
            \/ mon'[m].list = Append(mon[m].list, Refused(e.id))
         /\ \A n \in Mons : n # m => mon'[n] = mon[n]
<1>1. mon[m] \in Thread /\ GoodThread(mon[m])
  BY DEF MonInv
<1>2. PICK x : x = Refused(e.id)
  OBVIOUS
<1>3. x \in Status
  BY <1>2 DEF Event, Status, Refused
<1>4. PICK l : l = Append(mon[m].list, x)
  OBVIOUS
<1>5. /\ l \in Seq(Status)
      /\ Len(mon[m].list) < StatusListSize => Len(l) <= StatusListSize
  <2>1. mon[m].list \in Seq(Status)
    BY <1>1 DEF Thread
  <2>2. l \in Seq(Status) /\ Len(l) = Len(mon[m].list) + 1
    BY <1>3, <1>4, <2>1
  <2>3. Len(mon[m].list) \in Nat
    BY <2>1
  <2> QED BY <2>2, <2>3, DscpAssumption
<1>6. <<>> \in Seq(Status) /\ Len(<<>>) = 0
  OBVIOUS
<1>7. ~(Len(mon[m].list) >= StatusListSize) => Len(mon[m].list) < StatusListSize
  BY <1>1, DscpAssumption DEF Thread
<1>8. PICK t :
        /\ mon' = [mon EXCEPT ![m] = t]
        /\ t = IF e.op \in {"start", "clear"}
                 THEN [mon[m] EXCEPT
                         !.list = StatusAtStart(@),
                         !.pc = IF e.op = "clear" THEN "clear" ELSE "wait"]
               ELSE IF e.op = "end" THEN [mon[m] EXCEPT !.pc = "answer"]
               ELSE IF e.op = "disconnected"
                 THEN [mon[m] EXCEPT !.ev = e, !.pc = "clear"]
               ELSE IF Len(mon[m].list) >= StatusListSize THEN mon[m]
               ELSE IF reject_dscp_policies \/ e.op = "reject"
                 THEN [mon[m] EXCEPT !.list = l]
               ELSE [mon[m] EXCEPT !.ev = e, !.pc = "remove"]
  BY <1>2, <1>4, Zenon DEF Taken
<1>9. /\ t \in Thread /\ GoodThread(t)
      /\ t.pc \in {"wait", "clear", "answer", "remove"}
      /\ t.cancelled = mon[m].cancelled
      /\ t.pc = "clear" => t.ev.op = "disconnected" \/ t.list = <<>>
      /\ t.list \in {<<>>, mon[m].list, l}
  <2>1. CASE e.op \in {"start", "clear"}
    <3>1. /\ t \in Thread /\ t.list = <<>>
          /\ t.pc = IF e.op = "clear" THEN "clear" ELSE "wait"
          /\ t.cancelled = mon[m].cancelled
      BY <1>1, <1>6, <1>8, <2>1 DEF Thread, Pcs, StatusAtStart
    <3> QED BY <1>6, <3>1, DscpAssumption DEF GoodThread, Busy
  <2>2. CASE e.op = "end"
    <3>1. /\ t \in Thread /\ t.pc = "answer" /\ t.list = mon[m].list
          /\ t.cancelled = mon[m].cancelled
      BY <1>1, <1>8, <2>2 DEF Thread, Pcs
    <3> QED BY <1>1, <3>1 DEF GoodThread, Busy
  <2>3. CASE e.op = "disconnected"
    <3>1. /\ t \in Thread /\ t.pc = "clear" /\ t.list = mon[m].list
          /\ t.cancelled = mon[m].cancelled /\ t.ev = e
      BY <1>1, <1>8, <2>3 DEF Thread, Pcs
    <3> QED BY <1>1, <2>3, <3>1 DEF GoodThread, Busy
  <2>4. CASE e.op \in {"add", "remove", "reject"}
    <3>1. CASE Len(mon[m].list) >= StatusListSize
      BY <1>1, <1>8, <2>4, <3>1
    <3>2. CASE /\ ~(Len(mon[m].list) >= StatusListSize)
               /\ reject_dscp_policies \/ e.op = "reject"
      <4>1. t = [mon[m] EXCEPT !.list = l]
        BY <1>8, <2>4, <3>2
      <4>2. /\ t \in Thread /\ t.pc = "wait" /\ t.list = l
            /\ t.cancelled = mon[m].cancelled
        BY <1>1, <1>5, <4>1 DEF Thread, Pcs
      <4> QED BY <1>5, <1>7, <3>2, <4>2 DEF GoodThread, Busy
    <3>3. CASE /\ ~(Len(mon[m].list) >= StatusListSize)
               /\ ~(reject_dscp_policies \/ e.op = "reject")
      <4>1. t = [mon[m] EXCEPT !.ev = e, !.pc = "remove"]
        BY <1>8, <2>4, <3>3
      <4>2. /\ t \in Thread /\ t.pc = "remove" /\ t.ev = e
            /\ t.list = mon[m].list /\ t.cancelled = mon[m].cancelled
        BY <1>1, <4>1 DEF Thread, Pcs, Busy
      <4> QED BY <1>1, <1>7, <2>4, <3>3, <4>2 DEF GoodThread, Busy
    <3> QED BY <3>1, <3>2, <3>3
  <2> QED BY <2>1, <2>2, <2>3, <2>4 DEF Event
<1>10. /\ MonInv' /\ mon'[m] = t /\ \A n \in Mons : n # m => mon'[n] = mon[n]
  BY <1>8, <1>9, SetThread
<1> QED BY <1>2, <1>4, <1>9, <1>10

(* A step of the monitor that leaves the table alone, or empties it.       *)
LEMMA MonMoves ==
  ASSUME DInv, alone, NEW m \in Mons, Live(m), MonInv',
         mon'[m].pc \notin {"add", "link"},
         \A n \in Mons : n # m => mon'[n] = mon[n],
         dscp_policy_table' \in {dscp_policy_table, <<>>},
         rules' \in [Versions -> Seq(Policy)],
         queue' \in [Mons -> Seq(Event)], alone' \in BOOLEAN,
         UNCHANGED <<dscp_policy_mon_thread, reject_dscp_policies>>
  PROVE  DInv'
<1>1. /\ dscp_policy_table' \in Seq(Policy) /\ Unique(dscp_policy_table')
  BY TableEmpty DEF DInv, TypeInv
<1>2. TypeInv'
  BY <1>1 DEF DInv, TypeInv
<1>3. Cleared(m)'
  BY DEF Cleared
<1> QED BY <1>1, <1>2, <1>3, MonStep

LEMMA TakeStep ==
  ASSUME DInv, alone, NEW m \in Mons, MonTake(m)
  PROVE  DInv'
<1>1. /\ MonInv /\ mon[m].pc = "wait" /\ queue \in [Mons -> Seq(Event)]
      /\ rules \in [Versions -> Seq(Policy)] /\ alone \in BOOLEAN
      /\ queue[m] # <<>> /\ Taken(m, Head(queue[m]))
  BY DEF MonTake, DInv, TypeInv
<1>2. PICK e : e = Head(queue[m])
  OBVIOUS
<1>3. PICK q : q = Tail(queue[m])
  OBVIOUS
<1>4. e \in Event /\ q \in Seq(Event)
  BY <1>1, <1>2, <1>3
<1>5. queue' = [queue EXCEPT ![m] = q]
  BY <1>1, <1>3 DEF MonTake
<1>6. queue' \in [Mons -> Seq(Event)]
  BY <1>1, <1>4, <1>5
<1>7. /\ MonInv' /\ mon'[m].pc \notin {"add", "link"}
      /\ \A n \in Mons : n # m => mon'[n] = mon[n]
  BY <1>1, <1>2, <1>4, TakenProps
<1>8. Live(m)
  BY <1>1 DEF Live
<1>9. UNCHANGED <<dscp_policy_table, rules, dscp_policy_mon_thread,
                  reject_dscp_policies, alone>>
  BY DEF MonTake
<1> QED BY <1>1, <1>6, <1>7, <1>8, <1>9, MonMoves

(* Opening, clearing, answering, and the two ways to end.                  *)
LEMMA QuietMonStep ==
  ASSUME DInv, alone, NEW m \in Mons,
         \/ MonOpen(m) \/ MonClear(m) \/ MonFlush(m) \/ MonFree(m)
         \/ MonAnswer(m) \/ MonCancelled(m)
  PROVE  DInv'
<1>1. /\ MonInv /\ queue \in [Mons -> Seq(Event)]
      /\ rules \in [Versions -> Seq(Policy)] /\ alone \in BOOLEAN
  BY DEF DInv, TypeInv
<1>2. Live(m)
  BY DEF Live, MonOpen, MonClear, MonFlush, MonFree, MonAnswer, MonCancelled
<1>3. PICK pc \in {"wait", "ended", "flush", "free"} : Goes(m, pc)
  <2>1. CASE MonFlush(m)
    <3>1. Goes(m, "free") \/ Goes(m, "wait")
      <4>1. Goes(m, IF mon[m].ev.op = "disconnected" THEN "free" ELSE "wait")
        BY <2>1 DEF MonFlush
      <4> QED BY <4>1, Zenon
    <3> QED BY <3>1
  <2>2. CASE ~MonFlush(m)
    BY <2>2 DEF MonOpen, MonClear, MonFree, MonAnswer, MonCancelled
  <2> QED BY <2>1, <2>2
<1>4. /\ MonInv' /\ mon'[m].pc = pc
      /\ \A n \in Mons : n # m => mon'[n] = mon[n]
  BY <1>1, <1>3, GoesProps DEF Pcs, Busy
<1>5. dscp_policy_table' \in {dscp_policy_table, <<>>}
  BY DEF MonOpen, MonClear, MonFlush, MonFree, MonAnswer, MonCancelled
<1>6. rules' \in [Versions -> Seq(Policy)]
  <2>1. CASE MonFlush(m)
    <3>1. rules' = [v \in Versions |-> <<>>] \/ rules' = rules
      BY <2>1 DEF MonFlush, Flush
    <3>2. <<>> \in Seq(Policy)
      OBVIOUS
    <3> QED BY <1>1, <3>1, <3>2, Zenon
  <2>2. CASE ~MonFlush(m)
    BY <1>1, <2>2 DEF MonOpen, MonClear, MonFree, MonAnswer, MonCancelled
  <2> QED BY <2>1, <2>2
<1>7. queue' \in [Mons -> Seq(Event)]
  <2>1. queue' = queue \/ queue' = [queue EXCEPT ![m] = <<>>]
    BY DEF MonOpen, MonClear, MonFlush, MonFree, MonAnswer, MonCancelled
  <2>2. PICK q : q = <<>>
    OBVIOUS
  <2>3. q \in Seq(Event)
    BY <2>2
  <2>4. queue' = queue \/ queue' = [queue EXCEPT ![m] = q]
    BY <2>1, <2>2
  <2> QED BY <1>1, <2>3, <2>4
<1>8. alone' \in BOOLEAN
  BY <1>1 DEF MonOpen, MonClear, MonFlush, MonFree, MonAnswer, MonCancelled,
              Flush, Meets
<1>9. UNCHANGED <<dscp_policy_mon_thread, reject_dscp_policies>>
  BY DEF MonOpen, MonClear, MonFlush, MonFree, MonAnswer, MonCancelled
<1> QED BY <1>2, <1>4, <1>5, <1>6, <1>7, <1>8, <1>9, MonMoves

(* The policy with the identifier is gone from the table when what         *)
(* replaces it is looked at.                                               *)
LEMMA ReplacedStep ==
  ASSUME DInv, alone, NEW m \in Mons, mon[m].pc \in Busy, Replaced(m),
         dscp_policy_table' \in Seq(Policy), Unique(dscp_policy_table'),
         ~In(dscp_policy_table', mon[m].ev.id), alone' \in BOOLEAN,
         UNCHANGED <<rules, queue, dscp_policy_mon_thread,
                     reject_dscp_policies>>
  PROVE  DInv'
<1>1. MonInv /\ Live(m)
  BY DEF DInv, TypeInv, Live, Busy
<1>2. /\ MonInv' /\ mon'[m].pc \in {"wait", "add", "link"}
      /\ mon'[m].pc # "wait" => mon'[m].ev = mon[m].ev
      /\ \A n \in Mons : n # m => mon'[n] = mon[n]
  BY <1>1, ReplacedProps
<1>3. TypeInv'
  BY <1>2 DEF DInv, TypeInv
<1>4. Cleared(m)'
  BY <1>2 DEF Cleared, Has, In
<1> QED BY <1>1, <1>2, <1>3, <1>4, MonStep

(* remove_dscp_policy(), in its two steps.                                 *)
LEMMA RemoveStep ==
  ASSUME DInv, alone, NEW m \in Mons, MonRemove(m) \/ MonUnlink(m)
  PROVE  DInv'
<1>1. PICK id : id = mon[m].ev.id
  OBVIOUS
<1>2. /\ TypeInv /\ MonInv /\ Unique(dscp_policy_table)
      /\ dscp_policy_table \in Seq(Policy) /\ queue \in [Mons -> Seq(Event)]
      /\ rules \in [Versions -> Seq(Policy)] /\ alone \in BOOLEAN
      /\ mon[m].pc \in Busy /\ Live(m)
  BY DEF MonRemove, MonUnlink, DInv, TypeInv, Busy, Live
<1>3. /\ UNCHANGED <<queue, dscp_policy_mon_thread, reject_dscp_policies>>
      /\ alone' \in BOOLEAN
  BY <1>2 DEF MonRemove, MonUnlink, Meets
<1>4. CASE /\ Replaced(m) /\ UNCHANGED rules
           /\ \/ dscp_policy_table' = Without(dscp_policy_table, id)
              \/ dscp_policy_table' = dscp_policy_table /\ ~Has(id)
  <2>1. /\ dscp_policy_table' \in Seq(Policy) /\ Unique(dscp_policy_table')
        /\ ~In(dscp_policy_table', id)
    <3>1. CASE dscp_policy_table' = Without(dscp_policy_table, id)
      BY <1>2, <3>1, TableWithout
    <3>2. CASE dscp_policy_table' = dscp_policy_table /\ ~Has(id)
      BY <1>2, <3>2 DEF Has, In
    <3> QED BY <1>4, <3>1, <3>2
  <2> QED BY <1>1, <1>2, <1>3, <1>4, <2>1, ReplacedStep
<1>5. CASE /\ Goes(m, "unlink") \/ Notes(m, "none", "reject")
           /\ UNCHANGED dscp_policy_table
           /\ \/ UNCHANGED rules
              \/ rules' = [rules EXCEPT ![Entry(id).ver] = Without(@, id)]
  <2>1. /\ MonInv' /\ mon'[m].pc \notin {"add", "link"}
        /\ \A n \in Mons : n # m => mon'[n] = mon[n]
    <3>1. CASE Goes(m, "unlink")
      BY <1>2, <3>1, GoesProps DEF Pcs, Busy
    <3>2. CASE Notes(m, "none", "reject")
      BY <1>2, <3>2, NotesProps
    <3> QED BY <1>5, <3>1, <3>2
  <2>2. rules' \in [Versions -> Seq(Policy)]
    BY <1>2, <1>5, RulesWithout
  <2> QED BY <1>2, <1>3, <1>5, <2>1, <2>2, MonMoves
<1>6. CASE MonRemove(m)
  <2>1. \/ /\ ~Has(id) /\ Replaced(m) /\ UNCHANGED <<dscp_policy_table, rules>>
        \/ /\ dscp_policy_table' = Without(dscp_policy_table, id)
           /\ Replaced(m) /\ UNCHANGED rules
        \/ /\ rules' = [rules EXCEPT ![Entry(id).ver] = Without(@, id)]
           /\ Goes(m, "unlink") /\ UNCHANGED dscp_policy_table
        \/ /\ Notes(m, "none", "reject")
           /\ UNCHANGED <<dscp_policy_table, rules>>
    BY <1>1, <1>6, Zenon DEF MonRemove
  <2> QED BY <1>4, <1>5, <2>1
<1>7. CASE MonUnlink(m)
  BY <1>1, <1>4, <1>7 DEF MonUnlink
<1> QED BY <1>6, <1>7

(* add_dscp_policy(): the rule, then the table.                            *)
LEMMA NewPolicyTyped ==
  ASSUME MonInv, NEW m \in Mons
  PROVE  NewPolicy(mon[m].ev) \in Policy /\ NewPolicy(mon[m].ev).id = mon[m].ev.id
<1>1. mon[m].ev \in Event
  BY DEF MonInv, Thread
<1>2. PICK e : e = mon[m].ev
  OBVIOUS
<1>3. e.id \in Ids /\ e.kind \in [score : Nat, ver : Versions, name : Seq(Nat),
             asks : [Conditions -> SUBSET Nat]]
  BY <1>1, <1>2, DscpAssumption DEF Event
<1> QED BY <1>2, <1>3 DEF NewPolicy, Policy

LEMMA AddStep ==
  ASSUME DInv, alone, NEW m \in Mons, MonAdd(m)
  PROVE  DInv'
<1>1. PICK p : p = NewPolicy(mon[m].ev)
  OBVIOUS
<1>2. /\ TypeInv /\ MonInv /\ Unique(dscp_policy_table)
      /\ dscp_policy_table \in Seq(Policy) /\ queue \in [Mons -> Seq(Event)]
      /\ rules \in [Versions -> Seq(Policy)] /\ alone \in BOOLEAN
      /\ mon[m].pc = "add" /\ mon[m].pc \in Busy /\ Live(m)
  BY DEF MonAdd, DInv, TypeInv, Busy, Live
<1>3. /\ UNCHANGED <<dscp_policy_table, queue, dscp_policy_mon_thread,
                     reject_dscp_policies>>
      /\ alone' \in BOOLEAN
  BY <1>2 DEF MonAdd, Meets
<1>4. p \in Policy /\ p.ver \in Versions
  BY <1>1, <1>2, NewPolicyTyped DEF Policy
<1>5. CASE /\ RuleNum(p) <= Len(rules[p.ver]) + 1
           /\ rules' = [rules EXCEPT ![p.ver] = InsertAt(@, RuleNum(p), p)]
           /\ Goes(m, "link")
  <2>1. PICK n : n = RuleNum(p)
    OBVIOUS
  <2>2. rules[p.ver] \in Seq(Policy) /\ Len(rules[p.ver]) \in Nat
    BY <1>2, <1>4
  <2>3. n \in 1..(Len(rules[p.ver]) + 1)
    BY <1>2, <1>4, <1>5, <2>1, <2>2, RuleNumProps
  <2>4. PICK r : r = InsertAt(rules[p.ver], n, p)
    OBVIOUS
  <2>5. r \in Seq(Policy)
    BY <1>4, <2>2, <2>3, <2>4, InsertAtProps
  <2>6. rules' = [rules EXCEPT ![p.ver] = r]
    BY <1>2, <1>5, <2>1, <2>4
  <2>7. rules' \in [Versions -> Seq(Policy)]
    BY <1>2, <2>5, <2>6
  <2>8. /\ MonInv' /\ mon'[m].pc = "link" /\ mon'[m].ev = mon[m].ev
        /\ \A n_1 \in Mons : n_1 # m => mon'[n_1] = mon[n_1]
    BY <1>2, <1>5, GoesProps DEF Pcs, Busy
  <2>9. TypeInv'
    BY <1>2, <1>3, <2>7, <2>8 DEF TypeInv
  <2>10. Cleared(m)'
    BY <1>2, <1>3, <2>8 DEF DInv, Cleared, Has
  <2> QED BY <1>2, <1>3, <2>8, <2>9, <2>10, MonStep
<1>6. CASE Notes(m, "none", "reject") /\ UNCHANGED rules
  <2>1. /\ MonInv' /\ mon'[m].pc = "wait"
        /\ \A n \in Mons : n # m => mon'[n] = mon[n]
    BY <1>2, <1>6, NotesProps
  <2> QED BY <1>2, <1>3, <1>6, <2>1, MonMoves
<1> QED BY <1>1, <1>5, <1>6 DEF MonAdd

LEMMA LinkStep ==
  ASSUME DInv, alone, NEW m \in Mons, MonLink(m)
  PROVE  DInv'
<1>1. PICK p : p = NewPolicy(mon[m].ev)
  OBVIOUS
<1>2. /\ TypeInv /\ MonInv /\ Unique(dscp_policy_table)
      /\ dscp_policy_table \in Seq(Policy) /\ queue \in [Mons -> Seq(Event)]
      /\ rules \in [Versions -> Seq(Policy)] /\ alone \in BOOLEAN
      /\ mon[m].pc = "link" /\ mon[m].pc \in Busy /\ Live(m)
  BY DEF MonLink, DInv, TypeInv, Busy, Live
<1>3. /\ UNCHANGED <<rules, queue, dscp_policy_mon_thread,
                     reject_dscp_policies>>
      /\ alone' \in BOOLEAN
  BY <1>2 DEF MonLink, Meets
<1>4. p \in Policy /\ p.score \in Nat /\ p.id = mon[m].ev.id
  BY <1>1, <1>2, NewPolicyTyped DEF Policy
<1>5. PICK i : i = Len(Coarser(p.score)) + 1
  OBVIOUS
<1>6. i \in 1..(Len(dscp_policy_table) + 1)
  BY <1>2, <1>4, <1>5, CoarserProps
<1>7. ~In(dscp_policy_table, p.id)
  BY <1>2, <1>4 DEF DInv, Cleared, Has, In
<1>8. PICK r : r = InsertAt(dscp_policy_table, i, p)
  OBVIOUS
<1>9. r \in Seq(Policy) /\ Unique(r)
  BY <1>2, <1>4, <1>6, <1>7, <1>8, InsertAtProps
<1>10. dscp_policy_table' = r /\ Notes(m, "add", "success")
  BY <1>1, <1>5, <1>8 DEF MonLink
<1>11. /\ MonInv' /\ mon'[m].pc = "wait"
       /\ \A n \in Mons : n # m => mon'[n] = mon[n]
  BY <1>2, <1>10, NotesProps
<1>12. TypeInv'
  BY <1>2, <1>3, <1>9, <1>10, <1>11 DEF TypeInv
<1>13. Cleared(m)'
  BY <1>11 DEF Cleared
<1> QED BY <1>2, <1>9, <1>10, <1>11, <1>12, <1>13, MonStep

(* The server thread starts a monitor.                                     *)
LEMMA AssociateStep ==
  ASSUME DInv, alone, NEW m \in Mons, Associate(m)
  PROVE  DInv'
<1>1. /\ TypeInv /\ MonInv /\ Unique(dscp_policy_table)
  BY DEF DInv, TypeInv
<1>2. /\ MonInv' /\ mon'[m].pc = "open"
      /\ \A n \in Mons : n # m => mon'[n] = mon[n]
  BY <1>1, GoesProps DEF Associate, Pcs, Busy
<1>3. /\ UNCHANGED <<dscp_policy_table, rules, queue, reject_dscp_policies>>
      /\ dscp_policy_mon_thread' = m
      /\ alone' \in BOOLEAN
      /\ alone' => \A n \in Mons : ~Live(n)
  BY DEF Associate
<1>4. TypeInv'
  BY <1>1, <1>2, <1>3 DEF TypeInv
<1>5. alone' => One'
  BY <1>2, <1>3 DEF One, Live
<1>6. ASSUME NEW n \in Mons PROVE Cleared(n)'
  <2>1. CASE n = m
    BY <1>2, <2>1 DEF Cleared
  <2>2. CASE n # m
    BY <1>2, <1>3, <2>2 DEF DInv, Cleared, Has
  <2> QED BY <2>1, <2>2
<1> QED BY <1>1, <1>3, <1>4, <1>5, <1>6 DEF DInv

LEMMA ResetStep ==
  ASSUME DInv, alone,
         \/ ResetStop \/ ResetClear \/ ResetFlush
         \/ \E b \in BOOLEAN : SetReject(b)
  PROVE  DInv'
<1>1. /\ TypeInv /\ MonInv /\ Unique(dscp_policy_table)
      /\ rules \in [Versions -> Seq(Policy)] /\ mon \in [Mons -> Thread]
  BY DEF DInv, TypeInv, MonInv
<1>2. CASE ResetStop
  <2>1. ASSUME NEW n \in Mons
        PROVE  /\ mon'[n] \in Thread /\ GoodThread(mon'[n])
               /\ mon'[n].pc = mon[n].pc /\ mon'[n].ev = mon[n].ev
    <3>1. mon[n] \in Thread /\ GoodThread(mon[n])
      BY <1>1 DEF MonInv
    <3>2. PICK t : t = [mon[n] EXCEPT !.cancelled = TRUE]
      OBVIOUS
    <3>3. /\ t \in Thread /\ t.pc = mon[n].pc /\ t.ev = mon[n].ev
          /\ t.list = mon[n].list
      BY <3>1, <3>2 DEF Thread
    <3>4. GoodThread(t)
      BY <3>1, <3>3 DEF GoodThread
    <3>5. mon'[n] = t \/ mon'[n] = mon[n]
      BY <1>2, <3>2 DEF ResetStop
    <3> QED BY <3>1, <3>3, <3>4, <3>5
  <2>2. mon' = [n \in Mons |-> mon'[n]]
    BY <1>2, Zenon DEF ResetStop
  <2>3. mon' \in [Mons -> Thread]
    BY <2>1, <2>2
  <2>4. MonInv'
    BY <2>1, <2>3 DEF MonInv
  <2>5. TypeInv'
    BY <1>1, <1>2, <2>4 DEF ResetStop, TypeInv
  <2> QED BY <1>1, <1>2, <2>1, <2>5, ServerStep DEF ResetStop
<1>3. CASE ~ResetStop
  <2>1. mon' = mon /\ MonInv'
    BY <1>1, <1>3 DEF ResetClear, ResetFlush, SetReject, MonInv
  <2>2. dscp_policy_table' \in {dscp_policy_table, <<>>}
    BY <1>3 DEF ResetClear, ResetFlush, SetReject
  <2>3. /\ dscp_policy_table' \in Seq(Policy) /\ Unique(dscp_policy_table')
        /\ \A id : In(dscp_policy_table', id) => In(dscp_policy_table, id)
    BY <1>1, <2>2, TableEmpty DEF TypeInv
  <2>4. rules' \in [Versions -> Seq(Policy)]
    <3>1. rules' = rules \/ rules' = [v \in Versions |-> <<>>]
      BY <1>3 DEF ResetClear, ResetFlush, SetReject
    <3>2. <<>> \in Seq(Policy)
      OBVIOUS
    <3> QED BY <1>1, <3>1, <3>2, Zenon
  <2>5. /\ queue' = queue /\ dscp_policy_mon_thread' = dscp_policy_mon_thread
        /\ reject_dscp_policies' \in BOOLEAN /\ alone' \in BOOLEAN
    BY <1>1, <1>3 DEF ResetClear, ResetFlush, SetReject, Touches, TypeInv
  <2>6. TypeInv'
    BY <1>1, <2>1, <2>3, <2>4, <2>5 DEF TypeInv
  <2> QED BY <2>1, <2>3, <2>6, ServerStep
<1> QED BY <1>2, <1>3

(* What the server thread has removed is no longer the monitor's.          *)
LEMMA DisownProps ==
  ASSUME MonInv, NEW id, Disown(id)
  PROVE  /\ MonInv'
         /\ \A n \in Mons : mon'[n].pc = mon[n].pc /\ mon'[n].ev = mon[n].ev
<1>1. ASSUME NEW n \in Mons
      PROVE  /\ mon'[n] \in Thread /\ GoodThread(mon'[n])
             /\ mon'[n].pc = mon[n].pc /\ mon'[n].ev = mon[n].ev
  <2>1. mon[n] \in Thread /\ GoodThread(mon[n])
    BY DEF MonInv
  <2>2. PICK l : l = mon[n].list
    OBVIOUS
  <2>3. l \in Seq(Status) /\ DOMAIN l = 1..Len(l) /\ Len(l) \in Nat
    <3>1. l \in Seq(Status)
      BY <2>1, <2>2 DEF Thread
    <3> QED BY <3>1
  <2>4. PICK r : r = [k \in DOMAIN l |->
                        IF l[k].id = id THEN [l[k] EXCEPT !.op = "none"]
                                        ELSE l[k]]
    OBVIOUS
  <2>5. ASSUME NEW k \in 1..Len(l) PROVE r[k] \in Status
    <3>1. l[k] \in Status
      BY <2>3
    <3>2. [l[k] EXCEPT !.op = "none"] \in Status
      BY <3>1 DEF Status
    <3> QED BY <2>3, <2>4, <3>1, <3>2
  <2>6. r \in [1..Len(l) -> Status]
    BY <2>3, <2>4, <2>5
  <2>7. r \in Seq(Status) /\ Len(r) = Len(l)
    BY <2>3, <2>6
  <2>8. PICK t : t = [mon[n] EXCEPT !.list = r]
    OBVIOUS
  <2>9. /\ t \in Thread /\ t.pc = mon[n].pc /\ t.ev = mon[n].ev /\ t.list = r
    BY <2>1, <2>7, <2>8 DEF Thread
  <2>10. GoodThread(t)
    BY <2>1, <2>2, <2>7, <2>9 DEF GoodThread
  <2>11. mon'[n] = t
    BY <2>2, <2>4, <2>8, Zenon DEF Disown
  <2> QED BY <2>9, <2>10, <2>11
<1>2. mon' = [n \in Mons |-> mon'[n]]
  BY Zenon DEF Disown
<1>3. mon' \in [Mons -> Thread]
  BY <1>1, <1>2
<1> QED BY <1>1, <1>3 DEF MonInv

LEMMA FrameStep ==
  ASSUME DInv, alone, NEW id, FrameRemove(id) \/ (FrameUnlink /\ id = server.id)
  PROVE  DInv'
<1>1. /\ TypeInv /\ MonInv /\ Unique(dscp_policy_table)
      /\ dscp_policy_table \in Seq(Policy)
      /\ rules \in [Versions -> Seq(Policy)] /\ mon \in [Mons -> Thread]
  BY DEF DInv, TypeInv, MonInv
<1>2. /\ MonInv'
      /\ \A n \in Mons : mon'[n].pc = mon[n].pc /\ mon'[n].ev = mon[n].ev
  <2>1. CASE Disown(id)
    BY <1>1, <2>1, DisownProps
  <2>2. CASE mon' = mon
    BY <1>1, <2>2 DEF MonInv
  <2> QED BY <2>1, <2>2 DEF FrameRemove, FrameUnlink
<1>3. /\ dscp_policy_table' \in Seq(Policy) /\ Unique(dscp_policy_table')
      /\ \A o : In(dscp_policy_table', o) => In(dscp_policy_table, o)
  <2>1. \/ dscp_policy_table' = dscp_policy_table
        \/ dscp_policy_table' = Without(dscp_policy_table, id)
    BY DEF FrameRemove, FrameUnlink
  <2> QED BY <1>1, <2>1, TableWithout
<1>4. rules' \in [Versions -> Seq(Policy)]
  <2>1. \/ rules' = rules
        \/ rules' = [rules EXCEPT ![Entry(id).ver] = Without(@, id)]
    BY DEF FrameRemove, FrameUnlink
  <2> QED BY <1>1, <2>1, RulesWithout
<1>5. UNCHANGED <<queue, dscp_policy_mon_thread, reject_dscp_policies>>
  BY DEF FrameRemove, FrameUnlink
<1>6. alone' \in BOOLEAN
  BY DEF FrameRemove, FrameUnlink, Touches
<1>7. TypeInv'
  BY <1>1, <1>2, <1>3, <1>4, <1>5, <1>6 DEF TypeInv
<1> QED BY <1>2, <1>3, <1>7, ServerStep
-----------------------------------------------------------------------------
(* THEOREMS                                                                *)

LEMMA DscpInitGood == DscpInit => DInv
<1> SUFFICES ASSUME DscpInit PROVE DInv
  OBVIOUS
<1>1. /\ dscp_policy_table = <<>> /\ rules = [v \in Versions |-> <<>>]
      /\ queue = [m \in Mons |-> <<>>] /\ dscp_policy_mon_thread = NoMon
      /\ reject_dscp_policies = FALSE /\ alone = TRUE
      /\ mon = [m \in Mons |-> [pc |-> "none", ev |-> Signal("end"),
                                list |-> <<>>, cancelled |-> FALSE]]
  BY DEF DscpInit
<1>2. /\ <<>> \in Seq(Policy) /\ <<>> \in Seq(Event) /\ <<>> \in Seq(Status)
      /\ Len(<<>>) = 0
  OBVIOUS
<1>3. Signal("end") \in Event
  BY EventsTyped
<1>4. PICK t : t = [pc |-> "none", ev |-> Signal("end"), list |-> <<>>,
                    cancelled |-> FALSE]
  OBVIOUS
<1>5. t \in Thread /\ t.pc = "none" /\ t.list = <<>>
  BY <1>2, <1>3, <1>4 DEF Thread, Pcs
<1>6. GoodThread(t)
  BY <1>2, <1>5, DscpAssumption DEF GoodThread, Busy
<1>7. mon = [m \in Mons |-> t]
  BY <1>1, <1>4
<1>8. MonInv
  BY <1>5, <1>6, <1>7 DEF MonInv
<1>9. rules \in [Versions -> Seq(Policy)] /\ queue \in [Mons -> Seq(Event)]
  BY <1>1, <1>2, Zenon
<1>10. TypeInv
  BY <1>1, <1>2, <1>8, <1>9 DEF TypeInv
<1>11. Unique(dscp_policy_table)
  BY <1>1 DEF Unique
<1>12. \A m \in Mons : mon[m].pc = "none"
  BY <1>5, <1>7
<1> QED BY <1>10, <1>11, <1>12 DEF DInv, One, Live, Cleared

LEMMA DscpStepGood == DInv /\ [DscpNext]_dscpVars => DInv'
<1> SUFFICES ASSUME DInv, [DscpNext]_dscpVars PROVE DInv'
  OBVIOUS
<1>1. CASE UNCHANGED dscpVars
  <2>1. UNCHANGED <<dscp_policy_table, rules, mon, queue,
                    dscp_policy_mon_thread, reject_dscp_policies, alone>>
    BY <1>1 DEF dscpVars
  <2>2. TypeInv' <=> TypeInv
    BY <2>1 DEF TypeInv, MonInv
  <2>3. One' <=> One
    BY <2>1 DEF One, Live
  <2>4. \A m \in Mons : Cleared(m)' <=> Cleared(m)
    BY <2>1 DEF Cleared, Has
  <2> QED BY <2>1, <2>2, <2>3, <2>4 DEF DInv
<1>2. CASE DscpNext
  <2>1. alone
    BY <1>2 DEF DscpNext
  <2>2. CASE \/ \E op \in {"start", "clear"} : ApRequest(op)
             \/ \E e \in Item : ApItem(e)
             \/ ApEnd \/ ApLeaves
    BY <2>1, <2>2, ApStep
  <2>3. ASSUME NEW m \in Mons,
               \/ MonOpen(m) \/ MonTake(m) \/ MonClear(m) \/ MonFlush(m)
               \/ MonFree(m) \/ MonRemove(m) \/ MonUnlink(m) \/ MonAdd(m)
               \/ MonLink(m) \/ MonAnswer(m) \/ MonCancelled(m) \/ Associate(m)
        PROVE  DInv'
    <3>1. CASE \/ MonOpen(m) \/ MonClear(m) \/ MonFlush(m) \/ MonFree(m)
               \/ MonAnswer(m) \/ MonCancelled(m)
      BY <2>1, <3>1, QuietMonStep
    <3>2. CASE MonTake(m)
      BY <2>1, <3>2, TakeStep
    <3>3. CASE MonRemove(m) \/ MonUnlink(m)
      BY <2>1, <3>3, RemoveStep
    <3>4. CASE MonAdd(m)
      BY <2>1, <3>4, AddStep
    <3>5. CASE MonLink(m)
      BY <2>1, <3>5, LinkStep
    <3>6. CASE Associate(m)
      BY <2>1, <3>6, AssociateStep
    <3> QED BY <2>3, <3>1, <3>2, <3>3, <3>4, <3>5, <3>6
  <2>4. CASE \/ ResetStop \/ ResetClear \/ ResetFlush
             \/ \E b \in BOOLEAN : SetReject(b)
    BY <2>1, <2>4, ResetStep
  <2>5. CASE \/ \E id \in Ids : FrameRemove(id)
             \/ FrameUnlink
    BY <2>1, <2>5, FrameStep
  <2> QED BY <1>2, <2>2, <2>3, <2>4, <2>5 DEF DscpNext
<1> QED BY <1>1, <1>2

(* The table, the rules, the monitors and their lists of statuses, which   *)
(* never outgrow status_list, stay within their types, for any number of   *)
(* policies, monitors and requests.                                        *)
THEOREM DscpTypeCorrect == DscpSpec => []DscpTypeOK
<1>1. DInv => DscpTypeOK
  <2> SUFFICES ASSUME DInv PROVE DscpTypeOK
    OBVIOUS
  <2>1. ASSUME NEW m \in Mons
        PROVE  /\ mon[m].pc \in Pcs /\ mon[m].ev \in Event
               /\ mon[m].list \in Seq(Status) /\ mon[m].cancelled \in BOOLEAN
               /\ GoodThread(mon[m])
    BY DEF DInv, TypeInv, MonInv, Thread
  <2>2. DOMAIN mon = Mons
    BY DEF DInv, TypeInv, MonInv
  <2> QED BY <2>1, <2>2 DEF DscpTypeOK, DInv, TypeInv, GoodThread, Pcs, Busy
<1> QED BY <1>1, DscpInitGood, DscpStepGood, PTL DEF DscpSpec

(* A policy is added only when none with its identifier is left in         *)
(* dut->dscp_policy_table, whatever fails and whatever the server thread   *)
(* removes in between.                                                     *)
THEOREM IdsCorrect == DscpSpec => []IdsUnique
<1>1. DInv => IdsUnique
  BY DEF DInv, Unique, IdsUnique
<1> QED BY <1>1, DscpInitGood, DscpStepGood, PTL DEF DscpSpec
-----------------------------------------------------------------------------
(* The invariant behind AnswersTruthful.                                   *)

(* A thread that lives is the one the server thread knows of, or is about  *)
(* to end because of a reset and has nothing in hand when that is over.    *)
ServerState == [pc : {"idle", "unlink", "clear", "flush"}, id : Ids, n : Nat]
OwnerInv ==
  \A m \in Mons : Live(m) =>
    IF mon[m].cancelled
      THEN server.pc \in {"clear", "flush"} \/ mon[m].pc \in {"open", "wait"}
      ELSE m = dscp_policy_mon_thread /\ server.pc \in {"idle", "unlink"}

(* Where a thread is, and what it may count on there.                      *)
Place(m) ==
  /\ mon[m].pc = "none" => DOMAIN mon[m].list = {}
  /\ mon[m].pc \in {"clear", "flush"} =>
       mon[m].ev.op = "disconnected" \/ mon[m].list = <<>>
  /\ mon[m].pc \in {"flush", "free"} => dscp_policy_table = <<>>
  /\ mon[m].pc = "add" => mon[m].ev.kind.name = <<>>
PlaceInv ==
  /\ server.pc = "unlink" =>
       \A m \in Mons : mon[m].pc \notin {"unlink", "add", "link", "flush", "free"}
  /\ server.pc = "flush" => dscp_policy_table = <<>>
  /\ \A m \in Mons : Place(m)

(* The chains are the table, but for the policy a thread has in hand.      *)
InHand(id) ==
  \/ \E m \in Mons : mon[m].pc \in {"unlink", "link"} /\ mon[m].ev.id = id
  \/ server.pc = "unlink" /\ server.id = id
SameRule(v, p) ==
  p \in Els(rules[v]) <=> p \in Els(dscp_policy_table) /\ p.name = <<>> /\ p.ver = v
(* Its rule is away before it leaves the table, and in before it is there. *)
HandRule(v, m) ==
  /\ mon[m].pc = "unlink" => ~In(rules[v], mon[m].ev.id)
  /\ mon[m].pc = "link" =>
       /\ \A p \in Els(rules[v]) : p.id = mon[m].ev.id =>
            p = NewPolicy(mon[m].ev) /\ p.name = <<>> /\ p.ver = v
       /\ mon[m].ev.kind.name = <<>> /\ mon[m].ev.kind.ver = v =>
            NewPolicy(mon[m].ev) \in Els(rules[v])
Sync(v) ==
  /\ \A p \in Els(dscp_policy_table) \cup Els(rules[v]) :
       ~InHand(p.id) => SameRule(v, p)
  /\ server.pc = "unlink" => ~In(rules[v], server.id)
  /\ \A m \in Mons : HandRule(v, m)
RulesInv ==
  \A v \in Versions :
    /\ Unique(rules[v])
    /\ server.pc \in {"idle", "unlink"} /\ (\A m \in Mons : mon[m].pc # "flush")
         => Sync(v)

(* What a list of statuses says of the table is so, but for a policy that  *)
(* is being replaced.                                                      *)
IsLast(l, k) == \A j \in DOMAIN l : j > k => l[j].id # l[k].id
Correct(s) ==
  /\ s.op = "add" => Has(s.id)
  /\ s.op = "remove" => ~Has(s.id)
Honest(m) ==
  ~mon[m].cancelled /\ mon[m].pc \in {"open", "wait", "answer"} \cup Busy =>
    \A k \in DOMAIN mon[m].list :
      mon[m].list[k].status = "success" /\ IsLast(mon[m].list, k) =>
        \/ mon[m].pc \in {"add", "link"} /\ mon[m].list[k].id = mon[m].ev.id
        \/ Correct(mon[m].list[k])

AnswerInv ==
  /\ server \in ServerState
  /\ alone => OwnerInv /\ PlaceInv /\ RulesInv /\ \A m \in Mons : Honest(m)

-----------------------------------------------------------------------------
(* The table and the chains as sets of policies.                           *)

LEMMA EntryProps ==
  ASSUME TypeInv, Unique(dscp_policy_table), NEW id, Has(id)
  PROVE  /\ Entry(id) \in Els(dscp_policy_table) /\ Entry(id).id = id
         /\ Entry(id).ver \in Versions /\ Entry(id).name \in Seq(Nat)
         /\ \A p \in Els(dscp_policy_table) : p.id = id => p = Entry(id)
<1>1. dscp_policy_table \in Seq(Policy) /\ In(dscp_policy_table, id)
  BY DEF TypeInv, Has, In
<1>2. PICK k : k = At(dscp_policy_table, id)
  OBVIOUS
<1>3. k \in DOMAIN dscp_policy_table /\ dscp_policy_table[k].id = id
  BY <1>1, <1>2, AtIsFirst
<1>4. Entry(id) = dscp_policy_table[k]
  BY <1>2 DEF Entry
<1>5. dscp_policy_table[k] \in Policy
  BY <1>1, <1>3
<1>6. \A p \in Els(dscp_policy_table) : p.id = id => p = Entry(id)
  BY <1>3, <1>4 DEF Els, Unique
<1>7. Entry(id) \in Els(dscp_policy_table)
  BY <1>3, <1>4 DEF Els
<1>8. Entry(id).ver \in Versions /\ Entry(id).name \in Seq(Nat)
  BY <1>4, <1>5 DEF Policy
<1> QED BY <1>3, <1>4, <1>6, <1>7, <1>8

LEMMA InEls ==
  /\ \A s, id : In(s, id) <=> \E p \in Els(s) : p.id = id
  /\ \A id : Has(id) <=> In(dscp_policy_table, id)
BY DEF In, Els, Has

(* A chain in step with the table holds no rule of a policy that is not    *)
(* there, or has a domain name, or is of the other version.                *)
LEMMA NoRule ==
  ASSUME TypeInv, Unique(dscp_policy_table), NEW v \in Versions, Sync(v),
         NEW id, ~InHand(id),
         Has(id) => Entry(id).name # <<>> \/ Entry(id).ver # v
  PROVE  ~In(rules[v], id)
<1> SUFFICES ASSUME NEW p \in Els(rules[v]), p.id = id PROVE FALSE
  BY InEls
<1>1. SameRule(v, p)
  BY DEF Sync
<1>2. p \in Els(dscp_policy_table) /\ p.name = <<>> /\ p.ver = v
  BY <1>1 DEF SameRule
<1>3. Has(id)
  BY <1>2, InEls
<1> QED BY <1>2, <1>3, EntryProps

(* The rule of a policy is taken away.                                     *)
LEMMA TakeRule ==
  ASSUME TypeInv, Unique(dscp_policy_table), NEW id, ~InHand(id), Has(id),
         \A v \in Versions : Unique(rules[v]) /\ Sync(v),
         rules' = [rules EXCEPT ![Entry(id).ver] = Without(@, id)]
  PROVE  \A v \in Versions :
           /\ Unique(rules'[v]) /\ ~In(rules'[v], id)
           /\ Els(rules'[v]) = {p \in Els(rules[v]) : p.id # id}
<1>1. PICK w \in Versions : w = Entry(id).ver
  BY EntryProps
<1>2. rules \in [Versions -> Seq(Policy)]
  BY DEF TypeInv
<1>3. PICK r : r = Without(rules[w], id)
  OBVIOUS
<1>4. rules' = [rules EXCEPT ![w] = r]
  BY <1>1, <1>2, <1>3
<1>5. /\ Unique(r) /\ ~In(r, id)
      /\ Els(r) = {p \in Els(rules[w]) : p.id # id}
  BY <1>2, <1>3, WithoutProps
<1>6. ASSUME NEW v \in Versions, v # w
      PROVE  /\ Unique(rules[v]) /\ ~In(rules[v], id)
             /\ Els(rules[v]) = {p \in Els(rules[v]) : p.id # id}
  <2>1. ~In(rules[v], id)
    BY <1>1, <1>6, NoRule
  <2> QED BY <2>1, InEls
<1>7. rules'[w] = r /\ \A v \in Versions : v # w => rules'[v] = rules[v]
  BY <1>2, <1>4
<1> QED BY <1>5, <1>6, <1>7

(* A policy is taken out of the table.                                     *)
LEMMA TakeEntry ==
  ASSUME TypeInv, Unique(dscp_policy_table), NEW id,
         dscp_policy_table' = Without(dscp_policy_table, id)
  PROVE  Els(dscp_policy_table') = {p \in Els(dscp_policy_table) : p.id # id}
<1>1. PICK r : r = Without(dscp_policy_table, id)
  OBVIOUS
<1>2. Els(r) = {p \in Els(dscp_policy_table) : p.id # id}
  BY <1>1, WithoutProps DEF TypeInv
<1> QED BY <1>1, <1>2

LEMMA HasTaken ==
  ASSUME NEW id,
         Els(dscp_policy_table') = {p \in Els(dscp_policy_table) : p.id # id}
  PROVE  ~Has(id)' /\ \A o : o # id => (Has(o)' <=> Has(o))
<1>1. \A o : Has(o)' <=> \E p \in Els(dscp_policy_table') : p.id = o
  BY DEF Has, Els
<1>2. \A o : Has(o) <=> \E p \in Els(dscp_policy_table) : p.id = o
  BY DEF Has, Els
<1> QED BY <1>1, <1>2

-----------------------------------------------------------------------------
(* The lists of statuses.                                                  *)

LEMMA HonestKept ==
  ASSUME NEW m \in Mons, Honest(m),
         mon'[m].list = mon[m].list, mon'[m].cancelled = mon[m].cancelled,
         mon[m].pc \in {"open", "wait", "answer"} \cup Busy,
         mon[m].pc \in {"add", "link"} =>
           mon'[m].pc \in {"add", "link"} /\ mon'[m].ev = mon[m].ev,
         \A o : o # mon'[m].ev.id \/ mon'[m].pc \notin {"add", "link"}
                  => (Has(o)' <=> Has(o))
  PROVE  Honest(m)'
<1>1. PICK l : l = mon[m].list
  OBVIOUS
<1> SUFFICES ASSUME ~mon[m].cancelled, NEW k \in DOMAIN l,
                    l[k].status = "success", IsLast(l, k),
                    ~(mon'[m].pc \in {"add", "link"} /\ l[k].id = mon'[m].ev.id)
             PROVE  /\ l[k].op = "add" => Has(l[k].id)'
                    /\ l[k].op = "remove" => ~Has(l[k].id)'
  BY <1>1 DEF Honest, Correct, Has
<1>2. Correct(l[k])
  BY <1>1 DEF Honest
<1> QED BY <1>2 DEF Correct

LEMMA HonestNoted ==
  ASSUME NEW m \in Mons, Honest(m), mon[m].list \in Seq(Status),
         mon'[m].cancelled = mon[m].cancelled,
         mon'[m].pc \notin {"add", "link"},
         mon[m].pc \in {"wait"} \cup Busy,
         NEW id, NEW op, NEW st,
         mon[m].pc \in {"add", "link"} => id = mon[m].ev.id,
         mon'[m].list = Append(mon[m].list, [id |-> id, op |-> op, status |-> st]),
         \A o : o # id => (Has(o)' <=> Has(o)),
         st = "success" => /\ op = "add" => Has(id)'
                           /\ op = "remove" => ~Has(id)'
  PROVE  Honest(m)'
<1>1. PICK l \in Seq(Status) : l = mon[m].list
  OBVIOUS
<1>2. PICK x : x = [id |-> id, op |-> op, status |-> st]
  OBVIOUS
<1>3. PICK r : r = Append(l, x)
  OBVIOUS
<1>4. mon'[m].list = r
  BY <1>1, <1>2, <1>3
<1>5. /\ DOMAIN l = 1..Len(l) /\ DOMAIN r = 1..(Len(l) + 1) /\ Len(l) \in Nat
      /\ r[Len(l) + 1] = x /\ \A k \in 1..Len(l) : r[k] = l[k]
  BY <1>3
<1> SUFFICES ASSUME ~mon[m].cancelled, NEW k \in DOMAIN r,
                    r[k].status = "success", IsLast(r, k)
             PROVE  /\ r[k].op = "add" => Has(r[k].id)'
                    /\ r[k].op = "remove" => ~Has(r[k].id)'
  BY <1>4 DEF Honest, Correct, Has
<1>6. CASE k = Len(l) + 1
  BY <1>2, <1>5, <1>6
<1>7. CASE k \in 1..Len(l)
  <2>1. Len(l) + 1 \in DOMAIN r /\ Len(l) + 1 > k
    BY <1>5, <1>7
  <2>2. l[k].id # id /\ r[k] = l[k]
    BY <1>2, <1>5, <1>7, <2>1 DEF IsLast
  <2>3. IsLast(l, k)
    <3>1. \A j \in DOMAIN l : j \in DOMAIN r /\ r[j] = l[j]
      BY <1>5
    <3> QED BY <2>2, <3>1 DEF IsLast
  <2>4. Correct(l[k])
    BY <1>1, <1>5, <1>7, <2>2, <2>3 DEF Honest
  <2> QED BY <2>2, <2>4 DEF Correct
<1> QED BY <1>5, <1>6, <1>7

-----------------------------------------------------------------------------
(* A monitor that works, and the server thread is idle.                    *)

LEMMA Working ==
  ASSUME DInv, AnswerInv, alone, NEW m \in Mons, Live(m)
  PROVE  /\ \A n \in Mons : n # m => mon[n].pc \in {"none", "ended"}
         /\ Place(m) /\ Honest(m) /\ \A v \in Versions : Unique(rules[v])
         /\ server.pc = "idle" =>
              /\ mon[m].pc \notin {"open", "wait"} =>
                   ~mon[m].cancelled /\ m = dscp_policy_mon_thread
              /\ \A id : InHand(id) <=> /\ mon[m].pc \in {"unlink", "link"}
                                        /\ mon[m].ev.id = id
              /\ mon[m].pc # "flush" => \A v \in Versions : Sync(v)
<1>1. ASSUME NEW n \in Mons, n # m PROVE mon[n].pc \in {"none", "ended"}
  BY <1>1 DEF DInv, One, Live
<1>2. Place(m) /\ Honest(m) /\ \A v \in Versions : Unique(rules[v])
  BY DEF AnswerInv, PlaceInv, RulesInv
<1>3. ASSUME server.pc = "idle"
      PROVE  /\ mon[m].pc \notin {"open", "wait"} =>
                   ~mon[m].cancelled /\ m = dscp_policy_mon_thread
             /\ mon[m].pc # "flush" => \A v \in Versions : Sync(v)
  BY <1>1, <1>3 DEF AnswerInv, OwnerInv, RulesInv
<1>4. ASSUME server.pc = "idle", NEW id
      PROVE  InHand(id) <=> /\ mon[m].pc \in {"unlink", "link"}
                            /\ mon[m].ev.id = id
  BY <1>1, <1>4 DEF InHand
<1> QED BY <1>1, <1>2, <1>3, <1>4

(* The chain of a version is in step with the table, but for the policy of *)
(* the one monitor.                                                        *)
SyncOf(v, m) ==
  /\ \A p \in Els(dscp_policy_table) \cup Els(rules[v]) :
       ~(mon[m].pc \in {"unlink", "link"} /\ mon[m].ev.id = p.id)
         => SameRule(v, p)
  /\ HandRule(v, m)

LEMMA AnswerMon ==
  ASSUME DInv, AnswerInv, alone, NEW m \in Mons, Live(m), server.pc = "idle",
         server' = server, dscp_policy_mon_thread' = dscp_policy_mon_thread,
         \A n \in Mons : n # m => mon'[n] = mon[n],
         ~mon'[m].cancelled, m = dscp_policy_mon_thread,
         mon'[m].pc # "none", Place(m)',
         \A v \in Versions : Unique(rules'[v]),
         mon'[m].pc # "flush" => \A v \in Versions : SyncOf(v, m)',
         Honest(m)'
  PROVE  AnswerInv'
<1>1. \A n \in Mons : n # m => mon'[n] = mon[n] /\ mon'[n].pc \in {"none", "ended"}
  BY Working
<1>2. OwnerInv'
  BY <1>1 DEF OwnerInv, Live
<1>3. ASSUME NEW n \in Mons, n # m PROVE Place(n)' /\ Honest(n)'
  BY <1>1, <1>3 DEF AnswerInv, PlaceInv, Place, Honest, Busy
<1>4. PlaceInv'
  BY <1>3 DEF PlaceInv
<1>5. ASSUME NEW v \in Versions, \A n \in Mons : mon'[n].pc # "flush"
      PROVE  Sync(v)'
  <2>1. SyncOf(v, m)'
    BY <1>5
  <2>2. \A id : InHand(id)' <=> /\ mon'[m].pc \in {"unlink", "link"}
                                /\ mon'[m].ev.id = id
    BY <1>1 DEF InHand
  <2>3. ASSUME NEW n \in Mons, n # m PROVE HandRule(v, n)'
    BY <1>1, <2>3 DEF HandRule
  <2> QED BY <2>1, <2>2, <2>3 DEF Sync, SyncOf
<1>6. RulesInv'
  BY <1>5 DEF RulesInv
<1> QED BY <1>2, <1>3, <1>4, <1>6 DEF AnswerInv

(* A step of a monitor that leaves the table and the rules alone; the      *)
(* server thread may be anywhere.                                          *)
LEMMA AnswerQuiet ==
  ASSUME DInv, AnswerInv, alone, NEW m \in Mons, Live(m),
         UNCHANGED <<dscp_policy_table, rules, server, dscp_policy_mon_thread>>,
         \A n \in Mons : n # m => mon'[n] = mon[n],
         mon'[m].cancelled = mon[m].cancelled,
         mon[m].cancelled => mon'[m].pc \in {"open", "wait", "ended"},
         mon[m].pc \in {"open", "wait", "answer"} \/ server.pc \in {"clear", "flush"}
           \/ mon[m].cancelled,
         mon'[m].pc \notin {"none", "unlink", "add", "link", "flush", "free"},
         Place(m)', Honest(m)'
  PROVE  AnswerInv'
<1>1. \A n \in Mons : n # m => mon'[n] = mon[n] /\ mon'[n].pc \in {"none", "ended"}
                               /\ mon[n].pc \in {"none", "ended"}
  BY Working
<1>2. mon[m].pc \in {"open", "wait", "answer"} \/ server.pc \in {"clear", "flush"}
  BY DEF AnswerInv, OwnerInv
<1>3. OwnerInv'
  BY <1>1 DEF AnswerInv, OwnerInv, Live
<1>4. ASSUME NEW n \in Mons, n # m PROVE Place(n)' /\ Honest(n)'
  BY <1>1, <1>4 DEF AnswerInv, PlaceInv, Place, Honest, Busy
<1>5. PlaceInv'
  BY <1>1, <1>4 DEF AnswerInv, PlaceInv
<1>6. ASSUME NEW v \in Versions, server.pc \in {"idle", "unlink"}
      PROVE  Sync(v)'
  <2>1. mon[m].pc \in {"open", "wait", "answer"}
    BY <1>2, <1>6
  <2>2. Sync(v)
    BY <1>1, <1>6, <2>1 DEF AnswerInv, RulesInv
  <2>3. \A id : InHand(id)' <=> InHand(id)
    BY <1>1, <2>1 DEF InHand
  <2>4. ASSUME NEW n \in Mons PROVE HandRule(v, n)'
    BY <1>1, <2>4 DEF HandRule
  <2>5. \A p : SameRule(v, p)' <=> SameRule(v, p)
    BY DEF SameRule
  <2> QED BY <2>2, <2>3, <2>4, <2>5 DEF Sync
<1>7. RulesInv'
  BY <1>6 DEF AnswerInv, RulesInv
<1> QED BY <1>3, <1>4, <1>5, <1>7 DEF AnswerInv

LEMMA AnswerQuietSteps ==
  ASSUME DInv, AnswerInv, alone, NEW m \in Mons,
         MonOpen(m) \/ MonTake(m) \/ MonAnswer(m) \/ MonCancelled(m)
  PROVE  AnswerInv'
<1>1. /\ MonInv /\ mon[m].list \in Seq(Status)
      /\ UNCHANGED <<dscp_policy_table, rules, server, dscp_policy_mon_thread>>
  BY DEF DInv, TypeInv, MonInv, Thread, MonOpen, MonTake, MonAnswer, MonCancelled
<1>2. Live(m)
  BY DEF Live, MonOpen, MonTake, MonAnswer, MonCancelled
<1>3. Honest(m) /\ \A o : Has(o)' <=> Has(o)
  BY <1>1, <1>2, Working DEF Has
<1>4. CASE MonOpen(m) \/ MonAnswer(m) \/ MonCancelled(m)
  <2>1. PICK pc \in {"wait", "ended"} : Goes(m, pc)
    BY <1>4 DEF MonOpen, MonAnswer, MonCancelled
  <2>2. /\ mon'[m].pc = pc /\ mon'[m].list = mon[m].list
        /\ mon'[m].cancelled = mon[m].cancelled
        /\ \A n \in Mons : n # m => mon'[n] = mon[n]
    BY <1>1, <2>1, GoesProps DEF Pcs, Busy
  <2>3. Place(m)'
    BY <2>2 DEF Place
  <2>4. Honest(m)'
    <3>1. CASE MonOpen(m) \/ MonAnswer(m)
      <4>1. mon[m].pc \in {"open", "answer"}
        BY <3>1 DEF MonOpen, MonAnswer
      <4> QED BY <1>3, <2>2, <4>1, HonestKept
    <3>2. CASE MonCancelled(m)
      BY <2>2, <3>2 DEF Honest, MonCancelled
    <3> QED BY <1>4, <3>1, <3>2
  <2>5. mon[m].pc \in {"open", "answer"} \/ mon[m].cancelled
    BY <1>4 DEF MonOpen, MonAnswer, MonCancelled
  <2> QED BY <1>1, <1>2, <2>2, <2>3, <2>4, <2>5, AnswerQuiet
<1>5. CASE MonTake(m)
  <2>1. PICK e : e = Head(queue[m])
    OBVIOUS
  <2>2. e \in Event /\ mon[m].pc = "wait" /\ ~mon[m].cancelled /\ Taken(m, e)
    <3>1. queue[m] \in Seq(Event) /\ queue[m] # <<>>
      BY <1>5 DEF MonTake, DInv, TypeInv
    <3>2. e \in Event
      BY <2>1, <3>1
    <3> QED BY <1>5, <2>1, <3>2 DEF MonTake
  <2>3. PICK l : l = mon'[m].list
    OBVIOUS
  <2>4. /\ mon'[m].pc \in {"wait", "clear", "answer", "remove"}
        /\ mon'[m].cancelled = mon[m].cancelled
        /\ mon'[m].pc = "clear" =>
             mon'[m].ev.op = "disconnected" \/ mon'[m].list = <<>>
        /\ \/ mon'[m].list \in {<<>>, mon[m].list}
           \/ mon'[m].list = Append(mon[m].list, Refused(e.id))
        /\ \A n \in Mons : n # m => mon'[n] = mon[n]
    BY <1>1, <2>2, TakenProps
  <2>5. Place(m)'
    BY <2>4 DEF Place
  <2>6. Honest(m)'
    <3>1. CASE mon'[m].list = <<>>
      BY <3>1 DEF Honest
    <3>2. CASE mon'[m].list = mon[m].list
      BY <1>3, <2>2, <2>4, <3>2, HonestKept
    <3>3. CASE mon'[m].list = Append(mon[m].list, Refused(e.id))
      <4>1. PICK st \in {"code", "reject"} :
              Refused(e.id) = [id |-> e.id, op |-> "none", status |-> st]
        BY DEF Refused
      <4> QED BY <1>1, <1>3, <2>2, <2>4, <3>3, <4>1, HonestNoted
    <3> QED BY <2>4, <3>1, <3>2, <3>3
  <2> QED BY <1>1, <1>2, <2>2, <2>4, <2>5, <2>6, AnswerQuiet
<1> QED BY <1>4, <1>5

-----------------------------------------------------------------------------
(* The steps of the monitor on the table and on the rules.                 *)

(* The other policies.                                                     *)
LEMMA SyncKept ==
  ASSUME NEW v \in Versions, Sync(v), NEW id,
         \A o : InHand(o) => o = id,
         \A p : p.id # id =>
           /\ p \in Els(rules'[v]) <=> p \in Els(rules[v])
           /\ p \in Els(dscp_policy_table') <=> p \in Els(dscp_policy_table)
  PROVE  \A p \in Els(dscp_policy_table') \cup Els(rules'[v]) :
           p.id # id => SameRule(v, p)'
<1> SUFFICES ASSUME NEW p \in Els(dscp_policy_table') \cup Els(rules'[v]),
                    p.id # id
             PROVE  SameRule(v, p)'
  OBVIOUS
<1>1. p \in Els(dscp_policy_table) \cup Els(rules[v]) /\ ~InHand(p.id)
  OBVIOUS
<1>2. SameRule(v, p)
  BY <1>1 DEF Sync
<1>3. Els(rules[v])' = Els(rules'[v])
  BY DEF Els
<1>4. Els(dscp_policy_table)' = Els(dscp_policy_table')
  BY DEF Els
<1> QED BY <1>2, <1>3, <1>4 DEF SameRule

LEMMA AnswerClear ==
  ASSUME DInv, AnswerInv, alone, alone', NEW m \in Mons,
         MonClear(m) \/ MonFlush(m) \/ MonFree(m)
  PROVE  AnswerInv'
<1>1. /\ MonInv /\ Live(m) /\ server' = server
      /\ dscp_policy_mon_thread' = dscp_policy_mon_thread
  BY DEF DInv, TypeInv, Live, MonClear, MonFlush, MonFree
<1>2. server.pc = "idle"
  BY DEF MonClear, MonFlush, MonFree, Flush, Meets
<1>3. /\ ~mon[m].cancelled /\ m = dscp_policy_mon_thread
      /\ Place(m) /\ Honest(m) /\ \A v \in Versions : Unique(rules[v])
      /\ mon[m].pc # "flush" => \A v \in Versions : Sync(v)
      /\ \A id : InHand(id) <=> mon[m].pc \in {"unlink", "link"} /\ mon[m].ev.id = id
  BY <1>1, <1>2, Working DEF MonClear, MonFlush, MonFree
<1>4. PICK pc \in {"wait", "ended", "flush", "free"} : 
        /\ Goes(m, pc)
        /\ MonClear(m) => pc = "flush"
        /\ MonFree(m) => pc = "ended"
        /\ MonFlush(m) => pc = IF mon[m].ev.op = "disconnected" THEN "free" ELSE "wait"
  <2>1. mon[m].pc = "flush" \/ Goes(m, "flush") \/ Goes(m, "ended")
    BY DEF MonClear, MonFlush, MonFree
  <2>2. CASE MonFlush(m)
    <3>1. PICK pc : pc = IF mon[m].ev.op = "disconnected" THEN "free" ELSE "wait"
      OBVIOUS
    <3>2. Goes(m, pc) /\ pc \in {"wait", "free"}
      BY <2>2, <3>1 DEF MonFlush
    <3>3. ~MonClear(m) /\ ~MonFree(m)
      BY <2>2 DEF MonClear, MonFlush, MonFree
    <3> QED BY <3>1, <3>2, <3>3
  <2>3. CASE MonClear(m)
    BY <2>3 DEF MonClear, MonFlush, MonFree
  <2>4. CASE MonFree(m)
    BY <2>4 DEF MonClear, MonFlush, MonFree
  <2> QED BY <2>2, <2>3, <2>4
<1>5. /\ mon'[m].pc = pc /\ mon'[m].list = mon[m].list
      /\ pc \notin {"wait", "ended"} => mon'[m].ev = mon[m].ev
      /\ mon'[m].cancelled = mon[m].cancelled
      /\ \A n \in Mons : n # m => mon'[n] = mon[n]
  BY <1>1, <1>4, GoesProps DEF Pcs, Busy
<1>6. dscp_policy_table' = <<>>
  BY <1>3 DEF MonClear, MonFlush, MonFree, Place
<1>7. Place(m)'
  <2>1. mon'[m].pc = "flush" => MonClear(m)
    BY <1>4, <1>5
  <2> QED BY <1>3, <1>4, <1>5, <1>6, <2>1 DEF Place, MonClear
<1>8. Honest(m)'
  <2>1. CASE pc = "wait"
    <3>1. MonFlush(m) /\ mon[m].ev.op # "disconnected"
      BY <1>4, <2>1
    <3>2. mon'[m].list = <<>>
      BY <1>3, <1>5, <3>1 DEF Place, MonFlush
    <3> QED BY <3>2 DEF Honest
  <2>2. CASE pc # "wait"
    BY <1>5, <2>2 DEF Honest, Busy
  <2> QED BY <2>1, <2>2
<1>9. ASSUME NEW v \in Versions PROVE Unique(rules'[v])
  <2>1. CASE MonFlush(m)
    <3>1. rules'[v] = <<>>
      BY <2>1 DEF MonFlush, Flush
    <3> QED BY <3>1 DEF Unique
  <2>2. CASE ~MonFlush(m)
    BY <1>3, <2>2 DEF MonClear, MonFree
  <2> QED BY <2>1, <2>2
<1>10. ASSUME NEW v \in Versions, pc # "flush" PROVE SyncOf(v, m)'
  <2>1. Els(rules'[v]) = {}
    <3>1. CASE MonFlush(m)
      <4>1. rules'[v] = <<>>
        BY <3>1 DEF MonFlush, Flush
      <4> QED BY <4>1 DEF Els
    <3>2. CASE MonFree(m)
      <4>1. Sync(v) /\ rules'[v] = rules[v] /\ dscp_policy_table = <<>>
        BY <1>3, <3>2 DEF MonFree, Place
      <4>2. \A p \in Els(rules[v]) : FALSE
        <5>1. \A p \in Els(rules[v]) : SameRule(v, p)
          BY <1>3, <3>2, <4>1 DEF Sync, MonFree
        <5>2. Els(dscp_policy_table) = {}
          BY <4>1 DEF Els
        <5> QED BY <5>1, <5>2 DEF SameRule
      <4> QED BY <4>1, <4>2
    <3> QED BY <1>4, <1>10, <3>1, <3>2
  <2>2. Els(rules[v])' = {}
    <3>1. Els(rules[v])' = Els(rules'[v])
      BY DEF Els
    <3> QED BY <2>1, <3>1
  <2>3. Els(dscp_policy_table)' = {}
    BY <1>6 DEF Els
  <2> QED BY <1>4, <1>5, <1>10, <2>2, <2>3 DEF SyncOf, HandRule
<1> QED BY <1>1, <1>2, <1>3, <1>4, <1>5, <1>7, <1>8, <1>9, <1>10, AnswerMon

(* A policy is refused, and nothing was done.                              *)
LEMMA AnswerRefused ==
  ASSUME DInv, AnswerInv, alone, NEW m \in Mons, Live(m), server.pc = "idle",
         server' = server, dscp_policy_mon_thread' = dscp_policy_mon_thread,
         mon[m].pc \in {"remove", "add"}, Notes(m, "none", "reject"),
         UNCHANGED <<dscp_policy_table, rules>>
  PROVE  AnswerInv'
<1>1. MonInv /\ mon[m].pc \in Busy /\ mon[m].list \in Seq(Status)
  BY DEF DInv, TypeInv, MonInv, Thread, Busy
<1>2. /\ ~mon[m].cancelled /\ m = dscp_policy_mon_thread /\ Honest(m)
      /\ \A v \in Versions : Unique(rules[v]) /\ Sync(v)
      /\ \A o : ~InHand(o)
  BY Working
<1>3. /\ mon'[m].pc = "wait" /\ mon'[m].cancelled = mon[m].cancelled
      /\ mon'[m].list = Append(mon[m].list, [id |-> mon[m].ev.id, op |-> "none",
                                             status |-> "reject"])
      /\ \A n \in Mons : n # m => mon'[n] = mon[n]
  BY <1>1, NotesProps
<1>4. \A o : Has(o)' <=> Has(o)
  BY DEF Has
<1>5. Honest(m)'
  BY <1>1, <1>2, <1>3, <1>4, HonestNoted
<1>6. Place(m)'
  BY <1>3 DEF Place
<1>7. \A v \in Versions : SyncOf(v, m)'
  BY <1>2, <1>3 DEF Sync, SyncOf, HandRule, SameRule, Els
<1> QED BY <1>2, <1>3, <1>5, <1>6, <1>7, AnswerMon

(* The end of a removal, by the monitor: what is replaced is gone, with    *)
(* its rule.                                                               *)
LEMMA AnswerReplaced ==
  ASSUME DInv, AnswerInv, alone, NEW m \in Mons, Live(m), server.pc = "idle",
         server' = server, dscp_policy_mon_thread' = dscp_policy_mon_thread,
         mon[m].pc \in {"remove", "unlink"}, Replaced(m), rules' = rules,
         NEW id, id = mon[m].ev.id,
         Els(dscp_policy_table') = {p \in Els(dscp_policy_table) : p.id # id},
         \A v \in Versions : ~In(rules[v], id)
  PROVE  AnswerInv'
<1>1. /\ MonInv /\ mon[m].pc \in Busy /\ mon[m].list \in Seq(Status)
      /\ mon[m].ev.kind.name \in Seq(Nat)
  <2>1. MonInv /\ mon[m].list \in Seq(Status) /\ mon[m].ev \in Event
    BY DEF DInv, TypeInv, MonInv, Thread
  <2>2. mon[m].ev.kind \in [score : Nat, ver : Versions, name : Seq(Nat),
             asks : [Conditions -> SUBSET Nat]]
    BY <2>1, DscpAssumption DEF Event
  <2> QED BY <2>1, <2>2 DEF Busy
<1>2. /\ ~mon[m].cancelled /\ m = dscp_policy_mon_thread /\ Honest(m)
      /\ \A v \in Versions : Unique(rules[v]) /\ Sync(v)
      /\ \A o : InHand(o) => o = id
  BY Working
<1>3. ~Has(id)' /\ \A o : o # id => (Has(o)' <=> Has(o))
  BY HasTaken
<1>4. ASSUME NEW v \in Versions
      PROVE  /\ \A p \in Els(dscp_policy_table') \cup Els(rules'[v]) :
                  p.id # id /\ SameRule(v, p)'
             /\ Unique(rules'[v])
  <2>1. \A p \in Els(dscp_policy_table') \cup Els(rules'[v]) :
          p.id # id => SameRule(v, p)'
    BY <1>2, SyncKept
  <2>2. \A p \in Els(rules[v]) : p.id # id
    BY InEls
  <2> QED BY <1>2, <2>1, <2>2
<1>5. CASE Notes(m, "remove", "success") \/ Notes(m, "none", "reject")
  <2>1. PICK op, st : /\ Notes(m, op, st)
                      /\ \/ op = "remove" /\ st = "success"
                         \/ op = "none" /\ st = "reject"
    BY <1>5
  <2>2. /\ mon'[m].pc = "wait" /\ mon'[m].cancelled = mon[m].cancelled
        /\ mon'[m].list = Append(mon[m].list, [id |-> id, op |-> op,
                                               status |-> st])
        /\ \A n \in Mons : n # m => mon'[n] = mon[n]
    BY <1>1, <2>1, NotesProps
  <2>3. Place(m)'
    BY <2>2 DEF Place
  <2>4. Honest(m)'
    BY <1>1, <1>2, <1>3, <2>1, <2>2, HonestNoted
  <2>5. \A v \in Versions : SyncOf(v, m)'
    BY <1>4, <2>2 DEF SyncOf, HandRule, Els
  <2> QED BY <1>2, <1>4, <2>2, <2>3, <2>4, <2>5, AnswerMon
<1>6. CASE \/ Goes(m, "link") /\ mon[m].ev.kind.name # <<>>
           \/ Goes(m, "add") /\ ~(mon[m].ev.kind.name # <<>>)
  <2>1. PICK pc \in {"link", "add"} :
          /\ Goes(m, pc)
          /\ pc = "link" => mon[m].ev.kind.name # <<>>
          /\ pc = "add" => mon[m].ev.kind.name = <<>>
    BY <1>1, <1>6
  <2>2. /\ mon'[m].pc = pc /\ mon'[m].list = mon[m].list
        /\ mon'[m].ev = mon[m].ev /\ mon'[m].cancelled = mon[m].cancelled
        /\ \A n \in Mons : n # m => mon'[n] = mon[n]
    BY <1>1, <2>1, GoesProps DEF Pcs, Busy
  <2>3. Place(m)'
    BY <2>1, <2>2 DEF Place
  <2>4. Honest(m)'
    BY <1>1, <1>2, <1>3, <2>2, HonestKept
  <2>5. ASSUME NEW v \in Versions PROVE SyncOf(v, m)'
    <3>1. HandRule(v, m)'
      BY <1>4, <2>1, <2>2 DEF HandRule, Els
    <3> QED BY <1>4, <3>1 DEF SyncOf, Els
  <2> QED BY <1>2, <1>4, <2>2, <2>3, <2>4, <2>5, AnswerMon
<1> QED BY <1>5, <1>6, ReplacedCases

(* remove_dscp_policy().                                                   *)
LEMMA AnswerRemove ==
  ASSUME DInv, AnswerInv, alone, alone', NEW m \in Mons, MonRemove(m)
  PROVE  AnswerInv'
<1>1. PICK id : id = mon[m].ev.id
  OBVIOUS
<1>2. /\ TypeInv /\ MonInv /\ Unique(dscp_policy_table)
      /\ mon[m].pc = "remove" /\ mon[m].pc \in Busy /\ Live(m)
      /\ mon[m].list \in Seq(Status)
      /\ server' = server /\ server.pc = "idle"
      /\ dscp_policy_mon_thread' = dscp_policy_mon_thread
  BY DEF MonRemove, Meets, DInv, TypeInv, MonInv, Thread, Busy, Live
<1>3. /\ ~mon[m].cancelled /\ m = dscp_policy_mon_thread /\ Honest(m)
      /\ \A v \in Versions : Unique(rules[v]) /\ Sync(v)
      /\ \A o : ~InHand(o)
  BY <1>2, Working
<1>4. CASE ~Has(id) /\ Replaced(m) /\ UNCHANGED <<dscp_policy_table, rules>>
  <2>1. \A v \in Versions : ~In(rules[v], id)
    BY <1>2, <1>3, <1>4, NoRule
  <2>2. Els(dscp_policy_table') = {p \in Els(dscp_policy_table) : p.id # id}
    BY <1>4, InEls
  <2> QED BY <1>1, <1>2, <1>4, <2>1, <2>2, AnswerReplaced
<1>5. CASE /\ Has(id) /\ Entry(id).name # <<>> /\ Replaced(m) /\ UNCHANGED rules
           /\ dscp_policy_table' = Without(dscp_policy_table, id)
  <2>0. Entry(id).name # <<>>
    BY <1>2, <1>5, EntryProps
  <2>1. \A v \in Versions : ~In(rules[v], id)
    BY <1>2, <1>3, <2>0, NoRule
  <2>2. Els(dscp_policy_table') = {p \in Els(dscp_policy_table) : p.id # id}
    BY <1>2, <1>5, TakeEntry
  <2> QED BY <1>1, <1>2, <1>5, <2>1, <2>2, AnswerReplaced
<1>6. CASE /\ Has(id) /\ Goes(m, "unlink") /\ UNCHANGED dscp_policy_table
           /\ rules' = [rules EXCEPT ![Entry(id).ver] = Without(@, id)]
  <2>1. /\ mon'[m].pc = "unlink" /\ mon'[m].list = mon[m].list
        /\ mon'[m].ev = mon[m].ev /\ mon'[m].cancelled = mon[m].cancelled
        /\ \A n \in Mons : n # m => mon'[n] = mon[n]
    BY <1>2, <1>6, GoesProps DEF Pcs, Busy
  <2>2. Place(m)'
    BY <2>1 DEF Place
  <2>3. \A o : Has(o)' <=> Has(o)
    BY <1>6 DEF Has
  <2>4. Honest(m)'
    BY <1>2, <1>3, <2>1, <2>3, HonestKept
  <2>5. \A v \in Versions :
          /\ Unique(rules'[v]) /\ ~In(rules'[v], id)
          /\ Els(rules'[v]) = {p \in Els(rules[v]) : p.id # id}
    BY <1>2, <1>3, <1>6, TakeRule
  <2>6. ASSUME NEW v \in Versions PROVE SyncOf(v, m)'
    <3>1. \A p \in Els(dscp_policy_table') \cup Els(rules'[v]) :
            p.id # id => SameRule(v, p)'
      BY <1>3, <1>6, <2>5, SyncKept
    <3>2. HandRule(v, m)'
      BY <1>1, <2>1, <2>5 DEF HandRule, In
    <3> QED BY <1>1, <2>1, <3>1, <3>2 DEF SyncOf, Els
  <2> QED BY <1>2, <1>3, <2>1, <2>2, <2>4, <2>5, <2>6, AnswerMon
<1>7. CASE /\ Notes(m, "none", "reject")
           /\ UNCHANGED <<dscp_policy_table, rules>>
  BY <1>2, <1>7, AnswerRefused DEF Busy
<1> QED BY <1>1, <1>4, <1>5, <1>6, <1>7, Zenon DEF MonRemove

LEMMA AnswerUnlink ==
  ASSUME DInv, AnswerInv, alone, alone', NEW m \in Mons, MonUnlink(m)
  PROVE  AnswerInv'
<1>1. PICK id : id = mon[m].ev.id
  OBVIOUS
<1>2. /\ TypeInv /\ Unique(dscp_policy_table)
      /\ mon[m].pc = "unlink" /\ Live(m) /\ rules' = rules
      /\ server' = server /\ server.pc = "idle" /\ Replaced(m)
      /\ dscp_policy_mon_thread' = dscp_policy_mon_thread
      /\ dscp_policy_table' = Without(dscp_policy_table, id)
  BY <1>1 DEF MonUnlink, Meets, DInv, Live
<1>3. \A v \in Versions : Sync(v)
  BY <1>2, Working
<1>4. \A v \in Versions : ~In(rules[v], id)
  BY <1>1, <1>2, <1>3 DEF Sync, HandRule
<1>5. Els(dscp_policy_table') = {p \in Els(dscp_policy_table) : p.id # id}
  BY <1>2, TakeEntry
<1> QED BY <1>1, <1>2, <1>4, <1>5, AnswerReplaced

(* add_dscp_policy().                                                      *)
LEMMA AnswerAdd ==
  ASSUME DInv, AnswerInv, alone, alone', NEW m \in Mons, MonAdd(m)
  PROVE  AnswerInv'
<1>1. PICK p : p = NewPolicy(mon[m].ev)
  OBVIOUS
<1>2. /\ TypeInv /\ MonInv /\ Unique(dscp_policy_table)
      /\ dscp_policy_table \in Seq(Policy) /\ rules \in [Versions -> Seq(Policy)]
      /\ mon[m].pc = "add" /\ mon[m].pc \in Busy /\ Live(m)
      /\ server' = server /\ server.pc = "idle"
      /\ dscp_policy_mon_thread' = dscp_policy_mon_thread
      /\ UNCHANGED dscp_policy_table
  BY DEF MonAdd, Meets, DInv, TypeInv, Busy, Live
<1>3. /\ ~mon[m].cancelled /\ m = dscp_policy_mon_thread
      /\ Honest(m) /\ Place(m)
      /\ \A v \in Versions : Unique(rules[v]) /\ Sync(v)
      /\ \A o : ~InHand(o)
  BY <1>2, Working
<1>4. /\ p \in Policy /\ p.ver \in Versions /\ p.id = mon[m].ev.id
      /\ p.name = <<>> /\ mon[m].ev.kind.ver = p.ver
  <2>1. p \in Policy /\ p.id = mon[m].ev.id
    BY <1>1, <1>2, NewPolicyTyped
  <2>2. p.name = mon[m].ev.kind.name /\ p.ver = mon[m].ev.kind.ver
    BY <1>1 DEF NewPolicy
  <2> QED BY <1>2, <1>3, <2>1, <2>2 DEF Policy, Place
<1>5. CASE /\ RuleNum(p) <= Len(rules[p.ver]) + 1
           /\ rules' = [rules EXCEPT ![p.ver] = InsertAt(@, RuleNum(p), p)]
           /\ Goes(m, "link")
  <2>1. PICK n : n = RuleNum(p)
    OBVIOUS
  <2>2. rules[p.ver] \in Seq(Policy) /\ Len(rules[p.ver]) \in Nat
    BY <1>2, <1>4
  <2>3. n \in 1..(Len(rules[p.ver]) + 1)
    BY <1>2, <1>4, <1>5, <2>1, <2>2, RuleNumProps
  <2>4. PICK r : r = InsertAt(rules[p.ver], n, p)
    OBVIOUS
  <2>5. ~Has(p.id)
    BY <1>2, <1>4 DEF DInv, Cleared
  <2>6. ~In(rules[p.ver], p.id)
    BY <1>2, <1>3, <1>4, <2>5, NoRule
  <2>7. Unique(r) /\ Els(r) = Els(rules[p.ver]) \cup {p}
    BY <1>3, <1>4, <2>2, <2>3, <2>4, <2>6, InsertAtProps
  <2>8. rules' = [rules EXCEPT ![p.ver] = r]
    BY <1>2, <1>5, <2>1, <2>4
  <2>9. rules'[p.ver] = r /\ \A v \in Versions : v # p.ver => rules'[v] = rules[v]
    BY <1>2, <1>4, <2>8
  <2>10. /\ mon'[m].pc = "link" /\ mon'[m].list = mon[m].list
         /\ mon'[m].ev = mon[m].ev /\ mon'[m].cancelled = mon[m].cancelled
         /\ \A k \in Mons : k # m => mon'[k] = mon[k]
    BY <1>2, <1>5, GoesProps DEF Pcs, Busy
  <2>11. Place(m)'
    BY <2>10 DEF Place
  <2>12. \A o : Has(o)' <=> Has(o)
    BY <1>2 DEF Has
  <2>13. Honest(m)'
    BY <1>2, <1>3, <2>10, <2>12, HonestKept
  <2>14. ASSUME NEW v \in Versions PROVE Unique(rules'[v])
    BY <1>3, <2>7, <2>9
  <2>15. ASSUME NEW v \in Versions PROVE SyncOf(v, m)'
    <3>1. \A q : q.id # p.id => (q \in Els(rules'[v]) <=> q \in Els(rules[v]))
      BY <2>7, <2>9
    <3>2. \A q \in Els(dscp_policy_table') \cup Els(rules'[v]) :
            q.id # p.id => SameRule(v, q)'
      BY <1>2, <1>3, <3>1, SyncKept
    <3>3. ASSUME NEW q \in Els(rules'[v]), q.id = p.id
          PROVE  q = p /\ v = p.ver
      <4>1. CASE v = p.ver
        BY <2>6, <2>7, <2>9, <3>3, <4>1, InEls
      <4>2. CASE v # p.ver
        <5>1. ~In(rules[v], p.id)
          BY <1>2, <1>3, <2>5, NoRule
        <5> QED BY <2>9, <3>3, <4>2, <5>1, InEls
      <4> QED BY <4>1, <4>2
    <3>4. v = p.ver => p \in Els(rules'[v])
      BY <2>7, <2>9
    <3>5. NewPolicy(mon[m].ev)' = p
      BY <1>1, <2>10 DEF NewPolicy
    <3>6. Els(rules[v])' = Els(rules'[v])
      BY DEF Els
    <3>7. HandRule(v, m)'
      BY <1>4, <2>10, <3>3, <3>4, <3>5, <3>6 DEF HandRule
    <3>8. Els(dscp_policy_table)' = Els(dscp_policy_table')
      BY DEF Els
    <3> QED BY <1>4, <2>10, <3>2, <3>6, <3>7, <3>8 DEF SyncOf
  <2> QED BY <1>2, <1>3, <2>10, <2>11, <2>13, <2>14, <2>15, AnswerMon
<1>6. CASE Notes(m, "none", "reject") /\ UNCHANGED rules
  BY <1>2, <1>6, AnswerRefused
<1> QED BY <1>1, <1>5, <1>6 DEF MonAdd

LEMMA AnswerLink ==
  ASSUME DInv, AnswerInv, alone, alone', NEW m \in Mons, MonLink(m)
  PROVE  AnswerInv'
<1>1. PICK p : p = NewPolicy(mon[m].ev)
  OBVIOUS
<1>2. /\ TypeInv /\ MonInv /\ Unique(dscp_policy_table)
      /\ dscp_policy_table \in Seq(Policy)
      /\ mon[m].list \in Seq(Status)
      /\ mon[m].pc = "link" /\ mon[m].pc \in Busy /\ Live(m)
      /\ server' = server /\ server.pc = "idle"
      /\ dscp_policy_mon_thread' = dscp_policy_mon_thread
      /\ rules' = rules /\ Notes(m, "add", "success")
  BY DEF MonLink, Meets, DInv, TypeInv, MonInv, Thread, Busy, Live
<1>3. /\ ~mon[m].cancelled /\ m = dscp_policy_mon_thread /\ Honest(m)
      /\ \A v \in Versions : Unique(rules[v]) /\ Sync(v)
      /\ \A o : InHand(o) => o = mon[m].ev.id
  BY <1>2, Working
<1>4. /\ p \in Policy /\ p.score \in Nat /\ p.id = mon[m].ev.id
      /\ p.name = mon[m].ev.kind.name /\ p.ver = mon[m].ev.kind.ver
  <2>1. p \in Policy /\ p.id = mon[m].ev.id
    BY <1>1, <1>2, NewPolicyTyped
  <2> QED BY <1>1, <2>1 DEF Policy, NewPolicy
<1>5. PICK i : i = Len(Coarser(p.score)) + 1
  OBVIOUS
<1>6. i \in 1..(Len(dscp_policy_table) + 1)
  BY <1>2, <1>4, <1>5, CoarserProps
<1>7. PICK r : r = InsertAt(dscp_policy_table, i, p)
  OBVIOUS
<1>8. dscp_policy_table' = r /\ Els(r) = Els(dscp_policy_table) \cup {p}
  <2>1. dscp_policy_table' = r
    BY <1>1, <1>5, <1>7 DEF MonLink
  <2> QED BY <1>2, <1>4, <1>6, <1>7, <2>1, InsertAtProps
<1>9. \A q \in Els(dscp_policy_table) : q.id # p.id
  BY <1>2, <1>4, InEls DEF DInv, Cleared
<1>10. /\ Els(dscp_policy_table)' = Els(dscp_policy_table) \cup {p}
       /\ \A v : Els(rules[v])' = Els(rules[v])
  <2>1. Els(dscp_policy_table)' = Els(dscp_policy_table')
    BY DEF Els
  <2>2. \A v : Els(rules[v])' = Els(rules[v])
    BY <1>2 DEF Els
  <2> QED BY <1>8, <2>1, <2>2
<1>11. Has(p.id)' /\ \A o : o # p.id => (Has(o)' <=> Has(o))
  <2>1. \A o : Has(o)' <=> \E q \in Els(dscp_policy_table') : q.id = o
    BY DEF Has, Els
  <2>2. \A o : Has(o) <=> \E q \in Els(dscp_policy_table) : q.id = o
    BY DEF Has, Els
  <2> QED BY <1>8, <2>1, <2>2
<1>12. /\ mon'[m].pc = "wait" /\ mon'[m].cancelled = mon[m].cancelled
       /\ mon'[m].list = Append(mon[m].list, [id |-> mon[m].ev.id, op |-> "add",
                                              status |-> "success"])
       /\ \A n \in Mons : n # m => mon'[n] = mon[n]
  BY <1>2, NotesProps
<1>13. Honest(m)'
  BY <1>2, <1>3, <1>4, <1>11, <1>12, HonestNoted
<1>14. Place(m)'
  BY <1>12 DEF Place
<1>15. ASSUME NEW v \in Versions PROVE SyncOf(v, m)'
  <2>1. \A q \in Els(dscp_policy_table') \cup Els(rules'[v]) :
          q.id # p.id => SameRule(v, q)'
    <3>1. \A q : q.id # p.id =>
            /\ q \in Els(rules'[v]) <=> q \in Els(rules[v])
            /\ q \in Els(dscp_policy_table') <=> q \in Els(dscp_policy_table)
      BY <1>2, <1>8
    <3>2. Sync(v) /\ \A o : InHand(o) => o = p.id
      BY <1>3, <1>4
    <3> QED BY <3>1, <3>2, SyncKept
  <2>2. /\ \A q \in Els(rules[v]) : q.id = p.id => q = p /\ p.name = <<>> /\ p.ver = v
        /\ p.name = <<>> /\ p.ver = v => p \in Els(rules[v])
    BY <1>1, <1>2, <1>3, <1>4 DEF Sync, HandRule
  <2>3. ASSUME NEW q \in Els(dscp_policy_table') \cup Els(rules'[v]), q.id = p.id
        PROVE  SameRule(v, q)'
    BY <1>2, <1>8, <1>9, <1>10, <2>2, <2>3 DEF SameRule
  <2>4. HandRule(v, m)'
    BY <1>12 DEF HandRule
  <2> QED BY <1>2, <1>8, <1>10, <2>1, <2>3, <2>4 DEF SyncOf
<1> QED BY <1>2, <1>3, <1>12, <1>13, <1>14, <1>15, AnswerMon

-----------------------------------------------------------------------------
(* The steps of the server thread and of the access point.                 *)

LEMMA AnswerSame ==
  ASSUME DInv, AnswerInv, alone,
         UNCHANGED <<dscp_policy_table, rules, mon, dscp_policy_mon_thread>>,
         server'.pc = server.pc, server'.id = server.id, server' \in ServerState
  PROVE  AnswerInv'
<1>1. OwnerInv'
  BY DEF AnswerInv, OwnerInv, Live
<1>2. PlaceInv'
  BY DEF AnswerInv, PlaceInv, Place
<1>3. \A m \in Mons : Honest(m)'
  BY DEF AnswerInv, Honest, Correct, Has
<1>4. ASSUME NEW v \in Versions, Sync(v) PROVE Sync(v)'
  <2>1. \A o : InHand(o)' <=> InHand(o)
    BY DEF InHand
  <2>2. \A m \in Mons : HandRule(v, m)'
    BY <1>4 DEF Sync, HandRule, In, Els, NewPolicy
  <2>3. \A p : SameRule(v, p)' <=> SameRule(v, p)
    BY DEF SameRule, Els
  <2>4. /\ Els(rules[v])' = Els(rules[v])
        /\ In(rules[v], server.id)' = In(rules[v], server.id)
        /\ Els(dscp_policy_table)' = Els(dscp_policy_table)
    BY DEF Els, In
  <2> QED BY <1>4, <2>1, <2>2, <2>3, <2>4 DEF Sync
<1>5. RulesInv'
  BY <1>4 DEF AnswerInv, RulesInv
<1> QED BY <1>1, <1>2, <1>3, <1>5 DEF AnswerInv

LEMMA AnswerAssociate ==
  ASSUME DInv, AnswerInv, alone, alone', NEW m \in Mons, Associate(m)
  PROVE  AnswerInv'
<1>1. /\ MonInv /\ server.pc = "idle" /\ mon[m].pc = "none" /\ Goes(m, "open")
      /\ dscp_policy_mon_thread' = m
      /\ UNCHANGED <<dscp_policy_table, rules, server>>
      /\ \A n \in Mons : mon[n].pc \in {"none", "ended"}
  BY DEF DInv, TypeInv, Associate, Live
<1>2. /\ mon'[m].pc = "open" /\ mon'[m].list = mon[m].list
      /\ mon'[m].cancelled = mon[m].cancelled
      /\ \A n \in Mons : n # m => mon'[n] = mon[n]
  BY <1>1, GoesProps DEF Pcs, Busy
<1>3. OwnerInv'
  BY <1>1, <1>2 DEF OwnerInv, Live
<1>4. DOMAIN mon'[m].list = {}
  BY <1>1, <1>2 DEF AnswerInv, PlaceInv, Place
<1>5. ASSUME NEW n \in Mons PROVE Place(n)' /\ Honest(n)'
  <2>1. CASE n = m
    BY <1>2, <1>4, <2>1 DEF Place, Honest
  <2>2. CASE n # m
    BY <1>1, <1>2, <2>2 DEF AnswerInv, PlaceInv, Place, Honest, Busy
  <2> QED BY <2>1, <2>2
<1>6. PlaceInv'
  BY <1>1, <1>5 DEF PlaceInv
<1>7. ASSUME NEW v \in Versions PROVE Sync(v)' /\ Unique(rules[v])'
  <2>1. Sync(v) /\ Unique(rules[v])
    BY <1>1 DEF AnswerInv, RulesInv
  <2>2. \A o : InHand(o)' <=> InHand(o)
    BY <1>1, <1>2 DEF InHand
  <2>3. \A n \in Mons : HandRule(v, n)'
    BY <1>1, <1>2 DEF HandRule
  <2>4. \A p : SameRule(v, p)' <=> SameRule(v, p)
    BY <1>1 DEF SameRule, Els
  <2>5. /\ Els(rules[v])' = Els(rules[v]) /\ (Unique(rules[v])' <=> Unique(rules[v]))
        /\ Els(dscp_policy_table)' = Els(dscp_policy_table)
    BY <1>1 DEF Els, Unique
  <2> QED BY <1>1, <2>1, <2>2, <2>3, <2>4, <2>5 DEF Sync
<1>8. RulesInv'
  BY <1>7 DEF RulesInv
<1> QED BY <1>1, <1>3, <1>5, <1>6, <1>8 DEF AnswerInv

LEMMA AnswerReset ==
  ASSUME DInv, AnswerInv, alone, alone', ResetStop \/ ResetClear \/ ResetFlush
  PROVE  AnswerInv'
<1>1. /\ MonInv /\ mon \in [Mons -> Thread] /\ server \in ServerState
      /\ OwnerInv /\ PlaceInv /\ RulesInv
  BY DEF DInv, TypeInv, MonInv, AnswerInv
<1>2. CASE ResetStop
  <2>1. PICK s : s = [server EXCEPT !.pc = "clear", !.n = @ + 1]
    OBVIOUS
  <2>2. server' = s /\ s \in ServerState /\ s.pc = "clear"
    <3>1. server' = s
      BY <1>2, <2>1 DEF ResetStop
    <3>2. server.n + 1 \in Nat
      BY <1>1 DEF ServerState
    <3> QED BY <1>1, <2>1, <3>1, <3>2 DEF ServerState
  <2>3. ASSUME NEW m \in Mons
        PROVE  /\ mon'[m].pc = mon[m].pc /\ mon'[m].list = mon[m].list
               /\ mon'[m].ev = mon[m].ev
               /\ Live(m) => mon'[m].cancelled
    <3>1. PICK t : t = [mon[m] EXCEPT !.cancelled = TRUE]
      OBVIOUS
    <3>2. /\ t.pc = mon[m].pc /\ t.ev = mon[m].ev /\ t.list = mon[m].list
          /\ t.cancelled
      BY <1>1, <3>1 DEF Thread
    <3>3. mon'[m] = IF m = dscp_policy_mon_thread THEN t ELSE mon[m]
      BY <1>2, <3>1 DEF ResetStop
    <3>4. Live(m) => mon[m].cancelled \/ m = dscp_policy_mon_thread
      BY <1>1 DEF OwnerInv
    <3> QED BY <3>2, <3>3, <3>4
  <2>4. OwnerInv'
    BY <2>2, <2>3 DEF OwnerInv, Live
  <2>5. \A m \in Mons : Place(m)' /\ Honest(m)'
    BY <1>1, <1>2, <2>3 DEF PlaceInv, Place, Honest, Live, Busy, ResetStop
  <2>6. PlaceInv' /\ RulesInv'
    BY <1>1, <1>2, <2>2, <2>5 DEF PlaceInv, RulesInv, ResetStop
  <2> QED BY <2>2, <2>4, <2>5, <2>6 DEF AnswerInv
<1>3. CASE ResetClear
  <2>1. PICK s : s = [server EXCEPT !.pc = "flush"]
    OBVIOUS
  <2>2. server' = s /\ s \in ServerState /\ s.pc = "flush"
    BY <1>1, <1>3, <2>1 DEF ResetClear, ServerState
  <2>3. /\ mon' = mon /\ rules' = rules /\ dscp_policy_table' = <<>>
        /\ \A m \in Mons : Live(m) => mon[m].cancelled
    BY <1>1, <1>3 DEF OwnerInv, ResetClear
  <2>4. OwnerInv'
    BY <2>2, <2>3 DEF OwnerInv, Live
  <2>5. \A m \in Mons : Place(m)' /\ Honest(m)'
    BY <1>1, <2>3 DEF PlaceInv, Place, Honest, Live, Busy
  <2>6. PlaceInv' /\ RulesInv'
    BY <1>1, <2>2, <2>3, <2>5 DEF PlaceInv, RulesInv
  <2> QED BY <2>2, <2>4, <2>5, <2>6 DEF AnswerInv
<1>4. CASE ResetFlush
  <2>1. PICK s : s = [server EXCEPT !.pc = "idle"]
    OBVIOUS
  <2>2. server' = s /\ s \in ServerState /\ s.pc = "idle"
    BY <1>1, <1>4, <2>1 DEF ResetFlush, ServerState
  <2>3. /\ mon' = mon /\ dscp_policy_table' = <<>>
        /\ \A v \in Versions : rules'[v] = <<>>
        /\ \A m \in Mons : Live(m) => mon[m].cancelled /\ mon[m].pc = "wait"
    BY <1>1, <1>4 DEF OwnerInv, PlaceInv, ResetFlush, Touches
  <2>4. OwnerInv'
    BY <2>2, <2>3 DEF OwnerInv, Live
  <2>5. \A m \in Mons : Place(m)' /\ Honest(m)'
    BY <1>1, <2>3 DEF PlaceInv, Place, Honest, Live, Busy
  <2>6. PlaceInv'
    BY <2>2, <2>5 DEF PlaceInv
  <2>7. ASSUME NEW v \in Versions PROVE Unique(rules[v])' /\ Sync(v)'
    <3>1. Unique(rules[v])'
      BY <2>3 DEF Unique
    <3>2. Els(rules[v])' = {} /\ Els(dscp_policy_table)' = {}
      <4>1. Els(rules'[v]) = {}
        BY <2>3 DEF Els
      <4>2. Els(rules[v])' = Els(rules'[v])
        BY DEF Els
      <4>3. Els(dscp_policy_table)' = {}
        BY <2>3 DEF Els
      <4> QED BY <4>1, <4>2, <4>3
    <3>3. \A m \in Mons : HandRule(v, m)'
      BY <2>3 DEF HandRule, Live
    <3> QED BY <2>2, <3>1, <3>2, <3>3 DEF Sync
  <2>8. RulesInv'
    BY <2>7 DEF RulesInv
  <2> QED BY <2>2, <2>4, <2>5, <2>6, <2>8 DEF AnswerInv
<1> QED BY <1>2, <1>3, <1>4

(* The lists once a policy is disowned.                                    *)
LEMMA DisownLists ==
  ASSUME MonInv, NEW id, Disown(id), NEW m \in Mons
  PROVE  /\ mon'[m].pc = mon[m].pc /\ mon'[m].cancelled = mon[m].cancelled
         /\ mon'[m].ev = mon[m].ev /\ DOMAIN mon'[m].list = DOMAIN mon[m].list
         /\ \A k \in DOMAIN mon[m].list :
              /\ mon'[m].list[k].id = mon[m].list[k].id
              /\ mon'[m].list[k].status = mon[m].list[k].status
              /\ mon[m].list[k].id = id => mon'[m].list[k].op = "none"
              /\ mon[m].list[k].id # id => mon'[m].list[k] = mon[m].list[k]
<1>1. PICK l : l = mon[m].list
  OBVIOUS
<1>2. PICK r : r = [k \in DOMAIN l |->
                      IF l[k].id = id THEN [l[k] EXCEPT !.op = "none"]
                                      ELSE l[k]]
  OBVIOUS
<1>3. PICK t : t = [mon[m] EXCEPT !.list = r]
  OBVIOUS
<1>4. mon[m] \in Thread
  BY DEF MonInv
<1>5. /\ t.pc = mon[m].pc /\ t.ev = mon[m].ev /\ t.cancelled = mon[m].cancelled
      /\ t.list = r
  BY <1>3, <1>4 DEF Thread
<1>6. mon'[m] = t
  BY <1>1, <1>2, <1>3, Zenon DEF Disown
<1>7. ASSUME NEW k \in DOMAIN l
      PROVE  /\ r[k].id = l[k].id /\ r[k].status = l[k].status
             /\ l[k].id = id => r[k].op = "none"
             /\ l[k].id # id => r[k] = l[k]
  <2>1. l \in Seq(Status)
    BY <1>1, <1>4 DEF Thread
  <2>2. l[k] \in Status
    BY <2>1
  <2>3. PICK x : x = [l[k] EXCEPT !.op = "none"]
    OBVIOUS
  <2>4. x.id = l[k].id /\ x.status = l[k].status /\ x.op = "none"
    BY <2>2, <2>3 DEF Status
  <2>5. r[k] = IF l[k].id = id THEN x ELSE l[k]
    BY <1>2, <2>3
  <2>6. CASE l[k].id = id
    BY <2>4, <2>5, <2>6
  <2>7. CASE l[k].id # id
    BY <2>5, <2>7
  <2> QED BY <2>6, <2>7
<1>8. mon'[m].list = r /\ DOMAIN r = DOMAIN l
  BY <1>2, <1>5, <1>6
<1>9. /\ mon'[m].pc = mon[m].pc /\ mon'[m].cancelled = mon[m].cancelled
      /\ mon'[m].ev = mon[m].ev
  BY <1>5, <1>6
<1> QED BY <1>1, <1>7, <1>8, <1>9

(* The server thread has taken a policy away, with its rule.               *)
LEMMA AnswerDisowned ==
  ASSUME DInv, AnswerInv, alone, NEW id, server.pc \in {"idle", "unlink"},
         \A m \in Mons : Live(m) => mon[m].pc = "wait",
         server' \in ServerState, server'.pc = "idle",
         dscp_policy_mon_thread' = dscp_policy_mon_thread, rules' = rules,
         Els(dscp_policy_table') = {p \in Els(dscp_policy_table) : p.id # id},
         Disown(id), \A o : InHand(o) => o = id,
         \A v \in Versions : ~In(rules[v], id)
  PROVE  AnswerInv'
<1>1. /\ MonInv /\ OwnerInv /\ PlaceInv /\ \A m \in Mons : Honest(m)
      /\ \A v \in Versions : Unique(rules[v]) /\ Sync(v)
  BY DEF DInv, TypeInv, AnswerInv, RulesInv, Live
<1>2. \A m \in Mons :
        /\ mon'[m].pc = mon[m].pc /\ mon'[m].cancelled = mon[m].cancelled
        /\ mon'[m].pc \in {"none", "ended", "wait"}
  BY <1>1, DisownLists DEF Live
<1>3. OwnerInv'
  BY <1>1, <1>2 DEF OwnerInv, Live
<1>4. ASSUME NEW m \in Mons PROVE Place(m)'
  <2>1. mon'[m].pc = "none" => DOMAIN mon'[m].list = {}
    BY <1>1, <1>2, DisownLists DEF PlaceInv, Place
  <2> QED BY <1>2, <2>1 DEF Place
<1>5. PlaceInv'
  BY <1>4 DEF PlaceInv
<1>6. \A o : o # id => (Has(o)' <=> Has(o))
  BY HasTaken
<1>7. ASSUME NEW m \in Mons PROVE Honest(m)'
  <2>1. PICK l : l = mon[m].list
    OBVIOUS
  <2>2. PICK r : r = mon'[m].list
    OBVIOUS
  <2>3. /\ DOMAIN r = DOMAIN l
        /\ \A k \in DOMAIN l :
             /\ r[k].id = l[k].id /\ r[k].status = l[k].status
             /\ l[k].id = id => r[k].op = "none"
             /\ l[k].id # id => r[k] = l[k]
    BY <1>1, <2>1, <2>2, DisownLists
  <2> SUFFICES ASSUME ~mon[m].cancelled, mon[m].pc = "wait", NEW k \in DOMAIN r,
                      r[k].status = "success", IsLast(r, k)
               PROVE  /\ r[k].op = "add" => Has(r[k].id)'
                      /\ r[k].op = "remove" => ~Has(r[k].id)'
    BY <1>2, <2>2 DEF Honest, Correct, Has, Busy
  <2>4. IsLast(l, k) /\ l[k].status = "success"
    BY <2>3 DEF IsLast
  <2>5. Correct(l[k])
    BY <1>1, <2>1, <2>3, <2>4 DEF Honest
  <2> QED BY <1>6, <2>3, <2>5 DEF Correct
<1>8. ASSUME NEW v \in Versions PROVE Sync(v)'
  <2>1. \A p \in Els(dscp_policy_table') \cup Els(rules'[v]) :
          p.id # id => SameRule(v, p)'
    BY <1>1, SyncKept
  <2>2. \A p \in Els(dscp_policy_table') \cup Els(rules'[v]) : p.id # id
    BY InEls
  <2>3. Els(rules[v])' = Els(rules'[v])
    BY DEF Els
  <2>4. Els(dscp_policy_table)' = Els(dscp_policy_table')
    BY DEF Els
  <2>5. \A m \in Mons : HandRule(v, m)'
    BY <1>2 DEF HandRule
  <2> QED BY <2>1, <2>2, <2>3, <2>4, <2>5 DEF Sync
<1>9. RulesInv'
  BY <1>1, <1>8 DEF RulesInv, Unique
<1> QED BY <1>3, <1>5, <1>7, <1>9 DEF AnswerInv

(* cmd_sta_send_frame_dscp_response().                                     *)
LEMMA AnswerFrame ==
  ASSUME DInv, AnswerInv, alone, alone', NEW id \in Ids, FrameRemove(id)
  PROVE  AnswerInv'
<1>1. /\ TypeInv /\ Unique(dscp_policy_table) /\ server \in ServerState
      /\ OwnerInv /\ PlaceInv /\ \A m \in Mons : Honest(m)
      /\ server.pc = "idle" /\ Has(id)
      /\ dscp_policy_mon_thread' = dscp_policy_mon_thread
      /\ \A m \in Mons : mon[m].pc \in {"none", "ended", "wait"}
      /\ \A v \in Versions : Unique(rules[v]) /\ Sync(v)
  BY DEF DInv, AnswerInv, RulesInv, FrameRemove, Touches, Live
<1>2. \A o : ~InHand(o)
  BY <1>1 DEF InHand
<1>3. PICK s : s = [server EXCEPT !.n = @ + 1]
  OBVIOUS
<1>4. s \in ServerState /\ s.pc = server.pc /\ s.id = server.id
  BY <1>1, <1>3 DEF ServerState
<1>5. CASE /\ Entry(id).name # <<>> /\ Disown(id) /\ server' = s /\ UNCHANGED rules
           /\ dscp_policy_table' = Without(dscp_policy_table, id)
  <2>1. Entry(id).name # <<>>
    BY <1>1, <1>5, EntryProps
  <2>2. \A v \in Versions : ~In(rules[v], id)
    BY <1>1, <1>2, <2>1, NoRule
  <2>3. Els(dscp_policy_table') = {p \in Els(dscp_policy_table) : p.id # id}
    BY <1>1, <1>5, TakeEntry
  <2> QED BY <1>1, <1>2, <1>4, <1>5, <2>2, <2>3, AnswerDisowned DEF Live
<1>6. CASE /\ rules' = [rules EXCEPT ![Entry(id).ver] = Without(@, id)]
           /\ server' = [pc |-> "unlink", id |-> id, n |-> server.n + 1]
           /\ UNCHANGED <<dscp_policy_table, mon>>
  <2>1. server' \in ServerState /\ server'.pc = "unlink" /\ server'.id = id
    BY <1>1, <1>6 DEF ServerState
  <2>2. \A v \in Versions :
          /\ Unique(rules'[v]) /\ ~In(rules'[v], id)
          /\ Els(rules'[v]) = {p \in Els(rules[v]) : p.id # id}
    BY <1>1, <1>2, <1>6, TakeRule
  <2>3. OwnerInv'
    BY <1>1, <1>6, <2>1 DEF OwnerInv, Live
  <2>4. PlaceInv'
    BY <1>1, <1>6, <2>1 DEF PlaceInv, Place
  <2>5. \A m \in Mons : Honest(m)'
    BY <1>1, <1>6 DEF Honest, Correct, Has
  <2>6. ASSUME NEW v \in Versions PROVE Sync(v)'
    <3>1. \A p \in Els(dscp_policy_table') \cup Els(rules'[v]) :
            p.id # id => SameRule(v, p)'
      BY <1>1, <1>2, <1>6, <2>2, SyncKept
    <3>2. Els(rules[v])' = Els(rules'[v])
      BY DEF Els
    <3>3. Els(dscp_policy_table)' = Els(dscp_policy_table')
      BY DEF Els
    <3>4. InHand(id)'
      BY <2>1 DEF InHand
    <3>5. ~In(rules[v], server.id)'
      BY <2>1, <2>2 DEF In
    <3>6. \A m \in Mons : HandRule(v, m)'
      BY <1>1, <1>6 DEF HandRule
    <3> QED BY <3>1, <3>2, <3>3, <3>4, <3>5, <3>6 DEF Sync
  <2>7. RulesInv'
    BY <2>2, <2>6 DEF RulesInv, Unique
  <2> QED BY <2>1, <2>3, <2>4, <2>5, <2>7 DEF AnswerInv
<1>7. CASE server' = s /\ UNCHANGED <<dscp_policy_table, rules, mon>>
  BY <1>1, <1>4, <1>7, AnswerSame
<1> QED BY <1>3, <1>5, <1>6, <1>7, Zenon DEF FrameRemove

LEMMA AnswerFrameUnlink ==
  ASSUME DInv, AnswerInv, alone, alone', FrameUnlink
  PROVE  AnswerInv'
<1>1. PICK id : id = server.id
  OBVIOUS
<1>2. PICK s : s = [server EXCEPT !.pc = "idle"]
  OBVIOUS
<1>3. /\ TypeInv /\ Unique(dscp_policy_table) /\ server.pc = "unlink"
      /\ server \in ServerState /\ Disown(id) /\ server' = s /\ rules' = rules
      /\ dscp_policy_table' = Without(dscp_policy_table, id)
      /\ dscp_policy_mon_thread' = dscp_policy_mon_thread
      /\ \A m \in Mons : Live(m) => mon[m].pc = "wait"
  BY <1>1, <1>2 DEF DInv, AnswerInv, FrameUnlink, Touches
<1>4. s \in ServerState /\ s.pc = "idle"
  BY <1>2, <1>3 DEF ServerState
<1>5. \A o : InHand(o) => o = id
  BY <1>1, <1>3 DEF InHand, Live
<1>6. \A v \in Versions : ~In(rules[v], id)
  BY <1>1, <1>3 DEF AnswerInv, RulesInv, Sync, Live
<1>7. Els(dscp_policy_table') = {p \in Els(dscp_policy_table) : p.id # id}
  BY <1>3, TakeEntry
<1> QED BY <1>3, <1>4, <1>5, <1>6, <1>7, AnswerDisowned

LEMMA AnswerInitGood == DscpInit => AnswerInv
<1> SUFFICES ASSUME DscpInit PROVE AnswerInv
  OBVIOUS
<1>1. AnyId \in Ids
  BY DscpAssumption DEF AnyId
<1>2. /\ dscp_policy_table = <<>> /\ \A v \in Versions : rules[v] = <<>>
      /\ server \in ServerState /\ server.pc = "idle"
      /\ \A m \in Mons : mon[m].pc = "none" /\ DOMAIN mon[m].list = {}
  BY <1>1 DEF DscpInit, ServerState
<1>3. Els(dscp_policy_table) = {} /\ \A v \in Versions : Els(rules[v]) = {}
  BY <1>2 DEF Els
<1>4. OwnerInv /\ PlaceInv
  BY <1>2 DEF OwnerInv, PlaceInv, Place, Live
<1>5. \A m \in Mons : Honest(m)
  BY <1>2 DEF Honest, Busy
<1>6. \A v \in Versions : Unique(rules[v])
  BY <1>2 DEF Unique
<1>7. \A v \in Versions : Sync(v)
  BY <1>2, <1>3 DEF Sync, HandRule
<1> QED BY <1>2, <1>4, <1>5, <1>6, <1>7 DEF AnswerInv, RulesInv

LEMMA AnswerStepGood ==
  DInv /\ AnswerInv /\ [DscpNext]_dscpVars => AnswerInv'
<1> SUFFICES ASSUME DInv, AnswerInv, [DscpNext]_dscpVars PROVE AnswerInv'
  OBVIOUS
<1>1. server \in ServerState
  BY DEF AnswerInv
<1>2. CASE UNCHANGED dscpVars
  <2>1. UNCHANGED <<dscp_policy_table, rules, mon, dscp_policy_mon_thread,
                    server, alone>>
    BY <1>2 DEF dscpVars
  <2>2. CASE alone
    BY <1>1, <2>1, <2>2, AnswerSame
  <2>3. CASE ~alone
    BY <1>1, <2>1, <2>3 DEF AnswerInv
  <2> QED BY <2>2, <2>3
<1>3. CASE DscpNext
  <2>1. alone
    BY <1>3 DEF DscpNext
  <2>2. CASE \/ \E op \in {"start", "clear"} : ApRequest(op)
             \/ \E e \in Item : ApItem(e)
             \/ ApEnd \/ ApLeaves
             \/ \E b \in BOOLEAN : SetReject(b)
    <3>1. UNCHANGED <<dscp_policy_table, rules, mon, dscp_policy_mon_thread,
                      server>>
      BY <2>2 DEF ApRequest, ApItem, ApEnd, ApLeaves, SetReject
    <3> QED BY <1>1, <2>1, <3>1, AnswerSame
  <2>3. ASSUME NEW m \in Mons,
               MonOpen(m) \/ MonTake(m) \/ MonAnswer(m) \/ MonCancelled(m)
        PROVE  AnswerInv'
    BY <2>1, <2>3, AnswerQuietSteps
  <2>4. ASSUME NEW m \in Mons,
               \/ MonClear(m) \/ MonFlush(m) \/ MonFree(m) \/ MonRemove(m)
               \/ MonUnlink(m) \/ MonAdd(m) \/ MonLink(m) \/ Associate(m)
        PROVE  AnswerInv'
    <3>1. server' = server
      BY <2>4 DEF MonClear, MonFlush, MonFree, MonRemove, MonUnlink, MonAdd,
                  MonLink, Associate
    <3>2. CASE alone'
      BY <2>1, <2>4, <3>2, AnswerClear, AnswerRemove, AnswerUnlink, AnswerAdd,
         AnswerLink, AnswerAssociate
    <3>3. CASE ~alone'
      BY <1>1, <3>1, <3>3 DEF AnswerInv
    <3> QED BY <3>2, <3>3
  <2>5. CASE \/ ResetStop \/ ResetClear \/ ResetFlush
             \/ \E id \in Ids : FrameRemove(id)
             \/ FrameUnlink
    <3>1. CASE alone'
      BY <2>1, <2>5, <3>1, AnswerReset, AnswerFrame, AnswerFrameUnlink
    <3>2. CASE ~alone'
      <4>1. server' \in ServerState
        <5>1. server.n \in Nat /\ server.n + 1 \in Nat
          BY <1>1 DEF ServerState
        <5>2. CASE \E id \in Ids : FrameRemove(id)
          <6>1. PICK id \in Ids : FrameRemove(id)
            BY <5>2
          <6>2. \/ server' = [server EXCEPT !.n = @ + 1]
                \/ server' = [pc |-> "unlink", id |-> id, n |-> server.n + 1]
            BY <6>1 DEF FrameRemove
          <6>3. [server EXCEPT !.n = @ + 1] \in ServerState
            BY <1>1, <5>1 DEF ServerState
          <6>4. [pc |-> "unlink", id |-> id, n |-> server.n + 1] \in ServerState
            BY <5>1 DEF ServerState
          <6> QED BY <6>2, <6>3, <6>4
        <5>3. CASE ResetStop
          <6>1. server' = [server EXCEPT !.pc = "clear", !.n = @ + 1]
            BY <5>3 DEF ResetStop
          <6> QED BY <1>1, <5>1, <6>1 DEF ServerState
        <5>4. CASE ResetClear \/ ResetFlush \/ FrameUnlink
          BY <1>1, <5>4 DEF ResetClear, ResetFlush, FrameUnlink, ServerState
        <5> QED BY <2>5, <5>2, <5>3, <5>4
      <4> QED BY <3>2, <4>1 DEF AnswerInv
    <3> QED BY <3>1, <3>2
  <2> QED BY <1>3, <2>2, <2>3, <2>4, <2>5 DEF DscpNext
<1> QED BY <1>2, <1>3

(* The last word that a response has on a policy is so when it is sent,    *)
(* for any number of policies, threads, requests and commands: what the    *)
(* monitor says it added is in dut->dscp_policy_table, with a rule if it   *)
(* has no domain name, and of what it says it removed neither the policy   *)
(* nor a rule is left, whatever commands failed before.                    *)
THEOREM AnswersCorrect == DscpSpec => []AnswersTruthful
<1>1. DInv /\ AnswerInv => AnswersTruthful
  <2> SUFFICES ASSUME DInv, AnswerInv, alone, server.pc = "idle",
                      NEW m \in Mons, mon[m].pc = "answer", ~mon[m].cancelled
               PROVE  LET list == mon[m].list IN
                        \A k \in DOMAIN list :
                          /\ list[k].status = "success"
                          /\ \A j \in DOMAIN list : j > k => list[j].id # list[k].id
                          => LET id == list[k].id IN
                               /\ list[k].op = "add" =>
                                    Has(id) /\ (HasRule(id) <=> Entry(id).name = <<>>)
                               /\ list[k].op = "remove" => ~Has(id) /\ ~HasRule(id)
    BY DEF AnswersTruthful
  <2>1. Live(m) /\ TypeInv /\ Unique(dscp_policy_table)
    BY DEF Live, DInv
  <2>2. /\ Honest(m) /\ \A o : ~InHand(o)
        /\ \A v \in Versions : Sync(v)
    BY <2>1, Working
  <2>3. PICK l : l = mon[m].list
    OBVIOUS
  <2>4. \A o : HasRule(o) <=> \E v \in Versions : In(rules[v], o)
    BY DEF HasRule, In
  <2>5. ASSUME NEW k \in DOMAIN l, l[k].status = "success", IsLast(l, k)
        PROVE  Correct(l[k])
    BY <2>2, <2>3, <2>5 DEF Honest
  <2>6. ASSUME NEW id, Has(id) PROVE HasRule(id) <=> Entry(id).name = <<>>
    <3>1. /\ Entry(id) \in Els(dscp_policy_table) /\ Entry(id).id = id
          /\ Entry(id).ver \in Versions
      BY <2>1, <2>6, EntryProps
    <3>2. ASSUME Entry(id).name = <<>> PROVE HasRule(id)
      <4>0. PICK p : p = Entry(id)
        OBVIOUS
      <4>1. PICK v \in Versions : p = Entry(id) /\ v = Entry(id).ver
        BY <3>1, <4>0
      <4>2. SameRule(v, p)
        BY <2>2, <3>1, <4>1 DEF Sync
      <4>3. p \in Els(rules[v])
        BY <3>1, <3>2, <4>1, <4>2 DEF SameRule
      <4>4. In(rules[v], id)
        BY <3>1, <4>1, <4>3, InEls
      <4> QED BY <2>4, <4>4
    <3>3. ASSUME Entry(id).name # <<>> PROVE ~HasRule(id)
      <4>1. \A v \in Versions : ~In(rules[v], id)
        BY <2>1, <2>2, <3>3, NoRule
      <4> QED BY <2>4, <4>1
    <3> QED BY <3>2, <3>3
  <2>7. ASSUME NEW id, ~Has(id) PROVE ~HasRule(id)
    <3>1. \A v \in Versions : ~In(rules[v], id)
      BY <2>1, <2>2, <2>7, NoRule
    <3> QED BY <2>4, <3>1
  <2> QED BY <2>3, <2>5, <2>6, <2>7 DEF IsLast, Correct
<1>2. DscpInit => DInv /\ AnswerInv
  BY DscpInitGood, AnswerInitGood
<1>3. DInv /\ AnswerInv /\ [DscpNext]_dscpVars => (DInv /\ AnswerInv)'
  BY DscpStepGood, AnswerStepGood
<1> QED BY <1>1, <1>2, <1>3, PTL DEF DscpSpec

-----------------------------------------------------------------------------
(* The order of the chains.                                                *)

Graded(s) == \A j, k \in DOMAIN s : j < k => s[j].score <= s[k].score

(* The policies of a sequence that are in another one too come there in    *)
(* the same order.                                                         *)
SameOrder(c, t) ==
  \A i, j \in DOMAIN c : \A a, b \in DOMAIN t :
    i < j /\ t[a].id = c[i].id /\ t[b].id = c[j].id => a < b

(* The table once the policy that a thread adds is in it.                  *)
Linked(e) ==
  InsertAt(dscp_policy_table, Len(Coarser(e.kind.score)) + 1, NewPolicy(e))

OrderInv ==
  alone =>
    /\ Graded(dscp_policy_table)
    /\ \A v \in Versions :
         Graded(rules[v]) /\ SameOrder(rules[v], dscp_policy_table)
    /\ \A m \in Mons : mon[m].pc = "link" /\ mon[m].ev.kind.name = <<>> =>
         SameOrder(rules[mon[m].ev.kind.ver], Linked(mon[m].ev))

(* One sequence is another one with elements taken out.                    *)
Thinned(r, s) ==
  \E f \in [DOMAIN r -> DOMAIN s] :
    /\ \A k \in DOMAIN r : r[k] = s[f[k]]
    /\ \A j, k \in DOMAIN r : j < k => f[j] < f[k]

LEMMA ThinnedSame ==
  ASSUME NEW s PROVE Thinned(s, s)
<1> DEFINE f == [k \in DOMAIN s |-> k]
<1>1. f \in [DOMAIN s -> DOMAIN s]
  OBVIOUS
<1>2. /\ \A k \in DOMAIN s : s[k] = s[f[k]]
      /\ \A j, k \in DOMAIN s : j < k => f[j] < f[k]
  OBVIOUS
<1> QED BY <1>1, <1>2 DEF Thinned

LEMMA ThinnedEmpty ==
  ASSUME NEW s PROVE Thinned(<<>>, s)
<1> DEFINE f == [k \in {} |-> k]
<1>1. DOMAIN <<>> = {}
  OBVIOUS
<1>2. f \in [DOMAIN <<>> -> DOMAIN s]
  BY <1>1
<1> QED BY <1>1, <1>2 DEF Thinned

LEMMA ThinnedWithout ==
  ASSUME NEW s \in Seq(Policy), NEW id
  PROVE  Thinned(Without(s, id), s)
<1>1. CASE ~In(s, id)
  <2>1. Without(s, id) = s
    BY <1>1 DEF Without, In
  <2> QED BY <2>1, ThinnedSame
<1>2. CASE In(s, id)
  <2>1. PICK i : i = At(s, id)
    OBVIOUS
  <2>2. i \in DOMAIN s
    BY <1>2, <2>1, AtIsFirst
  <2>3. PICK r : r = RemoveAt(s, i)
    OBVIOUS
  <2>4. \A k \in DOMAIN r :
          /\ k \in Int
          /\ r[k] = s[IF k < i THEN k ELSE k + 1]
          /\ (IF k < i THEN k ELSE k + 1) \in DOMAIN s
    BY <2>2, <2>3, RemoveAtProps
  <2>5. Without(s, id) = r
    BY <1>2, <2>1, <2>3 DEF Without, In
  <2> DEFINE f == [k \in DOMAIN r |-> IF k < i THEN k ELSE k + 1]
  <2>6. f \in [DOMAIN r -> DOMAIN s] /\ \A k \in DOMAIN r : r[k] = s[f[k]]
    BY <2>4
  <2>7. ASSUME NEW j \in DOMAIN r, NEW k \in DOMAIN r, j < k
        PROVE  f[j] < f[k]
    <3>1. j \in Int /\ k \in Int /\ i \in Int
      BY <2>2, <2>4
    <3> QED BY <2>7, <3>1
  <2>8. Thinned(r, s)
    BY <2>6, <2>7 DEF Thinned
  <2> QED BY <2>5, <2>8
<1> QED BY <1>1, <1>2

(* Taking elements out, of either sequence, keeps the order.               *)
LEMMA ThinnedOrder ==
  ASSUME NEW c \in Seq(Policy), NEW t \in Seq(Policy),
         NEW d \in Seq(Policy), NEW u \in Seq(Policy),
         Thinned(d, c), Thinned(u, t), SameOrder(c, t)
  PROVE  SameOrder(d, u)
<1>1. PICK f \in [DOMAIN d -> DOMAIN c] :
        /\ \A k \in DOMAIN d : d[k] = c[f[k]]
        /\ \A j, k \in DOMAIN d : j < k => f[j] < f[k]
  BY DEF Thinned
<1>2. PICK g \in [DOMAIN u -> DOMAIN t] :
        /\ \A k \in DOMAIN u : u[k] = t[g[k]]
        /\ \A j, k \in DOMAIN u : j < k => g[j] < g[k]
  BY DEF Thinned
<1> SUFFICES ASSUME NEW i \in DOMAIN d, NEW j \in DOMAIN d,
                    NEW a \in DOMAIN u, NEW b \in DOMAIN u,
                    i < j, u[a].id = d[i].id, u[b].id = d[j].id
             PROVE  a < b
  BY DEF SameOrder
<1>3. f[i] \in DOMAIN c /\ f[j] \in DOMAIN c /\ f[i] < f[j]
  BY <1>1
<1>4. g[a] \in DOMAIN t /\ g[b] \in DOMAIN t
  BY <1>2
<1>5. t[g[a]].id = c[f[i]].id /\ t[g[b]].id = c[f[j]].id
  BY <1>1, <1>2
<1>6. g[a] < g[b]
  BY <1>3, <1>4, <1>5 DEF SameOrder
<1>7. a \in Int /\ b \in Int /\ g[a] \in Int /\ g[b] \in Int
  BY <1>4
<1>8. ~(b < a) /\ a # b
  BY <1>2, <1>6, <1>7
<1> QED BY <1>7, <1>8

LEMMA ThinnedGraded ==
  ASSUME NEW r, NEW s, Thinned(r, s), Graded(s) PROVE Graded(r)
<1>1. PICK f \in [DOMAIN r -> DOMAIN s] :
        /\ \A k \in DOMAIN r : r[k] = s[f[k]]
        /\ \A j, k \in DOMAIN r : j < k => f[j] < f[k]
  BY DEF Thinned
<1> SUFFICES ASSUME NEW j \in DOMAIN r, NEW k \in DOMAIN r, j < k
             PROVE  r[j].score <= r[k].score
  BY DEF Graded
<1>2. f[j] \in DOMAIN s /\ f[k] \in DOMAIN s /\ f[j] < f[k]
  BY <1>1
<1>3. s[f[j]].score <= s[f[k]].score
  BY <1>2 DEF Graded
<1> QED BY <1>1, <1>3

(* A policy is put in between those that are less and more granular.       *)
LEMMA InsertGraded ==
  ASSUME NEW s \in Seq(Policy), NEW p \in Policy, NEW i \in 1..(Len(s) + 1),
         Graded(s),
         \A k \in DOMAIN s : /\ k < i => s[k].score <= p.score
                             /\ ~(k < i) => p.score <= s[k].score
  PROVE  Graded(InsertAt(s, i, p))
<1>1. PICK r : r = InsertAt(s, i, p)
  OBVIOUS
<1>2. \A k \in DOMAIN r : /\ k \in Int
                          /\ k = i => r[k] = p
                          /\ k < i => r[k] = s[k] /\ k \in DOMAIN s
                          /\ k > i => r[k] = s[k - 1] /\ k - 1 \in DOMAIN s
  BY <1>1, InsertAtPlaces
<1>3. i \in Int /\ \A k \in DOMAIN s : k \in Int
  OBVIOUS
<1> SUFFICES ASSUME NEW j \in DOMAIN r, NEW k \in DOMAIN r, j < k
             PROVE  r[j].score <= r[k].score
  BY <1>1 DEF Graded
<1>4. j \in Int /\ k \in Int
  BY <1>2
<1>5. CASE j < i /\ k < i
  <2>1. r[j] = s[j] /\ r[k] = s[k] /\ j \in DOMAIN s /\ k \in DOMAIN s
    BY <1>2, <1>5
  <2> QED BY <2>1 DEF Graded
<1>6. CASE j < i /\ k = i
  BY <1>2, <1>6
<1>7. CASE j < i /\ k > i
  <2>1. r[j] = s[j] /\ r[k] = s[k - 1] /\ j \in DOMAIN s /\ k - 1 \in DOMAIN s
    BY <1>2, <1>7
  <2>2. j < k - 1
    BY <1>3, <1>4, <1>7
  <2> QED BY <2>1, <2>2 DEF Graded
<1>8. CASE j = i
  <2>1. r[j] = p /\ r[k] = s[k - 1] /\ k - 1 \in DOMAIN s
    BY <1>2, <1>8
  <2>2. ~(k - 1 < i)
    BY <1>3, <1>4, <1>8
  <2> QED BY <2>1, <2>2
<1>9. CASE j > i
  <2>1. r[j] = s[j - 1] /\ r[k] = s[k - 1] /\ j - 1 \in DOMAIN s
        /\ k - 1 \in DOMAIN s
    BY <1>2, <1>3, <1>4, <1>9
  <2>2. j - 1 < k - 1
    BY <1>4
  <2> QED BY <2>1, <2>2 DEF Graded
<1> QED BY <1>3, <1>4, <1>5, <1>6, <1>7, <1>8, <1>9

(* A policy that has no rule is put in the table.                          *)
LEMMA InsertUnruled ==
  ASSUME NEW c \in Seq(Policy), NEW t \in Seq(Policy), NEW p \in Policy,
         NEW i \in 1..(Len(t) + 1), SameOrder(c, t), ~In(c, p.id)
  PROVE  SameOrder(c, InsertAt(t, i, p))
<1>1. PICK u : u = InsertAt(t, i, p)
  OBVIOUS
<1>2. \A k \in DOMAIN u : /\ k \in Int
                          /\ k = i => u[k] = p
                          /\ k < i => u[k] = t[k] /\ k \in DOMAIN t
                          /\ k > i => u[k] = t[k - 1] /\ k - 1 \in DOMAIN t
  BY <1>1, InsertAtPlaces
<1> SUFFICES ASSUME NEW j \in DOMAIN c, NEW k \in DOMAIN c,
                    NEW a \in DOMAIN u, NEW b \in DOMAIN u,
                    j < k, u[a].id = c[j].id, u[b].id = c[k].id
             PROVE  a < b
  BY <1>1 DEF SameOrder
<1> DEFINE Old(n) == IF n < i THEN n ELSE n - 1
<1>3. a \in Int /\ b \in Int /\ i \in Int
  BY <1>2
<1>4. a # i /\ b # i
  BY <1>2 DEF In
<1>5. /\ Old(a) \in DOMAIN t /\ u[a] = t[Old(a)]
      /\ Old(b) \in DOMAIN t /\ u[b] = t[Old(b)]
  BY <1>2, <1>3, <1>4
<1>6. Old(a) < Old(b)
  BY <1>5 DEF SameOrder
<1> QED BY <1>3, <1>4, <1>6

(* A rule is put in the chain, at a place that fits the one that its       *)
(* policy will have in the table.                                          *)
LEMMA InsertRuled ==
  ASSUME NEW c \in Seq(Policy), NEW t \in Seq(Policy), NEW p \in Policy,
         NEW q \in 1..(Len(c) + 1), NEW n \in 0..Len(t),
         SameOrder(c, t), ~In(t, p.id), ~In(c, p.id),
         \A k \in DOMAIN c, a \in DOMAIN t :
           t[a].id = c[k].id => (a <= n <=> k < q)
  PROVE  SameOrder(InsertAt(c, q, p), InsertAt(t, n + 1, p))
<1>0. Len(t) \in Nat /\ n + 1 \in 1..(Len(t) + 1)
  OBVIOUS
<1>1. PICK d : d = InsertAt(c, q, p)
  OBVIOUS
<1>2. \A k \in DOMAIN d : /\ k \in Int
                          /\ k = q => d[k] = p
                          /\ k < q => d[k] = c[k] /\ k \in DOMAIN c
                          /\ k > q => d[k] = c[k - 1] /\ k - 1 \in DOMAIN c
  BY <1>1, InsertAtPlaces
<1>3. PICK u : u = InsertAt(t, n + 1, p)
  OBVIOUS
<1>4. \A k \in DOMAIN u :
        /\ k \in Int
        /\ k = n + 1 => u[k] = p
        /\ k < n + 1 => u[k] = t[k] /\ k \in DOMAIN t
        /\ k > n + 1 => u[k] = t[k - 1] /\ k - 1 \in DOMAIN t
  BY <1>0, <1>3, InsertAtPlaces
<1> SUFFICES ASSUME NEW i \in DOMAIN d, NEW j \in DOMAIN d,
                    NEW a \in DOMAIN u, NEW b \in DOMAIN u,
                    i < j, u[a].id = d[i].id, u[b].id = d[j].id
             PROVE  a < b
  BY <1>1, <1>3 DEF SameOrder
<1> DEFINE InC(k) == IF k < q THEN k ELSE k - 1
           InT(k) == IF k < n + 1 THEN k ELSE k - 1
<1>5. /\ a \in Int /\ b \in Int /\ i \in Int /\ j \in Int
      /\ q \in Int /\ n \in Int
  BY <1>2, <1>4
<1>6. \A k \in DOMAIN d : k # q => InC(k) \in DOMAIN c /\ d[k] = c[InC(k)]
  BY <1>2, <1>5
<1>7. \A k \in DOMAIN u : k # n + 1 => InT(k) \in DOMAIN t /\ u[k] = t[InT(k)]
  BY <1>4, <1>5
<1>8. ASSUME NEW k \in DOMAIN d, NEW x \in DOMAIN u, u[x].id = d[k].id
      PROVE  k = q <=> x = n + 1
  BY <1>2, <1>4, <1>6, <1>7, <1>8 DEF In
<1>9. ASSUME NEW k \in DOMAIN d, NEW x \in DOMAIN u, u[x].id = d[k].id, k # q
      PROVE  /\ InC(k) \in DOMAIN c /\ InT(x) \in DOMAIN t
             /\ t[InT(x)].id = c[InC(k)].id
             /\ x < n + 1 <=> k < q
  <2>1. x # n + 1
    BY <1>8, <1>9
  <2>2. /\ InC(k) \in DOMAIN c /\ InT(x) \in DOMAIN t
        /\ t[InT(x)].id = c[InC(k)].id
    BY <1>6, <1>7, <1>9, <2>1
  <2>3. InT(x) <= n <=> InC(k) < q
    BY <2>2
  <2>4. k \in Int /\ x \in Int
    BY <1>2, <1>4
  <2>5. (InT(x) <= n <=> x < n + 1) /\ (InC(k) < q <=> k < q)
    BY <1>5, <1>9, <2>1, <2>4
  <2> QED BY <2>2, <2>3, <2>5
<1>10. CASE i = q
  <2>1. a = n + 1 /\ j # q /\ ~(j < q)
    BY <1>5, <1>8, <1>10
  <2>2. ~(b < n + 1) /\ b # n + 1
    BY <1>8, <1>9, <2>1
  <2> QED BY <1>5, <2>1, <2>2
<1>11. CASE j = q
  <2>1. b = n + 1 /\ i # q /\ i < q
    BY <1>5, <1>8, <1>11
  <2>2. a < n + 1
    BY <1>9, <2>1
  <2> QED BY <1>5, <2>1, <2>2
<1>12. CASE i # q /\ j # q
  <2>1. InC(i) < InC(j)
    BY <1>5, <1>12
  <2>2. InT(a) < InT(b)
    BY <1>9, <1>12, <2>1 DEF SameOrder
  <2>3. a # n + 1 /\ b # n + 1
    BY <1>8, <1>12
  <2> QED BY <1>5, <2>2, <2>3
<1> QED BY <1>10, <1>11, <1>12

-----------------------------------------------------------------------------
(* Where the rules of the first policies of a table stand in the chain.    *)

RuledOf(t, v, n) == {k \in 1..n : t[k].name = <<>> /\ t[k].ver = v}

LEMMA InitialSegment ==
  ASSUME NEW n \in Nat, NEW S \in SUBSET (1..n),
         \A j \in S, i \in 1..n : i < j => i \in S
  PROVE  \E m \in 0..n : S = 1..m
<1> DEFINE T == {k \in 1..(n + 1) : k \notin S}
<1>1. T \in SUBSET Nat /\ n + 1 \in T
  OBVIOUS
<1>2. PICK k \in T : \A j \in T : k <= j
  BY <1>1, Least
<1>3. k - 1 \in 0..n
  BY <1>2
<1>4. S \subseteq 1..(k - 1)
  <2> SUFFICES ASSUME NEW j \in S, j >= k PROVE FALSE
    BY <1>2
  <2>1. k # j /\ k \in 1..n /\ k < j
    BY <1>2
  <2> QED BY <1>2, <2>1
<1>5. 1..(k - 1) \subseteq S
  <2> SUFFICES ASSUME NEW j \in 1..(k - 1), j \notin S PROVE FALSE
    OBVIOUS
  <2>1. j \in T
    BY <1>2
  <2> QED BY <1>2, <2>1
<1> QED BY <1>3, <1>4, <1>5

(* In a chain that has the rules of a table in its order, those of the     *)
(* first n policies are the first ones: as many as add_iptable_rule()      *)
(* counts.                                                                 *)
LEMMA RulesOfFirst ==
  ASSUME NEW c \in Seq(Policy), NEW t \in Seq(Policy), NEW v,
         Unique(c), Unique(t), SameOrder(c, t),
         \A p \in Els(t) \cup Els(c) :
           p \in Els(c) <=> p \in Els(t) /\ p.name = <<>> /\ p.ver = v,
         NEW n \in 0..Len(t)
  PROVE  /\ IsFiniteSet(RuledOf(t, v, n))
         /\ Cardinality(RuledOf(t, v, n)) \in 0..Len(c)
         /\ \A k \in DOMAIN c, a \in DOMAIN t : t[a].id = c[k].id =>
              (a <= n <=> k <= Cardinality(RuledOf(t, v, n)))
<1> DEFINE R == RuledOf(t, v, n)
           S == {k \in DOMAIN c : \E a \in R : t[a].id = c[k].id}
<1>1. /\ DOMAIN c = 1..Len(c) /\ Len(c) \in Nat
      /\ DOMAIN t = 1..Len(t) /\ Len(t) \in Nat /\ n \in Nat /\ n <= Len(t)
  OBVIOUS
<1>2. R \subseteq DOMAIN t /\ R \subseteq 1..n
  BY <1>1 DEF RuledOf
<1>3. \A k \in DOMAIN c : \E a \in DOMAIN t : t[a] = c[k]
  BY DEF Els
<1>4. \A a \in R : \E k \in DOMAIN c : t[a] = c[k]
  <2> SUFFICES ASSUME NEW a \in R PROVE \E k \in DOMAIN c : t[a] = c[k]
    OBVIOUS
  <2>1. t[a] \in Els(t) /\ t[a].name = <<>> /\ t[a].ver = v
    BY <1>2 DEF Els, RuledOf
  <2>2. t[a] \in Els(c)
    BY <2>1
  <2> QED BY <2>2 DEF Els
<1>5. ASSUME NEW k \in DOMAIN c, NEW a \in DOMAIN t, t[a].id = c[k].id
      PROVE  t[a] = c[k] /\ (a <= n <=> a \in R)
  <2>1. PICK b \in DOMAIN t : t[b] = c[k]
    BY <1>3
  <2>2. t[a] = c[k]
    BY <1>5, <2>1 DEF Unique
  <2>3. c[k] \in Els(c)
    BY DEF Els
  <2>4. t[a].name = <<>> /\ t[a].ver = v
    BY <2>2, <2>3
  <2>5. a <= n <=> a \in R
    BY <1>1, <2>4 DEF RuledOf
  <2> QED BY <2>2, <2>5
<1>6. ASSUME NEW k \in S, NEW j \in 1..Len(c), j < k PROVE j \in S
  <2>1. PICK a \in R : t[a].id = c[k].id
    OBVIOUS
  <2>2. j \in DOMAIN c /\ k \in DOMAIN c /\ a \in DOMAIN t
    BY <1>1, <1>2
  <2>3. PICK b \in DOMAIN t : t[b] = c[j]
    BY <1>3, <2>2
  <2>4. b < a
    BY <1>6, <2>1, <2>2, <2>3 DEF SameOrder
  <2>5. a \in Int /\ b \in Int /\ a <= n
    BY <1>1, <1>2, <2>2
  <2>6. b \in R
    BY <1>5, <2>2, <2>3, <2>4, <2>5
  <2> QED BY <2>2, <2>3, <2>6
<1>7. S \in SUBSET (1..Len(c))
  BY <1>1
<1>8. PICK m \in 0..Len(c) : S = 1..m
  BY <1>1, <1>6, <1>7, InitialSegment
<1>9. IsFiniteSet(R)
  <2>1. IsFiniteSet(1..n)
    BY <1>1, FS_Interval
  <2>2. R \in SUBSET (1..n)
    BY <1>2
  <2> QED BY <2>1, <2>2, FS_Subset
<1>10. Cardinality(R) = m
  <2> DEFINE f == [a \in R |-> CHOOSE k \in DOMAIN c : t[a] = c[k]]
  <2>1. \A a \in R : f[a] \in DOMAIN c /\ t[a] = c[f[a]]
    BY <1>4
  <2>2. \A a \in R : f[a] \in S
    BY <2>1
  <2>3. \A a, b \in R : f[a] = f[b] => a = b
    BY <1>2, <2>1 DEF Unique
  <2>4. ASSUME NEW k \in S PROVE \E a \in R : f[a] = k
    <3>1. PICK a \in R : t[a].id = c[k].id
      OBVIOUS
    <3>2. f[a] = k
      BY <2>1, <3>1 DEF Unique
    <3> QED BY <3>2
  <2>5. f \in [R -> S]
    BY <2>2
  <2> HIDE DEF f, R, S
  <2>6. f \in Bijection(R, S)
    BY <2>3, <2>4, <2>5 DEF Bijection, Injection, Surjection, IsInjective
  <2>7. Cardinality(S) = Cardinality(R)
    BY <1>9, <2>6, FS_Bijection DEF ExistsBijection
  <2>8. Cardinality(1..m) = m
    BY FS_Interval
  <2> QED BY <1>8, <2>7, <2>8
<1>11. ASSUME NEW k \in DOMAIN c, NEW a \in DOMAIN t, t[a].id = c[k].id
       PROVE  a <= n <=> k <= m
  <2>1. a <= n <=> a \in R
    BY <1>5, <1>11
  <2>2. ASSUME a \in R PROVE k \in S
    BY <1>11, <2>2
  <2>3. ASSUME k \in S PROVE a \in R
    <3>1. PICK b \in R : t[b].id = c[k].id
      BY <2>3
    <3>2. a = b
      BY <1>2, <1>11, <3>1 DEF Unique
    <3> QED BY <3>2
  <2>4. k \in S <=> k <= m
    BY <1>1, <1>8
  <2> QED BY <2>1, <2>2, <2>3, <2>4
<1> QED BY <1>8, <1>9, <1>10, <1>11

(* The rule of a policy is where the count of the rules up to it says.     *)
LEMMA RuleOfEach ==
  ASSUME NEW c \in Seq(Policy), NEW t \in Seq(Policy), NEW v,
         Unique(c), Unique(t), SameOrder(c, t),
         \A p \in Els(t) \cup Els(c) :
           p \in Els(c) <=> p \in Els(t) /\ p.name = <<>> /\ p.ver = v
  PROVE  /\ Len(c) = Cardinality(RuledOf(t, v, Len(t)))
         /\ \A a \in RuledOf(t, v, Len(t)) :
              c[Cardinality(RuledOf(t, v, a))] = t[a]
<1> DEFINE N(n) == Cardinality(RuledOf(t, v, n))
<1>1. /\ DOMAIN c = 1..Len(c) /\ Len(c) \in Nat
      /\ DOMAIN t = 1..Len(t) /\ Len(t) \in Nat
  OBVIOUS
<1>2. \A n \in 0..Len(t) :
        /\ IsFiniteSet(RuledOf(t, v, n)) /\ N(n) \in 0..Len(c)
        /\ \A k \in DOMAIN c, a \in DOMAIN t : t[a].id = c[k].id =>
             (a <= n <=> k <= N(n))
  BY RulesOfFirst
<1>3. \A k \in DOMAIN c : \E a \in DOMAIN t : t[a] = c[k]
  BY DEF Els
<1>4. Len(c) = N(Len(t))
  <2>1. Len(t) \in 0..Len(t)
    BY <1>1
  <2>2. N(Len(t)) \in 0..Len(c)
    BY <1>2, <2>1
  <2>3. ASSUME N(Len(t)) < Len(c) PROVE FALSE
    <3>1. Len(c) \in DOMAIN c
      BY <1>1, <2>2, <2>3
    <3>2. PICK a \in DOMAIN t : t[a] = c[Len(c)]
      BY <1>3, <3>1
    <3>3. a <= Len(t)
      BY <1>1
    <3>4. Len(c) <= N(Len(t))
      BY <1>2, <2>1, <3>1, <3>2, <3>3
    <3> QED BY <1>1, <2>2, <2>3, <3>4
  <2> QED BY <1>1, <2>2, <2>3
<1>5. ASSUME NEW a \in RuledOf(t, v, Len(t)) PROVE c[N(a)] = t[a]
  <2>1. a \in DOMAIN t /\ t[a].name = <<>> /\ t[a].ver = v
    BY <1>1, <1>5 DEF RuledOf
  <2>2. t[a] \in Els(t)
    BY <2>1 DEF Els
  <2>3. t[a] \in Els(c)
    BY <2>1, <2>2
  <2>4. PICK k \in DOMAIN c : c[k] = t[a]
    BY <2>3 DEF Els
  <2>5. a \in 0..Len(t) /\ a - 1 \in 0..Len(t) /\ a <= a /\ ~(a <= a - 1)
    BY <1>1, <2>1
  <2>6. k <= N(a) /\ ~(k <= N(a - 1))
    BY <1>2, <2>1, <2>4, <2>5
  <2>7. RuledOf(t, v, a) = RuledOf(t, v, a - 1) \cup {a}
    <3>1. 1..a = 1..(a - 1) \cup {a}
      BY <1>1, <2>1
    <3> QED BY <2>1, <3>1 DEF RuledOf
  <2>8. a \notin RuledOf(t, v, a - 1)
    BY <1>1, <2>1 DEF RuledOf
  <2>9. N(a) = N(a - 1) + 1
    BY <1>2, <2>5, <2>7, <2>8, FS_AddElement
  <2>10. N(a) \in Int /\ N(a - 1) \in Int /\ k \in Int
    BY <1>1, <1>2, <2>5
  <2>11. k = N(a)
    BY <2>6, <2>9, <2>10
  <2> QED BY <2>4, <2>11
<1> QED BY <1>4, <1>5

LEMMA ThinnedInserted ==
  ASSUME NEW s \in Seq(Policy), NEW p \in Policy, NEW i \in 1..(Len(s) + 1)
  PROVE  Thinned(s, InsertAt(s, i, p))
<1>0. DOMAIN s = 1..Len(s) /\ Len(s) \in Nat /\ i \in Nat
  OBVIOUS
<1>1. PICK r : r = InsertAt(s, i, p)
  OBVIOUS
<1>2. /\ DOMAIN r = 1..(Len(s) + 1)
      /\ \A k \in DOMAIN r : /\ k < i => r[k] = s[k]
                             /\ k > i => r[k] = s[k - 1]
  BY <1>1, InsertAtPlaces
<1> DEFINE f == [k \in DOMAIN s |-> IF k < i THEN k ELSE k + 1]
<1>3. f \in [DOMAIN s -> DOMAIN r]
  BY <1>0, <1>2
<1>4. ASSUME NEW k \in DOMAIN s PROVE s[k] = r[f[k]]
  <2>1. CASE k < i
    BY <1>0, <1>2, <2>1
  <2>2. CASE ~(k < i)
    <3>1. k + 1 \in DOMAIN r /\ k + 1 > i /\ (k + 1) - 1 = k
      BY <1>0, <1>2, <2>2
    <3> QED BY <1>2, <2>2, <3>1
  <2> QED BY <2>1, <2>2
<1>5. \A j, k \in DOMAIN s : j < k => f[j] < f[k]
  BY <1>0
<1>6. Thinned(s, r)
  BY <1>3, <1>4, <1>5 DEF Thinned
<1> QED BY <1>1, <1>6

(* The policies that come before one of a score are the first ones of the  *)
(* table, and, in a table that is in order, those that are not more        *)
(* granular.                                                               *)
LEMMA CoarserPlace ==
  ASSUME dscp_policy_table \in Seq(Policy), NEW score \in Nat
  PROVE  LET n == Len(Coarser(score)) IN
           /\ n \in 0..Len(dscp_policy_table)
           /\ DOMAIN Coarser(score) = 1..n
           /\ \A k \in 1..n :
                /\ Coarser(score)[k] = dscp_policy_table[k]
                /\ dscp_policy_table[k].score <= score
           /\ Graded(dscp_policy_table) =>
                \A k \in DOMAIN dscp_policy_table :
                  ~(k <= n) => score <= dscp_policy_table[k].score
<1> DEFINE t == dscp_policy_table
           T == {k \in DOMAIN t : t[k].score > score}
<1>1. /\ DOMAIN t = 1..Len(t) /\ Len(t) \in Nat
      /\ \A k \in DOMAIN t : t[k].score \in Nat
  <2>1. DOMAIN t = 1..Len(t) /\ Len(t) \in Nat
    OBVIOUS
  <2>2. \A k \in DOMAIN t : t[k] \in Policy
    OBVIOUS
  <2> QED BY <2>1, <2>2 DEF Policy
<1>2. CASE T = {}
  <2>1. Coarser(score) = t
    BY <1>2 DEF Coarser
  <2>2. \A k \in DOMAIN t : t[k].score <= score
    BY <1>1, <1>2
  <2> QED BY <1>1, <2>1, <2>2
<1>3. CASE T # {}
  <2>1. T \in SUBSET Nat
    BY <1>1
  <2>2. PICK k \in T : \A j \in T : k <= j
    BY <1>3, <2>1, Least
  <2>3. \A j \in 1..(k - 1) : t[j].score <= score
    BY <1>1, <2>2
  <2>4. PICK n : n = CHOOSE i \in DOMAIN t :
                       /\ t[i].score > score
                       /\ \A j \in 1..(i - 1) : t[j].score <= score
    OBVIOUS
  <2>5. /\ n \in DOMAIN t /\ t[n].score > score
        /\ \A j \in 1..(n - 1) : t[j].score <= score
    BY <2>2, <2>3, <2>4
  <2>6. PICK c : c = SubSeq(t, 1, n - 1)
    OBVIOUS
  <2>7. Coarser(score) = c
    BY <1>3, <2>4, <2>6 DEF Coarser
  <2>8. n \in 1..Len(t)
    BY <1>1, <2>5
  <2>9. /\ Len(c) = n - 1 /\ DOMAIN c = 1..(n - 1)
        /\ \A i \in 1..(n - 1) : c[i] = t[i]
    BY <1>1, <2>6, <2>8
  <2>10. ASSUME Graded(t), NEW i \in DOMAIN t, ~(i <= n - 1)
         PROVE  score <= t[i].score
    <3>1. i = n \/ n < i
      BY <1>1, <2>8, <2>10
    <3>2. t[n].score <= t[i].score
      BY <1>1, <2>5, <2>10, <3>1 DEF Graded
    <3> QED BY <1>1, <2>5, <3>2
  <2> QED BY <1>1, <2>5, <2>7, <2>8, <2>9, <2>10
<1> QED BY <1>2, <1>3

(* add_iptable_rule() counts the rules of the policies before the new one. *)
LEMMA RuleNumIs ==
  ASSUME dscp_policy_table \in Seq(Policy), NEW p \in Policy
  PROVE  RuleNum(p) = Cardinality(RuledOf(dscp_policy_table, p.ver,
                                          Len(Coarser(p.score)))) + 1
<1>1. PICK c : c = Coarser(p.score)
  OBVIOUS
<1>2. DOMAIN c = 1..Len(c) /\ \A k \in 1..Len(c) : c[k] = dscp_policy_table[k]
  BY <1>1, CoarserPlace DEF Policy
<1>3. {k \in DOMAIN c : c[k].name = <<>> /\ c[k].ver = p.ver}
        = RuledOf(dscp_policy_table, p.ver, Len(c))
  BY <1>2 DEF RuledOf
<1> QED BY <1>1, <1>3 DEF RuleNum

-----------------------------------------------------------------------------
(* The order is kept.                                                      *)

LEMMA OrderThinned ==
  ASSUME DInv, DInv', OrderInv, alone,
         Thinned(dscp_policy_table', dscp_policy_table),
         \A v \in Versions : Thinned(rules'[v], rules[v]),
         \A m \in Mons : mon'[m].pc = "link" /\ mon'[m].ev.kind.name = <<>> =>
           /\ UNCHANGED <<dscp_policy_table, rules>>
           /\ mon[m].pc = "link" /\ mon'[m].ev = mon[m].ev
  PROVE  OrderInv'
<1>1. /\ dscp_policy_table \in Seq(Policy) /\ dscp_policy_table' \in Seq(Policy)
      /\ \A v \in Versions : rules[v] \in Seq(Policy) /\ rules'[v] \in Seq(Policy)
  BY DEF DInv, TypeInv
<1>2. Graded(dscp_policy_table')
  BY ThinnedGraded DEF OrderInv
<1>3. ASSUME NEW v \in Versions
      PROVE  Graded(rules'[v]) /\ SameOrder(rules'[v], dscp_policy_table')
  <2>1. Graded(rules[v]) /\ SameOrder(rules[v], dscp_policy_table)
    BY DEF OrderInv
  <2> QED BY <1>1, <2>1, ThinnedGraded, ThinnedOrder
<1>4. ASSUME NEW m \in Mons, mon'[m].pc = "link", mon'[m].ev.kind.name = <<>>
      PROVE  SameOrder(rules'[mon'[m].ev.kind.ver], Linked(mon[m].ev)')
  <2>1. /\ dscp_policy_table' = dscp_policy_table /\ rules' = rules
        /\ mon[m].pc = "link" /\ mon'[m].ev = mon[m].ev
    BY <1>4
  <2>2. Linked(mon[m].ev)' = Linked(mon[m].ev)
    BY <2>1 DEF Linked, Coarser, NewPolicy
  <2>3. SameOrder(rules[mon[m].ev.kind.ver], Linked(mon[m].ev))
    BY <1>4, <2>1 DEF OrderInv
  <2> QED BY <2>1, <2>2, <2>3
<1>5. /\ \A v \in Versions : rules[v]' = rules'[v]
      /\ Graded(dscp_policy_table)'
      /\ \A v \in Versions : /\ Graded(rules[v])'
                             /\ SameOrder(rules[v], dscp_policy_table)'
  BY <1>2, <1>3 DEF Graded, SameOrder
<1>6. \A m \in Mons : mon'[m].pc = "link" /\ mon'[m].ev.kind.name = <<>> =>
        SameOrder(rules[mon[m].ev.kind.ver], Linked(mon[m].ev))'
  BY <1>4 DEF SameOrder
<1> QED BY <1>5, <1>6 DEF OrderInv

(* A step of the monitor that adds no rule.                                *)
LEMMA OrderMon ==
  ASSUME DInv, DInv', OrderInv, alone, NEW m \in Mons, Live(m),
         \A n \in Mons : n # m => mon'[n] = mon[n],
         mon'[m].pc = "link" => mon'[m].ev.kind.name # <<>>,
         Thinned(dscp_policy_table', dscp_policy_table),
         \A v \in Versions : Thinned(rules'[v], rules[v])
  PROVE  OrderInv'
<1>1. \A n \in Mons : n # m => mon'[n].pc # "link"
  BY DEF DInv, One, Live
<1> QED BY <1>1, OrderThinned

LEMMA OrderAdd ==
  ASSUME DInv, DInv', AnswerInv, OrderInv, alone, alone', NEW m \in Mons,
         MonAdd(m)
  PROVE  OrderInv'
<1>1. PICK p : p = NewPolicy(mon[m].ev)
  OBVIOUS
<1>2. /\ TypeInv /\ MonInv /\ Unique(dscp_policy_table)
      /\ dscp_policy_table \in Seq(Policy) /\ rules \in [Versions -> Seq(Policy)]
      /\ mon[m].pc = "add" /\ mon[m].pc \in Busy /\ Live(m)
      /\ server.pc = "idle" /\ dscp_policy_table' = dscp_policy_table
  BY DEF MonAdd, Meets, DInv, TypeInv, Busy, Live
<1>3. /\ \A v \in Versions : Unique(rules[v]) /\ Sync(v)
      /\ \A o : ~InHand(o)
      /\ \A n \in Mons : n # m => mon[n].pc \in {"none", "ended"}
  BY <1>2, Working
<1>4. /\ p \in Policy /\ p.ver \in Versions /\ p.id = mon[m].ev.id
      /\ mon[m].ev.kind.ver = p.ver
      /\ mon[m].ev.kind.score = p.score /\ p.score \in Nat
  <2>1. p \in Policy /\ p.id = mon[m].ev.id
    BY <1>1, <1>2, NewPolicyTyped
  <2>2. p.ver = mon[m].ev.kind.ver /\ p.score = mon[m].ev.kind.score
    BY <1>1 DEF NewPolicy
  <2> QED BY <2>1, <2>2 DEF Policy
<1>5. CASE /\ RuleNum(p) <= Len(rules[p.ver]) + 1
           /\ rules' = [rules EXCEPT ![p.ver] = InsertAt(@, RuleNum(p), p)]
           /\ Goes(m, "link")
  <2>1. PICK c \in Seq(Policy) : c = rules[p.ver]
    BY <1>2, <1>4
  <2>2. PICK t \in Seq(Policy) : t = dscp_policy_table
    BY <1>2
  <2>3. PICK n : n = Len(Coarser(p.score))
    OBVIOUS
  <2>4. PICK q : q = RuleNum(p)
    OBVIOUS
  <2>5. /\ n \in 0..Len(t)
        /\ \A a \in DOMAIN t : /\ a <= n => t[a].score <= p.score
                               /\ ~(a <= n) => p.score <= t[a].score
    <3>1. Graded(dscp_policy_table)
      BY DEF OrderInv
    <3>2. /\ n \in 0..Len(t)
          /\ \A k \in 1..n : t[k].score <= p.score
          /\ \A k \in DOMAIN t : ~(k <= n) => p.score <= t[k].score
      BY <1>2, <1>4, <2>2, <2>3, <3>1, CoarserPlace
    <3>3. DOMAIN t = 1..Len(t)
      OBVIOUS
    <3> QED BY <3>2, <3>3
  <2>6. Unique(c) /\ Unique(t) /\ SameOrder(c, t) /\ Graded(c)
    BY <1>2, <1>3, <1>4, <2>1, <2>2 DEF OrderInv
  <2>7. \A x \in Els(t) \cup Els(c) :
          x \in Els(c) <=> x \in Els(t) /\ x.name = <<>> /\ x.ver = p.ver
    BY <1>3, <1>4, <2>1, <2>2 DEF Sync, SameRule
  <2>8. q = Cardinality(RuledOf(t, p.ver, n)) + 1
    BY <1>4, <2>2, <2>3, <2>4, RuleNumIs
  <2>9. /\ Cardinality(RuledOf(t, p.ver, n)) \in 0..Len(c)
        /\ \A k \in DOMAIN c, a \in DOMAIN t : t[a].id = c[k].id =>
             (a <= n <=> k <= Cardinality(RuledOf(t, p.ver, n)))
    BY <2>5, <2>6, <2>7, RulesOfFirst
  <2>10. /\ q \in 1..(Len(c) + 1) /\ Len(c) \in Nat
         /\ \A k \in DOMAIN c, a \in DOMAIN t : t[a].id = c[k].id =>
              (a <= n <=> k < q)
    <3>1. PICK x \in 0..Len(c) : x = Cardinality(RuledOf(t, p.ver, n))
      BY <2>9
    <3>2. Len(c) \in Nat /\ DOMAIN c = 1..Len(c) /\ q = x + 1
      BY <2>8, <3>1
    <3>3. \A k \in DOMAIN c : k < q <=> k <= x
      BY <3>2
    <3>4. q \in 1..(Len(c) + 1)
      BY <3>2
    <3> QED BY <2>9, <3>1, <3>2, <3>3, <3>4
  <2>11. ~In(t, p.id) /\ ~In(c, p.id)
    <3>1. ~Has(p.id)
      BY <1>2, <1>4 DEF DInv, Cleared
    <3> QED BY <1>2, <1>3, <1>4, <2>1, <2>2, <3>1, NoRule, InEls
  <2>12. PICK d : d = InsertAt(c, q, p)
    OBVIOUS
  <2>13. d \in Seq(Policy)
    BY <1>4, <2>10, <2>12, InsertAtProps
  <2>14. Graded(d)
    <3>1. ASSUME NEW k \in DOMAIN c
          PROVE  /\ k < q => c[k].score <= p.score
                 /\ ~(k < q) => p.score <= c[k].score
      <4>1. c[k] \in Els(c)
        BY DEF Els
      <4>2. PICK a \in DOMAIN t : t[a] = c[k]
        BY <2>7, <4>1 DEF Els
      <4>3. a <= n <=> k < q
        BY <2>10, <4>2
      <4> QED BY <2>5, <4>2, <4>3
    <3> QED BY <1>4, <2>6, <2>10, <2>12, <3>1, InsertGraded
  <2>15. PICK u : u = InsertAt(t, n + 1, p)
    OBVIOUS
  <2>16. n + 1 \in 1..(Len(t) + 1)
    BY <2>5
  <2>17. u \in Seq(Policy) /\ Thinned(t, u)
    BY <1>4, <2>15, <2>16, InsertAtProps, ThinnedInserted
  <2>18. SameOrder(d, u)
    BY <1>4, <2>5, <2>6, <2>10, <2>11, <2>12, <2>15, InsertRuled
  <2>19. SameOrder(d, t)
    BY <2>13, <2>17, <2>18, ThinnedSame, ThinnedOrder
  <2>20. rules' = [rules EXCEPT ![p.ver] = d]
    BY <1>2, <1>5, <2>1, <2>4, <2>12
  <2>21. rules'[p.ver] = d /\ \A v \in Versions : v # p.ver => rules'[v] = rules[v]
    BY <1>2, <1>4, <2>20
  <2>22. /\ mon'[m].pc = "link" /\ mon'[m].ev = mon[m].ev
         /\ \A k \in Mons : k # m => mon'[k].pc # "link"
    <3>1. /\ mon'[m].pc = "link" /\ mon'[m].ev = mon[m].ev
          /\ \A k \in Mons : k # m => mon'[k] = mon[k]
      BY <1>2, <1>5, GoesProps DEF Pcs, Busy
    <3> QED BY <1>3, <3>1
  <2>23. Linked(mon[m].ev)' = u
    <3>1. Linked(mon[m].ev) = u
      BY <1>1, <1>4, <2>2, <2>3, <2>15 DEF Linked
    <3>2. Linked(mon[m].ev)' = Linked(mon[m].ev)
      BY <1>2, <2>22 DEF Linked, Coarser, NewPolicy
    <3> QED BY <3>1, <3>2
  <2>24. ASSUME NEW v \in Versions
         PROVE  Graded(rules'[v]) /\ SameOrder(rules'[v], dscp_policy_table')
    <3>1. CASE v = p.ver
      BY <1>2, <2>2, <2>14, <2>19, <2>21, <3>1
    <3>2. CASE v # p.ver
      BY <1>2, <2>21, <3>2 DEF OrderInv
    <3> QED BY <3>1, <3>2
  <2>25. /\ Graded(dscp_policy_table)'
         /\ \A v \in Versions : /\ Graded(rules[v])'
                                /\ SameOrder(rules[v], dscp_policy_table)'
    BY <1>2, <2>24 DEF Graded, SameOrder, OrderInv
  <2>26. \A k \in Mons : mon'[k].pc = "link" =>
           SameOrder(rules[mon[k].ev.kind.ver], Linked(mon[k].ev))'
    <3>1. SameOrder(rules'[mon'[m].ev.kind.ver], Linked(mon[m].ev)')
      BY <1>4, <2>18, <2>21, <2>22, <2>23
    <3>2. SameOrder(rules[mon[m].ev.kind.ver], Linked(mon[m].ev))'
      BY <3>1 DEF SameOrder
    <3> QED BY <2>22, <3>2
  <2> QED BY <2>25, <2>26 DEF OrderInv
<1>6. CASE Notes(m, "none", "reject") /\ UNCHANGED rules
  <2>1. mon'[m].pc = "wait" /\ \A n \in Mons : n # m => mon'[n] = mon[n]
    BY <1>2, <1>6, NotesProps
  <2> QED BY <1>2, <1>6, <2>1, ThinnedSame, OrderMon
<1> QED BY <1>1, <1>5, <1>6 DEF MonAdd

LEMMA OrderLink ==
  ASSUME DInv, DInv', AnswerInv, OrderInv, alone, alone', NEW m \in Mons,
         MonLink(m)
  PROVE  OrderInv'
<1>1. PICK p : p = NewPolicy(mon[m].ev)
  OBVIOUS
<1>2. /\ TypeInv /\ MonInv
      /\ dscp_policy_table \in Seq(Policy) /\ rules \in [Versions -> Seq(Policy)]
      /\ mon[m].pc = "link" /\ mon[m].pc \in Busy /\ Live(m)
      /\ server.pc = "idle" /\ rules' = rules /\ Notes(m, "add", "success")
  BY DEF MonLink, Meets, DInv, TypeInv, Busy, Live
<1>3. /\ \A v \in Versions : Sync(v)
      /\ \A n \in Mons : n # m => mon[n].pc \in {"none", "ended"}
  BY <1>2, Working
<1>4. /\ p \in Policy /\ p.score \in Nat /\ p.id = mon[m].ev.id
      /\ p.name = mon[m].ev.kind.name /\ p.ver = mon[m].ev.kind.ver
      /\ p.score = mon[m].ev.kind.score
  <2>1. p \in Policy /\ p.id = mon[m].ev.id
    BY <1>1, <1>2, NewPolicyTyped
  <2> QED BY <1>1, <2>1 DEF Policy, NewPolicy
<1>5. PICK t \in Seq(Policy) : t = dscp_policy_table
  BY <1>2
<1>6. PICK n : n = Len(Coarser(p.score))
  OBVIOUS
<1>7. /\ n \in 0..Len(t) /\ DOMAIN t = 1..Len(t) /\ Len(t) \in Nat
      /\ \A a \in DOMAIN t : /\ a <= n => t[a].score <= p.score
                             /\ ~(a <= n) => p.score <= t[a].score
  <2>1. Graded(dscp_policy_table)
    BY DEF OrderInv
  <2>2. DOMAIN t = 1..Len(t) /\ Len(t) \in Nat
    OBVIOUS
  <2>3. /\ n \in 0..Len(t)
        /\ \A k \in 1..n : t[k].score <= p.score
        /\ \A k \in DOMAIN t : ~(k <= n) => p.score <= t[k].score
    BY <1>2, <1>4, <1>5, <1>6, <2>1, CoarserPlace
  <2> QED BY <2>2, <2>3
<1>8. PICK i : i = n + 1
  OBVIOUS
<1>9. /\ i \in 1..(Len(t) + 1)
      /\ \A a \in DOMAIN t : a < i <=> a <= n
  BY <1>7, <1>8
<1>10. PICK u : u = InsertAt(t, i, p)
  OBVIOUS
<1>11. dscp_policy_table' = u
  BY <1>1, <1>5, <1>6, <1>8, <1>10 DEF MonLink
<1>12. Graded(u)
  <2>1. Graded(t)
    BY <1>5 DEF OrderInv
  <2> QED BY <1>4, <1>7, <1>9, <1>10, <2>1, InsertGraded
<1>13. ASSUME NEW v \in Versions PROVE SameOrder(rules[v], u)
  <2>1. SameOrder(rules[v], t) /\ rules[v] \in Seq(Policy)
    BY <1>2, <1>5 DEF OrderInv
  <2>2. CASE p.name = <<>> /\ p.ver = v
    <3>1. Linked(mon[m].ev) = u
      BY <1>1, <1>4, <1>5, <1>6, <1>8, <1>10 DEF Linked
    <3>2. SameOrder(rules[mon[m].ev.kind.ver], Linked(mon[m].ev))
      BY <1>2, <1>4, <2>2 DEF OrderInv
    <3> QED BY <1>4, <2>2, <3>1, <3>2
  <2>3. CASE ~(p.name = <<>> /\ p.ver = v)
    <3>1. \A x \in Els(rules[v]) : x.id # p.id
      BY <1>1, <1>2, <1>3, <1>4, <2>3 DEF Sync, HandRule
    <3>2. ~In(rules[v], p.id)
      BY <3>1, InEls
    <3> QED BY <1>4, <1>9, <1>10, <2>1, <3>2, InsertUnruled
  <2> QED BY <2>2, <2>3
<1>14. \A k \in Mons : mon'[k].pc # "link"
  <2>1. mon'[m].pc = "wait" /\ \A k \in Mons : k # m => mon'[k] = mon[k]
    BY <1>2, NotesProps
  <2> QED BY <1>3, <2>1
<1>15. /\ Graded(dscp_policy_table)'
       /\ \A v \in Versions : /\ Graded(rules[v])'
                              /\ SameOrder(rules[v], dscp_policy_table)'
  BY <1>2, <1>11, <1>12, <1>13 DEF Graded, SameOrder, OrderInv
<1> QED BY <1>14, <1>15 DEF OrderInv

LEMMA OrderMonSteps ==
  ASSUME DInv, DInv', OrderInv, alone, alone', NEW m \in Mons,
         \/ MonOpen(m) \/ MonTake(m) \/ MonClear(m) \/ MonFlush(m)
         \/ MonFree(m) \/ MonRemove(m) \/ MonUnlink(m) \/ MonAnswer(m)
         \/ MonCancelled(m)
  PROVE  OrderInv'
<1>1. /\ TypeInv /\ MonInv /\ dscp_policy_table \in Seq(Policy)
      /\ rules \in [Versions -> Seq(Policy)] /\ queue \in [Mons -> Seq(Event)]
  BY DEF DInv, TypeInv
<1>2. Live(m)
  BY DEF Live, MonOpen, MonTake, MonClear, MonFlush, MonFree, MonRemove,
         MonUnlink, MonAnswer, MonCancelled
<1>3. CASE MonOpen(m) \/ MonClear(m) \/ MonFlush(m) \/ MonFree(m)
           \/ MonAnswer(m) \/ MonCancelled(m)
  <2>1. PICK pc \in {"wait", "ended", "flush", "free"} : Goes(m, pc)
    <3>1. CASE MonFlush(m)
      <4>1. Goes(m, IF mon[m].ev.op = "disconnected" THEN "free" ELSE "wait")
        BY <3>1 DEF MonFlush
      <4>2. Goes(m, "free") \/ Goes(m, "wait")
        BY <4>1, Zenon
      <4> QED BY <4>2
    <3>2. CASE ~MonFlush(m)
      BY <1>3, <3>2 DEF MonOpen, MonClear, MonFree, MonAnswer, MonCancelled
    <3> QED BY <3>1, <3>2
  <2>2. mon'[m].pc = pc /\ \A n \in Mons : n # m => mon'[n] = mon[n]
    BY <1>1, <2>1, GoesProps DEF Pcs, Busy
  <2>3. dscp_policy_table' \in {dscp_policy_table, <<>>}
    BY <1>3 DEF MonOpen, MonClear, MonFlush, MonFree, MonAnswer, MonCancelled
  <2>4. rules' = rules \/ rules' = [v \in Versions |-> <<>>]
    BY <1>3 DEF MonOpen, MonClear, MonFlush, Flush, MonFree, MonAnswer,
                MonCancelled
  <2>5. \A v \in Versions : rules'[v] \in {rules[v], <<>>}
    BY <2>4
  <2>6. /\ Thinned(dscp_policy_table', dscp_policy_table)
        /\ \A v \in Versions : Thinned(rules'[v], rules[v])
    BY <2>3, <2>5, ThinnedSame, ThinnedEmpty
  <2> QED BY <1>2, <2>2, <2>6, OrderMon
<1>4. CASE MonTake(m)
  <2>1. /\ mon[m].pc = "wait" /\ queue[m] # <<>> /\ Taken(m, Head(queue[m]))
        /\ UNCHANGED <<dscp_policy_table, rules>>
    BY <1>4 DEF MonTake
  <2>2. PICK e : e = Head(queue[m])
    OBVIOUS
  <2>3. e \in Event
    BY <1>1, <2>1, <2>2
  <2>4. mon'[m].pc # "link" /\ \A n \in Mons : n # m => mon'[n] = mon[n]
    BY <1>1, <2>1, <2>2, <2>3, TakenProps
  <2> QED BY <1>2, <2>1, <2>4, ThinnedSame, OrderMon
<1>5. CASE MonRemove(m) \/ MonUnlink(m)
  <2>1. PICK id : id = mon[m].ev.id
    OBVIOUS
  <2>2. mon[m].pc \in Busy
    BY <1>5 DEF MonRemove, MonUnlink, Busy
  <2>3. \/ Replaced(m) \/ Goes(m, "unlink") \/ Notes(m, "none", "reject")
    BY <1>5 DEF MonRemove, MonUnlink
  <2>4. /\ mon'[m].pc = "link" => mon'[m].ev.kind.name # <<>>
        /\ \A n \in Mons : n # m => mon'[n] = mon[n]
    <3>1. CASE Notes(m, "remove", "success") \/ Notes(m, "none", "reject")
      BY <1>1, <2>2, <3>1, NotesProps
    <3>2. CASE Goes(m, "unlink") \/ Goes(m, "add")
      BY <1>1, <2>2, <3>2, GoesProps DEF Pcs, Busy
    <3>3. CASE Goes(m, "link") /\ mon[m].ev.kind.name # <<>>
      <4>1. mon'[m].ev = mon[m].ev /\ \A n \in Mons : n # m => mon'[n] = mon[n]
        BY <1>1, <2>2, <3>3, GoesProps DEF Pcs, Busy
      <4> QED BY <3>3, <4>1
    <3> QED BY <2>3, <3>1, <3>2, <3>3, ReplacedCases
  <2>5. \/ dscp_policy_table' = dscp_policy_table
        \/ dscp_policy_table' = Without(dscp_policy_table, id)
    BY <1>5, <2>1 DEF MonRemove, MonUnlink
  <2>6. Thinned(dscp_policy_table', dscp_policy_table)
    BY <1>1, <2>5, ThinnedSame, ThinnedWithout
  <2>7. \/ rules' = rules
        \/ \E v : rules' = [rules EXCEPT ![v] = Without(@, id)]
    BY <1>5, <2>1 DEF MonRemove, MonUnlink
  <2>8. ASSUME NEW v \in Versions PROVE Thinned(rules'[v], rules[v])
    <3>1. rules'[v] = rules[v] \/ rules'[v] = Without(rules[v], id)
      BY <1>1, <2>7
    <3> QED BY <1>1, <3>1, ThinnedSame, ThinnedWithout
  <2> QED BY <1>2, <2>4, <2>6, <2>8, OrderMon
<1> QED BY <1>3, <1>4, <1>5

(* The server thread, that is alone in the table.                          *)
LEMMA OrderServer ==
  ASSUME DInv, DInv', OrderInv, alone, alone',
         \/ ResetStop \/ ResetClear \/ ResetFlush
         \/ \E id \in Ids : FrameRemove(id)
         \/ FrameUnlink
  PROVE  OrderInv'
<1>1. /\ MonInv /\ dscp_policy_table \in Seq(Policy)
      /\ rules \in [Versions -> Seq(Policy)]
  BY DEF DInv, TypeInv
<1>2. CASE ResetStop
  <2>1. \A n \in Mons : mon'[n].pc = mon[n].pc /\ mon'[n].ev = mon[n].ev
    <3>1. \A n \in Mons : mon[n] \in Thread
      BY <1>1 DEF MonInv
    <3>2. mon' = [n \in Mons |->
                    IF n = dscp_policy_mon_thread
                      THEN [mon[n] EXCEPT !.cancelled = TRUE] ELSE mon[n]]
      BY <1>2 DEF ResetStop
    <3> QED BY <3>1, <3>2 DEF Thread
  <2>2. UNCHANGED <<dscp_policy_table, rules>>
    BY <1>2 DEF ResetStop
  <2> QED BY <2>1, <2>2, ThinnedSame, OrderThinned
<1>3. CASE ~ResetStop
  <2>1. \A n \in Mons : mon[n].pc # "link"
    <3>1. \A n \in Mons : Live(n) => mon[n].pc = "wait"
      BY <1>3 DEF ResetClear, ResetFlush, FrameRemove, FrameUnlink, Touches
    <3> QED BY <3>1 DEF Live
  <2>2. \A n \in Mons : mon'[n].pc = mon[n].pc
    <3>1. CASE mon' = mon
      BY <3>1
    <3>2. CASE \E i : Disown(i)
      BY <1>1, <3>2, DisownProps
    <3> QED BY <1>3, <3>1, <3>2
            DEF ResetClear, ResetFlush, FrameRemove, FrameUnlink
  <2>3. \/ dscp_policy_table' \in {dscp_policy_table, <<>>}
        \/ \E i : dscp_policy_table' = Without(dscp_policy_table, i)
    BY <1>3 DEF ResetClear, ResetFlush, FrameRemove, FrameUnlink
  <2>4. Thinned(dscp_policy_table', dscp_policy_table)
    BY <1>1, <2>3, ThinnedSame, ThinnedEmpty, ThinnedWithout
  <2>5. \/ rules' = rules \/ rules' = [v \in Versions |-> <<>>]
        \/ \E v, i : rules' = [rules EXCEPT ![v] = Without(@, i)]
    BY <1>3 DEF ResetClear, ResetFlush, FrameRemove, FrameUnlink
  <2>6. ASSUME NEW v \in Versions PROVE Thinned(rules'[v], rules[v])
    <3>1. rules'[v] \in {rules[v], <<>>} \/ \E i : rules'[v] = Without(rules[v], i)
      BY <1>1, <2>5
    <3> QED BY <1>1, <3>1, ThinnedSame, ThinnedEmpty, ThinnedWithout
  <2> QED BY <2>1, <2>2, <2>4, <2>6, OrderThinned
<1> QED BY <1>2, <1>3

LEMMA OrderInitGood == DscpInit => OrderInv
<1> SUFFICES ASSUME DscpInit PROVE OrderInv
  OBVIOUS
<1>1. DOMAIN dscp_policy_table = {} /\ \A v \in Versions : DOMAIN rules[v] = {}
  BY DEF DscpInit
<1>2. \A m \in Mons : mon[m].pc # "link"
  BY DEF DscpInit
<1> QED BY <1>1, <1>2 DEF OrderInv, Graded, SameOrder

LEMMA OrderStepGood ==
  DInv /\ DInv' /\ AnswerInv /\ OrderInv /\ [DscpNext]_dscpVars => OrderInv'
<1> SUFFICES ASSUME DInv, DInv', AnswerInv, OrderInv, [DscpNext]_dscpVars, alone'
             PROVE  OrderInv'
  BY DEF OrderInv
<1>1. CASE UNCHANGED dscpVars
  <2>1. UNCHANGED <<dscp_policy_table, rules, mon, alone>>
    BY <1>1 DEF dscpVars
  <2> QED BY <2>1, ThinnedSame, OrderThinned
<1>2. CASE DscpNext
  <2>1. alone
    BY <1>2 DEF DscpNext
  <2>2. CASE \/ \E op \in {"start", "clear"} : ApRequest(op)
             \/ \E e \in Item : ApItem(e)
             \/ ApEnd \/ ApLeaves
             \/ \E b \in BOOLEAN : SetReject(b)
    <3>1. UNCHANGED <<dscp_policy_table, rules, mon>>
      BY <2>2 DEF ApRequest, ApItem, ApEnd, ApLeaves, SetReject
    <3> QED BY <2>1, <3>1, ThinnedSame, OrderThinned
  <2>3. ASSUME NEW m \in Mons,
               \/ MonOpen(m) \/ MonTake(m) \/ MonClear(m) \/ MonFlush(m)
               \/ MonFree(m) \/ MonRemove(m) \/ MonUnlink(m) \/ MonAnswer(m)
               \/ MonCancelled(m)
        PROVE  OrderInv'
    BY <2>1, <2>3, OrderMonSteps
  <2>4. ASSUME NEW m \in Mons, MonAdd(m) \/ MonLink(m) PROVE OrderInv'
    BY <2>1, <2>4, OrderAdd, OrderLink
  <2>5. ASSUME NEW m \in Mons, Associate(m) PROVE OrderInv'
    <3>1. /\ MonInv /\ Goes(m, "open") /\ UNCHANGED <<dscp_policy_table, rules>>
      BY <2>5 DEF Associate, DInv, TypeInv
    <3>2. mon'[m].pc = "open" /\ \A n \in Mons : n # m => mon'[n] = mon[n]
      BY <3>1, GoesProps DEF Pcs, Busy
    <3>3. \A n \in Mons : mon'[n].pc = "link" => mon'[n] = mon[n]
      BY <3>2
    <3> QED BY <2>1, <3>1, <3>3, ThinnedSame, OrderThinned
  <2>6. CASE \/ ResetStop \/ ResetClear \/ ResetFlush
             \/ \E id \in Ids : FrameRemove(id)
             \/ FrameUnlink
    BY <2>1, <2>6, OrderServer
  <2> QED BY <1>2, <2>2, <2>3, <2>4, <2>5, <2>6 DEF DscpNext
<1> QED BY <1>1, <1>2

(* For any number of policies, threads, requests and commands: between two *)
(* events each chain of the kernel holds the rules of its version's        *)
(* policies without a domain name, and no others, each at the position     *)
(* that its place in dut->dscp_policy_table gives it, and at any time the  *)
(* most granular rules are applied last, as add_iptable_rule() promises.   *)
THEOREM RulesCorrect == DscpSpec => []RulesFollowTable
<1>1. DInv /\ AnswerInv /\ OrderInv => RulesFollowTable
  <2> SUFFICES ASSUME DInv, AnswerInv, OrderInv, alone
               PROVE  /\ Quiet => \A v \in Versions :
                           LET all == Ruled(v, Len(dscp_policy_table)) IN
                             /\ Len(rules[v]) = Cardinality(all)
                             /\ \A k \in all :
                                  rules[v][Cardinality(Ruled(v, k))]
                                    = dscp_policy_table[k]
                      /\ \A v \in Versions : Graded(rules[v])
    BY DEF RulesFollowTable, Graded
  <2>1. ASSUME Quiet, NEW v \in Versions
        PROVE  /\ Len(rules[v]) = Cardinality(Ruled(v, Len(dscp_policy_table)))
               /\ \A k \in Ruled(v, Len(dscp_policy_table)) :
                    rules[v][Cardinality(Ruled(v, k))] = dscp_policy_table[k]
    <3>1. /\ server.pc = "idle"
          /\ \A m \in Mons : mon[m].pc \notin {"flush", "unlink", "link"}
      BY <2>1 DEF Quiet, Live
    <3>2. Unique(rules[v]) /\ Sync(v) /\ \A o : ~InHand(o)
      BY <3>1 DEF AnswerInv, RulesInv, InHand
    <3>3. /\ rules[v] \in Seq(Policy) /\ dscp_policy_table \in Seq(Policy)
          /\ Unique(dscp_policy_table)
      BY DEF DInv, TypeInv
    <3>4. SameOrder(rules[v], dscp_policy_table)
      BY DEF OrderInv
    <3>5. \A p \in Els(dscp_policy_table) \cup Els(rules[v]) :
            p \in Els(rules[v]) <=>
              p \in Els(dscp_policy_table) /\ p.name = <<>> /\ p.ver = v
      BY <3>2 DEF Sync, SameRule
    <3>6. \A n : Ruled(v, n) = RuledOf(dscp_policy_table, v, n)
      BY DEF Ruled, RuledOf
    <3> QED BY <3>2, <3>3, <3>4, <3>5, <3>6, RuleOfEach
  <2>2. \A v \in Versions : Graded(rules[v])
    BY DEF OrderInv
  <2> QED BY <2>1, <2>2
<1>2. DscpInit => DInv /\ AnswerInv /\ OrderInv
  BY DscpInitGood, AnswerInitGood, OrderInitGood
<1>3. DInv /\ AnswerInv /\ OrderInv /\ [DscpNext]_dscpVars
        => (DInv /\ AnswerInv /\ OrderInv)'
  BY DscpStepGood, AnswerStepGood, OrderStepGood
<1> QED BY <1>1, <1>2, <1>3, PTL DEF DscpSpec

-----------------------------------------------------------------------------
(* The lookup.                                                             *)

(* The function that Lookups defines exists: were there a length for which *)
(* it does not, there would be a least one.                                *)
LEMMA LookupsExist ==
  ASSUME NEW t \in Seq(Policy), NEW stream
  PROVE  \E f : f = [k \in 0..Len(t) |->
                       IF k = 0 THEN Nothing ELSE Chosen(stream, f[k - 1], t[k], k)]
<1> DEFINE P(n) ==
      \E f : f = [k \in 0..n |->
                    IF k = 0 THEN Nothing ELSE Chosen(stream, f[k - 1], t[k], k)]
<1>1. Len(t) \in Nat
  OBVIOUS
<1>2. P(0)
  <2> DEFINE f == [k \in 0..0 |-> Nothing]
  <2>1. f = [k \in 0..0 |->
               IF k = 0 THEN Nothing ELSE Chosen(stream, f[k - 1], t[k], k)]
    OBVIOUS
  <2> QED BY <2>1
<1>3. ASSUME NEW n \in Nat, P(n) PROVE P(n + 1)
  <2>1. PICK f : f = [k \in 0..n |->
                        IF k = 0 THEN Nothing ELSE Chosen(stream, f[k - 1], t[k], k)]
    BY <1>3
  <2> DEFINE g == [k \in 0..(n + 1) |->
                     IF k <= n THEN f[k] ELSE Chosen(stream, f[n], t[n + 1], n + 1)]
             h == [k \in 0..(n + 1) |->
                     IF k = 0 THEN Nothing ELSE Chosen(stream, g[k - 1], t[k], k)]
  <2>2. ASSUME NEW k \in 0..(n + 1) PROVE g[k] = h[k]
    <3>1. CASE k = 0
      BY <2>1, <3>1
    <3>2. CASE k \in 1..n
      <4>1. g[k] = f[k] /\ g[k - 1] = f[k - 1]
        BY <3>2
      <4>2. f[k] = Chosen(stream, f[k - 1], t[k], k)
        BY <2>1, <3>2
      <4>3. h[k] = Chosen(stream, g[k - 1], t[k], k)
        BY <3>2
      <4> QED BY <4>1, <4>2, <4>3
    <3>3. CASE k = n + 1
      <4>1. g[k] = Chosen(stream, f[n], t[n + 1], n + 1) /\ g[n] = f[n]
        BY <3>3
      <4>2. h[k] = Chosen(stream, g[k - 1], t[k], k) /\ k - 1 = n
        BY <3>3
      <4> QED BY <3>3, <4>1, <4>2
    <3> QED BY <3>1, <3>2, <3>3
  <2>3. g = h
    BY <2>2
  <2> QED BY <2>3
<1> HIDE DEF P
<1>4. ASSUME ~P(Len(t)) PROVE FALSE
  <2> DEFINE T == {n \in Nat : ~P(n)}
  <2>1. PICK n \in T : \A j \in T : n <= j
    <3>1. T \in SUBSET Nat /\ T # {}
      BY <1>1, <1>4
    <3> QED BY <3>1, Least
  <2>2. n # 0 /\ n - 1 \in Nat /\ n - 1 \notin T /\ (n - 1) + 1 = n
    BY <1>2, <2>1
  <2> QED BY <1>3, <2>1, <2>2
<1>5. P(Len(t))
  BY <1>4
<1> QED BY <1>5 DEF P

LEMMA LookupsStep ==
  ASSUME NEW t \in Seq(Policy), NEW stream
  PROVE  /\ Lookups(t, stream)[0] = Nothing
         /\ \A k \in 1..Len(t) :
              Lookups(t, stream)[k] = Chosen(stream, Lookups(t, stream)[k - 1], t[k], k)
<1>1. Lookups(t, stream) = CHOOSE f : f = [k \in 0..Len(t) |->
                         IF k = 0 THEN Nothing ELSE Chosen(stream, f[k - 1], t[k], k)]
  BY DEF Lookups
<1>2. PICK c : c = Lookups(t, stream)
  OBVIOUS
<1>3. c = [k \in 0..Len(t) |->
             IF k = 0 THEN Nothing ELSE Chosen(stream, c[k - 1], t[k], k)]
  BY <1>1, <1>2, LookupsExist
<1>4. Len(t) \in Nat
  OBVIOUS
<1>5. c[0] = Nothing
  BY <1>3, <1>4
<1>6. ASSUME NEW k \in 1..Len(t) PROVE c[k] = Chosen(stream, c[k - 1], t[k], k)
  BY <1>3, <1>4
<1> QED BY <1>2, <1>5, <1>6

(* strstr() leaves as much of a name as the domain name of a policy is     *)
(* long exactly when it is the end of it, and nowhere in it before.        *)
LEMMA AtTheEndOnce ==
  ASSUME NEW p \in Policy, NEW stream \in Stream
  PROVE  AtTheEnd(p, stream) /\ Accepts(p, stream)
           <=> Covers(p, stream) /\ ~Hidden(p, stream)
<1>1. PICK s \in Seq(Nat), w \in Seq(Nat) : s = stream.name /\ w = p.name
  BY DEF Stream, Policy
<1>2. PICK n \in Nat, o \in Nat : n = Len(s) /\ o = Len(w)
  OBVIOUS
<1>3. w # <<>> <=> o > 0
  BY <1>2
<1>4. Accepts(p, stream)
        <=> \A c \in Conditions : p.asks[c] = {} \/ stream.has[c] \in p.asks[c]
  BY DEF Accepts, Stated
<1> DEFINE Here(i) == SubSeq(s, i, i + o - 1) = w
           Where == Occurs(s, w)
<1>5. Where = {i \in 1..n : i + o - 1 <= n /\ Here(i)}
  BY <1>2 DEF Occurs
<1>6. Covers(p, stream)
        <=> o > 0 /\ o <= n /\ Here(n - o + 1) /\ Accepts(p, stream)
  <2>1. (n - o + 1) + o - 1 = n
    OBVIOUS
  <2> QED BY <1>1, <1>2, <1>3, <1>4, <2>1 DEF Covers
<1>7. Hidden(p, stream) <=> \E i \in 1..(n - o) : Here(i)
  BY <1>1, <1>2 DEF Hidden
<1> HIDE DEF Here, Where
<1>8. CASE o = 0
  BY <1>1, <1>3, <1>6, <1>8 DEF AtTheEnd
<1>9. CASE o > 0 /\ Where = {}
  <2>1. Len(strstr(s, w)) = 0
    BY <1>9 DEF strstr, Where
  <2>2. ~(o <= n /\ Here(n - o + 1))
    BY <1>5, <1>9
  <2>3. ~AtTheEnd(p, stream)
    <3>1. Len(p.name) > 0 /\ Len(strstr(stream.name, p.name)) = 0
      BY <1>1, <1>2, <1>9, <2>1
    <3> QED BY <3>1 DEF AtTheEnd
  <2> QED BY <1>6, <2>2, <2>3
<1>10. CASE o > 0 /\ Where # {}
  <2>1. PICK i \in Where : \A j \in Where : i <= j
    <3>1. Where \in SUBSET Nat /\ Where # {}
      BY <1>5, <1>10
    <3> QED BY <3>1, Least
  <2>2. i = CHOOSE i_1 \in Where : \A j \in Where : i_1 <= j
    BY <1>5, <2>1
  <2>3. i \in 1..n /\ i + o - 1 <= n /\ Here(i)
    BY <1>5, <2>1
  <2>4. strstr(s, w) = SubSeq(s, i, n)
    BY <1>2, <1>10, <2>2 DEF strstr, Where
  <2>5. Len(SubSeq(s, i, n)) = n - i + 1
    BY <1>2, <2>3
  <2>6. AtTheEnd(p, stream) <=> i = n - o + 1
    BY <1>1, <1>2, <1>3, <1>10, <2>3, <2>4, <2>5 DEF AtTheEnd
  <2>7. ASSUME i = n - o + 1
        PROVE  o <= n /\ Here(n - o + 1) /\ \A j \in 1..(n - o) : ~Here(j)
    <3>1. o <= n /\ Here(n - o + 1)
      BY <2>3, <2>7
    <3>2. ASSUME NEW j \in 1..(n - o), Here(j) PROVE FALSE
      <4>1. j \in Where
        BY <1>5, <1>10, <3>2
      <4> QED BY <2>1, <2>7, <4>1
    <3> QED BY <3>1, <3>2
  <2>8. ASSUME o <= n, Here(n - o + 1), \A j \in 1..(n - o) : ~Here(j)
        PROVE  i = n - o + 1
    <3>1. n - o + 1 \in Where
      BY <1>5, <1>10, <2>8
    <3>2. i <= n - o + 1
      BY <2>1, <3>1
    <3>3. i \notin 1..(n - o)
      BY <2>3, <2>8
    <3> QED BY <2>3, <3>2, <3>3
  <2> QED BY <1>6, <1>7, <1>10, <2>6, <2>7, <2>8
<1> QED BY <1>8, <1>9, <1>10

(* The number of conditions that a policy states.                          *)
Score(p) == Cardinality(Stated(p))
LEMMA ScoreNat == ASSUME NEW p PROVE Score(p) \in Nat
<1>1. IsFiniteSet({}) /\ IsFiniteSet({"ip_version"})
  BY FS_EmptySet, FS_Singleton
<1>2. IsFiniteSet({"ip_version", "port_range"})
  <2>1. {"ip_version", "port_range"} = {"ip_version"} \cup {"port_range"}
    OBVIOUS
  <2> QED BY <1>1, <2>1, FS_AddElement
<1>3. IsFiniteSet({"ip_version", "port_range", "dst_port"})
  <2>1. {"ip_version", "port_range", "dst_port"}
          = {"ip_version", "port_range"} \cup {"dst_port"}
    OBVIOUS
  <2> QED BY <1>2, <2>1, FS_AddElement
<1>4. IsFiniteSet({"ip_version", "port_range", "dst_port", "src_port"})
  <2>1. {"ip_version", "port_range", "dst_port", "src_port"}
          = {"ip_version", "port_range", "dst_port"} \cup {"src_port"}
    OBVIOUS
  <2> QED BY <1>3, <2>1, FS_AddElement
<1>5. IsFiniteSet(Conditions)
  <2>1. Conditions = {"ip_version", "port_range", "dst_port", "src_port"}
                       \cup {"src_ip"}
    BY DEF Conditions
  <2> QED BY <1>4, <2>1, FS_AddElement
<1>6. IsFiniteSet(Stated(p))
  <2>1. Stated(p) \subseteq Conditions
    BY DEF Stated
  <2> QED BY <1>5, <2>1, FS_Subset
<1> QED BY <1>6, FS_CardinalityType DEF Score

(* The best of the first n policies.                                       *)
Suits(p, stream) == AtTheEnd(p, stream) /\ Accepts(p, stream)
Fitting(t, stream, n) == {k \in 1..n : Suits(t[k], stream)}
Beats(t, i, k) ==
  \/ Score(t[k]) < Score(t[i])
  \/ Score(t[k]) = Score(t[i]) /\ Len(t[k].name) < Len(t[i].name)
  \/ /\ Score(t[k]) = Score(t[i]) /\ Len(t[k].name) = Len(t[i].name)
     /\ i < k
BestOf(t, stream, n, b) ==
  /\ Fitting(t, stream, n) = {} => b = Nothing
  /\ Fitting(t, stream, n) # {} =>
       /\ b.at \in Fitting(t, stream, n) /\ b = Found(t[b.at], b.at)
       /\ \A k \in Fitting(t, stream, n) \ {b.at} : Beats(t, b.at, k)

LEMMA BestNext ==
  ASSUME NEW t \in Seq(Policy), NEW stream, NEW n \in Nat, n + 1 \in 1..Len(t),
         NEW b, BestOf(t, stream, n, b)
  PROVE  BestOf(t, stream, n + 1, Chosen(stream, b, t[n + 1], n + 1))
<1>1. \A k \in 1..(n + 1) :
        /\ Len(t[k].name) \in Nat /\ Score(t[k]) \in Nat /\ k \in Nat
        /\ t[k].name # <<>> => Len(t[k].name) > 0
  <2>1. \A k \in 1..(n + 1) : k \in DOMAIN t /\ k \in Nat
    OBVIOUS
  <2>2. \A k \in DOMAIN t : t[k] \in Policy
    OBVIOUS
  <2>3. \A k \in DOMAIN t : t[k].name \in Seq(Nat)
    BY <2>2 DEF Policy
  <2> QED BY <2>1, <2>3, ScoreNat
<1>2. PICK p : p = t[n + 1]
  OBVIOUS
<1>3. /\ Len(p.name) \in Nat /\ Score(p) \in Nat /\ n + 1 \in 1..(n + 1)
      /\ p.name # <<>> => Len(p.name) > 0
  BY <1>1, <1>2
<1>4. PICK F : F = Fitting(t, stream, n)
  OBVIOUS
<1>5. /\ F \subseteq 1..n /\ \A k \in F : Suits(t[k], stream)
      /\ n + 1 \notin F
  BY <1>4 DEF Fitting
<1>6. CASE ~Suits(p, stream)
  <2>1. Chosen(stream, b, p, n + 1) = b
    BY <1>6 DEF Chosen, Suits
  <2>2. Fitting(t, stream, n + 1) = F
    BY <1>2, <1>4, <1>6 DEF Fitting
  <2> QED BY <1>2, <1>4, <2>1, <2>2 DEF BestOf
<1>7. CASE Suits(p, stream)
  <2>1. Fitting(t, stream, n + 1) = F \cup {n + 1}
    BY <1>2, <1>4, <1>7 DEF Fitting
  <2>2. PICK f : f = Found(p, n + 1)
    OBVIOUS
  <2>3. f.at = n + 1
    BY <2>2 DEF Found
  <2>4. CASE F = {}
    <3>1. b = Nothing
      BY <1>4, <2>4 DEF BestOf
    <3>2. Chosen(stream, b, p, n + 1) = f
      <4>1. p.name # <<>>
        BY <1>7 DEF Suits, AtTheEnd
      <4> QED BY <1>3, <1>7, <2>2, <3>1, <4>1 DEF Chosen, Nothing, Suits, Found, Score
    <3>3. Fitting(t, stream, n + 1) = {n + 1}
      BY <2>1, <2>4
    <3> QED BY <1>2, <2>2, <2>3, <3>2, <3>3 DEF BestOf
  <2>5. CASE F # {}
    <3>1. /\ b.at \in F /\ b = Found(t[b.at], b.at)
          /\ \A k \in F \ {b.at} : Beats(t, b.at, k)
      BY <1>4, <2>5 DEF BestOf
    <3>2. PICK i \in F : i = b.at
      BY <3>1
    <3>3. /\ b.score = Score(t[i]) /\ b.suffix = Len(t[i].name)
          /\ i \in 1..n /\ i \in 1..(n + 1)
          /\ Len(t[i].name) \in Nat /\ Score(t[i]) \in Nat
      <4>1. b.score = Score(t[i]) /\ b.suffix = Len(t[i].name)
        BY <3>1, <3>2 DEF Found, Score
      <4> QED BY <1>1, <1>5, <4>1
    <3>4. CASE \/ Score(p) > Score(t[i])
               \/ Score(p) = Score(t[i]) /\ Len(p.name) > Len(t[i].name)
      <4>1. Chosen(stream, b, p, n + 1) = f
        BY <1>3, <1>7, <2>2, <3>3, <3>4 DEF Chosen, Suits, Found, Score
      <4>2. ASSUME NEW k \in F PROVE Beats(t, n + 1, k)
        <5>1. Score(t[k]) \in Nat /\ Len(t[k].name) \in Nat
          BY <1>1, <1>5
        <5>2. CASE k = i
          BY <1>2, <3>4, <5>2 DEF Beats
        <5>3. CASE k # i
          <6>1. Beats(t, i, k)
            BY <3>1, <3>2, <5>3
          <6> QED BY <1>2, <1>3, <3>3, <3>4, <5>1, <6>1 DEF Beats
        <5> QED BY <5>2, <5>3
      <4> QED BY <1>2, <2>1, <2>2, <2>3, <4>1, <4>2 DEF BestOf
    <3>5. CASE ~(\/ Score(p) > Score(t[i])
                 \/ Score(p) = Score(t[i]) /\ Len(p.name) > Len(t[i].name))
      <4>1. Chosen(stream, b, p, n + 1) = b
        BY <1>3, <1>7, <3>3, <3>5 DEF Chosen, Suits, Found, Score
      <4>2. Beats(t, i, n + 1)
        BY <1>2, <1>3, <3>3, <3>5 DEF Beats
      <4>3. \A k \in (F \cup {n + 1}) \ {i} : Beats(t, i, k)
        BY <3>1, <3>2, <4>2
      <4> QED BY <1>2, <2>1, <3>1, <3>2, <4>1, <4>3 DEF BestOf
    <3> QED BY <3>4, <3>5
  <2> QED BY <2>4, <2>5
<1> QED BY <1>6, <1>7

LEMMA LookupIsBest ==
  ASSUME NEW t \in Seq(Policy), NEW stream
  PROVE  BestOf(t, stream, Len(t), Lookups(t, stream)[Len(t)])
<1> DEFINE P(n) == BestOf(t, stream, n, Lookups(t, stream)[n])
           T == {n \in 0..Len(t) : ~P(n)}
<1>1. Len(t) \in Nat
  OBVIOUS
<1>2. P(0)
  <2>1. Fitting(t, stream, 0) = {}
    BY DEF Fitting
  <2> QED BY <2>1, LookupsStep DEF BestOf
<1>3. ASSUME NEW n \in 0..Len(t), n # Len(t), P(n) PROVE P(n + 1)
  <2>1. n \in Nat /\ n + 1 \in 1..Len(t) /\ (n + 1) - 1 = n
    BY <1>1, <1>3
  <2>2. Lookups(t, stream)[n + 1] = Chosen(stream, Lookups(t, stream)[n], t[n + 1], n + 1)
    BY <2>1, LookupsStep
  <2> QED BY <1>3, <2>1, <2>2, BestNext
<1> HIDE DEF P
<1>4. ASSUME T # {} PROVE FALSE
  <2>1. T \in SUBSET Nat
    BY <1>1
  <2>2. PICK n \in T : \A j \in T : n <= j
    BY <1>4, <2>1, Least
  <2>3. /\ n # 0 /\ n - 1 \in 0..Len(t) /\ n - 1 # Len(t) /\ n - 1 \notin T
        /\ (n - 1) + 1 = n
    BY <1>1, <1>2, <2>2
  <2> QED BY <1>3, <2>2, <2>3
<1>5. P(Len(t))
  BY <1>1, <1>4
<1> QED BY <1>5 DEF P

(* For a table of any length, and any stream: the policy that              *)
(* get_dscp_from_policy_table() gives covers the stream, in as many        *)
(* conditions as any, has the longest domain name among those, and comes   *)
(* first among equals; it gives none only if none covers the stream, those *)
(* set aside whose domain name the stream's has twice.                     *)
THEOREM LookupCorrect == DscpSpec => []LookupFindsBest
<1>1. DInv => LookupFindsBest
  <2>1. PICK t : t = dscp_policy_table
    OBVIOUS
  <2> SUFFICES ASSUME DInv, NEW stream \in Streams
               PROVE
        LET Fits == {k \in DOMAIN t : Covers(t[k], stream) /\ ~Hidden(t[k], stream)}
            best == get_dscp_from_policy_table(t, stream)
            conditions(k) == Cardinality(Stated(t[k])) IN
          IF Fits = {} THEN best = 0
          ELSE best \in Fits /\ \A k \in Fits \ {best} :
                 \/ conditions(k) < conditions(best)
                 \/ /\ conditions(k) = conditions(best)
                    /\ \/ Len(t[k].name) < Len(t[best].name)
                       \/ Len(t[k].name) = Len(t[best].name) /\ best < k
    BY <2>1 DEF LookupFindsBest
  <2>2. t \in Seq(Policy) /\ stream \in Stream
    BY <2>1, DscpAssumption DEF DInv, TypeInv
  <2>3. PICK b : b = Lookups(t, stream)[Len(t)]
    OBVIOUS
  <2>4. BestOf(t, stream, Len(t), b)
    BY <2>2, <2>3, LookupIsBest
  <2>5. get_dscp_from_policy_table(t, stream) = b.at
    BY <2>3 DEF get_dscp_from_policy_table
  <2>6. {k \in DOMAIN t : Covers(t[k], stream) /\ ~Hidden(t[k], stream)}
          = Fitting(t, stream, Len(t))
    <3>1. \A k \in DOMAIN t : t[k] \in Policy
      BY <2>2
    <3>2. \A k \in DOMAIN t :
            Suits(t[k], stream) <=> Covers(t[k], stream) /\ ~Hidden(t[k], stream)
      BY <2>2, <3>1, AtTheEndOnce DEF Suits
    <3>3. DOMAIN t = 1..Len(t)
      BY <2>2
    <3> QED BY <3>2, <3>3 DEF Fitting
  <2>7. CASE Fitting(t, stream, Len(t)) = {}
    <3>1. b.at = 0
      BY <2>4, <2>7 DEF BestOf, Nothing
    <3> QED BY <2>5, <2>6, <2>7, <3>1
  <2>8. CASE Fitting(t, stream, Len(t)) # {}
    <3>1. /\ b.at \in Fitting(t, stream, Len(t))
          /\ \A k \in Fitting(t, stream, Len(t)) \ {b.at} : Beats(t, b.at, k)
      BY <2>4, <2>8 DEF BestOf
    <3> QED BY <2>5, <2>6, <2>8, <3>1 DEF Beats, Score
  <2> QED BY <2>7, <2>8
<1>2. DInv /\ [DscpNext]_dscpVars => DInv'
  BY DscpStepGood
<1> QED BY <1>1, <1>2, DscpInitGood, PTL DEF DscpSpec
=============================================================================
