--------------------------- MODULE CtrlIfaceProofs ---------------------------
(* A reply goes to the request it answers, and the event of a command is   *)
(* not lost before it is waited for: RepliesAreOwn and NoEventLost of      *)
(* CtrlIface, for any number of threads and connections.                   *)
EXTENDS CtrlIface, Integers, TLAPS

(* The replies that wait in a socket, and that none waits twice.           *)
RepliesIn(q) == {q[i].of : i \in {j \in DOMAIN q : ~q[j].event}}
Distinct(q) ==
  \A i, j \in DOMAIN q :
    ~q[i].event /\ ~q[j].event /\ q[i].of = q[j].of => i = j

(* The requests that a session has made, and those whose answer may still  *)
(* be to come: on the connection of the monitor only the one that is       *)
(* waited for, unless nothing is asked there any more, or a DETACH has had *)
(* no answer.                                                              *)
Before(step) ==
  CASE step \in {"open mon", "ATTACH"} -> {}
    [] step \in {"open cmd", "COMMAND"} -> {"ATTACH"}
    [] step \in {"close cmd", "await", "DETACH"} -> {"ATTACH", "COMMAND"}
    [] step = "BSS" -> {"ATTACH", "COMMAND", "DETACH"}
    [] OTHER -> Requests
Asked(k) ==
  Before(k.step) \cup (IF k.pc \in {"wait", "taken"} THEN {k.step} ELSE {})
MayCome(k) ==
  {o \in Asked(k) : \/ o = "COMMAND" \/ k.late
                    \/ k.step \in {"close mon", "done"}
                    \/ k.pc = "wait" /\ o = k.step}

(* A session has open what its place in the code says.                     *)
InCommand == {"open cmd", "COMMAND", "close cmd"}
InMonitor == {"ATTACH", "await", "DETACH", "BSS", "close mon"}
GoodRecord(k) ==
  /\ k.path["cmd"] # 0 <=> k.step \in {"COMMAND", "close cmd"}
  /\ k.path["mon"] # 0 <=> \/ k.step \in InMonitor
                           \/ k.step \in InCommand /\ k.kind # "command"
  /\ k.step \in InMonitor \cup {"open mon"} => k.kind # "command"
  /\ k.pc \in {"bind", "again"} => k.step \in {"open mon", "open cmd"}
  /\ k.pc \in {"wait", "taken"} => k.step \in Requests
  /\ k.late => k.step \in {"BSS", "close mon", "done"}

(* A path that is in use leads to the socket of its session and is used by *)
(* no other, and none is used that the counter has not come to.            *)
PathsInv ==
  /\ \A c \in Callers, e \in Sides :
       /\ caller[c].path[e] <= counter
       /\ caller[c].path[e] # 0 => file[caller[c].path[e]] = <<c, e>>
  /\ \A p \in Paths, c \in Callers, e \in Sides :
       file[p] = <<c, e>> => caller[c].path[e] = p
  /\ \A r \in daemon : r.path <= counter

(* Only one thread opens a connection at a time, at a path that is new.    *)
OpeningInv ==
  \A c \in Callers : Inside(c) =>
    /\ counter \in Paths
    /\ \A d \in Callers : Inside(d) => d = c
    /\ \A d \in Callers, e \in Sides : caller[d].path[e] # counter
    /\ \A r \in daemon : r.path # counter

(* What is on its way to a path, or waits in a socket, belongs to the      *)
(* session that uses it.                                                   *)
Owned(of, c, e) ==
  of[1] = c /\ of[2] = caller[c].n /\ (of[3] = "COMMAND" <=> e = "cmd")
OwnersInv ==
  \A c \in Callers, e \in Sides :
    /\ \A r \in daemon : r.path = caller[c].path[e] => Owned(r.of, c, e)
    /\ \A of \in RepliesIn(inbox[<<c, e>>]) :
         caller[c].path[e] # 0 /\ Owned(of, c, e)

(* A request has one answer at most.                                       *)
OnceInv ==
  /\ \A s \in Sockets :
       /\ Distinct(inbox[s])
       /\ \A of \in RepliesIn(inbox[s]) : \A r \in daemon : r.of # of
  /\ \A q, r \in daemon : q.of = r.of => q = r

(* What is to come was asked, and may still come.                          *)
Due(of) ==
  /\ of[2] <= caller[of[1]].n
  /\ of[2] = caller[of[1]].n => of[3] \in MayCome(caller[of[1]])
DueInv ==
  /\ \A r \in daemon : Due(r.of)
  /\ \A s \in Sockets : \A of \in RepliesIn(inbox[s]) : Due(of)

GoodInv ==
  /\ \A c \in Callers : GoodRecord(caller[c])
  /\ PathsInv /\ OpeningInv /\ OwnersInv /\ OnceInv /\ DueInv

IInv == CtrlTypeOK /\ (apart => GoodInv /\ RepliesAreOwn)
-----------------------------------------------------------------------------
(* Replies in a sequence of messages.                                      *)

(* Taking the first message out leaves the other replies, each once.       *)
LEMMA RepliesTail ==
  ASSUME NEW q \in Seq(Message), q # <<>>
  PROVE  /\ Head(q) \in Message /\ Tail(q) \in Seq(Message)
         /\ RepliesIn(Tail(q)) \subseteq RepliesIn(q)
         /\ ~Head(q).event => Head(q).of \in RepliesIn(q)
         /\ Distinct(q) =>
              /\ Distinct(Tail(q))
              /\ ~Head(q).event => Head(q).of \notin RepliesIn(Tail(q))
<1> DEFINE t == Tail(q)
<1>1. /\ t \in Seq(Message) /\ Head(q) \in Message /\ Head(q) = q[1]
      /\ Len(q) \in Nat /\ Len(q) >= 1 /\ Len(t) = Len(q) - 1
      /\ \A i \in 1..Len(t) : t[i] = q[i + 1]
      /\ DOMAIN q = 1..Len(q) /\ DOMAIN t = 1..Len(t)
  OBVIOUS
<1>2. \A i \in DOMAIN t : i + 1 \in DOMAIN q /\ i + 1 # 1 /\ t[i] = q[i + 1]
  BY <1>1
<1>3. 1 \in DOMAIN q
  BY <1>1
<1> HIDE DEF t
<1>4. RepliesIn(t) \subseteq RepliesIn(q)
  BY <1>2 DEF RepliesIn
<1>5. ~Head(q).event => Head(q).of \in RepliesIn(q)
  BY <1>1, <1>3 DEF RepliesIn
<1>6. ASSUME Distinct(q) PROVE Distinct(t)
  <2> SUFFICES ASSUME NEW i \in DOMAIN t, NEW j \in DOMAIN t,
                      ~t[i].event, ~t[j].event, t[i].of = t[j].of
               PROVE  i = j
    BY DEF Distinct
  <2>1. i + 1 = j + 1
    BY <1>2, <1>6 DEF Distinct
  <2>2. i \in Int /\ j \in Int
    BY <1>1
  <2> QED BY <2>1, <2>2
<1>7. ASSUME Distinct(q), ~Head(q).event PROVE Head(q).of \notin RepliesIn(t)
  BY <1>1, <1>2, <1>3, <1>7 DEF Distinct, RepliesIn
<1> QED BY <1>1, <1>4, <1>5, <1>6, <1>7 DEF t

(* A message that comes in is the only change.                             *)
LEMMA RepliesAppend ==
  ASSUME NEW q \in Seq(Message), NEW m \in Message
  PROVE  /\ Append(q, m) \in Seq(Message)
         /\ m.event => /\ RepliesIn(Append(q, m)) = RepliesIn(q)
                       /\ Distinct(q) => Distinct(Append(q, m))
         /\ ~m.event =>
              /\ RepliesIn(Append(q, m)) = RepliesIn(q) \cup {m.of}
              /\ Distinct(q) /\ m.of \notin RepliesIn(q)
                   => Distinct(Append(q, m))
<1> DEFINE a == Append(q, m)
           n == Len(q) + 1
<1>1. /\ a \in Seq(Message) /\ DOMAIN q = 1..Len(q) /\ DOMAIN a = 1..n
      /\ Len(q) \in Nat /\ a[n] = m /\ \A i \in 1..Len(q) : a[i] = q[i]
  OBVIOUS
<1>2. /\ DOMAIN a = DOMAIN q \cup {n} /\ n \notin DOMAIN q
      /\ \A i \in DOMAIN q : a[i] = q[i]
  BY <1>1
<1> HIDE DEF a, n
<1>3. ASSUME m.event PROVE RepliesIn(a) = RepliesIn(q)
  <2>1. \A i \in DOMAIN a : ~a[i].event => i \in DOMAIN q
    BY <1>1, <1>2, <1>3
  <2> QED BY <1>2, <2>1 DEF RepliesIn
<1>4. ASSUME ~m.event PROVE RepliesIn(a) = RepliesIn(q) \cup {m.of}
  <2>1. n \in DOMAIN a
    BY <1>2
  <2> QED BY <1>1, <1>2, <1>4, <2>1 DEF RepliesIn
<1>5. m.event /\ Distinct(q) => Distinct(a)
  BY <1>1, <1>2 DEF Distinct
<1>6. Distinct(q) /\ m.of \notin RepliesIn(q) => Distinct(a)
  BY <1>1, <1>2 DEF Distinct, RepliesIn
<1> QED BY <1>1, <1>3, <1>4, <1>5, <1>6 DEF a

(* They are answers to requests.                                           *)
LEMMA RepliesTyped ==
  ASSUME NEW q \in Seq(Message), NEW of \in RepliesIn(q)
  PROVE  of \in Tags
<1>1. PICK i \in DOMAIN q : of = q[i].of
  BY DEF RepliesIn
<1>2. q[i] \in Message
  BY <1>1
<1> QED BY <1>1, <1>2 DEF Message

LEMMA RepliesNone == RepliesIn(<<>>) = {} /\ Distinct(<<>>)
BY DEF RepliesIn, Distinct
-----------------------------------------------------------------------------
(* One thread's place in its session.                                      *)

(* j goes on in the session of k with the same connections, and nothing    *)
(* that might come for k is unexpected for j.                              *)
Continues(k, j) ==
  /\ j \in Caller /\ GoodRecord(j)
  /\ j.path = k.path /\ j.n = k.n
  /\ MayCome(k) \subseteq MayCome(j)

LEMMA AfterStep ==
  ASSUME NEW k \in Caller
  PROVE  After(k) \in Steps /\ AfterFailure(k) \in Steps
<1>1. /\ k.step \in Steps
      /\ k.step \in {"open mon", "ATTACH", "open cmd", "COMMAND", "close cmd",
                    "await", "DETACH", "BSS", "close mon", "done"}
  BY DEF Caller, Steps, Requests
<1> QED BY <1>1 DEF After, AfterFailure, Steps, Requests

(* A request that was answered, or an event that has come.                 *)
LEMMA OnwardContinues ==
  ASSUME NEW k \in Caller, GoodRecord(k), k.pc # "wait",
         k.step \in Requests \cup {"await"}
  PROVE  Continues(k, Onward(k)) /\ Onward(k).pc = "next"
<1>1. PICK j : j = Onward(k)
  OBVIOUS
<1>2. /\ j \in Caller /\ j.pc = "next" /\ j.step = After(k) /\ j.path = k.path
      /\ j.n = k.n /\ j.late = k.late /\ j.kind = k.kind
  BY <1>1, AfterStep DEF Onward, Caller
<1>3. GoodRecord(j) /\ MayCome(k) \subseteq MayCome(j)
  <2>1. CASE k.step = "ATTACH"
    BY <1>2, <2>1 DEF After, GoodRecord, MayCome, Asked, Before, Requests,
                      InCommand, InMonitor
  <2>2. CASE k.step = "COMMAND"
    BY <1>2, <2>2 DEF After, GoodRecord, MayCome, Asked, Before, Requests,
                      InCommand, InMonitor
  <2>3. CASE k.step = "DETACH"
    BY <1>2, <2>3 DEF After, GoodRecord, MayCome, Asked, Before, Requests,
                      InCommand, InMonitor
  <2>4. CASE k.step = "BSS"
    BY <1>2, <2>4 DEF After, GoodRecord, MayCome, Asked, Before, Requests,
                      InCommand, InMonitor
  <2>5. CASE k.step = "await"
    BY <1>2, <2>5 DEF After, GoodRecord, MayCome, Asked, Before, Requests,
                      InCommand, InMonitor
  <2> QED BY <2>1, <2>2, <2>3, <2>4, <2>5 DEF Requests
<1> QED BY <1>1, <1>2, <1>3 DEF Continues

(* A call that has failed.  Only a DETACH that was sent and not answered   *)
(* leaves the connection in use with an answer to come, and that is noted. *)
LEMMA GivesUpContinues ==
  ASSUME NEW k \in Caller, GoodRecord(k), NEW l \in BOOLEAN,
         k.step \in Requests \cup {"await", "open mon", "open cmd"},
         \/ k.pc # "wait" /\ l = k.late
         \/ l = (k.step = "DETACH")
  PROVE  LET j == [GivesUp(k) EXCEPT !.late = l] IN
           Continues(k, j) /\ j.pc = "next"
<1>1. PICK j : j = [GivesUp(k) EXCEPT !.late = l]
  OBVIOUS
<1>2. /\ j \in Caller /\ j.pc = "next" /\ j.step = AfterFailure(k)
      /\ j.path = k.path /\ j.n = k.n /\ j.late = l /\ j.kind = k.kind
  BY <1>1, AfterStep DEF GivesUp, Caller
<1>3. GoodRecord(j) /\ MayCome(k) \subseteq MayCome(j)
  <2>1. CASE k.step = "ATTACH"
    BY <1>2, <2>1 DEF After, AfterFailure, GoodRecord, MayCome, Asked, Before,
                      Requests, InCommand, InMonitor
  <2>2. CASE k.step = "COMMAND"
    BY <1>2, <2>2 DEF After, AfterFailure, GoodRecord, MayCome, Asked, Before,
                      Requests, InCommand, InMonitor
  <2>3. CASE k.step = "DETACH"
    BY <1>2, <2>3 DEF After, AfterFailure, GoodRecord, MayCome, Asked, Before,
                      Requests, InCommand, InMonitor
  <2>4. CASE k.step = "BSS"
    BY <1>2, <2>4 DEF After, AfterFailure, GoodRecord, MayCome, Asked, Before,
                      Requests, InCommand, InMonitor
  <2>5. CASE k.step = "await"
    BY <1>2, <2>5 DEF After, AfterFailure, GoodRecord, MayCome, Asked, Before,
                      Requests, InCommand, InMonitor
  <2>6. CASE k.step = "open mon"
    BY <1>2, <2>6 DEF After, AfterFailure, GoodRecord, MayCome, Asked, Before,
                      Requests, InCommand, InMonitor
  <2>7. CASE k.step = "open cmd"
    BY <1>2, <2>7 DEF After, AfterFailure, GoodRecord, MayCome, Asked, Before,
                      Requests, InCommand, InMonitor
  <2> QED BY <2>1, <2>2, <2>3, <2>4, <2>5, <2>6, <2>7 DEF Requests
<1> QED BY <1>1, <1>2, <1>3 DEF Continues
-----------------------------------------------------------------------------
(* The steps of a thread.                                                  *)

(* What was due stays due when no session ends.                            *)
LEMMA DueStays ==
  ASSUME CtrlTypeOK, DueInv,
         \A d \in Callers : /\ caller'[d].n = caller[d].n
                            /\ MayCome(caller[d]) \subseteq MayCome(caller'[d]),
         daemon' \subseteq daemon,
         \A s \in Sockets : RepliesIn(inbox'[s]) \subseteq RepliesIn(inbox[s])
  PROVE  DueInv'
<1>1. \A of \in Tags : Due(of) => Due(of)'
  BY DEF Due, Tags
<1>2. /\ \A r \in daemon : r.of \in Tags
      /\ \A s \in Sockets : \A of \in RepliesIn(inbox[s]) : of \in Tags
  BY RepliesTyped DEF CtrlTypeOK
<1> QED BY <1>1, <1>2 DEF DueInv

(* Only the place of one thread in its session changes, or the session.    *)
LEMMA QuietStep ==
  ASSUME CtrlTypeOK, GoodInv, RepliesAreOwn, apart,
         NEW c \in Callers, NEW j \in Caller,
         caller' = [caller EXCEPT ![c] = j], j.pc # "taken",
         \/ Continues(caller[c], j)
         \/ /\ j.n = caller[c].n + 1 /\ j.path = caller[c].path
            /\ GoodRecord(j) /\ \A e \in Sides : j.path[e] = 0,
         counter' \in 0..MaxOpens, counter <= counter',
         UNCHANGED <<file, daemon, inbox>>, OpeningInv'
  PROVE  GoodInv' /\ RepliesAreOwn'
<1>1. /\ caller' \in [Callers -> Caller] /\ caller'[c] = j /\ GoodRecord(j)
      /\ j.path = caller[c].path
      /\ \A d \in Callers : d # c => caller'[d] = caller[d]
      /\ file' = file /\ daemon' = daemon /\ inbox' = inbox
  BY DEF CtrlTypeOK, Continues
<1>2. \A d \in Callers : GoodRecord(caller'[d]) /\ caller'[d].path = caller[d].path
  BY <1>1 DEF GoodInv
<1>3. PathsInv'
  <2>1. \A d \in Callers, e \in Sides :
          caller[d].path[e] \in Nat /\ caller[d].path[e] <= counter
    BY DEF GoodInv, PathsInv, CtrlTypeOK, Caller, Paths
  <2>2. \A d \in Callers, e \in Sides : caller[d].path[e] <= counter'
    BY <2>1 DEF CtrlTypeOK
  <2>3. \A r \in daemon : r.path <= counter'
    BY DEF GoodInv, PathsInv, CtrlTypeOK, Paths
  <2>4. ASSUME NEW d \in Callers, NEW e \in Sides
        PROVE  /\ caller'[d].path[e] <= counter'
               /\ caller'[d].path[e] # 0 => file[caller'[d].path[e]] = <<d, e>>
    <3>1. caller[d].path[e] # 0 => file[caller[d].path[e]] = <<d, e>>
      BY DEF GoodInv, PathsInv
    <3>2. caller'[d].path = caller[d].path
      BY <1>2
    <3> QED BY <2>2, <3>1, <3>2
  <2>5. ASSUME NEW p \in Paths, NEW d \in Callers, NEW e \in Sides,
               file[p] = <<d, e>>
        PROVE  caller'[d].path[e] = p
    <3>1. caller[d].path[e] = p
      BY <2>5 DEF GoodInv, PathsInv
    <3>2. caller'[d].path = caller[d].path
      BY <1>2
    <3> QED BY <3>1, <3>2
  <2> QED BY <1>1, <2>3, <2>4, <2>5 DEF PathsInv
<1>4. CASE Continues(caller[c], j)
  <2>1. /\ \A d \in Callers : caller'[d].n = caller[d].n
        /\ \A d \in Callers : MayCome(caller[d]) \subseteq MayCome(caller'[d])
    BY <1>1, <1>4 DEF Continues
  <2>2. OwnersInv'
    BY <1>1, <1>2, <2>1 DEF GoodInv, OwnersInv, Owned
  <2>3. \A of \in Tags : Due(of) => Due(of)'
    BY <2>1 DEF Due, Tags
  <2>4. /\ \A r \in daemon : r.of \in Tags
        /\ \A s \in Sockets : \A of \in RepliesIn(inbox[s]) : of \in Tags
    BY RepliesTyped DEF CtrlTypeOK
  <2>5. DueInv'
    BY <1>1, <2>3, <2>4 DEF GoodInv, DueInv
  <2> QED BY <1>1, <1>2, <1>3, <2>2, <2>5
          DEF GoodInv, OnceInv, RepliesAreOwn, Tag
<1>5. CASE /\ j.n = caller[c].n + 1 /\ j.path = caller[c].path
           /\ \A e \in Sides : j.path[e] = 0
  <2>1. \A d \in Callers : d # c => caller'[d] = caller[d]
    BY <1>1
  <2>2. OwnersInv'
    <3>1. \A r \in daemon : r.path # 0
      BY DEF CtrlTypeOK, Paths
    <3>2. \A e \in Sides : RepliesIn(inbox[<<c, e>>]) = {}
      BY <1>5 DEF GoodInv, OwnersInv
    <3> QED BY <1>1, <1>5, <3>1, <3>2 DEF GoodInv, OwnersInv, Owned
  <2>3. \A of \in Tags : Due(of) => Due(of)'
    <3> SUFFICES ASSUME NEW of \in Tags, Due(of) PROVE Due(of)'
      OBVIOUS
    <3>1. of[1] \in Callers /\ of[2] \in Nat /\ caller[of[1]].n \in Nat
      BY DEF Tags, CtrlTypeOK, Caller
    <3>2. CASE of[1] = c
      <4>1. of[2] <= caller[c].n /\ caller'[c].n = caller[c].n + 1
        BY <1>1, <1>5, <3>2 DEF Due
      <4> QED BY <3>1, <3>2, <4>1 DEF Due
    <3>3. CASE of[1] # c
      BY <2>1, <3>1, <3>3 DEF Due
    <3> QED BY <3>2, <3>3
  <2>4. /\ \A r \in daemon : r.of \in Tags
        /\ \A s \in Sockets : \A of \in RepliesIn(inbox[s]) : of \in Tags
    BY RepliesTyped DEF CtrlTypeOK
  <2>5. DueInv'
    BY <1>1, <2>3, <2>4 DEF GoodInv, DueInv
  <2> QED BY <1>1, <1>2, <1>3, <2>2, <2>5
          DEF GoodInv, OnceInv, RepliesAreOwn, Tag
<1> QED BY <1>4, <1>5

(* The same, of a step that neither opens nor reads a reply.               *)
LEMMA NextStep ==
  ASSUME CtrlTypeOK, GoodInv, RepliesAreOwn, apart,
         NEW c \in Callers, NEW j \in Caller,
         caller' = [caller EXCEPT ![c] = j], j.pc \in {"next", "wait"},
         \/ Continues(caller[c], j)
         \/ /\ j.n = caller[c].n + 1 /\ j.path = caller[c].path
            /\ GoodRecord(j) /\ \A e \in Sides : j.path[e] = 0,
         UNCHANGED <<counter, file, daemon, attached, due, inbox, apart>>
  PROVE  CtrlTypeOK' /\ GoodInv' /\ RepliesAreOwn'
<1>1. /\ caller' \in [Callers -> Caller] /\ caller'[c] = j
      /\ j.path = caller[c].path
      /\ \A d \in Callers : d # c => caller'[d] = caller[d]
  BY DEF CtrlTypeOK, Continues
<1>2. CtrlTypeOK'
  BY <1>1 DEF CtrlTypeOK
<1>3. /\ \A d \in Callers : Inside(d)' => Inside(d)
      /\ \A d \in Callers : caller'[d].path = caller[d].path
  BY <1>1 DEF Inside
<1>4. OpeningInv'
  BY <1>3 DEF GoodInv, OpeningInv
<1>5. counter' \in 0..MaxOpens /\ counter <= counter'
  BY CtrlAssumption DEF CtrlTypeOK
<1> QED BY <1>2, <1>4, <1>5, QuietStep

LEMMA Here ==
  ASSUME CtrlTypeOK, GoodInv, NEW c \in Callers
  PROVE  /\ caller[c] \in Caller /\ GoodRecord(caller[c])
         /\ Side(caller[c]) \in Sides /\ Socket(c) \in Sockets
         /\ Socket(c) = <<c, Side(caller[c])>>
         /\ inbox[Socket(c)] \in Seq(Message)
BY DEF CtrlTypeOK, GoodInv, Side, Sides, Sockets, Socket

LEMMA BeginsTyped ==
  ASSUME NEW k \in Caller, NEW kind \in SessionKinds
  PROVE  LET j == Begins(k, kind) IN
           /\ j \in Caller /\ j.pc = k.pc /\ j.n = k.n + 1 /\ j.path = k.path
           /\ j.kind = kind /\ j.late = FALSE
           /\ j.step = IF kind = "command" THEN "open cmd" ELSE "open mon"
<1>1. PICK n : n = k.n + 1
  OBVIOUS
<1>2. PICK s : s = IF kind = "command" THEN "open cmd" ELSE "open mon"
  OBVIOUS
<1>3. n \in Nat /\ s \in Steps
  <2>1. k.n \in Nat
    BY DEF Caller
  <2>2. s \in {"open cmd", "open mon"}
    BY <1>2
  <2>3. n \in Nat
    BY <1>1, <2>1
  <2>4. s \in Steps
    BY <2>2, Zenon DEF Steps
  <2> QED BY <2>3, <2>4
<1>4. PICK j : j = [k EXCEPT !.kind = kind, !.n = n, !.ok = TRUE,
                             !.late = FALSE, !.step = s]
  OBVIOUS
<1>5. Begins(k, kind) = j
  BY <1>1, <1>2, <1>4 DEF Begins
<1>6. /\ j \in Caller /\ j.pc = k.pc /\ j.n = n /\ j.path = k.path
      /\ j.kind = kind /\ j.late = FALSE /\ j.step = s
  BY <1>3, <1>4 DEF Caller
<1> QED BY <1>1, <1>2, <1>5, <1>6

LEMMA BeginGood ==
  ASSUME CtrlTypeOK, GoodInv, RepliesAreOwn, apart,
         NEW c \in Callers, Begin(c)
  PROVE  CtrlTypeOK' /\ GoodInv' /\ RepliesAreOwn'
<1> DEFINE k == caller[c]
<1>1. k \in Caller /\ GoodRecord(k) /\ k.step = "done" /\ k.pc = "next"
  BY Here DEF Begin, AtCall
<1>2. PICK kind \in SessionKinds :
        caller' = [caller EXCEPT ![c] = Begins(caller[c], kind)]
  BY DEF Begin
<1>3. PICK j : j = Begins(k, kind)
  OBVIOUS
<1>4. /\ j \in Caller /\ j.pc = "next" /\ j.n = k.n + 1 /\ j.path = k.path
      /\ j.kind = kind /\ j.late = FALSE
      /\ j.step = IF kind = "command" THEN "open cmd" ELSE "open mon"
  BY <1>1, <1>3, BeginsTyped
<1>5. k.path["mon"] = 0 /\ k.path["cmd"] = 0
  BY <1>1 DEF GoodRecord, InCommand, InMonitor
<1>6. GoodRecord(j) /\ \A e \in Sides : j.path[e] = 0
  BY <1>4, <1>5 DEF GoodRecord, InCommand, InMonitor, Sides, Requests
<1>7. caller' = [caller EXCEPT ![c] = j]
  BY <1>2, <1>3
<1> QED BY <1>4, <1>6, <1>7, NextStep DEF Begin

LEMMA OpenEnterGood ==
  ASSUME CtrlTypeOK, GoodInv, RepliesAreOwn, apart,
         NEW c \in Callers, OpenEnter(c)
  PROVE  CtrlTypeOK' /\ (apart' => GoodInv' /\ RepliesAreOwn')
<1> DEFINE k == caller[c]
<1>1. /\ k \in Caller /\ GoodRecord(k) /\ k.pc = "next"
      /\ k.step \in {"open mon", "open cmd"}
  BY Here DEF OpenEnter, AtCall
<1>2. PICK j : j = [k EXCEPT !.pc = "bind"]
  OBVIOUS
<1>3. /\ j \in Caller /\ j.pc = "bind" /\ j.n = k.n /\ j.path = k.path
      /\ j.kind = k.kind /\ j.late = k.late /\ j.step = k.step
  BY <1>1, <1>2 DEF Caller
<1>4. caller' = [caller EXCEPT ![c] = j]
  BY <1>2 DEF OpenEnter
<1>5. Continues(k, j)
  BY <1>1, <1>3 DEF Continues, GoodRecord, MayCome, Asked, Requests
<1>6. /\ counter' = counter + 1 /\ counter' \in 0..MaxOpens
      /\ counter' \in Paths /\ counter \in Int /\ counter <= counter'
  <2>1. counter \in 0..MaxOpens /\ MaxOpens \in Nat
    BY CtrlAssumption DEF CtrlTypeOK
  <2>2. counter' = counter + 1 /\ counter < MaxOpens
    BY DEF OpenEnter
  <2> QED BY <2>1, <2>2 DEF Paths
<1>7. CtrlTypeOK'
  BY <1>3, <1>4, <1>6 DEF CtrlTypeOK, OpenEnter
<1>8. ASSUME apart' PROVE GoodInv' /\ RepliesAreOwn'
  <2>1. /\ \A d \in Callers : ~Inside(d)
        /\ UNCHANGED <<file, daemon, inbox>>
    BY <1>8 DEF OpenEnter
  <2>2. \A d \in Callers : Inside(d)' => d = c
    BY <1>4, <2>1 DEF CtrlTypeOK, Inside
  <2>3. \A d \in Callers, e \in Sides : caller'[d].path[e] # counter'
    <3> SUFFICES ASSUME NEW d \in Callers, NEW e \in Sides
                 PROVE  caller'[d].path[e] # counter'
      OBVIOUS
    <3>1. /\ caller[d].path[e] <= counter
          /\ caller[d].path[e] \in Paths \cup {0}
      BY DEF GoodInv, PathsInv, CtrlTypeOK, Caller
    <3>2. caller'[d].path = caller[d].path
      BY <1>3, <1>4 DEF CtrlTypeOK
    <3> QED BY <1>6, <3>1, <3>2 DEF Paths
  <2>4. \A r \in daemon : r.path # counter'
    BY <1>6 DEF GoodInv, PathsInv, CtrlTypeOK, Paths
  <2>5. OpeningInv'
    BY <1>6, <2>1, <2>2, <2>3, <2>4 DEF OpeningInv
  <2> QED BY <1>3, <1>4, <1>5, <1>6, <2>1, <2>5, QuietStep
<1> QED BY <1>7, <1>8

(* A call that fails.                                                      *)
LEMMA FailureGood ==
  ASSUME CtrlTypeOK, GoodInv, RepliesAreOwn, apart,
         NEW c \in Callers, NEW l \in BOOLEAN,
         caller[c].step \in Requests \cup {"await", "open mon", "open cmd"},
         \/ caller[c].pc # "wait" /\ l = caller[c].late
         \/ l = (caller[c].step = "DETACH"),
         caller' = [caller EXCEPT ![c] = [GivesUp(caller[c]) EXCEPT !.late = l]],
         UNCHANGED <<counter, file, daemon, attached, due, inbox, apart>>
  PROVE  CtrlTypeOK' /\ GoodInv' /\ RepliesAreOwn'
<1>1. PICK j : j = [GivesUp(caller[c]) EXCEPT !.late = l]
  OBVIOUS
<1>2. Continues(caller[c], j) /\ j.pc = "next"
  BY <1>1, Here, GivesUpContinues
<1>3. j \in Caller
  BY <1>2 DEF Continues
<1> QED BY <1>1, <1>2, <1>3, NextStep

LEMMA SameLate ==
  ASSUME NEW k \in Caller
  PROVE  /\ k.late \in BOOLEAN
         /\ [GivesUp(k) EXCEPT !.late = k.late] = GivesUp(k)
<1>1. k.late \in BOOLEAN
  BY DEF Caller
<1>2. PICK g : g = GivesUp(k)
  OBVIOUS
<1>3. g \in Caller /\ g.late = k.late
  BY <1>2, AfterStep DEF GivesUp, Caller
<1>4. [g EXCEPT !.late = k.late] = g
  BY <1>3 DEF Caller
<1> QED BY <1>1, <1>2, <1>4

(* OpenFails, SendFails, AwaitGivesUp, TimesOut and Reads.                 *)
LEMMA FailuresGood ==
  ASSUME CtrlTypeOK, GoodInv, RepliesAreOwn, apart,
         NEW c \in Callers,
         OpenFails(c) \/ SendFails(c) \/ AwaitGivesUp(c) \/ TimesOut(c)
  PROVE  CtrlTypeOK' /\ GoodInv' /\ RepliesAreOwn'
<1> DEFINE k == caller[c]
<1>1. k \in Caller /\ GoodRecord(k)
  BY Here
<1>2. CASE OpenFails(c) \/ SendFails(c) \/ AwaitGivesUp(c)
  <2>1. /\ k.pc # "wait"
        /\ k.step \in Requests \cup {"await", "open mon", "open cmd"}
    BY <1>1, <1>2 DEF OpenFails, SendFails, AwaitGivesUp, AtCall, Inside,
                     GoodRecord
  <2>2. /\ caller' = [caller EXCEPT ![c] = GivesUp(k)]
        /\ UNCHANGED <<counter, file, daemon, attached, due, inbox, apart>>
    BY <1>2 DEF OpenFails, SendFails, AwaitGivesUp
  <2>3. caller' = [caller EXCEPT ![c] = [GivesUp(k) EXCEPT !.late = k.late]]
    BY <1>1, <2>2, SameLate
  <2>4. k.late \in BOOLEAN
    BY <1>1, SameLate
  <2> QED BY <2>1, <2>2, <2>3, <2>4, FailureGood
<1>3. CASE TimesOut(c)
  <2>1. k.step \in Requests /\ (k.step = "DETACH") \in BOOLEAN
    BY <1>1, <1>3 DEF TimesOut, GoodRecord
  <2> QED BY <1>3, <2>1, FailureGood DEF TimesOut
<1> QED BY <1>2, <1>3

LEMMA ReadsGood ==
  ASSUME CtrlTypeOK, GoodInv, RepliesAreOwn, apart,
         NEW c \in Callers, Reads(c)
  PROVE  CtrlTypeOK' /\ GoodInv' /\ RepliesAreOwn'
<1> DEFINE k == caller[c]
<1>1. k \in Caller /\ GoodRecord(k) /\ k.pc = "taken" /\ k.step \in Requests
  BY Here DEF Reads, GoodRecord
<1>2. UNCHANGED <<counter, file, daemon, attached, due, inbox, apart>>
  BY DEF Reads
<1>3. CASE caller' = [caller EXCEPT ![c] = Onward(k)]
  <2>1. PICK j : j = Onward(k)
    OBVIOUS
  <2>2. Continues(k, j) /\ j.pc = "next"
    BY <1>1, <2>1, OnwardContinues
  <2>3. j \in Caller
    BY <2>2 DEF Continues
  <2> QED BY <1>2, <1>3, <2>1, <2>2, <2>3, NextStep
<1>4. CASE caller' = [caller EXCEPT ![c] = GivesUp(k)]
  <2>1. caller' = [caller EXCEPT ![c] = [GivesUp(k) EXCEPT !.late = k.late]]
    BY <1>1, <1>4, SameLate
  <2>2. k.late \in BOOLEAN
    BY <1>1, SameLate
  <2> QED BY <1>1, <1>2, <2>1, <2>2, FailureGood
<1> QED BY <1>3, <1>4 DEF Reads
-----------------------------------------------------------------------------
(* Opening and closing.                                                    *)

(* A connection opened at p, or closed.                                    *)
LEMMA LeadsTyped ==
  ASSUME NEW k \in Caller, NEW p \in Paths \cup {0}
  PROVE  LET j == Leads(k, p) IN
           /\ j \in Caller /\ j.pc = "next" /\ j.step = After(k) /\ j.n = k.n
           /\ j.late = k.late /\ j.kind = k.kind /\ j.path[Side(k)] = p
           /\ \A e \in Sides : e # Side(k) => j.path[e] = k.path[e]
<1>1. PICK o : o = Onward(k)
  OBVIOUS
<1>2. /\ o \in Caller /\ o.pc = "next" /\ o.step = After(k) /\ o.path = k.path
      /\ o.n = k.n /\ o.late = k.late /\ o.kind = k.kind
  BY <1>1, AfterStep DEF Onward, Caller
<1>3. k.path \in [Sides -> Paths \cup {0}] /\ Side(k) \in Sides
  BY DEF Caller, Side, Sides
<1>4. PICK q : q = [k.path EXCEPT ![Side(k)] = p]
  OBVIOUS
<1>5. /\ q \in [Sides -> Paths \cup {0}] /\ q[Side(k)] = p
      /\ \A e \in Sides : e # Side(k) => q[e] = k.path[e]
  BY <1>3, <1>4
<1>6. PICK i : i = [o EXCEPT !.path = q]
  OBVIOUS
<1>7. Leads(k, p) = i
  BY <1>1, <1>2, <1>4, <1>6, Zenon DEF Leads
<1>8. /\ i \in Caller /\ i.pc = "next" /\ i.step = After(k) /\ i.path = q
      /\ i.n = k.n /\ i.late = k.late /\ i.kind = k.kind
  BY <1>2, <1>5, <1>6 DEF Caller
<1> QED BY <1>5, <1>7, <1>8, Zenon

LEMMA OpenedContinues ==
  ASSUME NEW k \in Caller, GoodRecord(k), NEW p \in Paths,
         k.step \in {"open mon", "open cmd"}
  PROVE  LET j == Leads(k, p) IN
           /\ j \in Caller /\ j.pc = "next" /\ GoodRecord(j) /\ j.n = k.n
           /\ k.path[Side(k)] = 0 /\ j.path[Side(k)] = p
           /\ \A e \in Sides : e # Side(k) => j.path[e] = k.path[e]
           /\ MayCome(k) \subseteq MayCome(j)
<1> DEFINE j == Leads(k, p)
<1> HIDE DEF j
<1>1. /\ k.path \in [Sides -> Paths \cup {0}] /\ Side(k) \in Sides
      /\ 0 \notin Paths /\ p # 0
  BY ONLY CtrlAssumption, k \in Caller, p \in Paths
     DEF Caller, Side, Sides, Paths
<1>2. /\ j \in Caller /\ j.pc = "next" /\ j.step = After(k) /\ j.n = k.n
      /\ j.late = k.late /\ j.kind = k.kind /\ j.path[Side(k)] = p
      /\ \A e \in Sides : e # Side(k) => j.path[e] = k.path[e]
  <2>1. p \in Paths \cup {0}
    OBVIOUS
  <2> QED BY <2>1, LeadsTyped DEF j
<1>3. CASE k.step = "open mon"
  <2>1. Side(k) = "mon" /\ j.step = "ATTACH"
    BY <1>2, <1>3 DEF Side, After
  <2>2. k.path["mon"] = 0 /\ k.path["cmd"] = 0 /\ k.kind # "command" /\ ~k.late
    BY <1>3 DEF GoodRecord, InCommand, InMonitor
  <2>3. j.path["mon"] # 0 /\ j.path["cmd"] = 0
    BY <1>1, <1>2, <2>1, <2>2 DEF Sides
  <2>4. GoodRecord(j)
    BY <1>2, <2>1, <2>2, <2>3 DEF GoodRecord, InCommand, InMonitor
  <2>5. MayCome(k) = {}
    BY <1>3 DEF MayCome, Asked, Before, Requests, GoodRecord
  <2> QED BY <1>2, <2>1, <2>2, <2>4, <2>5 DEF j
<1>4. CASE k.step = "open cmd"
  <2>1. Side(k) = "cmd" /\ j.step = "COMMAND"
    BY <1>2, <1>4 DEF Side, After
  <2>2. k.path["cmd"] = 0 /\ ~k.late /\ (k.path["mon"] # 0 <=> k.kind # "command")
    BY <1>4 DEF GoodRecord, InCommand, InMonitor
  <2>3. j.path["cmd"] # 0 /\ j.path["mon"] = k.path["mon"]
    BY <1>1, <1>2, <2>1, <2>2 DEF Sides
  <2>4. GoodRecord(j)
    BY <1>2, <2>1, <2>2, <2>3 DEF GoodRecord, InCommand, InMonitor
  <2>5. MayCome(k) \subseteq MayCome(j)
    BY <1>2, <1>4, <2>1, <2>2
       DEF MayCome, Asked, Before, Requests, GoodRecord
  <2> QED BY <1>2, <2>1, <2>2, <2>4, <2>5 DEF j
<1> QED BY <1>3, <1>4 DEF j

LEMMA OpenBindGood ==
  ASSUME CtrlTypeOK, GoodInv, RepliesAreOwn, apart,
         NEW c \in Callers, OpenBind(c)
  PROVE  CtrlTypeOK' /\ GoodInv' /\ RepliesAreOwn'
<1> DEFINE k == caller[c]
           e == Side(k)
<1>1. /\ k \in Caller /\ GoodRecord(k) /\ e \in Sides /\ Socket(c) = <<c, e>>
      /\ Socket(c) \in Sockets /\ k.step \in {"open mon", "open cmd"}
  BY Here DEF OpenBind, Inside, GoodRecord
<1>2. /\ counter \in Paths /\ \A d \in Callers : Inside(d) => d = c
      /\ \A d \in Callers, f \in Sides : caller[d].path[f] # counter
      /\ \A r \in daemon : r.path # counter
  BY DEF GoodInv, OpeningInv, OpenBind
<1>3. PICK j : j = Leads(k, counter)
  OBVIOUS
<1>4. /\ j \in Caller /\ j.pc = "next" /\ GoodRecord(j) /\ j.n = k.n
      /\ k.path[e] = 0 /\ j.path[e] = counter
      /\ \A f \in Sides : f # e => j.path[f] = k.path[f]
      /\ MayCome(k) \subseteq MayCome(j)
  <2>1. j = Leads(k, counter) /\ counter \in Paths
    BY <1>2, <1>3
  <2> QED BY ONLY <1>1, <2>1, OpenedContinues
<1>5. /\ caller' = [caller EXCEPT ![c] = j]
      /\ file' = [file EXCEPT ![counter] = <<c, e>>]
      /\ inbox' = [inbox EXCEPT ![<<c, e>>] = <<>>]
      /\ UNCHANGED <<counter, daemon, attached, due, apart>>
  BY <1>1, <1>3 DEF OpenBind
<1>6. /\ <<c, e>> \in Sockets
      /\ caller'[c] = j /\ \A d \in Callers : d # c => caller'[d] = caller[d]
      /\ file'[counter] = <<c, e>>
      /\ \A p \in Paths : p # counter => file'[p] = file[p]
      /\ inbox'[<<c, e>>] = <<>>
      /\ \A s \in Sockets : s # <<c, e>> => inbox'[s] = inbox[s]
  BY <1>1, <1>2, <1>5 DEF CtrlTypeOK
<1> HIDE DEF k, e
<1>7. CtrlTypeOK'
  <2>1. caller' \in [Callers -> Caller]
    BY <1>4, <1>5 DEF CtrlTypeOK
  <2>2. file' \in [Paths -> Sockets \cup {Nobody, Left}]
    BY <1>2, <1>5, <1>6 DEF CtrlTypeOK
  <2>3. inbox' \in [Sockets -> Seq(Message)]
    BY <1>5, <1>6 DEF CtrlTypeOK
  <2> QED BY <1>5, <2>1, <2>2, <2>3 DEF CtrlTypeOK
<1>8. \A d \in Callers, f \in Sides :
        /\ <<d, f>> \in Sockets
        /\ \/ d = c /\ f = e
           \/ /\ <<d, f>> # <<c, e>>
              /\ caller'[d].path[f] = caller[d].path[f]
  BY <1>1, <1>4, <1>6 DEF Sockets, k
<1>9. \A d \in Callers :
        /\ GoodRecord(caller'[d]) /\ caller'[d].n = caller[d].n
        /\ MayCome(caller[d]) \subseteq MayCome(caller'[d])
        /\ Inside(d)' => FALSE
  BY <1>2, <1>4, <1>6 DEF GoodInv, k, Inside
<1>10. \A d \in Callers, f \in Sides :
         /\ caller[d].path[f] \in Paths \cup {0} /\ caller[d].path[f] <= counter
         /\ caller[d].path[f] # 0 => file[caller[d].path[f]] = <<d, f>>
  BY DEF CtrlTypeOK, Caller, GoodInv, PathsInv
<1>11. PathsInv'
  <2>1. ASSUME NEW d \in Callers, NEW f \in Sides
        PROVE  /\ caller'[d].path[f] <= counter
               /\ caller'[d].path[f] # 0 => file'[caller'[d].path[f]] = <<d, f>>
    <3>1. CASE d = c /\ f = e
      <4>1. caller'[d].path[f] = counter /\ file'[counter] = <<d, f>>
        BY <1>4, <1>6, <3>1
      <4>2. counter <= counter
        BY <1>2 DEF Paths
      <4> QED BY <4>1, <4>2
    <3>2. CASE caller'[d].path[f] = caller[d].path[f]
      <4>1. caller[d].path[f] # counter
        BY <1>2
      <4> QED BY <1>6, <1>10, <3>2, <4>1
    <3> QED BY <1>8, <3>1, <3>2
  <2>2. ASSUME NEW p \in Paths, NEW d \in Callers, NEW f \in Sides,
               file'[p] = <<d, f>>
        PROVE  caller'[d].path[f] = p
    <3>1. CASE p = counter
      BY <1>4, <1>6, <2>2, <3>1
    <3>2. CASE p # counter
      <4>1. file[p] = <<d, f>>
        BY <1>6, <2>2, <3>2
      <4>2. caller[d].path[f] = p /\ p # 0
        BY <4>1 DEF GoodInv, PathsInv, Paths
      <4> QED BY <1>4, <1>8, <4>2 DEF k
    <3> QED BY <3>1, <3>2
  <2>3. \A r \in daemon : r.path <= counter
    BY DEF GoodInv, PathsInv
  <2> QED BY <1>5, <2>1, <2>2, <2>3 DEF PathsInv
<1>12. OpeningInv'
  BY <1>9 DEF OpeningInv
<1>13. OwnersInv'
  <2> SUFFICES ASSUME NEW d \in Callers, NEW f \in Sides
               PROVE  /\ \A r \in daemon' : r.path = caller'[d].path[f]
                                            => Owned(r.of, d, f)'
                      /\ \A of \in RepliesIn(inbox'[<<d, f>>]) :
                           caller'[d].path[f] # 0 /\ Owned(of, d, f)'
    BY DEF OwnersInv
  <2>1. CASE d = c /\ f = e
    BY <1>2, <1>4, <1>5, <1>6, <2>1, RepliesNone
  <2>2. CASE <<d, f>> # <<c, e>> /\ caller'[d].path[f] = caller[d].path[f]
    BY <1>5, <1>6, <1>8, <1>9, <2>2 DEF GoodInv, OwnersInv, Owned
  <2> QED BY <1>8, <2>1, <2>2
<1>14. \A s \in Sockets : inbox'[s] = inbox[s] \/ inbox'[s] = <<>>
  BY <1>6
<1>15. OnceInv'
  BY <1>5, <1>14, RepliesNone DEF GoodInv, OnceInv
<1>16. DueInv'
  <2>1. \A s \in Sockets : RepliesIn(inbox'[s]) \subseteq RepliesIn(inbox[s])
    BY <1>14, RepliesNone
  <2>2. DueInv /\ daemon' = daemon
    BY <1>5 DEF GoodInv
  <2> QED BY <1>9, <2>1, <2>2, DueStays
<1>17. RepliesAreOwn'
  BY <1>4, <1>6 DEF RepliesAreOwn, Tag
<1> QED BY <1>7, <1>9, <1>11, <1>12, <1>13, <1>15, <1>16, <1>17 DEF GoodInv

(* A file that leads to no socket leads to none of a session's.            *)
LEMMA NobodyElse ==
  ASSUME NEW d \in Callers, NEW e \in Sides
  PROVE  Nobody # <<d, e>> /\ Left # <<d, e>>
BY DEF Nobody, Left, Sides

LEMMA OpenUnlinkGood ==
  ASSUME CtrlTypeOK, GoodInv, RepliesAreOwn, apart,
         NEW c \in Callers, OpenUnlink(c)
  PROVE  CtrlTypeOK' /\ GoodInv' /\ RepliesAreOwn'
<1>1. /\ caller[c] \in Caller /\ GoodRecord(caller[c])
      /\ caller[c].pc = "bind" /\ Inside(c)
      /\ caller[c].step \in {"open mon", "open cmd"}
  BY Here DEF OpenUnlink, Inside, GoodRecord
<1>2. /\ counter \in Paths /\ \A d \in Callers : Inside(d) => d = c
      /\ \A d \in Callers, f \in Sides : caller[d].path[f] # counter
      /\ \A r \in daemon : r.path # counter
  BY <1>1 DEF GoodInv, OpeningInv
<1>3. PICK j : j = [caller[c] EXCEPT !.pc = "again"]
  OBVIOUS
<1>4. /\ j \in Caller /\ j.pc = "again" /\ j.n = caller[c].n
      /\ j.path = caller[c].path /\ j.step = caller[c].step
      /\ j.kind = caller[c].kind /\ j.late = caller[c].late
  BY <1>1, <1>3 DEF Caller
<1>5. GoodRecord(j) /\ MayCome(caller[c]) \subseteq MayCome(j)
  BY <1>1, <1>4 DEF GoodRecord, MayCome, Asked, Requests
<1>6. /\ caller' = [caller EXCEPT ![c] = j]
      /\ file' = [file EXCEPT ![counter] = Nobody]
      /\ UNCHANGED <<counter, daemon, attached, due, inbox, apart>>
  BY <1>3 DEF OpenUnlink
<1>7. /\ caller'[c] = j /\ \A d \in Callers : d # c => caller'[d] = caller[d]
      /\ file'[counter] = Nobody
      /\ \A p \in Paths : p # counter => file'[p] = file[p]
  BY <1>2, <1>6 DEF CtrlTypeOK
<1>8. CtrlTypeOK'
  BY <1>2, <1>4, <1>6 DEF CtrlTypeOK
<1>9. \A d \in Callers :
        /\ GoodRecord(caller'[d]) /\ caller'[d].n = caller[d].n
        /\ caller'[d].path = caller[d].path
        /\ MayCome(caller[d]) \subseteq MayCome(caller'[d])
        /\ Inside(d)' => d = c
  BY <1>2, <1>4, <1>5, <1>7 DEF GoodInv, Inside
<1>10. \A d \in Callers, f \in Sides :
         /\ caller[d].path[f] \in Paths \cup {0} /\ caller[d].path[f] <= counter
         /\ caller[d].path[f] # 0 => file[caller[d].path[f]] = <<d, f>>
  BY DEF CtrlTypeOK, Caller, GoodInv, PathsInv
<1>11. PathsInv'
  <2>1. ASSUME NEW d \in Callers, NEW f \in Sides
        PROVE  /\ caller'[d].path[f] <= counter
               /\ caller'[d].path[f] # 0 => file'[caller'[d].path[f]] = <<d, f>>
    <3>1. caller'[d].path[f] = caller[d].path[f]
      BY <1>9
    <3>2. caller[d].path[f] # counter
      BY <1>2
    <3> QED BY <1>7, <1>10, <3>1, <3>2
  <2>2. ASSUME NEW p \in Paths, NEW d \in Callers, NEW f \in Sides,
               file'[p] = <<d, f>>
        PROVE  caller'[d].path[f] = p
    <3>1. file[p] = <<d, f>>
      BY <1>7, <2>2, NobodyElse
    <3>2. caller[d].path[f] = p
      BY <3>1 DEF GoodInv, PathsInv
    <3>3. caller'[d].path = caller[d].path
      BY <1>9
    <3> QED BY <3>2, <3>3
  <2>3. \A r \in daemon : r.path <= counter
    BY DEF GoodInv, PathsInv
  <2> QED BY <1>6, <2>1, <2>2, <2>3 DEF PathsInv
<1>12. OpeningInv'
  BY <1>2, <1>6, <1>9 DEF OpeningInv
<1>13. OwnersInv'
  BY <1>6, <1>9 DEF GoodInv, OwnersInv, Owned
<1>14. OnceInv'
  BY <1>6 DEF GoodInv, OnceInv
<1>15. DueInv'
  <2>1. DueInv /\ daemon' = daemon /\ inbox' = inbox
    BY <1>6 DEF GoodInv
  <2> QED BY <1>9, <2>1, DueStays
<1>16. RepliesAreOwn'
  BY <1>4, <1>7 DEF RepliesAreOwn, Tag
<1> QED BY <1>8, <1>9, <1>11, <1>12, <1>13, <1>14, <1>15, <1>16 DEF GoodInv

(* A connection closed: what is still to come there finds no socket.       *)
LEMMA ClosedContinues ==
  ASSUME NEW k \in Caller, GoodRecord(k),
         k.step \in {"close mon", "close cmd"}
  PROVE  LET j == Leads(k, 0) IN
           /\ j \in Caller /\ j.pc = "next" /\ GoodRecord(j) /\ j.n = k.n
           /\ k.path[Side(k)] # 0 /\ j.path[Side(k)] = 0
           /\ \A e \in Sides : e # Side(k) => j.path[e] = k.path[e]
           /\ MayCome(k) \subseteq MayCome(j)
<1> DEFINE j == Leads(k, 0)
<1> HIDE DEF j
<1>1. k.path \in [Sides -> Paths \cup {0}] /\ Side(k) \in Sides
  BY DEF Caller, Side, Sides
<1>2. /\ j \in Caller /\ j.pc = "next" /\ j.step = After(k) /\ j.n = k.n
      /\ j.late = k.late /\ j.kind = k.kind /\ j.path[Side(k)] = 0
      /\ \A e \in Sides : e # Side(k) => j.path[e] = k.path[e]
  <2>1. 0 \in Paths \cup {0}
    OBVIOUS
  <2> QED BY <2>1, LeadsTyped DEF j
<1>3. CASE k.step = "close mon"
  <2>1. Side(k) = "mon" /\ j.step = "done"
    BY <1>2, <1>3 DEF Side, After
  <2>2. k.path["mon"] # 0 /\ k.path["cmd"] = 0
    BY <1>3 DEF GoodRecord, InCommand, InMonitor
  <2>3. j.path["mon"] = 0 /\ j.path["cmd"] = 0
    BY <1>1, <1>2, <2>1, <2>2 DEF Sides
  <2>4. GoodRecord(j)
    BY <1>2, <2>1, <2>2, <2>3 DEF GoodRecord, InCommand, InMonitor
  <2>5. MayCome(k) \subseteq MayCome(j)
    <3>1. MayCome(k) \subseteq Requests
      BY <1>3 DEF MayCome, Asked, Before, GoodRecord
    <3>2. Requests \subseteq MayCome(j)
      <4>1. Before(j.step) = Requests
        BY <2>1 DEF Before
      <4> QED BY <2>1, <4>1 DEF MayCome, Asked
    <3> QED BY <3>1, <3>2
  <2> QED BY <1>2, <2>1, <2>2, <2>4, <2>5 DEF j
<1>4. CASE k.step = "close cmd"
  <2>1. /\ Side(k) = "cmd" /\ j.step \in {"done", "await", "DETACH"}
        /\ k.kind = "command" <=> j.step = "done"
    BY <1>2, <1>4 DEF Side, After
  <2>2. /\ k.path["cmd"] # 0 /\ ~k.late
        /\ k.path["mon"] # 0 <=> k.kind # "command"
    BY <1>4 DEF GoodRecord, InCommand, InMonitor
  <2>3. j.path["cmd"] = 0 /\ j.path["mon"] = k.path["mon"]
    BY <1>1, <1>2, <2>1, <2>2 DEF Sides
  <2>4. GoodRecord(j)
    BY <1>2, <2>1, <2>2, <2>3 DEF GoodRecord, InCommand, InMonitor
  <2>5. MayCome(k) \subseteq MayCome(j)
    <3>1. k.pc \notin {"wait", "taken"}
      BY <1>4 DEF GoodRecord, Requests
    <3>2. MayCome(k) \subseteq {"COMMAND"}
      BY <1>4, <2>2, <3>1 DEF MayCome, Asked, Before
    <3>3. "COMMAND" \in MayCome(j)
      <4>1. "COMMAND" \in Before(j.step)
        BY <2>1 DEF Before, Requests
      <4> QED BY <4>1 DEF MayCome, Asked
    <3> QED BY <3>2, <3>3
  <2> QED BY <1>2, <2>1, <2>2, <2>4, <2>5 DEF j
<1> QED BY <1>3, <1>4

LEMMA CloseGood ==
  ASSUME CtrlTypeOK, GoodInv, RepliesAreOwn, apart,
         NEW c \in Callers, Close(c)
  PROVE  CtrlTypeOK' /\ GoodInv' /\ RepliesAreOwn'
<1> DEFINE k == caller[c]
           e == Side(k)
           g == k.path[e]
<1>1. /\ k \in Caller /\ GoodRecord(k) /\ e \in Sides /\ <<c, e>> \in Sockets
      /\ k.step \in {"close mon", "close cmd"} /\ k.pc = "next"
  BY Here DEF Close, AtCall
<1>2. PICK j : j = Leads(k, 0)
  OBVIOUS
<1>3. /\ j \in Caller /\ j.pc = "next" /\ GoodRecord(j) /\ j.n = k.n
      /\ k.path[e] # 0 /\ j.path[e] = 0
      /\ \A f \in Sides : f # e => j.path[f] = k.path[f]
      /\ MayCome(k) \subseteq MayCome(j)
  BY ONLY <1>1, <1>2, ClosedContinues
<1>4. g \in Paths /\ file[g] = <<c, e>>
  BY <1>1, <1>3 DEF GoodInv, PathsInv, Caller
<1>5. /\ caller' = [caller EXCEPT ![c] = j]
      /\ file' = [file EXCEPT ![g] = Nobody]
      /\ inbox' = [inbox EXCEPT ![<<c, e>>] = <<>>]
      /\ UNCHANGED <<counter, daemon, attached, due, apart>>
  BY <1>1, <1>2 DEF Close
<1>6. /\ caller'[c] = j /\ \A d \in Callers : d # c => caller'[d] = caller[d]
      /\ file'[g] = Nobody
      /\ \A p \in Paths : p # g => file'[p] = file[p]
      /\ inbox'[<<c, e>>] = <<>>
      /\ \A s \in Sockets : s # <<c, e>> => inbox'[s] = inbox[s]
  BY <1>1, <1>4, <1>5 DEF CtrlTypeOK
<1> HIDE DEF k, e, g
<1>7. CtrlTypeOK'
  <2>1. caller' \in [Callers -> Caller]
    BY <1>3, <1>5 DEF CtrlTypeOK
  <2>2. file' \in [Paths -> Sockets \cup {Nobody, Left}]
    BY <1>4, <1>5 DEF CtrlTypeOK
  <2>3. inbox' \in [Sockets -> Seq(Message)]
    <3>1. <<>> \in Seq(Message) /\ inbox \in [Sockets -> Seq(Message)]
      BY DEF CtrlTypeOK
    <3> QED BY ONLY <1>5, <3>1
  <2> QED BY <1>5, <2>1, <2>2, <2>3 DEF CtrlTypeOK
<1>8. \A d \in Callers, f \in Sides :
        /\ <<d, f>> \in Sockets
        /\ \/ d = c /\ f = e
           \/ /\ <<d, f>> # <<c, e>>
              /\ caller'[d].path[f] = caller[d].path[f]
  BY <1>1, <1>3, <1>6 DEF Sockets, k
<1>9. \A d \in Callers :
        /\ GoodRecord(caller'[d]) /\ caller'[d].n = caller[d].n
        /\ MayCome(caller[d]) \subseteq MayCome(caller'[d])
        /\ Inside(d)' => Inside(d)
  BY <1>3, <1>6 DEF GoodInv, k, Inside
<1>10. \A d \in Callers, f \in Sides :
         /\ caller[d].path[f] \in Paths \cup {0} /\ caller[d].path[f] <= counter
         /\ caller[d].path[f] # 0 => file[caller[d].path[f]] = <<d, f>>
         /\ \A p \in Paths : file[p] = <<d, f>> => caller[d].path[f] = p
  BY DEF CtrlTypeOK, Caller, GoodInv, PathsInv
<1>11. ASSUME NEW d \in Callers, NEW f \in Sides
       PROVE  /\ caller'[d].path[f] = 0 \/ caller'[d].path[f] = caller[d].path[f]
              /\ caller'[d].path[f] # g
  <2>0. 0 \notin Paths
    BY CtrlAssumption DEF Paths
  <2>1. CASE d = c /\ f = e
    BY <1>3, <1>4, <1>6, <2>0, <2>1
  <2>2. CASE <<d, f>> # <<c, e>> /\ caller'[d].path[f] = caller[d].path[f]
    BY <1>4, <1>10, <2>0, <2>2
  <2> QED BY <1>8, <2>1, <2>2
<1>12. PathsInv'
  <2>1. ASSUME NEW d \in Callers, NEW f \in Sides
        PROVE  /\ caller'[d].path[f] <= counter
               /\ caller'[d].path[f] # 0 => file'[caller'[d].path[f]] = <<d, f>>
    <3>1. CASE caller'[d].path[f] = 0
      BY <3>1 DEF CtrlTypeOK
    <3>2. CASE caller'[d].path[f] = caller[d].path[f]
      BY <1>6, <1>10, <1>11, <3>2
    <3> QED BY <1>11, <3>1, <3>2
  <2>2. ASSUME NEW p \in Paths, NEW d \in Callers, NEW f \in Sides,
               file'[p] = <<d, f>>
        PROVE  caller'[d].path[f] = p
    <3>1. p # g /\ file[p] = <<d, f>>
      BY <1>6, <2>2, NobodyElse
    <3>2. caller[d].path[f] = p
      BY <1>10, <3>1
    <3>3. ~(d = c /\ f = e)
      BY <3>1, <3>2 DEF g, k
    <3> QED BY <1>8, <3>2, <3>3
  <2>3. \A r \in daemon : r.path <= counter
    BY DEF GoodInv, PathsInv
  <2> QED BY <1>5, <2>1, <2>2, <2>3 DEF PathsInv
<1>13. OpeningInv'
  <2>1. ASSUME NEW d \in Callers, NEW f \in Sides, counter \in Paths,
               caller[d].path[f] # counter
        PROVE  caller'[d].path[f] # counter
    BY <1>11, <2>1, CtrlAssumption DEF Paths
  <2> QED BY <1>5, <1>9, <2>1 DEF GoodInv, OpeningInv
<1>14. OwnersInv'
  <2> SUFFICES ASSUME NEW d \in Callers, NEW f \in Sides
               PROVE  /\ \A r \in daemon' : r.path = caller'[d].path[f]
                                            => Owned(r.of, d, f)'
                      /\ \A of \in RepliesIn(inbox'[<<d, f>>]) :
                           caller'[d].path[f] # 0 /\ Owned(of, d, f)'
    BY DEF OwnersInv
  <2>1. CASE d = c /\ f = e
    <3>1. \A r \in daemon : r.path # 0
      BY CtrlAssumption DEF CtrlTypeOK, Paths
    <3> QED BY <1>3, <1>5, <1>6, <2>1, <3>1, RepliesNone
  <2>2. CASE <<d, f>> # <<c, e>> /\ caller'[d].path[f] = caller[d].path[f]
    BY <1>5, <1>6, <1>8, <1>9, <2>2 DEF GoodInv, OwnersInv, Owned
  <2> QED BY <1>8, <2>1, <2>2
<1>15. \A s \in Sockets : inbox'[s] = inbox[s] \/ inbox'[s] = <<>>
  BY <1>6
<1>16. OnceInv'
  BY <1>5, <1>15, RepliesNone DEF GoodInv, OnceInv
<1>17. DueInv'
  <2>1. \A s \in Sockets : RepliesIn(inbox'[s]) \subseteq RepliesIn(inbox[s])
    BY <1>15, RepliesNone
  <2>2. DueInv /\ daemon' = daemon
    BY <1>5 DEF GoodInv
  <2> QED BY <1>9, <2>1, <2>2, DueStays
<1>18. RepliesAreOwn'
  BY <1>3, <1>6 DEF RepliesAreOwn, Tag
<1> QED BY <1>7, <1>9, <1>12, <1>13, <1>14, <1>16, <1>17, <1>18 DEF GoodInv
-----------------------------------------------------------------------------
(* Requests and replies.                                                   *)

LEMMA RequestGood ==
  ASSUME CtrlTypeOK, GoodInv, RepliesAreOwn, apart,
         NEW c \in Callers, Request(c)
  PROVE  CtrlTypeOK' /\ GoodInv' /\ RepliesAreOwn'
<1> DEFINE k == caller[c]
           e == Side(k)
           g == k.path[e]
           tag == <<c, k.n, k.step>>
           new == [path |-> g, of |-> tag]
<1>1. /\ k \in Caller /\ GoodRecord(k) /\ e \in Sides /\ <<c, e>> \in Sockets
      /\ k.step \in Requests /\ k.pc = "next"
  BY Here DEF Request, AtCall
<1>2. (e = "cmd" <=> k.step = "COMMAND") /\ g # 0
  <2>1. CASE k.step = "COMMAND"
    BY <1>1, <2>1 DEF Side, GoodRecord
  <2>2. CASE k.step \in {"ATTACH", "DETACH", "BSS"}
    BY <1>1, <2>2 DEF Side, GoodRecord, InMonitor
  <2> QED BY <1>1, <2>1, <2>2 DEF Requests
<1>3. g \in Paths /\ g <= counter /\ file[g] = <<c, e>>
  BY <1>1, <1>2 DEF GoodInv, PathsInv, Caller
<1>4. tag \in Tags /\ new \in [path : Paths, of : Tags]
  BY <1>1, <1>3 DEF Tags, Caller
<1>5. PICK j : j = [caller[c] EXCEPT !.pc = "wait"]
  OBVIOUS
<1>6. /\ j \in Caller /\ j.pc = "wait" /\ j.n = k.n /\ j.path = k.path
      /\ j.step = k.step /\ j.kind = k.kind /\ j.late = k.late
  BY <1>1, <1>5 DEF Caller
<1>7. /\ GoodRecord(j) /\ MayCome(k) \subseteq MayCome(j)
      /\ k.step \in MayCome(j) /\ k.step \notin MayCome(k)
  <2>1. GoodRecord(j)
    BY <1>1, <1>6 DEF GoodRecord
  <2>2. MayCome(k) \subseteq MayCome(j) /\ k.step \in MayCome(j)
    BY <1>1, <1>6 DEF MayCome, Asked
  <2>3. k.step \notin Before(k.step)
    BY <1>1 DEF Before, Requests
  <2> QED BY <1>1, <2>1, <2>2, <2>3 DEF MayCome, Asked
<1>8. /\ caller' = [caller EXCEPT ![c] = j] /\ daemon' = daemon \cup {new}
      /\ UNCHANGED <<counter, file, attached, due, inbox, apart>>
  BY <1>5 DEF Request, Tag
<1>9. caller'[c] = j /\ \A d \in Callers : d # c => caller'[d] = caller[d]
  BY <1>8 DEF CtrlTypeOK
<1>10. /\ \A r \in daemon : r.of \in Tags /\ r.of # tag
       /\ \A s \in Sockets : \A of \in RepliesIn(inbox[s]) :
            of \in Tags /\ of # tag
  <2>1. ~Due(tag)
    BY <1>1, <1>7 DEF Due
  <2> QED BY <2>1, RepliesTyped DEF GoodInv, DueInv, CtrlTypeOK
<1> HIDE DEF k, e, g, tag
<1>11. CtrlTypeOK'
  BY <1>4, <1>6, <1>8 DEF CtrlTypeOK
<1>12. \A d \in Callers :
         /\ GoodRecord(caller'[d]) /\ caller'[d].n = caller[d].n
         /\ caller'[d].path = caller[d].path
         /\ MayCome(caller[d]) \subseteq MayCome(caller'[d])
         /\ Inside(d)' => Inside(d)
  BY <1>6, <1>7, <1>9 DEF GoodInv, Inside, k
<1>13. new.path = g /\ new.of = tag
  OBVIOUS
<1>14. PathsInv'
  <2>1. ASSUME NEW d \in Callers, NEW f \in Sides
        PROVE  /\ caller'[d].path[f] <= counter
               /\ caller'[d].path[f] # 0 => file[caller'[d].path[f]] = <<d, f>>
    BY <1>12 DEF GoodInv, PathsInv
  <2>2. ASSUME NEW p \in Paths, NEW d \in Callers, NEW f \in Sides,
               file[p] = <<d, f>>
        PROVE  caller'[d].path[f] = p
    BY <1>12, <2>2 DEF GoodInv, PathsInv
  <2>3. \A r \in daemon' : r.path <= counter
    BY <1>3, <1>8, <1>13 DEF GoodInv, PathsInv
  <2> QED BY <1>8, <2>1, <2>2, <2>3 DEF PathsInv
<1>15. OpeningInv'
  <2>1. ASSUME NEW d \in Callers, Inside(d) PROVE g # counter
    BY <1>1, <2>1 DEF GoodInv, OpeningInv, g, k
  <2> QED BY <1>8, <1>12, <1>13, <2>1 DEF GoodInv, OpeningInv
<1>16. OwnersInv'
  <2> SUFFICES ASSUME NEW d \in Callers, NEW f \in Sides
               PROVE  /\ \A r \in daemon' : r.path = caller'[d].path[f]
                                            => Owned(r.of, d, f)'
                      /\ \A of \in RepliesIn(inbox'[<<d, f>>]) :
                           caller'[d].path[f] # 0 /\ Owned(of, d, f)'
    BY DEF OwnersInv
  <2>1. /\ caller'[d].path[f] = caller[d].path[f]
        /\ \A of : Owned(of, d, f) => Owned(of, d, f)'
    BY <1>12 DEF Owned
  <2>2. /\ \A r \in daemon : r.path = caller[d].path[f] => Owned(r.of, d, f)
        /\ \A of \in RepliesIn(inbox[<<d, f>>]) :
             caller[d].path[f] # 0 /\ Owned(of, d, f)
    BY DEF GoodInv, OwnersInv
  <2>3. ASSUME g = caller[d].path[f] PROVE Owned(tag, d, f)
    <3>1. file[g] = <<d, f>>
      BY <1>2, <2>3 DEF GoodInv, PathsInv
    <3>2. d = c /\ f = e
      BY <1>3, <3>1
    <3> QED BY <1>2, <3>2 DEF Owned, tag, k
  <2> QED BY <1>8, <1>13, <2>1, <2>2, <2>3
<1>17. OnceInv'
  BY <1>8, <1>10, <1>13 DEF GoodInv, OnceInv
<1>18. DueInv'
  <2>1. \A of \in Tags : Due(of) => Due(of)'
    BY <1>12 DEF Due, Tags
  <2>2. \A u \in Tags : u = tag => Due(u)'
    BY <1>1, <1>6, <1>7, <1>9 DEF Due, tag, Caller, k
  <2>3. DueInv
    BY DEF GoodInv
  <2>4. ASSUME NEW r \in daemon' PROVE Due(r.of)'
    <3>1. CASE r \in daemon
      BY <1>10, <2>1, <2>3, <3>1 DEF DueInv
    <3>2. CASE r = new
      BY <1>4, <1>13, <2>2, <3>2
    <3> QED BY <1>8, <3>1, <3>2
  <2>5. ASSUME NEW s \in Sockets, NEW of \in RepliesIn(inbox'[s]) PROVE Due(of)'
    BY <1>8, <1>10, <2>1, <2>3 DEF DueInv
  <2> QED BY <2>4, <2>5 DEF DueInv
<1>19. RepliesAreOwn'
  BY <1>6, <1>9 DEF RepliesAreOwn, Tag
<1> QED BY <1>11, <1>12, <1>14, <1>15, <1>16, <1>17, <1>18, <1>19 DEF GoodInv

(* A message is taken out of a socket, and its reader goes on.             *)
LEMMA TakenOut ==
  ASSUME CtrlTypeOK, GoodInv, apart,
         NEW c \in Callers, NEW j \in Caller, GoodRecord(j),
         caller' = [caller EXCEPT ![c] = j],
         j.path = caller[c].path, j.n = caller[c].n,
         j.pc \in {"next", "wait", "taken"},
         inbox[Socket(c)] # <<>>,
         inbox' = [inbox EXCEPT ![Socket(c)] = Tail(@)],
         UNCHANGED <<counter, file, daemon, attached, due, apart>>
  PROVE  /\ CtrlTypeOK'
         /\ DueInv' => GoodInv'
         /\ caller'[c] = j
         /\ \A d \in Callers : d # c => caller'[d] = caller[d]
         /\ inbox'[Socket(c)] = Tail(inbox[Socket(c)])
         /\ \A s \in Sockets : RepliesIn(inbox'[s]) \subseteq RepliesIn(inbox[s])
<1> DEFINE q == inbox[Socket(c)]
           o == Socket(c)
<1>1. o \in Sockets /\ q \in Seq(Message)
  BY Here
<1>2. /\ caller'[c] = j /\ \A d \in Callers : d # c => caller'[d] = caller[d]
      /\ inbox'[o] = Tail(q) /\ \A s \in Sockets : s # o => inbox'[s] = inbox[s]
  BY <1>1 DEF CtrlTypeOK
<1>3. /\ Tail(q) \in Seq(Message) /\ RepliesIn(Tail(q)) \subseteq RepliesIn(q)
      /\ Distinct(q) => Distinct(Tail(q))
  BY <1>1, RepliesTail
<1> HIDE DEF q, o
<1>4. CtrlTypeOK'
  <2>1. inbox' \in [Sockets -> Seq(Message)]
    BY <1>1, <1>2, <1>3 DEF CtrlTypeOK, q, o
  <2> QED BY <2>1 DEF CtrlTypeOK
<1>5. \A s \in Sockets : /\ RepliesIn(inbox'[s]) \subseteq RepliesIn(inbox[s])
                         /\ Distinct(inbox[s]) => Distinct(inbox'[s])
  BY <1>2, <1>3 DEF q, o
<1>6. \A d \in Callers :
        /\ GoodRecord(caller'[d]) /\ caller'[d].n = caller[d].n
        /\ caller'[d].path = caller[d].path
        /\ Inside(d)' => Inside(d)
  BY <1>2 DEF GoodInv, Inside
<1>7. PathsInv'
  <2>1. ASSUME NEW d \in Callers, NEW f \in Sides
        PROVE  /\ caller'[d].path[f] <= counter
               /\ caller'[d].path[f] # 0 => file[caller'[d].path[f]] = <<d, f>>
    BY <1>6 DEF GoodInv, PathsInv
  <2>2. ASSUME NEW p \in Paths, NEW d \in Callers, NEW f \in Sides,
               file[p] = <<d, f>>
        PROVE  caller'[d].path[f] = p
    BY <1>6, <2>2 DEF GoodInv, PathsInv
  <2> QED BY <2>1, <2>2 DEF PathsInv, GoodInv
<1>8. OpeningInv'
  BY <1>6 DEF GoodInv, OpeningInv
<1>9. OwnersInv'
  <2> SUFFICES ASSUME NEW d \in Callers, NEW f \in Sides
               PROVE  /\ \A r \in daemon' : r.path = caller'[d].path[f]
                                            => Owned(r.of, d, f)'
                      /\ \A of \in RepliesIn(inbox'[<<d, f>>]) :
                           caller'[d].path[f] # 0 /\ Owned(of, d, f)'
    BY DEF OwnersInv
  <2>1. /\ caller'[d].path[f] = caller[d].path[f]
        /\ \A of : Owned(of, d, f) => Owned(of, d, f)'
    BY <1>6 DEF Owned
  <2>2. /\ \A r \in daemon : r.path = caller[d].path[f] => Owned(r.of, d, f)
        /\ \A of \in RepliesIn(inbox[<<d, f>>]) :
             caller[d].path[f] # 0 /\ Owned(of, d, f)
    BY DEF GoodInv, OwnersInv
  <2>3. RepliesIn(inbox'[<<d, f>>]) \subseteq RepliesIn(inbox[<<d, f>>])
    BY <1>5 DEF Sockets
  <2> QED BY <2>1, <2>2, <2>3
<1>10. OnceInv'
  BY <1>5 DEF GoodInv, OnceInv
<1> QED BY <1>2, <1>4, <1>5, <1>6, <1>7, <1>8, <1>9, <1>10 DEF GoodInv, q, o

LEMMA ReceiveGood ==
  ASSUME CtrlTypeOK, GoodInv, RepliesAreOwn, apart,
         NEW c \in Callers, Receive(c)
  PROVE  CtrlTypeOK' /\ GoodInv' /\ RepliesAreOwn'
<1> DEFINE k == caller[c]
           e == Side(k)
           q == inbox[Socket(c)]
           tag == <<c, k.n, k.step>>
<1>1. /\ k \in Caller /\ GoodRecord(k) /\ e \in Sides /\ Socket(c) = <<c, e>>
      /\ Socket(c) \in Sockets /\ q \in Seq(Message) /\ q # <<>>
      /\ k.pc = "wait" /\ k.step \in Requests
  BY Here DEF Receive, GoodRecord
<1>2. /\ inbox' = [inbox EXCEPT ![Socket(c)] = Tail(@)]
      /\ UNCHANGED <<counter, file, daemon, attached, due, apart>>
      /\ caller' = IF Head(q).event THEN caller
                   ELSE [caller EXCEPT ![c].pc = "taken", ![c].got = Head(q).of]
  BY DEF Receive
<1>3. /\ Head(q) \in Message
      /\ ~Head(q).event => /\ Head(q).of \in RepliesIn(q)
                           /\ Distinct(q) => Head(q).of \notin RepliesIn(Tail(q))
  BY <1>1, RepliesTail
<1>4. CASE Head(q).event
  <2>1. caller' = [caller EXCEPT ![c] = k]
    BY <1>2, <1>4 DEF CtrlTypeOK
  <2>2. /\ CtrlTypeOK' /\ (DueInv' => GoodInv')
        /\ \A s \in Sockets : RepliesIn(inbox'[s]) \subseteq RepliesIn(inbox[s])
    BY <1>1, <1>2, <2>1, TakenOut
  <2>3. DueInv'
    BY <1>2, <1>4, <2>2, DueStays DEF GoodInv
  <2>4. RepliesAreOwn'
    BY <1>2, <1>4 DEF RepliesAreOwn, Tag
  <2> QED BY <2>2, <2>3, <2>4
<1>5. CASE ~Head(q).event
  <2> DEFINE of == Head(q).of
  <2>1. /\ of \in Tags /\ of[1] = c /\ of[2] = k.n /\ Due(of)
        /\ of[3] = "COMMAND" <=> e = "cmd"
    BY <1>1, <1>3, <1>5, RepliesTyped DEF GoodInv, OwnersInv, Owned, DueInv
  <2>2. of[3] \in MayCome(k)
    BY <2>1 DEF Due
  <2>3. of[3] = k.step \/ (k.late /\ k.step = "BSS")
    <3>1. CASE of[3] = "COMMAND"
      BY <1>1, <2>1, <3>1 DEF Side, Requests
    <3>2. CASE of[3] # "COMMAND"
      BY <1>1, <2>2, <3>2 DEF MayCome, Requests, GoodRecord
    <3> QED BY <3>1, <3>2
  <2>4. of = <<of[1], of[2], of[3]>>
    BY <2>1 DEF Tags
  <2>5. PICK j : j = [caller[c] EXCEPT !.pc = "taken", !.got = of]
    OBVIOUS
  <2>6. /\ j \in Caller /\ j.pc = "taken" /\ j.n = k.n /\ j.path = k.path
        /\ j.step = k.step /\ j.kind = k.kind /\ j.late = k.late /\ j.got = of
    BY <1>1, <2>1, <2>5 DEF Caller
  <2>7. caller' = [caller EXCEPT ![c] = j]
    BY <1>2, <1>5, <2>5 DEF CtrlTypeOK
  <2>8. GoodRecord(j)
    BY <1>1, <2>6 DEF GoodRecord
  <2> HIDE DEF k, e, q, tag, of
  <2>9. /\ CtrlTypeOK' /\ (DueInv' => GoodInv')
        /\ caller'[c] = j /\ \A d \in Callers : d # c => caller'[d] = caller[d]
        /\ inbox'[Socket(c)] = Tail(q)
        /\ \A s \in Sockets : RepliesIn(inbox'[s]) \subseteq RepliesIn(inbox[s])
    BY <1>1, <1>2, <2>6, <2>7, <2>8, TakenOut DEF k, q
  <2>10. RepliesAreOwn'
    <3>1. j.got = <<c, j.n, j.step>> \/ (j.late /\ j.step = "BSS")
      BY <2>1, <2>3, <2>4, <2>6
    <3> QED BY <2>9, <3>1 DEF RepliesAreOwn, Tag
  <2>11. MayCome(k) \subseteq MayCome(j) \cup {k.step}
    BY <1>1, <2>6 DEF MayCome, Asked
  <2>12. k.late => MayCome(k) \subseteq MayCome(j)
    BY <1>1, <2>6 DEF MayCome, Asked
  <2>13. ASSUME NEW u \in Tags, Due(u), u # tag PROVE Due(u)'
    <3>1. CASE u[1] = c
      <4>1. u[2] <= k.n /\ (u[2] = k.n => u[3] \in MayCome(k))
        BY <2>13, <3>1 DEF Due, k
      <4>2. u = <<u[1], u[2], u[3]>>
        BY <2>13 DEF Tags
      <4>3. u[2] = k.n => u[3] \in MayCome(j)
        BY <2>11, <2>13, <3>1, <4>1, <4>2 DEF tag
      <4> QED BY <2>6, <2>9, <3>1, <4>1, <4>3 DEF Due
    <3>2. CASE u[1] # c
      <4>1. u[1] \in Callers
        BY <2>13 DEF Tags
      <4> QED BY <2>9, <2>13, <3>2, <4>1 DEF Due
    <3> QED BY <3>1, <3>2
  <2>14. DueInv'
    <3>1. CASE k.late
      <4>1. \A d \in Callers : /\ caller'[d].n = caller[d].n
                               /\ MayCome(caller[d]) \subseteq MayCome(caller'[d])
        BY <2>6, <2>9, <2>12, <3>1 DEF k
      <4> QED BY <1>2, <2>9, <4>1, DueStays DEF GoodInv
    <3>2. CASE ~k.late
      <4>1. of = tag
        BY <2>1, <2>3, <2>4, <3>2 DEF tag
      <4>2. OnceInv /\ of \in RepliesIn(q)
        BY <1>3, <1>5 DEF GoodInv, of
      <4>3. \A r \in daemon : r.of # tag
        BY <1>1, <4>1, <4>2 DEF OnceInv, q
      <4>4. ASSUME NEW s \in Sockets, NEW u \in RepliesIn(inbox'[s])
            PROVE  u # tag
        <5>1. CASE s = Socket(c)
          <6>1. Distinct(q)
            BY <1>1, <4>2 DEF OnceInv, q
          <6>2. u \in RepliesIn(Tail(q))
            BY <2>9, <4>4, <5>1
          <6> QED BY <1>3, <1>5, <4>1, <6>1, <6>2 DEF of
        <5>2. CASE s # Socket(c)
          <6>1. PICK d \in Callers, f \in Sides : s = <<d, f>>
            BY DEF Sockets
          <6>2. u \in RepliesIn(inbox[<<d, f>>])
            BY <2>9, <4>4, <6>1
          <6>3. u[1] = d /\ (u[3] = "COMMAND" <=> f = "cmd")
            BY <6>2 DEF GoodInv, OwnersInv, Owned
          <6> QED BY <1>1, <2>1, <4>1, <5>2, <6>1, <6>3 DEF Sides, tag
        <5> QED BY <5>1, <5>2
      <4>5. /\ \A r \in daemon : r.of \in Tags /\ Due(r.of)
            /\ \A s \in Sockets : \A u \in RepliesIn(inbox'[s]) :
                 u \in Tags /\ Due(u)
        BY <2>9, RepliesTyped DEF CtrlTypeOK, GoodInv, DueInv
      <4>6. daemon' = daemon
        BY <1>2
      <4> QED BY <2>13, <4>3, <4>4, <4>5, <4>6 DEF DueInv
    <3> QED BY <3>1, <3>2
  <2> QED BY <2>9, <2>10, <2>14
<1> QED BY <1>4, <1>5

LEMMA AwaitReadsGood ==
  ASSUME CtrlTypeOK, GoodInv, RepliesAreOwn, apart,
         NEW c \in Callers, AwaitReads(c)
  PROVE  CtrlTypeOK' /\ GoodInv' /\ RepliesAreOwn'
<1> DEFINE k == caller[c]
<1>1. /\ k \in Caller /\ GoodRecord(k) /\ inbox[Socket(c)] # <<>>
      /\ k.pc = "next" /\ k.step = "await"
  BY Here DEF AwaitReads, AtCall
<1>2. /\ inbox' = [inbox EXCEPT ![Socket(c)] = Tail(@)]
      /\ UNCHANGED <<counter, file, daemon, attached, due, apart>>
  BY DEF AwaitReads
<1>3. PICK j : /\ j = k \/ j = Onward(k)
               /\ caller' = [caller EXCEPT ![c] = j]
  <2>1. caller' = [caller EXCEPT ![c] = Onward(k)] \/ caller' = caller
    BY DEF AwaitReads
  <2>2. caller = [caller EXCEPT ![c] = k]
    BY DEF CtrlTypeOK
  <2> QED BY <2>1, <2>2
<1>4. Continues(k, j) /\ j.pc = "next"
  <2>1. CASE j = k
    BY <1>1, <2>1 DEF Continues
  <2>2. CASE j = Onward(k)
    BY <1>1, <2>2, OnwardContinues
  <2> QED BY <1>3, <2>1, <2>2
<1>5. /\ CtrlTypeOK' /\ (DueInv' => GoodInv')
      /\ caller'[c] = j /\ \A d \in Callers : d # c => caller'[d] = caller[d]
      /\ \A s \in Sockets : RepliesIn(inbox'[s]) \subseteq RepliesIn(inbox[s])
  BY <1>1, <1>2, <1>3, <1>4, TakenOut DEF Continues
<1>6. DueInv'
  <2>1. \A d \in Callers : /\ caller'[d].n = caller[d].n
                           /\ MayCome(caller[d]) \subseteq MayCome(caller'[d])
    BY <1>4, <1>5 DEF Continues
  <2> QED BY <1>2, <1>5, <2>1, DueStays DEF GoodInv
<1>7. RepliesAreOwn'
  BY <1>4, <1>5 DEF RepliesAreOwn, Tag
<1> QED BY <1>5, <1>6, <1>7
-----------------------------------------------------------------------------
(* The daemon.                                                             *)

LEMMA ReportedReplies ==
  ASSUME NEW boxes \in [Sockets -> Seq(Message)], NEW of \in Tags
  PROVE  /\ Reported(boxes, of) \in [Sockets -> Seq(Message)]
         /\ \A s \in Sockets :
              /\ RepliesIn(Reported(boxes, of)[s]) = RepliesIn(boxes[s])
              /\ Distinct(boxes[s]) => Distinct(Reported(boxes, of)[s])
<1>1. PICK m : m = [event |-> TRUE, of |-> of]
  OBVIOUS
<1>2. m \in Message /\ m.event
  BY <1>1 DEF Message
<1>3. \A s \in Sockets :
        /\ Append(boxes[s], m) \in Seq(Message)
        /\ RepliesIn(Append(boxes[s], m)) = RepliesIn(boxes[s])
        /\ Distinct(boxes[s]) => Distinct(Append(boxes[s], m))
  BY <1>2, RepliesAppend
<1>4. /\ \A s \in Sockets : \/ Reported(boxes, of)[s] = boxes[s]
                            \/ Reported(boxes, of)[s] = Append(boxes[s], m)
      /\ Reported(boxes, of) = [s \in Sockets |-> Reported(boxes, of)[s]]
  BY <1>1, Zenon DEF Reported
<1>5. \A s \in Sockets : Reported(boxes, of)[s] \in Seq(Message)
  BY <1>3, <1>4
<1> QED BY <1>3, <1>4, <1>5

(* The requests and replies that are under way, and who answers to whom,   *)
(* stay as they are but for one that may be answered.                      *)
LEMMA DaemonGood ==
  ASSUME CtrlTypeOK, GoodInv, RepliesAreOwn, apart,
         inbox' \in [Sockets -> Seq(Message)], daemon' \subseteq daemon,
         attached' \subseteq Paths, due' \subseteq Tags,
         UNCHANGED <<counter, caller, file, apart>>,
         \A s \in Sockets :
           \/ /\ RepliesIn(inbox'[s]) = RepliesIn(inbox[s])
              /\ Distinct(inbox'[s])
           \/ \E r \in daemon :
                /\ file[r.path] = s /\ daemon' = daemon \ {r}
                /\ RepliesIn(inbox'[s]) = RepliesIn(inbox[s]) \cup {r.of}
                /\ Distinct(inbox'[s])
  PROVE  CtrlTypeOK' /\ GoodInv' /\ RepliesAreOwn'
<1>1. CtrlTypeOK'
  BY DEF CtrlTypeOK
<1>2. /\ \A c \in Callers : GoodRecord(caller[c])'
      /\ PathsInv' /\ OpeningInv'
  BY DEF GoodInv, PathsInv, OpeningInv, Inside
<1>3. RepliesAreOwn'
  BY DEF RepliesAreOwn, Tag
<1>4. ASSUME NEW c \in Callers, NEW e \in Sides,
             NEW of \in RepliesIn(inbox'[<<c, e>>])
      PROVE  caller[c].path[e] # 0 /\ Owned(of, c, e) /\ Due(of)
  <2>1. <<c, e>> \in Sockets
    BY DEF Sockets
  <2>2. CASE of \in RepliesIn(inbox[<<c, e>>])
    BY <2>1, <2>2 DEF GoodInv, OwnersInv, DueInv
  <2>3. CASE of \notin RepliesIn(inbox[<<c, e>>])
    <3>1. PICK r \in daemon : file[r.path] = <<c, e>> /\ r.of = of
      BY <1>4, <2>1, <2>3
    <3>2. r.path \in Paths /\ r.path # 0
      BY CtrlAssumption DEF CtrlTypeOK, Paths
    <3>3. caller[c].path[e] = r.path
      BY <3>1, <3>2 DEF GoodInv, PathsInv
    <3> QED BY <3>1, <3>2, <3>3 DEF GoodInv, OwnersInv, DueInv
  <2> QED BY <2>2, <2>3
<1>5. OwnersInv'
  <2>1. \A c \in Callers, e \in Sides : \A r \in daemon :
          r.path = caller[c].path[e] => Owned(r.of, c, e)
    BY DEF GoodInv, OwnersInv
  <2> QED BY <1>4, <2>1 DEF OwnersInv, Owned
<1>6. OnceInv'
  <2>1. /\ \A s \in Sockets : \A of \in RepliesIn(inbox[s]) :
             \A r \in daemon : r.of # of
        /\ \A q, r \in daemon : q.of = r.of => q = r
    BY DEF GoodInv, OnceInv
  <2>2. ASSUME NEW s \in Sockets, NEW of \in RepliesIn(inbox'[s]),
               NEW q \in daemon'
        PROVE  q.of # of
    <3>1. CASE of \in RepliesIn(inbox[s])
      BY <2>1, <3>1
    <3>2. CASE of \notin RepliesIn(inbox[s])
      <4>1. PICK r \in daemon : daemon' = daemon \ {r} /\ r.of = of
        BY <2>2, <3>2
      <4> QED BY <2>1, <4>1
    <3> QED BY <3>1, <3>2
  <2>3. \A s \in Sockets : Distinct(inbox'[s])
    OBVIOUS
  <2> QED BY <2>1, <2>2, <2>3 DEF OnceInv
<1>7. DueInv'
  <2>1. \A of \in Tags : Due(of) => Due(of)'
    BY DEF Due
  <2>2. ASSUME NEW r \in daemon' PROVE r.of \in Tags /\ Due(r.of)
    BY DEF GoodInv, DueInv, CtrlTypeOK
  <2>3. ASSUME NEW s \in Sockets, NEW of \in RepliesIn(inbox'[s])
        PROVE  of \in Tags /\ Due(of)
    <3>1. PICK c \in Callers, e \in Sides : s = <<c, e>>
      BY DEF Sockets
    <3> QED BY <1>4, <2>3, <3>1, RepliesTyped
  <2> QED BY <2>1, <2>2, <2>3 DEF DueInv
<1> QED BY <1>1, <1>2, <1>3, <1>5, <1>6, <1>7 DEF GoodInv

LEMMA AnsweredReplies ==
  ASSUME NEW boxes \in [Sockets -> Seq(Message)],
         NEW r \in [path : Paths, of : Tags]
  PROVE  /\ Answered(boxes, r) \in [Sockets -> Seq(Message)]
         /\ \A s \in Sockets :
              IF file[r.path] = s
                THEN /\ RepliesIn(Answered(boxes, r)[s])
                           = RepliesIn(boxes[s]) \cup {r.of}
                     /\ Distinct(boxes[s]) /\ r.of \notin RepliesIn(boxes[s])
                          => Distinct(Answered(boxes, r)[s])
                ELSE Answered(boxes, r)[s] = boxes[s]
<1>1. PICK m : m = [event |-> FALSE, of |-> r.of]
  OBVIOUS
<1>2. m \in Message /\ ~m.event /\ m.of = r.of
  BY <1>1 DEF Message
<1>3. \A s \in Sockets :
        /\ Append(boxes[s], m) \in Seq(Message)
        /\ RepliesIn(Append(boxes[s], m)) = RepliesIn(boxes[s]) \cup {r.of}
        /\ Distinct(boxes[s]) /\ r.of \notin RepliesIn(boxes[s])
             => Distinct(Append(boxes[s], m))
  BY <1>2, RepliesAppend
<1>4. /\ \A s \in Sockets :
           Answered(boxes, r)[s] = IF file[r.path] = s
                                     THEN Append(boxes[s], m) ELSE boxes[s]
      /\ Answered(boxes, r) = [s \in Sockets |-> Answered(boxes, r)[s]]
  BY <1>1, Zenon DEF Answered
<1>5. \A s \in Sockets : Answered(boxes, r)[s] \in Seq(Message)
  BY <1>3, <1>4
<1> QED BY <1>3, <1>4, <1>5

(* A request is answered to boxes, in which nothing but events has come    *)
(* since inbox.                                                            *)
LEMMA AnswerGood ==
  ASSUME CtrlTypeOK, GoodInv, RepliesAreOwn, apart,
         NEW r \in daemon, NEW boxes \in [Sockets -> Seq(Message)],
         \A s \in Sockets : /\ RepliesIn(boxes[s]) = RepliesIn(inbox[s])
                            /\ Distinct(boxes[s]),
         inbox' = Answered(boxes, r), daemon' = daemon \ {r},
         attached' \subseteq Paths, due' \subseteq Tags,
         UNCHANGED <<counter, caller, file, apart>>
  PROVE  CtrlTypeOK' /\ GoodInv' /\ RepliesAreOwn'
<1>1. r \in [path : Paths, of : Tags]
  BY DEF CtrlTypeOK
<1>2. \A s \in Sockets : r.of \notin RepliesIn(boxes[s])
  BY DEF GoodInv, OnceInv
<1>3. ASSUME NEW s \in Sockets
      PROVE  \/ /\ RepliesIn(inbox'[s]) = RepliesIn(inbox[s])
                /\ Distinct(inbox'[s])
             \/ /\ file[r.path] = s /\ daemon' = daemon \ {r}
                /\ RepliesIn(inbox'[s]) = RepliesIn(inbox[s]) \cup {r.of}
                /\ Distinct(inbox'[s])
  <2>1. CASE file[r.path] = s
    <3>1. PICK answered : answered = Answered(boxes, r)
      OBVIOUS
    <3>2. /\ RepliesIn(answered[s]) = RepliesIn(boxes[s]) \cup {r.of}
          /\ Distinct(boxes[s]) /\ r.of \notin RepliesIn(boxes[s])
               => Distinct(answered[s])
      BY <1>1, <2>1, <3>1, AnsweredReplies
    <3>3. inbox' = answered /\ daemon' = daemon \ {r}
      BY <3>1
    <3> QED BY <1>2, <2>1, <3>2, <3>3
  <2>2. CASE file[r.path] # s
    BY <1>1, <2>2, AnsweredReplies
  <2> QED BY <2>1, <2>2
<1>4. inbox' \in [Sockets -> Seq(Message)]
  BY <1>1, AnsweredReplies
<1>5. daemon' \subseteq daemon
  OBVIOUS
<1> QED BY <1>3, <1>4, <1>5, DaemonGood

LEMMA HandleGood ==
  ASSUME CtrlTypeOK, GoodInv, RepliesAreOwn, apart,
         NEW r \in daemon, Handle(r) \/ HandleAtOnce(r)
  PROVE  CtrlTypeOK' /\ GoodInv' /\ RepliesAreOwn'
<1>1. /\ r \in [path : Paths, of : Tags] /\ r.path \in Paths /\ r.of \in Tags
      /\ inbox \in [Sockets -> Seq(Message)]
      /\ attached \subseteq Paths /\ due \subseteq Tags
  BY DEF CtrlTypeOK
<1>2. \A s \in Sockets : Distinct(inbox[s])
  BY DEF GoodInv, OnceInv
<1>3. CASE Handle(r)
  <2>1. attached' \in {attached, attached \cup {r.path}, attached \ {r.path}}
    <3>1. CASE r.of[3] = "ATTACH"
      BY <1>3, <3>1 DEF Handle
    <3>2. CASE r.of[3] = "DETACH"
      BY <1>3, <3>2 DEF Handle
    <3>3. CASE r.of[3] \notin {"ATTACH", "DETACH"}
      BY <1>3, <3>3 DEF Handle
    <3> QED BY <3>1, <3>2, <3>3
  <2>2. attached' \subseteq Paths
    BY <1>1, <2>1
  <2>3. due' \subseteq Tags
    BY <1>1, <1>3 DEF Handle
  <2>4. /\ inbox' = Answered(inbox, r) /\ daemon' = daemon \ {r}
        /\ UNCHANGED <<counter, caller, file, apart>>
    BY <1>3 DEF Handle
  <2> QED BY <1>1, <1>2, <2>2, <2>3, <2>4, AnswerGood
<1>4. CASE HandleAtOnce(r)
  <2>1. /\ inbox' = Answered(Reported(inbox, r.of), r) /\ daemon' = daemon \ {r}
        /\ UNCHANGED <<counter, caller, file, attached, due, apart>>
    BY <1>4 DEF HandleAtOnce
  <2>2. PICK boxes : boxes = Reported(inbox, r.of)
    OBVIOUS
  <2>3. /\ boxes \in [Sockets -> Seq(Message)]
        /\ \A s \in Sockets : /\ RepliesIn(boxes[s]) = RepliesIn(inbox[s])
                              /\ Distinct(boxes[s])
    BY <1>1, <1>2, <2>2, ReportedReplies
  <2>4. attached' \subseteq Paths /\ due' \subseteq Tags
    BY <1>1, <2>1
  <2> QED BY <2>1, <2>2, <2>3, <2>4, AnswerGood
<1> QED BY <1>3, <1>4

LEMMA HappensGood ==
  ASSUME CtrlTypeOK, GoodInv, RepliesAreOwn, apart,
         NEW of \in due, Happens(of)
  PROVE  CtrlTypeOK' /\ GoodInv' /\ RepliesAreOwn'
<1>1. /\ of \in Tags /\ inbox \in [Sockets -> Seq(Message)]
      /\ attached' \subseteq Paths /\ due' \subseteq Tags
      /\ inbox' = Reported(inbox, of)
      /\ UNCHANGED <<counter, caller, file, daemon, apart>>
  BY DEF CtrlTypeOK, Happens
<1>2. \A s \in Sockets : Distinct(inbox[s])
  BY DEF GoodInv, OnceInv
<1>3. /\ inbox' \in [Sockets -> Seq(Message)]
      /\ \A s \in Sockets : /\ RepliesIn(inbox'[s]) = RepliesIn(inbox[s])
                            /\ Distinct(inbox'[s])
  BY <1>1, <1>2, ReportedReplies
<1>4. daemon' \subseteq daemon
  BY <1>1
<1> QED BY <1>1, <1>3, <1>4, DaemonGood
-----------------------------------------------------------------------------
(* THEOREMS                                                                *)

LEMMA InitGood == CtrlInit => IInv
<1> SUFFICES ASSUME CtrlInit PROVE IInv
  OBVIOUS
<1>1. PICK old \in SUBSET LeftFiles :
        file = [p \in Paths |-> IF p \in old THEN Left ELSE Nobody]
  BY DEF CtrlInit
<1>2. /\ \A c \in Callers :
           /\ caller[c] \in Caller /\ caller[c].step = "done"
           /\ caller[c].pc = "next" /\ ~caller[c].late
           /\ \A e \in Sides : caller[c].path[e] = 0
      /\ caller \in [Callers -> Caller]
  BY DEF CtrlInit, Caller, SessionKinds, Steps
<1>3. /\ counter = 0 /\ daemon = {} /\ attached = {} /\ due = {} /\ apart = TRUE
      /\ inbox = [s \in Sockets |-> <<>>]
      /\ \A s \in Sockets : inbox[s] = <<>>
  BY DEF CtrlInit
<1>4. file \in [Paths -> Sockets \cup {Nobody, Left}]
  BY <1>1
<1>5. counter \in 0..MaxOpens
  BY <1>3, CtrlAssumption
<1>6. CtrlTypeOK
  BY <1>2, <1>3, <1>4, <1>5 DEF CtrlTypeOK
<1>7. \A c \in Callers : GoodRecord(caller[c])
  BY <1>2 DEF GoodRecord, InCommand, InMonitor, Sides, Requests
<1>8. PathsInv
  <2>1. \A p \in Paths : file[p] \in {Nobody, Left}
    BY <1>1
  <2>2. ASSUME NEW p \in Paths, NEW c \in Callers, NEW e \in Sides
        PROVE  file[p] # <<c, e>>
    BY <2>1, NobodyElse
  <2>3. 0 <= counter
    BY <1>3
  <2> QED BY <1>2, <1>3, <2>2, <2>3 DEF PathsInv
<1>9. OpeningInv
  BY <1>2 DEF OpeningInv, Inside
<1>10. OwnersInv /\ OnceInv /\ DueInv
  BY <1>3, RepliesNone DEF OwnersInv, OnceInv, DueInv, Sockets
<1>11. RepliesAreOwn
  BY <1>2 DEF RepliesAreOwn
<1> QED BY <1>6, <1>7, <1>8, <1>9, <1>10, <1>11 DEF IInv, GoodInv

LEMMA StepGood == IInv /\ [CtrlNext]_ctrlVars => IInv'
<1> SUFFICES ASSUME IInv, [CtrlNext]_ctrlVars PROVE IInv'
  OBVIOUS
<1>1. CASE UNCHANGED ctrlVars
  <2>1. UNCHANGED <<counter, caller, file, daemon, attached, due, inbox, apart>>
    BY <1>1 DEF ctrlVars
  <2>2. CtrlTypeOK' <=> CtrlTypeOK
    BY <2>1 DEF CtrlTypeOK
  <2>3. PathsInv' <=> PathsInv
    BY <2>1 DEF PathsInv
  <2>4. OpeningInv' <=> OpeningInv
    BY <2>1 DEF OpeningInv, Inside
  <2>5. OwnersInv' <=> OwnersInv
    BY <2>1 DEF OwnersInv, Owned
  <2>6. OnceInv' <=> OnceInv
    BY <2>1 DEF OnceInv
  <2>7. DueInv' <=> DueInv
    BY <2>1 DEF DueInv, Due
  <2>8. RepliesAreOwn' <=> RepliesAreOwn
    BY <2>1 DEF RepliesAreOwn, Tag
  <2>9. GoodInv' <=> GoodInv
    BY <2>1, <2>3, <2>4, <2>5, <2>6, <2>7 DEF GoodInv
  <2> QED BY <2>1, <2>2, <2>8, <2>9 DEF IInv
<1>2. CASE CtrlNext
  <2>1. CtrlTypeOK /\ GoodInv /\ RepliesAreOwn /\ apart
    BY <1>2 DEF CtrlNext, IInv
  <2>2. ASSUME NEW c \in Callers, CallerStep(c) PROVE IInv'
    <3>1. CASE Begin(c)
      BY <2>1, <3>1, BeginGood DEF IInv
    <3>2. CASE OpenEnter(c)
      BY <2>1, <3>2, OpenEnterGood DEF IInv
    <3>3. CASE OpenBind(c)
      BY <2>1, <3>3, OpenBindGood DEF IInv
    <3>4. CASE OpenFails(c) \/ SendFails(c) \/ AwaitGivesUp(c) \/ TimesOut(c)
      BY <2>1, <3>4, FailuresGood DEF IInv
    <3>5. CASE OpenUnlink(c)
      BY <2>1, <3>5, OpenUnlinkGood DEF IInv
    <3>6. CASE Request(c)
      BY <2>1, <3>6, RequestGood DEF IInv
    <3>7. CASE Receive(c)
      BY <2>1, <3>7, ReceiveGood DEF IInv
    <3>8. CASE Reads(c)
      BY <2>1, <3>8, ReadsGood DEF IInv
    <3>9. CASE AwaitReads(c)
      BY <2>1, <3>9, AwaitReadsGood DEF IInv
    <3>10. CASE Close(c)
      BY <2>1, <3>10, CloseGood DEF IInv
    <3> QED BY <2>2, <3>1, <3>2, <3>3, <3>4, <3>5, <3>6, <3>7, <3>8, <3>9,
               <3>10 DEF CallerStep
  <2>3. ASSUME NEW r \in daemon, Handle(r) \/ HandleAtOnce(r) PROVE IInv'
    BY <2>1, <2>3, HandleGood DEF IInv
  <2>4. ASSUME NEW of \in due, Happens(of) PROVE IInv'
    BY <2>1, <2>4, HappensGood DEF IInv
  <2> QED BY <1>2, <2>2, <2>3, <2>4 DEF CtrlNext, DaemonStep
<1> QED BY <1>1, <1>2

(* The variables of the control interface stay within their types, for any *)
(* number of threads and connections.                                      *)
THEOREM CtrlTypeCorrect == CtrlSpec => []CtrlTypeOK
<1>1. IInv => CtrlTypeOK
  BY DEF IInv
<1> QED BY <1>1, InitGood, StepGood, PTL DEF CtrlSpec

(* Whatever times out and however late the daemon answers, a reply that a  *)
(* handler takes answers the request it has made (wpa_ctrl_request()).     *)
THEOREM RepliesCorrect == CtrlSpec => []RepliesAreOwn
<1>1. IInv => RepliesAreOwn
  BY DEF IInv, RepliesAreOwn
<1> QED BY <1>1, InitGood, StepGood, PTL DEF CtrlSpec
-----------------------------------------------------------------------------
(* EVENTS: NoEventLost.                                                    *)

Own(c) == <<c, caller[c].n, "COMMAND">>
Found(q, of) == \E i \in DOMAIN q : q[i] = [event |-> TRUE, of |-> of]

(* The places of a session with a monitor, given what waits in its socket, *)
(* at which wpa_supplicant has attached it; and those at which the command *)
(* was handled, given what waits in the socket of the command.             *)
IsAttached(k, q) ==
  \/ k.kind # "command" /\ k.step \in InCommand \cup {"await"}
  \/ k.step = "ATTACH" /\ (k.pc = "taken" \/ RepliesIn(q) # {})
IsHandled(k, q) ==
  /\ k.kind # "command"
  /\ \/ k.step = "COMMAND" /\ (k.pc = "taken" \/ RepliesIn(q) # {})
     \/ k.step = "close cmd" /\ k.ok
     \/ k.step = "await"

EventGood(c) ==
  /\ IsAttached(caller[c], inbox[<<c, "mon">>])
       => caller[c].path["mon"] \in attached
  /\ IsHandled(caller[c], inbox[<<c, "cmd">>])
       => Own(c) \in due \/ Found(inbox[<<c, "mon">>], Own(c))
EventInv == \A c \in Callers : EventGood(c)

AllInv == IInv /\ (apart => EventInv)

(* What the daemon adds to a socket hides nothing.                         *)
LEMMA FoundAppend ==
  ASSUME NEW q \in Seq(Message), NEW m, NEW of
  PROVE  /\ Found(q, of) => Found(Append(q, m), of)
         /\ m = [event |-> TRUE, of |-> of] => Found(Append(q, m), of)
<1>1. PICK a : a = Append(q, m)
  OBVIOUS
<1>2. /\ DOMAIN a = 1..(Len(q) + 1) /\ a[Len(q) + 1] = m
      /\ DOMAIN q = 1..Len(q) /\ Len(q) \in Nat
      /\ \A i \in 1..Len(q) : a[i] = q[i]
  BY <1>1
<1>3. 1..Len(q) \subseteq 1..(Len(q) + 1) /\ Len(q) + 1 \in 1..(Len(q) + 1)
  BY <1>2
<1> QED BY <1>1, <1>2, <1>3 DEF Found

(* Only an event in front is gone with the first message.                  *)
LEMMA FoundTail ==
  ASSUME NEW q \in Seq(Message), q # <<>>, NEW of, Found(q, of),
         Head(q) # [event |-> TRUE, of |-> of]
  PROVE  Found(Tail(q), of)
<1>1. PICK i \in DOMAIN q : q[i] = [event |-> TRUE, of |-> of]
  BY DEF Found
<1>2. /\ DOMAIN q = 1..Len(q) /\ Len(q) \in Nat /\ Head(q) = q[1]
      /\ DOMAIN Tail(q) = 1..(Len(q) - 1)
      /\ \A j \in 1..(Len(q) - 1) : Tail(q)[j] = q[j + 1]
  OBVIOUS
<1>3. i # 1
  BY <1>1, <1>2
<1>4. i - 1 \in 1..(Len(q) - 1) /\ (i - 1) + 1 = i
  BY <1>1, <1>2, <1>3
<1>5. Tail(q)[i - 1] = q[i]
  BY <1>2, <1>4
<1> QED BY <1>1, <1>2, <1>4, <1>5 DEF Found

(* A thread moves; what belongs to the others stays.                       *)
LEMMA Elsewhere ==
  ASSUME NEW c \in Callers, EventInv, UNCHANGED <<attached, due>>,
         \A d \in Callers : d # c =>
           /\ caller'[d] = caller[d]
           /\ \A e \in Sides : inbox'[<<d, e>>] = inbox[<<d, e>>],
         EventGood(c)'
  PROVE  EventInv'
<1>1. ASSUME NEW d \in Callers, d # c PROVE EventGood(d)'
  BY <1>1 DEF EventInv, EventGood, Own, Sides
<1> QED BY <1>1 DEF EventInv

(* Most steps of a thread leave the sockets alone.                         *)
LEMMA MovesOn ==
  ASSUME CtrlTypeOK, EventInv, NEW c \in Callers, NEW j \in Caller,
         caller' = [caller EXCEPT ![c] = j],
         UNCHANGED <<inbox, attached, due>>,
         IsAttached(j, inbox[<<c, "mon">>]) =>
           /\ IsAttached(caller[c], inbox[<<c, "mon">>])
           /\ j.path["mon"] = caller[c].path["mon"],
         IsHandled(j, inbox[<<c, "cmd">>]) =>
           IsHandled(caller[c], inbox[<<c, "cmd">>]) /\ j.n = caller[c].n
  PROVE  EventInv'
<1>1. caller'[c] = j /\ \A d \in Callers : d # c => caller'[d] = caller[d]
  BY DEF CtrlTypeOK
<1>2. EventGood(c)'
  <2>1. EventGood(c)
    BY DEF EventInv
  <2> QED BY <1>1, <2>1 DEF EventGood, Own
<1> QED BY <1>1, <1>2, Elsewhere

LEMMA StepFields ==
  ASSUME NEW k \in Caller, NEW l \in BOOLEAN
  PROVE  /\ LET j == Onward(k) IN
              /\ j \in Caller /\ j.pc = "next" /\ j.step = After(k)
              /\ j.path = k.path /\ j.n = k.n /\ j.kind = k.kind
              /\ j.ok = k.ok
         /\ LET j == [GivesUp(k) EXCEPT !.late = l] IN
              /\ j \in Caller /\ j.pc = "next" /\ j.step = AfterFailure(k)
              /\ j.path = k.path /\ j.n = k.n /\ j.kind = k.kind
              /\ k.step # "DETACH" => j.ok = FALSE
<1>1. PICK j : j = Onward(k)
  OBVIOUS
<1>2. /\ j \in Caller /\ j.pc = "next" /\ j.step = After(k)
      /\ j.path = k.path /\ j.n = k.n /\ j.kind = k.kind /\ j.ok = k.ok
  BY <1>1, AfterStep DEF Onward, Caller
<1>3. PICK i : i = [GivesUp(k) EXCEPT !.late = l]
  OBVIOUS
<1>4. /\ i \in Caller /\ i.pc = "next" /\ i.step = AfterFailure(k)
      /\ i.path = k.path /\ i.n = k.n /\ i.kind = k.kind
      /\ k.step # "DETACH" => i.ok = FALSE
  BY <1>3, AfterStep DEF GivesUp, Caller
<1> QED BY <1>1, <1>2, <1>3, <1>4

(* A call has failed: nothing new is needed.                               *)
LEMMA FailureKeepsEvents ==
  ASSUME CtrlTypeOK, GoodInv, EventInv, NEW c \in Callers, NEW l \in BOOLEAN,
         caller[c].step \in Requests \cup {"await", "open mon", "open cmd"},
         caller' = [caller EXCEPT ![c] = [GivesUp(caller[c]) EXCEPT !.late = l]],
         UNCHANGED <<inbox, attached, due>>
  PROVE  EventInv'
<1> DEFINE k == caller[c]
<1>1. k \in Caller
  BY Here
<1>2. PICK j : j = [GivesUp(k) EXCEPT !.late = l]
  OBVIOUS
<1>3. /\ j \in Caller /\ j.pc = "next" /\ j.step = AfterFailure(k)
      /\ j.path = k.path /\ j.n = k.n /\ j.kind = k.kind
      /\ k.step # "DETACH" => j.ok = FALSE
  BY <1>1, <1>2, StepFields
<1>4. /\ \A q : IsAttached(j, q) => IsAttached(k, q)
      /\ \A q : ~IsHandled(j, q)
  <2>1. CASE k.step = "COMMAND"
    BY <1>3, <2>1 DEF AfterFailure, After, IsAttached, IsHandled, InCommand
  <2>2. CASE k.step # "COMMAND"
    <3>1. j.step \notin InCommand \cup {"await", "ATTACH"}
      BY <1>3, <2>2 DEF AfterFailure, After, Requests, InCommand
    <3> QED BY <3>1 DEF IsAttached, IsHandled, InCommand
  <2> QED BY <2>1, <2>2
<1> QED BY <1>2, <1>3, <1>4, MovesOn

LEMMA FailuresKeepEvents ==
  ASSUME CtrlTypeOK, GoodInv, EventInv, NEW c \in Callers,
         OpenFails(c) \/ SendFails(c) \/ AwaitGivesUp(c) \/ TimesOut(c)
  PROVE  EventInv'
<1> DEFINE k == caller[c]
<1>1. k \in Caller /\ GoodRecord(k)
  BY Here
<1>2. CASE OpenFails(c) \/ SendFails(c) \/ AwaitGivesUp(c)
  <2>1. k.step \in Requests \cup {"await", "open mon", "open cmd"}
    BY <1>1, <1>2 DEF OpenFails, SendFails, AwaitGivesUp, AtCall, Inside,
                     GoodRecord
  <2>2. /\ caller' = [caller EXCEPT ![c] = GivesUp(k)]
        /\ UNCHANGED <<inbox, attached, due>>
    BY <1>2 DEF OpenFails, SendFails, AwaitGivesUp
  <2>3. caller' = [caller EXCEPT ![c] = [GivesUp(k) EXCEPT !.late = k.late]]
    BY <1>1, <2>2, SameLate
  <2>4. k.late \in BOOLEAN
    BY <1>1, SameLate
  <2> QED BY <2>1, <2>2, <2>3, <2>4, FailureKeepsEvents
<1>3. CASE TimesOut(c)
  <2>1. k.step \in Requests /\ (k.step = "DETACH") \in BOOLEAN
    BY <1>1, <1>3 DEF TimesOut, GoodRecord
  <2> QED BY <1>3, <2>1, FailureKeepsEvents DEF TimesOut
<1> QED BY <1>2, <1>3

(* A session begins with nothing to wait for.                              *)
LEMMA BeginKeepsEvents ==
  ASSUME CtrlTypeOK, GoodInv, EventInv, NEW c \in Callers, Begin(c)
  PROVE  EventInv'
<1> DEFINE k == caller[c]
<1>1. k \in Caller
  BY Here
<1>2. PICK kind \in SessionKinds :
        caller' = [caller EXCEPT ![c] = Begins(k, kind)]
  BY DEF Begin
<1>3. PICK j : j = Begins(k, kind)
  OBVIOUS
<1>4. /\ j \in Caller /\ j.kind = kind
      /\ j.step = IF kind = "command" THEN "open cmd" ELSE "open mon"
  BY <1>1, <1>3, BeginsTyped
<1>5. \A q : ~IsAttached(j, q) /\ ~IsHandled(j, q)
  BY <1>4 DEF IsAttached, IsHandled, InCommand
<1>6. UNCHANGED <<inbox, attached, due>>
  BY DEF Begin
<1> QED BY <1>2, <1>3, <1>4, <1>5, <1>6, MovesOn

(* Within a call: wpa_ctrl_open2(), or send().                             *)
LEMMA InsideKeepsEvents ==
  ASSUME CtrlTypeOK, GoodInv, EventInv, NEW c \in Callers,
         OpenEnter(c) \/ OpenUnlink(c) \/ Request(c)
  PROVE  EventInv'
<1> DEFINE k == caller[c]
<1>1. k \in Caller
  BY Here
<1>2. PICK pc \in {"bind", "again", "wait"} :
        caller' = [caller EXCEPT ![c].pc = pc]
  BY DEF OpenEnter, OpenUnlink, Request
<1>3. PICK j : j = [k EXCEPT !.pc = pc]
  OBVIOUS
<1>4. /\ j \in Caller /\ j.pc = pc /\ j.step = k.step /\ j.kind = k.kind
      /\ j.path = k.path /\ j.ok = k.ok /\ j.n = k.n
  BY <1>1, <1>3 DEF Caller
<1>5. \A q : /\ IsAttached(j, q) => IsAttached(k, q)
             /\ IsHandled(j, q) => IsHandled(k, q)
  BY <1>4 DEF IsAttached, IsHandled
<1>6. UNCHANGED <<inbox, attached, due>>
  BY DEF OpenEnter, OpenUnlink, Request
<1>7. caller' = [caller EXCEPT ![c] = j]
  BY <1>2, <1>3
<1> QED BY <1>4, <1>5, <1>6, <1>7, MovesOn

(* A reply says whether it went well: the session goes on with what the    *)
(* reply in hand stands for.                                               *)
LEMMA ReadsKeepsEvents ==
  ASSUME CtrlTypeOK, GoodInv, EventInv, NEW c \in Callers, Reads(c)
  PROVE  EventInv'
<1> DEFINE k == caller[c]
<1>1. k \in Caller /\ GoodRecord(k) /\ k.pc = "taken" /\ k.step \in Requests
  BY Here DEF Reads, GoodRecord
<1>2. UNCHANGED <<inbox, attached, due>> /\ k.late \in BOOLEAN
  BY <1>1, SameLate DEF Reads
<1>3. CASE caller' = [caller EXCEPT ![c] = Onward(k)]
  <2>1. PICK j : j = Onward(k)
    OBVIOUS
  <2>2. /\ j \in Caller /\ j.pc = "next" /\ j.step = After(k)
        /\ j.path = k.path /\ j.n = k.n /\ j.kind = k.kind /\ j.ok = k.ok
    BY <1>1, <1>2, <2>1, StepFields
  <2>3. \A q : /\ IsAttached(j, q) => IsAttached(k, q)
               /\ IsHandled(j, q) => IsHandled(k, q)
    <3>1. CASE k.step \in {"ATTACH", "COMMAND"}
      BY <1>1, <2>2, <3>1 DEF After, IsAttached, IsHandled, InCommand
    <3>2. CASE k.step \in {"DETACH", "BSS"}
      BY <1>1, <2>2, <3>2 DEF After, IsAttached, IsHandled, InCommand
    <3> QED BY <1>1, <3>1, <3>2 DEF Requests
  <2> QED BY <1>2, <1>3, <2>1, <2>2, <2>3, MovesOn
<1>4. CASE caller' = [caller EXCEPT ![c] = GivesUp(k)]
  <2>1. caller' = [caller EXCEPT ![c] = [GivesUp(k) EXCEPT !.late = k.late]]
    BY <1>1, <1>4, SameLate
  <2> QED BY <1>1, <1>2, <2>1, FailureKeepsEvents
<1> QED BY <1>3, <1>4 DEF Reads

(* A connection is opened or closed.                                       *)
LEMMA LeadsFields ==
  ASSUME NEW k \in Caller, NEW p \in Paths \cup {0},
         k.step \in {"open mon", "open cmd", "close mon", "close cmd"}
  PROVE  LET j == Leads(k, p) IN
           /\ j \in Caller /\ j.pc = "next" /\ j.step = After(k)
           /\ j.kind = k.kind /\ j.n = k.n /\ j.ok = k.ok
           /\ k.step \in {"open cmd", "close cmd"} =>
                /\ Side(k) = "cmd" /\ j.path["mon"] = k.path["mon"]
<1>1. PICK j : j = Leads(k, p)
  OBVIOUS
<1>2. /\ j \in Caller /\ j.pc = "next" /\ j.step = After(k) /\ j.n = k.n
      /\ j.kind = k.kind
      /\ \A e \in Sides : e # Side(k) => j.path[e] = k.path[e]
  BY <1>1, LeadsTyped
<1>3. j.ok = k.ok
  <2>1. PICK o : o = Onward(k)
    OBVIOUS
  <2>2. o \in Caller /\ o.ok = k.ok
    BY <2>1, StepFields
  <2>3. j = [o EXCEPT !.path[Side(k)] = p]
    BY <1>1, <2>1 DEF Leads
  <2>4. PICK q : q = [o.path EXCEPT ![Side(k)] = p]
    OBVIOUS
  <2>5. j = [o EXCEPT !.path = q]
    BY <2>3, <2>4, Zenon
  <2> QED BY <2>2, <2>5 DEF Caller
<1>4. k.step \in {"open cmd", "close cmd"} =>
        Side(k) = "cmd" /\ j.path["mon"] = k.path["mon"]
  BY <1>2 DEF Side, Sides
<1> QED BY <1>1, <1>2, <1>3, <1>4

LEMMA OpenBindKeepsEvents ==
  ASSUME CtrlTypeOK, GoodInv, EventInv, NEW c \in Callers, OpenBind(c)
  PROVE  EventInv'
<1> DEFINE k == caller[c]
           e == Side(k)
<1>1. /\ k \in Caller /\ e \in Sides /\ Socket(c) = <<c, e>>
      /\ <<c, e>> \in Sockets /\ k.step \in {"open mon", "open cmd"}
      /\ counter \in Paths
  BY Here DEF OpenBind, Inside, GoodRecord, GoodInv, OpeningInv
<1>2. PICK j : j = Leads(k, counter)
  OBVIOUS
<1>3. /\ j \in Caller /\ j.pc = "next" /\ j.step = After(k)
      /\ j.kind = k.kind /\ j.n = k.n
      /\ k.step = "open cmd" =>
           e = "cmd" /\ j.path["mon"] = k.path["mon"]
  <2>1. counter \in Paths \cup {0}
    BY <1>1
  <2> QED BY <1>1, <1>2, <2>1, LeadsFields
<1>4. /\ caller' = [caller EXCEPT ![c] = j]
      /\ inbox' = [inbox EXCEPT ![<<c, e>>] = <<>>]
      /\ UNCHANGED <<attached, due>>
  BY <1>1, <1>2 DEF OpenBind
<1>5. /\ caller'[c] = j /\ \A d \in Callers : d # c => caller'[d] = caller[d]
      /\ inbox'[<<c, e>>] = <<>>
      /\ \A s \in Sockets : s # <<c, e>> => inbox'[s] = inbox[s]
  BY <1>1, <1>4 DEF CtrlTypeOK
<1>6. EventGood(c)'
  <2>1. CASE k.step = "open mon"
    <3>1. j.step = "ATTACH" /\ inbox'[<<c, "mon">>] = <<>>
      BY <1>3, <1>5, <2>1 DEF After, Side
    <3> QED BY <1>3, <1>5, <3>1, RepliesNone
            DEF EventGood, IsAttached, IsHandled, InCommand
  <2>2. CASE k.step = "open cmd"
    <3>1. j.step = "COMMAND" /\ inbox'[<<c, "cmd">>] = <<>>
      BY <1>3, <1>5, <2>2 DEF After
    <3>2. ~IsHandled(j, inbox'[<<c, "cmd">>])
      BY <1>3, <3>1, RepliesNone DEF IsHandled
    <3>3. j.kind # "command" => k.path["mon"] \in attached
      BY <1>3, <2>2 DEF EventInv, EventGood, IsAttached, InCommand
    <3>4. IsAttached(j, inbox'[<<c, "mon">>])
            => j.path["mon"] \in attached'
      BY <1>3, <1>4, <2>2, <3>1, <3>3 DEF IsAttached
    <3> QED BY <1>5, <3>2, <3>4 DEF EventGood
  <2> QED BY <1>1, <2>1, <2>2
<1>7. \A d \in Callers : d # c =>
        \A f \in Sides : inbox'[<<d, f>>] = inbox[<<d, f>>]
  BY <1>5 DEF Sockets
<1> QED BY <1>4, <1>5, <1>6, <1>7, Elsewhere

LEMMA CloseKeepsEvents ==
  ASSUME CtrlTypeOK, GoodInv, EventInv, NEW c \in Callers, Close(c)
  PROVE  EventInv'
<1> DEFINE k == caller[c]
           e == Side(k)
<1>1. /\ k \in Caller /\ e \in Sides /\ <<c, e>> \in Sockets
      /\ k.step \in {"close mon", "close cmd"}
  BY Here DEF Close, AtCall
<1>2. PICK j : j = Leads(k, 0)
  OBVIOUS
<1>3. /\ j \in Caller /\ j.pc = "next" /\ j.step = After(k)
      /\ j.kind = k.kind /\ j.n = k.n /\ j.ok = k.ok
      /\ k.step = "close cmd" =>
           e = "cmd" /\ j.path["mon"] = k.path["mon"]
  <2>1. 0 \in Paths \cup {0}
    OBVIOUS
  <2> QED BY <1>1, <1>2, <2>1, LeadsFields
<1>4. /\ caller' = [caller EXCEPT ![c] = j]
      /\ inbox' = [inbox EXCEPT ![<<c, e>>] = <<>>]
      /\ UNCHANGED <<attached, due>>
  BY <1>1, <1>2 DEF Close
<1>5. /\ caller'[c] = j /\ \A d \in Callers : d # c => caller'[d] = caller[d]
      /\ \A s \in Sockets : s # <<c, e>> => inbox'[s] = inbox[s]
  BY <1>1, <1>4 DEF CtrlTypeOK
<1>6. EventGood(c)'
  <2>1. CASE k.step = "close mon"
    <3>1. j.step = "done"
      BY <1>3, <2>1 DEF After
    <3> QED BY <1>5, <3>1 DEF EventGood, IsAttached, IsHandled, InCommand
  <2>2. CASE k.step = "close cmd"
    <3>1. /\ j.step \in {"done", "await", "DETACH"}
          /\ j.step = "await" => k.kind # "command" /\ k.ok
      BY <1>3, <2>2 DEF After
    <3>2. <<c, "mon">> \in Sockets /\ <<c, "mon">> # <<c, e>>
      BY <1>3, <2>2 DEF Sockets, Sides
    <3>3. inbox'[<<c, "mon">>] = inbox[<<c, "mon">>]
      BY <1>5, <3>2
    <3>4. j.step = "await" =>
            /\ k.path["mon"] \in attached
            /\ Own(c) \in due \/ Found(inbox[<<c, "mon">>], Own(c))
      BY <2>2, <3>1 DEF EventInv, EventGood, IsAttached, IsHandled, InCommand
    <3>5. Own(c)' = Own(c)
      BY <1>3, <1>5 DEF Own
    <3>6. \A q : /\ IsAttached(j, q) => j.step = "await"
                 /\ IsHandled(j, q) => j.step = "await"
      BY <3>1 DEF IsAttached, IsHandled, InCommand
    <3>7. j.path["mon"] = k.path["mon"] /\ attached' = attached /\ due' = due
      BY <1>3, <1>4, <2>2
    <3>8. IsAttached(caller'[c], inbox'[<<c, "mon">>])
            => caller'[c].path["mon"] \in attached'
      BY <1>5, <3>4, <3>6, <3>7
    <3>9. IsHandled(caller'[c], inbox'[<<c, "cmd">>])
            => Own(c)' \in due' \/ Found(inbox'[<<c, "mon">>], Own(c)')
      BY <1>5, <3>3, <3>4, <3>5, <3>6, <3>7
    <3> QED BY <3>8, <3>9 DEF EventGood
  <2> QED BY <1>1, <2>1, <2>2
<1>7. \A d \in Callers : d # c =>
        \A f \in Sides : inbox'[<<d, f>>] = inbox[<<d, f>>]
  BY <1>5 DEF Sockets
<1> QED BY <1>4, <1>5, <1>6, <1>7, Elsewhere

(* A message is taken out of a socket, and its reader goes on.             *)
LEMMA TakenOutKeepsEvents ==
  ASSUME CtrlTypeOK, GoodInv, EventInv, NEW c \in Callers, NEW j \in Caller,
         caller' = [caller EXCEPT ![c] = j],
         j.path = caller[c].path, j.n = caller[c].n,
         inbox' = [inbox EXCEPT ![Socket(c)] = Tail(@)],
         UNCHANGED <<attached, due>>,
         IsAttached(j, inbox'[<<c, "mon">>])
           => IsAttached(caller[c], inbox[<<c, "mon">>]),
         IsHandled(j, inbox'[<<c, "cmd">>]) =>
           /\ IsHandled(caller[c], inbox[<<c, "cmd">>])
           /\ Found(inbox[<<c, "mon">>], Own(c))
                => Found(inbox'[<<c, "mon">>], Own(c))
  PROVE  EventInv'
<1>1. /\ Socket(c) = <<c, Side(caller[c])>> /\ Socket(c) \in Sockets
  BY Here
<1>2. /\ caller'[c] = j /\ \A d \in Callers : d # c => caller'[d] = caller[d]
      /\ \A s \in Sockets : s # Socket(c) => inbox'[s] = inbox[s]
  BY <1>1 DEF CtrlTypeOK
<1>3. Own(c)' = Own(c)
  BY <1>2 DEF Own
<1>4. EventGood(c)'
  <2>1. EventGood(c)
    BY DEF EventInv
  <2> QED BY <1>2, <1>3, <2>1 DEF EventGood
<1>5. \A d \in Callers : d # c =>
        \A f \in Sides : inbox'[<<d, f>>] = inbox[<<d, f>>]
  BY <1>1, <1>2 DEF Sockets
<1> QED BY <1>2, <1>4, <1>5, Elsewhere

(* The reply to ATTACH comes over the connection of the monitor, the one   *)
(* to the command over its own, where no event is lost.                    *)
LEMMA ReceiveKeepsEvents ==
  ASSUME CtrlTypeOK, GoodInv, EventInv, NEW c \in Callers, Receive(c)
  PROVE  EventInv'
<1> DEFINE k == caller[c]
           e == Side(k)
           q == inbox[Socket(c)]
<1>1. /\ k \in Caller /\ GoodRecord(k) /\ e \in Sides /\ Socket(c) = <<c, e>>
      /\ Socket(c) \in Sockets /\ q \in Seq(Message) /\ q # <<>>
      /\ k.pc = "wait" /\ k.step \in Requests
  BY Here DEF Receive, GoodRecord
<1>2. /\ inbox' = [inbox EXCEPT ![Socket(c)] = Tail(@)]
      /\ UNCHANGED <<attached, due>>
      /\ caller' = IF Head(q).event THEN caller
                   ELSE [caller EXCEPT ![c].pc = "taken", ![c].got = Head(q).of]
  BY DEF Receive
<1>3. /\ RepliesIn(Tail(q)) \subseteq RepliesIn(q)
      /\ Head(q) \in Message
      /\ ~Head(q).event => Head(q).of \in RepliesIn(q)
  BY <1>1, RepliesTail
<1>4. /\ inbox'[<<c, e>>] = Tail(q) /\ q = inbox[<<c, e>>]
      /\ \A s \in Sockets : s # <<c, e>> => inbox'[s] = inbox[s]
  BY <1>1, <1>2 DEF CtrlTypeOK
<1>5. PICK j \in Caller :
        /\ caller' = [caller EXCEPT ![c] = j] /\ j.path = k.path /\ j.n = k.n
        /\ j.step = k.step /\ j.kind = k.kind
        /\ j.pc = "wait" \/ RepliesIn(q) # {}
  <2>1. CASE Head(q).event
    <3>1. caller' = [caller EXCEPT ![c] = k]
      BY <1>2, <2>1 DEF CtrlTypeOK
    <3> QED BY <1>1, <3>1
  <2>2. CASE ~Head(q).event
    <3>1. PICK j : j = [k EXCEPT !.pc = "taken", !.got = Head(q).of]
      OBVIOUS
    <3>2. Head(q).of \in Tags
      BY <1>3 DEF Message
    <3>3. /\ j \in Caller /\ j.path = k.path /\ j.n = k.n
          /\ j.step = k.step /\ j.kind = k.kind
      BY <1>1, <3>1, <3>2 DEF Caller
    <3>4. caller' = [caller EXCEPT ![c] = j]
      BY <1>2, <2>2, <3>1 DEF CtrlTypeOK
    <3> QED BY <1>3, <2>2, <3>3, <3>4
  <2> QED BY <2>1, <2>2
<1> HIDE DEF k, e, q
<1>6. IsAttached(j, inbox'[<<c, "mon">>]) => IsAttached(k, inbox[<<c, "mon">>])
  <2> SUFFICES ASSUME IsAttached(j, inbox'[<<c, "mon">>])
               PROVE  IsAttached(k, inbox[<<c, "mon">>])
    OBVIOUS
  <2>1. CASE k.step = "ATTACH"
    <3>1. e = "mon"
      BY <2>1 DEF Side, e
    <3>2. RepliesIn(q) # {}
      BY <1>3, <1>4, <1>5, <2>1, <3>1 DEF IsAttached, InCommand
    <3> QED BY <1>4, <2>1, <3>1, <3>2 DEF IsAttached
  <2>2. CASE k.step # "ATTACH"
    BY <1>5, <2>2 DEF IsAttached
  <2> QED BY <2>1, <2>2
<1>7. IsHandled(j, inbox'[<<c, "cmd">>]) =>
        /\ IsHandled(k, inbox[<<c, "cmd">>])
        /\ inbox'[<<c, "mon">>] = inbox[<<c, "mon">>]
  <2> SUFFICES ASSUME IsHandled(j, inbox'[<<c, "cmd">>])
               PROVE  /\ IsHandled(k, inbox[<<c, "cmd">>])
                      /\ inbox'[<<c, "mon">>] = inbox[<<c, "mon">>]
    OBVIOUS
  <2>1. k.step = "COMMAND" /\ k.kind # "command"
    BY <1>1, <1>5 DEF IsHandled, Requests
  <2>2. e = "cmd"
    BY <2>1 DEF Side, e
  <2>3. RepliesIn(q) # {}
    BY <1>3, <1>4, <1>5, <2>1, <2>2 DEF IsHandled
  <2>4. <<c, "mon">> \in Sockets /\ <<c, "mon">> # <<c, e>>
    BY <2>2 DEF Sockets, Sides
  <2> QED BY <1>4, <2>1, <2>2, <2>3, <2>4 DEF IsHandled
<1> QED BY <1>2, <1>5, <1>6, <1>7, TakenOutKeepsEvents DEF k

(* The event of the own command ends the wait; others are passed over.     *)
LEMMA AwaitReadsKeepsEvents ==
  ASSUME CtrlTypeOK, GoodInv, EventInv, NEW c \in Callers, AwaitReads(c)
  PROVE  EventInv'
<1> DEFINE k == caller[c]
           q == inbox[Socket(c)]
<1>1. /\ k \in Caller /\ GoodRecord(k) /\ q \in Seq(Message) /\ q # <<>>
      /\ Socket(c) \in Sockets /\ k.step = "await"
  BY Here DEF AwaitReads, AtCall
<1>2. Socket(c) = <<c, "mon">> /\ k.kind # "command" /\ k.late \in BOOLEAN
  BY <1>1, SameLate DEF Socket, Side, GoodRecord, InMonitor
<1>3. /\ inbox' = [inbox EXCEPT ![Socket(c)] = Tail(@)]
      /\ UNCHANGED <<attached, due>>
  BY DEF AwaitReads
<1>4. inbox'[<<c, "mon">>] = Tail(q) /\ q = inbox[<<c, "mon">>]
  BY <1>1, <1>2, <1>3 DEF CtrlTypeOK
<1>5. \A p : IsAttached(k, p) /\ IsHandled(k, p)
  BY <1>1, <1>2 DEF IsAttached, IsHandled
<1>6. CASE caller' = [caller EXCEPT ![c] = Onward(k)]
  <2>1. PICK j : j = Onward(k)
    OBVIOUS
  <2>2. /\ j \in Caller /\ j.step = After(k) /\ j.path = k.path /\ j.n = k.n
    BY <1>1, <1>2, <2>1, StepFields
  <2>3. j.step = "DETACH"
    BY <1>1, <2>2 DEF After
  <2>4. \A p : ~IsHandled(j, p)
    BY <2>3 DEF IsHandled
  <2> QED BY <1>3, <1>5, <1>6, <2>1, <2>2, <2>4, TakenOutKeepsEvents
<1>7. CASE /\ caller' = caller
           /\ ~(Head(q).event /\ Head(q).of = Own(c))
  <2>1. Found(q, Own(c)) => Found(Tail(q), Own(c))
    <3>1. Head(q) # [event |-> TRUE, of |-> Own(c)]
      BY <1>7
    <3> QED BY <1>1, <3>1, FoundTail
  <2>2. caller' = [caller EXCEPT ![c] = k]
    BY <1>7 DEF CtrlTypeOK
  <2> QED BY <1>1, <1>3, <1>4, <1>5, <2>1, <2>2, TakenOutKeepsEvents
<1> QED BY <1>6, <1>7 DEF AwaitReads, Own

(* What the daemon sends hides no event, and an event goes to every socket *)
(* that is attached.                                                       *)
LEMMA ReportedEvents ==
  ASSUME NEW boxes \in [Sockets -> Seq(Message)], NEW of \in Tags,
         NEW s \in Sockets
  PROVE  /\ \A u : Found(boxes[s], u) => Found(Reported(boxes, of)[s], u)
         /\ (\E p \in attached : file[p] = s) => Found(Reported(boxes, of)[s], of)
<1>1. PICK m : m = [event |-> TRUE, of |-> of]
  OBVIOUS
<1>2. /\ \A u : Found(boxes[s], u) => Found(Append(boxes[s], m), u)
      /\ Found(Append(boxes[s], m), of)
  BY <1>1, FoundAppend
<1>3. Reported(boxes, of)[s] = IF \E p \in attached : file[p] = s
                                 THEN Append(boxes[s], m) ELSE boxes[s]
  BY <1>1, Zenon DEF Reported
<1> QED BY <1>2, <1>3

LEMMA AnsweredEvents ==
  ASSUME NEW boxes \in [Sockets -> Seq(Message)], NEW r, NEW s \in Sockets
  PROVE  \A u : Found(boxes[s], u) => Found(Answered(boxes, r)[s], u)
<1>1. PICK m : m = [event |-> FALSE, of |-> r.of]
  OBVIOUS
<1>2. \A u : Found(boxes[s], u) => Found(Append(boxes[s], m), u)
  BY FoundAppend
<1>3. Answered(boxes, r)[s] = IF file[r.path] = s
                                THEN Append(boxes[s], m) ELSE boxes[s]
  BY <1>1, Zenon DEF Answered
<1> QED BY <1>2, <1>3

(* A reply that comes answers the session that it comes to.                *)
LEMMA ReplyOwned ==
  ASSUME CtrlTypeOK, GoodInv, NEW c \in Callers, NEW e \in Sides,
         NEW r \in daemon, caller[c].path[e] = r.path \/ file[r.path] = <<c, e>>
  PROVE  /\ caller[c].path[e] = r.path /\ Owned(r.of, c, e)
         /\ r.of[3] \in Asked(caller[c])
         /\ e = "cmd" => r.of = Own(c)
<1>1. r.path \in Paths /\ r.of \in Tags
  BY DEF CtrlTypeOK
<1>2. caller[c].path[e] = r.path
  BY <1>1 DEF GoodInv, PathsInv
<1>3. Owned(r.of, c, e) /\ Due(r.of)
  BY <1>2 DEF GoodInv, OwnersInv, DueInv
<1>4. r.of[3] \in Asked(caller[c])
  BY <1>3 DEF Owned, Due, MayCome
<1>5. r.of = <<r.of[1], r.of[2], r.of[3]>>
  BY <1>1 DEF Tags
<1> QED BY <1>2, <1>3, <1>4, <1>5 DEF Owned, Own

(* Whose command was handled has its monitor attached.                     *)
LEMMA MonitorAttached ==
  ASSUME CtrlTypeOK, GoodInv, EventInv, NEW c \in Callers, NEW q,
         IsHandled(caller[c], q)
  PROVE  \E p \in attached : file[p] = <<c, "mon">>
<1>1. IsAttached(caller[c], inbox[<<c, "mon">>])
  BY DEF IsHandled, IsAttached, InCommand
<1>2. caller[c].path["mon"] \in attached
  BY <1>1 DEF EventInv, EventGood
<1>3. caller[c].path["mon"] # 0
  BY <1>2, CtrlAssumption DEF CtrlTypeOK, Paths
<1> QED BY <1>2, <1>3 DEF GoodInv, PathsInv, Sides

(* No DETACH of an earlier time is left when a monitor is needed: paths    *)
(* are not used again.                                                     *)
LEMMA AttachedStays ==
  ASSUME CtrlTypeOK, GoodInv, NEW c \in Callers, NEW r \in daemon, NEW q,
         r.of[3] = "DETACH", IsAttached(caller[c], q)
  PROVE  r.path # caller[c].path["mon"]
<1> SUFFICES ASSUME r.path = caller[c].path["mon"] PROVE FALSE
  OBVIOUS
<1>1. "DETACH" \in Asked(caller[c])
  BY ReplyOwned DEF Sides
<1>2. caller[c].step \in {"open cmd", "COMMAND", "close cmd", "await", "ATTACH"}
  BY DEF IsAttached, InCommand
<1> QED BY <1>1, <1>2 DEF Asked, Before

LEMMA HandleKeepsEvents ==
  ASSUME CtrlTypeOK, GoodInv, EventInv, NEW r \in daemon, Handle(r)
  PROVE  EventInv'
<1> SUFFICES ASSUME NEW c \in Callers PROVE EventGood(c)'
  BY DEF EventInv
<1> DEFINE k == caller[c]
           mon == inbox[<<c, "mon">>]
           cmd == inbox[<<c, "cmd">>]
<1>1. /\ inbox \in [Sockets -> Seq(Message)] /\ r \in [path : Paths, of : Tags]
      /\ <<c, "mon">> \in Sockets /\ <<c, "cmd">> \in Sockets
      /\ "mon" \in Sides /\ "cmd" \in Sides
  BY DEF CtrlTypeOK, Sockets, Sides
<1>2. /\ inbox' = Answered(inbox, r) /\ caller' = caller /\ Own(c)' = Own(c)
  BY DEF Handle, Own
<1>3. /\ \A u : Found(mon, u) => Found(inbox'[<<c, "mon">>], u)
      /\ file[r.path] # <<c, "mon">> => inbox'[<<c, "mon">>] = mon
      /\ file[r.path] # <<c, "cmd">> => inbox'[<<c, "cmd">>] = cmd
  BY <1>1, <1>2, AnsweredEvents, AnsweredReplies
<1>4. ASSUME IsAttached(k, inbox'[<<c, "mon">>])
      PROVE  k.path["mon"] \in attached'
  <2>1. CASE IsAttached(k, mon)
    <3>1. k.path["mon"] \in attached
      BY <2>1 DEF EventInv, EventGood
    <3>2. r.of[3] = "DETACH" => r.path # k.path["mon"]
      BY <2>1, AttachedStays
    <3> QED BY <3>1, <3>2 DEF Handle
  <2>2. CASE ~IsAttached(k, mon)
    <3>1. file[r.path] = <<c, "mon">>
      BY <1>3, <1>4, <2>2
    <3>2. /\ k.path["mon"] = r.path /\ r.of[3] \in Asked(k)
      BY <1>1, <3>1, ReplyOwned
    <3>3. k.step = "ATTACH"
      BY <1>4, <2>2 DEF IsAttached
    <3>4. r.of[3] = "ATTACH"
      BY <3>2, <3>3 DEF Asked, Before
    <3> QED BY <3>2, <3>4 DEF Handle
  <2> QED BY <2>1, <2>2
<1>5. ASSUME IsHandled(k, inbox'[<<c, "cmd">>])
      PROVE  Own(c) \in due' \/ Found(inbox'[<<c, "mon">>], Own(c))
  <2>1. CASE IsHandled(k, cmd)
    <3>1. Own(c) \in due \/ Found(mon, Own(c))
      BY <2>1 DEF EventInv, EventGood
    <3>2. due \subseteq due'
      BY DEF Handle
    <3> QED BY <1>3, <3>1, <3>2
  <2>2. CASE ~IsHandled(k, cmd)
    <3>1. file[r.path] = <<c, "cmd">>
      BY <1>3, <1>5, <2>2
    <3>2. r.of = Own(c)
      BY <1>1, <3>1, ReplyOwned
    <3> QED BY <3>2 DEF Handle, Own
  <2> QED BY <2>1, <2>2
<1> QED BY <1>2, <1>4, <1>5 DEF EventGood

LEMMA HandleAtOnceKeepsEvents ==
  ASSUME CtrlTypeOK, GoodInv, EventInv, NEW r \in daemon, HandleAtOnce(r)
  PROVE  EventInv'
<1> SUFFICES ASSUME NEW c \in Callers PROVE EventGood(c)'
  BY DEF EventInv
<1> DEFINE k == caller[c]
           mon == inbox[<<c, "mon">>]
           cmd == inbox[<<c, "cmd">>]
<1>1. /\ inbox \in [Sockets -> Seq(Message)] /\ r \in [path : Paths, of : Tags]
      /\ r.of \in Tags
      /\ <<c, "mon">> \in Sockets /\ <<c, "cmd">> \in Sockets
      /\ "mon" \in Sides /\ "cmd" \in Sides
  BY DEF CtrlTypeOK, Sockets, Sides
<1>2. PICK boxes : boxes = Reported(inbox, r.of)
  OBVIOUS
<1>3. /\ boxes \in [Sockets -> Seq(Message)]
      /\ RepliesIn(boxes[<<c, "mon">>]) = RepliesIn(mon)
      /\ RepliesIn(boxes[<<c, "cmd">>]) = RepliesIn(cmd)
      /\ \A u : Found(mon, u) => Found(boxes[<<c, "mon">>], u)
      /\ (\E p \in attached : file[p] = <<c, "mon">>)
           => Found(boxes[<<c, "mon">>], r.of)
  BY <1>1, <1>2, ReportedReplies, ReportedEvents
<1>4. /\ inbox' = Answered(boxes, r) /\ caller' = caller /\ Own(c)' = Own(c)
      /\ attached' = attached /\ due' = due /\ r.of[3] = "COMMAND"
  BY <1>2 DEF HandleAtOnce, Own
<1>5. /\ \A u : Found(boxes[<<c, "mon">>], u) => Found(inbox'[<<c, "mon">>], u)
      /\ file[r.path] # <<c, "mon">>
           => RepliesIn(inbox'[<<c, "mon">>]) = RepliesIn(mon)
      /\ file[r.path] # <<c, "cmd">>
           => RepliesIn(inbox'[<<c, "cmd">>]) = RepliesIn(cmd)
  <2>1. PICK answered : answered = Answered(boxes, r)
    OBVIOUS
  <2>2. \A u : Found(boxes[<<c, "mon">>], u) => Found(answered[<<c, "mon">>], u)
    BY <1>1, <1>3, <2>1, AnsweredEvents
  <2>3. /\ file[r.path] # <<c, "mon">>
             => answered[<<c, "mon">>] = boxes[<<c, "mon">>]
        /\ file[r.path] # <<c, "cmd">>
             => answered[<<c, "cmd">>] = boxes[<<c, "cmd">>]
    BY <1>1, <1>3, <2>1, AnsweredReplies
  <2>4. inbox' = answered
    BY <1>4, <2>1
  <2> QED BY <1>3, <2>2, <2>3, <2>4
<1>6. ASSUME IsAttached(k, inbox'[<<c, "mon">>])
      PROVE  k.path["mon"] \in attached'
  <2>1. file[r.path] # <<c, "mon">>
    <3>1. file[r.path] = <<c, "mon">> => Owned(r.of, c, "mon")
      BY <1>1, ReplyOwned
    <3> QED BY <1>4, <3>1 DEF Owned
  <2>2. IsAttached(k, mon)
    BY <1>5, <1>6, <2>1 DEF IsAttached
  <2> QED BY <1>4, <2>2 DEF EventInv, EventGood
<1>7. ASSUME IsHandled(k, inbox'[<<c, "cmd">>])
      PROVE  Own(c) \in due' \/ Found(inbox'[<<c, "mon">>], Own(c))
  <2>1. CASE file[r.path] = <<c, "cmd">>
    <3>1. r.of = Own(c)
      BY <1>1, <2>1, ReplyOwned
    <3>2. \E p \in attached : file[p] = <<c, "mon">>
      BY <1>7, MonitorAttached
    <3> QED BY <1>3, <1>5, <3>1, <3>2
  <2>2. CASE file[r.path] # <<c, "cmd">>
    <3>1. IsHandled(k, cmd)
      BY <1>5, <1>7, <2>2 DEF IsHandled
    <3>2. Own(c) \in due \/ Found(mon, Own(c))
      BY <3>1 DEF EventInv, EventGood
    <3> QED BY <1>3, <1>4, <1>5, <3>2
  <2> QED BY <2>1, <2>2
<1> QED BY <1>4, <1>6, <1>7 DEF EventGood

LEMMA HappensKeepsEvents ==
  ASSUME CtrlTypeOK, GoodInv, EventInv, NEW of \in due, Happens(of)
  PROVE  EventInv'
<1> SUFFICES ASSUME NEW c \in Callers PROVE EventGood(c)'
  BY DEF EventInv
<1> DEFINE k == caller[c]
           mon == inbox[<<c, "mon">>]
           cmd == inbox[<<c, "cmd">>]
<1>1. /\ inbox \in [Sockets -> Seq(Message)] /\ of \in Tags
      /\ <<c, "mon">> \in Sockets /\ <<c, "cmd">> \in Sockets
  BY DEF CtrlTypeOK, Sockets, Sides
<1>2. /\ inbox' = Reported(inbox, of) /\ caller' = caller /\ Own(c)' = Own(c)
      /\ attached' = attached /\ due' = due \ {of}
  BY DEF Happens, Own
<1>3. /\ RepliesIn(inbox'[<<c, "mon">>]) = RepliesIn(mon)
      /\ RepliesIn(inbox'[<<c, "cmd">>]) = RepliesIn(cmd)
      /\ \A u : Found(mon, u) => Found(inbox'[<<c, "mon">>], u)
      /\ (\E p \in attached : file[p] = <<c, "mon">>)
           => Found(inbox'[<<c, "mon">>], of)
  BY <1>1, <1>2, ReportedReplies, ReportedEvents
<1>4. IsAttached(k, inbox'[<<c, "mon">>]) => k.path["mon"] \in attached'
  <2>1. IsAttached(k, mon) => k.path["mon"] \in attached
    BY DEF EventInv, EventGood
  <2> QED BY <1>2, <1>3, <2>1 DEF IsAttached
<1>5. ASSUME IsHandled(k, inbox'[<<c, "cmd">>])
      PROVE  Own(c) \in due' \/ Found(inbox'[<<c, "mon">>], Own(c))
  <2>1. IsHandled(k, cmd)
    BY <1>3, <1>5 DEF IsHandled
  <2>2. Own(c) \in due \/ Found(mon, Own(c))
    BY <2>1 DEF EventInv, EventGood
  <2>3. \E p \in attached : file[p] = <<c, "mon">>
    BY <2>1, MonitorAttached
  <2> QED BY <1>2, <1>3, <2>2, <2>3
<1> QED BY <1>2, <1>4, <1>5 DEF EventGood

LEMMA EventStep == AllInv /\ [CtrlNext]_ctrlVars => AllInv'
<1> SUFFICES ASSUME AllInv, [CtrlNext]_ctrlVars, apart' PROVE EventInv'
  BY StepGood DEF AllInv
<1>1. CASE UNCHANGED ctrlVars
  <2>1. apart /\ UNCHANGED <<caller, attached, due, inbox>>
    BY <1>1 DEF ctrlVars
  <2> QED BY <2>1 DEF AllInv, EventInv, EventGood, Own
<1>2. CASE CtrlNext
  <2>1. CtrlTypeOK /\ GoodInv /\ EventInv
    BY <1>2 DEF CtrlNext, AllInv, IInv
  <2>2. ASSUME NEW c \in Callers, CallerStep(c) PROVE EventInv'
    <3>1. CASE Begin(c)
      BY <2>1, <3>1, BeginKeepsEvents
    <3>2. CASE OpenEnter(c) \/ OpenUnlink(c) \/ Request(c)
      BY <2>1, <3>2, InsideKeepsEvents
    <3>3. CASE OpenBind(c)
      BY <2>1, <3>3, OpenBindKeepsEvents
    <3>4. CASE OpenFails(c) \/ SendFails(c) \/ AwaitGivesUp(c) \/ TimesOut(c)
      BY <2>1, <3>4, FailuresKeepEvents
    <3>5. CASE Receive(c)
      BY <2>1, <3>5, ReceiveKeepsEvents
    <3>6. CASE Reads(c)
      BY <2>1, <3>6, ReadsKeepsEvents
    <3>7. CASE AwaitReads(c)
      BY <2>1, <3>7, AwaitReadsKeepsEvents
    <3>8. CASE Close(c)
      BY <2>1, <3>8, CloseKeepsEvents
    <3> QED BY <2>2, <3>1, <3>2, <3>3, <3>4, <3>5, <3>6, <3>7, <3>8
            DEF CallerStep
  <2>3. ASSUME NEW r \in daemon, Handle(r) \/ HandleAtOnce(r) PROVE EventInv'
    BY <2>1, <2>3, HandleKeepsEvents, HandleAtOnceKeepsEvents
  <2>4. ASSUME NEW of \in due, Happens(of) PROVE EventInv'
    BY <2>1, <2>4, HappensKeepsEvents
  <2> QED BY <1>2, <2>2, <2>3, <2>4 DEF CtrlNext, DaemonStep
<1> QED BY <1>1, <1>2

(* A handler that waits for the event of its command has not lost it to    *)
(* the connection over which the command was sent, however the daemon      *)
(* orders its answer and the event (get_wpa_cli_event()).                  *)
THEOREM EventsCorrect == CtrlSpec => []NoEventLost
<1>1. CtrlInit => AllInv
  <2> SUFFICES ASSUME CtrlInit PROVE EventInv
    BY InitGood DEF AllInv
  <2>1. \A c \in Callers : caller[c].step = "done"
    BY DEF CtrlInit
  <2> QED BY <2>1 DEF EventInv, EventGood, IsAttached, IsHandled, InCommand
<1>2. AllInv => NoEventLost
  <2> SUFFICES ASSUME AllInv, apart, NEW c \in Callers, AtCall(c, {"await"})
               PROVE  \/ Own(c) \in due
                      \/ Found(inbox[Socket(c)], Own(c))
    BY DEF NoEventLost, Own, Found
  <2>1. caller[c].step = "await" /\ caller[c].kind # "command"
    BY DEF AtCall, AllInv, IInv, GoodInv, GoodRecord, InMonitor
  <2>2. Socket(c) = <<c, "mon">>
    BY <2>1 DEF Socket, Side
  <2>3. IsHandled(caller[c], inbox[<<c, "cmd">>])
    BY <2>1 DEF IsHandled
  <2> QED BY <2>2, <2>3 DEF AllInv, EventInv, EventGood
<1> QED BY <1>1, <1>2, EventStep, PTL DEF CtrlSpec
=============================================================================
