--------------------------- MODULE ConnBufferProofs ---------------------------
(* The framing of the commands: RoomToReceive and CommandsAreLines of      *)
(* ConnBuffer, for every size of the buffer, every segmentation and every  *)
(* number of bytes and clients.                                            *)
EXTENDS ConnBuffer, Integers, FiniteSetTheorems, NaturalsInduction,
        WellFoundedInduction, SequenceTheorems, TLAPS

Bytes == Letters \cup {Eol}

BufferTypeOK ==
  /\ buf \in Seq(Bytes) /\ received \in Seq(Bytes)
  /\ commands \in Seq(Seq(Bytes))
  /\ pos \in Nat /\ res \in Nat /\ clients \in Nat
  /\ slot \in {"free", "recv", "scan"}

(* The bytes that wait, and those just received, are in the buffer.        *)
RoomInv ==
  /\ slot # "scan" => res = 0
  /\ slot = "recv" => pos < Room /\ pos <= Len(buf)
  /\ slot = "scan" => pos + res = Len(buf) /\ Len(buf) <= Room

(* The bytes that are no longer in the buffer.                             *)
Gone == Len(received) - (pos + res)

(* The lines that ended among the first n bytes of s.                      *)
EndedBy(s, n) == {e \in Ended(s) : e <= n}

(* f takes these ends of lines to the commands c that are not empty.       *)
Matches(f, S, s, c) ==
  /\ f \in [S -> Told(c)]
  /\ \A i \in Told(c) : \E e \in S : f[e] = i
  /\ \A d, e \in S : d < e => f[d] < f[e]
  /\ \A e \in S : c[f[e]] = RestTo(s, e)

(* The n bytes that are gone end with a line, or with as many whole        *)
(* buffers of one that were dropped.                                       *)
CutAt(s, n) ==
  \E b \in 0..n, d \in 0..n :
    /\ n = b + d * Room
    /\ b = 0 \/ s[b] = Eol
    /\ \A i \in (b + 1)..n : s[i] # Eol

FrameInv ==
  slot # "free" =>
    /\ Gone \in Nat
    /\ \A i \in 1..(pos + res) : buf[i] = received[Gone + i]
    /\ \A i \in 1..pos : buf[i] # Eol
    /\ CutAt(received, Gone)
    /\ \E f \in [EndedBy(received, Gone) -> Told(commands)] :
         Matches(f, EndedBy(received, Gone), received, commands)

IInv == BufferTypeOK /\ RoomInv /\ FrameInv
-----------------------------------------------------------------------------
(* LEMMAS ON NUMBERS AND SEQUENCES                                         *)

LEMMA LessThan ==
  \E R : IsWellFoundedOn(R, Nat) /\ \A x, y \in Nat : <<y, x>> \in R <=> y < x
<1>1. IsWellFoundedOn(OpToRel(<, Nat), Nat)
  BY NatLessThanWellFounded
<1>2. \A x, y \in Nat : <<y, x>> \in OpToRel(<, Nat) <=> y < x
  BY DEF OpToRel
<1> QED BY <1>1, <1>2, Zenon

(* A set of natural numbers that is not empty has a least member.          *)
LEMMA MinIsLeast ==
  ASSUME NEW T \in SUBSET Nat, T # {}
  PROVE  Min(T) \in T /\ \A y \in T : Min(T) <= y
<1>1. PICK R : /\ IsWellFoundedOn(R, Nat)
               /\ \A x, y \in Nat : <<y, x>> \in R <=> y < x
  BY LessThan
<1>2. PICK x \in T : \A y \in T : ~(<<y, x>> \in R)
  <2>1. T \subseteq Nat
    OBVIOUS
  <2> QED BY <1>1, <2>1, WFMin
<1>3. \A y \in T : y \in Nat /\ ~(y < x)
  BY <1>1, <1>2
<1>4. \A y \in T : x =< y
  BY <1>2, <1>3
<1> QED BY <1>2, <1>4 DEF Min

(* What is left after whole buffers is less than a buffer.                 *)
LEMMA ModIs ==
  ASSUME NEW d \in Nat, NEW k \in 0..(Room - 1)
  PROVE  (d * Room + k) % Room = k
BY BufferAssumption

(* The rest of a line that begins after b and ends at e.                   *)
LEMMA RestIs ==
  ASSUME NEW s \in Seq(Bytes), NEW e \in 1..Len(s), NEW b \in 0..(e - 1),
         b = 0 \/ s[b] = Eol, \A i \in (b + 1)..(e - 1) : s[i] # Eol
  PROVE  RestTo(s, e) = SubSeq(s, e - ((e - 1 - b) % Room), e - 1)
<1> DEFINE T == {0} \cup {i \in 1..(e - 1) : s[i] = Eol}
<1>1. b \in T
  OBVIOUS
<1>2. \A i \in T : b >= i /\ i \in Int
  <2>1. \A i \in 1..(e - 1) : s[i] = Eol => ~(i > b)
    OBVIOUS
  <2> QED BY <2>1
<1>3. Max(T) = b
  <2>1. Max(T) \in T /\ \A i \in T : Max(T) >= i
    BY <1>1, <1>2 DEF Max
  <2>2. Max(T) >= b /\ b >= Max(T) /\ Max(T) \in Int
    BY <1>1, <1>2, <2>1
  <2> HIDE DEF T
  <2> QED BY <2>2
<1>4. RestTo(s, e) = SubSeq(s, e - ((e - 1 - Max(T)) % Room), e - 1)
  BY DEF RestTo
<1> HIDE DEF T
<1> QED BY <1>3, <1>4

LEMMA Least ==
  ASSUME NEW T \in SUBSET Nat, T # {}
  PROVE  \E x \in T : \A y \in T : x <= y
BY MinIsLeast

LEMMA ModBounded ==
  ASSUME NEW x \in Nat
  PROVE  x % Room \in 0..x
<1>1. PICK q \in Int, r \in Int :
        /\ x = q * Room + r /\ r = x % Room
        /\ 0 <= r /\ r < Room
  BY BufferAssumption
<1>2. q >= 0
  <2> SUFFICES ASSUME q + 1 <= 0 PROVE FALSE
    BY <1>1
  <2>1. (q + 1) * Room <= 0
    BY BufferAssumption
  <2>2. (q + 1) * Room = q * Room + Room
    BY BufferAssumption
  <2> QED BY <1>1, <2>1, <2>2, BufferAssumption
<1>3. q * Room >= 0
  BY <1>2, BufferAssumption
<1>4. q * Room \in Int
  BY BufferAssumption
<1> QED BY <1>1, <1>3, <1>4

(* A set of numbers with a bound has a greatest member.                    *)
LEMMA MaxIsGreatest ==
  ASSUME NEW n \in Nat, NEW T \in SUBSET (0..n), T # {}
  PROVE  Max(T) \in T /\ \A y \in T : Max(T) >= y
<1> DEFINE U == {i \in 0..n : n - i \in T}
<1>1. U \in SUBSET Nat /\ U # {}
  <2>1. PICK x \in T : TRUE
    OBVIOUS
  <2>2. n - x \in U
    BY <2>1
  <2>3. U \subseteq 0..n
    OBVIOUS
  <2>4. U \subseteq Nat
    BY <2>3
  <2> HIDE DEF U
  <2> QED BY <2>2, <2>4
<1>2. PICK m \in U : \A y \in U : m <= y
  <2> HIDE DEF U
  <2> QED BY <1>1, Least
<1>3. n - m \in T
  BY <1>2
<1>4. ASSUME NEW y \in T PROVE n - m >= y
  <2>1. n - y \in U
    OBVIOUS
  <2> QED BY <1>2, <2>1
<1> QED BY <1>3, <1>4 DEF Max

(* What is left of a line does not change when more is received.           *)
LEMMA RestStays ==
  ASSUME NEW s \in Seq(Bytes), NEW t \in Seq(Bytes),
         NEW e \in 1..Len(s), e <= Len(t),
         \A i \in 1..(e - 1) : t[i] = s[i]
  PROVE  RestTo(t, e) = RestTo(s, e)
<1> DEFINE T == {0} \cup {i \in 1..(e - 1) : s[i] = Eol}
           U == {0} \cup {i \in 1..(e - 1) : t[i] = Eol}
           r == (e - 1 - Max(T)) % Room
<1>1. T = U
  OBVIOUS
<1>2. T \subseteq 0..(e - 1) /\ T # {} /\ e - 1 \in Nat
  OBVIOUS
<1>3. Max(T) \in 0..(e - 1)
  BY <1>2, MaxIsGreatest
<1>4. RestTo(s, e) = SubSeq(s, e - r, e - 1)
  BY DEF RestTo
<1>5. RestTo(t, e) = SubSeq(t, e - r, e - 1)
  BY <1>1 DEF RestTo
<1>6. r \in 0..(e - 1)
  <2>1. e - 1 - Max(T) \in Nat /\ e - 1 - Max(T) <= e - 1
    BY <1>3
  <2>2. r \in 0..(e - 1 - Max(T))
    BY <2>1, ModBounded
  <2> QED BY <2>1, <2>2
<1>7. SubSeq(t, e - r, e - 1) = SubSeq(s, e - r, e - 1)
  <2>1. PICK k \in 0..(e - 1) : k = r
    BY <1>6
  <2>2. \A i \in 1..k : t[e - k + i - 1] = s[e - k + i - 1]
    OBVIOUS
  <2>3. /\ \A i \in (e - k)..(e - 1) : s[i] \in Bytes /\ t[i] \in Bytes
        /\ e - k \in Int /\ e - 1 \in Int
        /\ (e - 1) - (e - k) + 1 = k
    OBVIOUS
  <2>4. SubSeq(t, e - k, e - 1) = SubSeq(s, e - k, e - 1)
    <3> DEFINE a == SubSeq(s, e - k, e - 1)
               c == SubSeq(t, e - k, e - 1)
    <3>1. /\ a \in Seq(Bytes) /\ Len(a) = k
          /\ \A i \in 1..k : a[i] = s[e - k + i - 1]
      BY <2>3, SubSeqProperties
    <3>2. /\ c \in Seq(Bytes) /\ Len(c) = k
          /\ \A i \in 1..k : c[i] = t[e - k + i - 1]
      BY <2>3, SubSeqProperties
    <3>3. \A i \in 1..Len(a) : a[i] = c[i]
      BY <2>2, <3>1, <3>2
    <3> HIDE DEF a, c
    <3> QED BY <3>1, <3>2, <3>3, SeqEqual
  <2> HIDE DEF r
  <2> QED BY <2>1, <2>4
<1> QED BY <1>4, <1>5, <1>7
-----------------------------------------------------------------------------
(* TYPES AND ROOM                                                          *)

(* A segment has bytes, and not more than there is room for.               *)
LEMMA ChunkIs ==
  ASSUME pos \in Nat, pos < Room, NEW chunk \in Chunks
  PROVE  /\ chunk \in Seq(Bytes) /\ Len(chunk) > 0 /\ Len(chunk) \in Nat
         /\ pos + Len(chunk) <= Room
<1>1. PICK n \in 1..(Room - pos) : chunk \in [1..n -> Bytes]
  BY DEF Chunks, Bytes
<1>2. n \in Nat /\ n > 0 /\ pos + n <= Room
  BY <1>1, BufferAssumption
<1>3. chunk \in Seq(Bytes) /\ Len(chunk) = n
  BY <1>1, <1>2
<1> QED BY <1>2, <1>3

(* Where a command ends and what comes after it begins.                    *)
LEMMA CommandFound ==
  ASSUME BufferTypeOK, RoomInv, ScanCommand
  PROVE  \E end \in (pos + 1)..(pos + res) :
         \E next \in (end + 1)..(pos + res + 1) :
           /\ \A i \in (pos + 1)..(end - 1) : buf[i] # Eol
           /\ \A i \in end..(next - 1) : buf[i] = Eol
           /\ commands' = Append(commands, SubSeq(buf, 1, end - 1))
           /\ buf' = SubSeq(buf, next, pos + res)
           /\ res' = pos + res + 1 - next
<1> DEFINE last == pos + res
           end == Min(Ends)
           T == {i \in (end + 1)..(last + 1) : i > last \/ buf[i] # Eol}
           next == Min(T)
<1>1. /\ pos \in Nat /\ res \in Nat /\ last \in Nat /\ slot = "scan"
      /\ last = Len(buf)
  BY DEF BufferTypeOK, RoomInv, ScanCommand
<1>2. Ends \in SUBSET Nat /\ Ends # {}
  <2>1. \A i \in Ends : i \in Nat
    BY <1>1 DEF Ends
  <2> QED BY <2>1 DEF ScanCommand
<1>3. end \in Ends /\ \A y \in Ends : end <= y
  BY <1>2, MinIsLeast
<1>4. end \in (pos + 1)..last /\ buf[end] = Eol
  BY <1>3 DEF Ends
<1>5. \A i \in (pos + 1)..(end - 1) : buf[i] # Eol
  <2> SUFFICES ASSUME NEW i \in (pos + 1)..(end - 1), buf[i] = Eol
               PROVE  FALSE
    OBVIOUS
  <2> HIDE DEF end
  <2>1. i \in (pos + 1)..(pos + res) /\ i < end
    BY <1>1, <1>4
  <2>2. i \in Ends
    BY <2>1 DEF Ends
  <2> QED BY <1>1, <1>3, <1>4, <2>1, <2>2
<1>6. /\ commands' = Append(commands, SubSeq(buf, 1, end - 1))
      /\ buf' = SubSeq(buf, next, last)
      /\ res' = last + 1 - next
  BY DEF ScanCommand
<1> HIDE DEF end
<1>7. T \in SUBSET Nat /\ T # {}
  <2>1. last + 1 \in T
    BY <1>1, <1>4
  <2>2. \A i \in T : i \in Nat
    BY <1>1, <1>4
  <2> HIDE DEF T
  <2> QED BY <2>1, <2>2
<1>8. next \in T /\ \A y \in T : next <= y
  <2> HIDE DEF T
  <2> QED BY <1>7, MinIsLeast
<1> HIDE DEF next
<1>9. next \in (end + 1)..(last + 1)
  BY <1>8
<1>10. \A i \in (end + 1)..(next - 1) : buf[i] = Eol
  <2> SUFFICES ASSUME NEW i \in (end + 1)..(next - 1), buf[i] # Eol
               PROVE  FALSE
    OBVIOUS
  <2>1. i \in T /\ i < next
    BY <1>1, <1>4, <1>9
  <2> HIDE DEF T
  <2> QED BY <1>7, <1>8, <1>9, <2>1
<1>11. \A i \in end..(next - 1) : buf[i] = Eol
  BY <1>1, <1>4, <1>9, <1>10
<1> QED BY <1>4, <1>5, <1>6, <1>9, <1>11

LEMMA RoomStep ==
  BufferTypeOK /\ RoomInv /\ [BufferNext]_bufferVars
    => BufferTypeOK' /\ RoomInv'
<1> SUFFICES ASSUME BufferTypeOK, RoomInv, [BufferNext]_bufferVars
             PROVE  BufferTypeOK' /\ RoomInv'
  OBVIOUS
<1>1. CASE BufferAccept
  BY <1>1, BufferAssumption DEF BufferAccept, BufferTypeOK, RoomInv
<1>2. CASE BufferRecv
  <2>1. pos \in Nat /\ pos < Room /\ pos <= Len(buf) /\ buf \in Seq(Bytes)
    BY <1>2 DEF BufferRecv, BufferTypeOK, RoomInv
  <2>2. PICK chunk \in Chunks : /\ buf' = SubSeq(buf, 1, pos) \o chunk
                                /\ res' = Len(chunk)
                                /\ received' = received \o chunk
    BY <1>2 DEF BufferRecv
  <2>3. /\ chunk \in Seq(Bytes) /\ Len(chunk) > 0 /\ Len(chunk) \in Nat
        /\ pos + Len(chunk) <= Room
    BY <2>1, ChunkIs
  <2>4. SubSeq(buf, 1, pos) \in Seq(Bytes) /\ Len(SubSeq(buf, 1, pos)) = pos
    BY <2>1
  <2>5. buf' \in Seq(Bytes) /\ Len(buf') = pos + Len(chunk)
    BY <2>2, <2>3, <2>4
  <2>6. received' \in Seq(Bytes)
    BY <2>2, <2>3 DEF BufferTypeOK
  <2> QED BY <1>2, <2>2, <2>3, <2>5, <2>6 DEF BufferRecv, BufferTypeOK, RoomInv
<1>3. CASE BufferClose
  BY <1>3 DEF BufferClose, BufferTypeOK, RoomInv
<1>4. CASE ScanIncomplete
  BY <1>4, BufferAssumption DEF ScanIncomplete, BufferTypeOK, RoomInv
<1>5. CASE ScanCommand
  <2>1. PICK end \in (pos + 1)..(pos + res) :
        \E next \in (end + 1)..(pos + res + 1) :
           /\ commands' = Append(commands, SubSeq(buf, 1, end - 1))
           /\ buf' = SubSeq(buf, next, pos + res)
           /\ res' = pos + res + 1 - next
    BY <1>5, CommandFound
  <2>2. PICK next \in (end + 1)..(pos + res + 1) :
           /\ commands' = Append(commands, SubSeq(buf, 1, end - 1))
           /\ buf' = SubSeq(buf, next, pos + res)
           /\ res' = pos + res + 1 - next
    BY <2>1
  <2>3. /\ pos \in Nat /\ res \in Nat /\ pos + res = Len(buf)
        /\ buf \in Seq(Bytes) /\ Len(buf) <= Room /\ slot = "scan"
    BY <1>5 DEF ScanCommand, BufferTypeOK, RoomInv
  <2>4. SubSeq(buf, 1, end - 1) \in Seq(Bytes)
    BY <2>3
  <2>5. /\ buf' \in Seq(Bytes) /\ Len(buf') = pos + res + 1 - next
        /\ res' \in Nat /\ Len(buf') <= Room
    BY <2>2, <2>3, BufferAssumption
  <2>6. pos' = 0 /\ UNCHANGED <<slot, clients, received>>
    BY <1>5 DEF ScanCommand
  <2>7. commands' \in Seq(Seq(Bytes))
    BY <2>2, <2>4 DEF BufferTypeOK
  <2> QED BY <2>2, <2>3, <2>5, <2>6, <2>7 DEF BufferTypeOK, RoomInv
<1>6. CASE UNCHANGED bufferVars
  BY <1>6 DEF bufferVars, BufferTypeOK, RoomInv
<1> QED BY <1>1, <1>2, <1>3, <1>4, <1>5, <1>6 DEF BufferNext
-----------------------------------------------------------------------------
(* THE FRAME                                                               *)

(* What is said of the first n bytes does not change when more come.       *)
LEMMA FrameStays ==
  ASSUME NEW s \in Seq(Bytes), NEW t \in Seq(Bytes), NEW n \in Nat,
         n <= Len(s), n <= Len(t), \A i \in 1..n : t[i] = s[i]
  PROVE  /\ EndedBy(t, n) = EndedBy(s, n)
         /\ \A e \in EndedBy(s, n) : RestTo(t, e) = RestTo(s, e)
         /\ CutAt(s, n) => CutAt(t, n)
<1>1. \A e \in 1..n : RestTo(t, e) = RestTo(s, e)
  <2> SUFFICES ASSUME NEW e \in 1..n PROVE RestTo(t, e) = RestTo(s, e)
    OBVIOUS
  <2>1. \A i \in 1..(e - 1) : t[i] = s[i]
    OBVIOUS
  <2>2. e \in 1..Len(s) /\ e <= Len(t)
    OBVIOUS
  <2> QED BY <2>1, <2>2, RestStays
<1>2. EndedBy(t, n) = {e \in 1..n : t[e] = Eol /\ RestTo(t, e) # <<>>}
  BY DEF EndedBy, Ended
<1>3. EndedBy(s, n) = {e \in 1..n : s[e] = Eol /\ RestTo(s, e) # <<>>}
  BY DEF EndedBy, Ended
<1>4. EndedBy(t, n) = EndedBy(s, n)
  BY <1>1, <1>2, <1>3
<1>5. CutAt(s, n) => CutAt(t, n)
  <2> SUFFICES ASSUME CutAt(s, n) PROVE CutAt(t, n)
    OBVIOUS
  <2>1. PICK b \in 0..n, d \in 0..n :
          /\ n = b + d * Room
          /\ b = 0 \/ s[b] = Eol
          /\ \A i \in (b + 1)..n : s[i] # Eol
    BY DEF CutAt
  <2>2. b = 0 \/ t[b] = Eol
    BY <2>1
  <2>3. \A i \in (b + 1)..n : t[i] # Eol
    BY <2>1
  <2> QED BY <2>1, <2>2, <2>3 DEF CutAt
<1> QED BY <1>1, <1>3, <1>4, <1>5

LEMMA AcceptFramed ==
  ASSUME BufferTypeOK, RoomInv, BufferAccept
  PROVE  FrameInv'
<1>1. received' = <<>> /\ commands' = <<>> /\ pos' = 0 /\ res' = 0
  BY DEF BufferAccept, RoomInv
<1>2. Gone' = 0
  BY <1>1 DEF Gone
<1>3. EndedBy(received', 0) = {} /\ Told(commands') = {}
  <2>1. Len(<<>>) = 0 /\ DOMAIN <<>> = {}
    OBVIOUS
  <2> QED BY <1>1, <2>1 DEF EndedBy, Ended, Told
<1>4. CutAt(received', 0)
  <2>1. 0 = 0 + 0 * Room
    BY BufferAssumption
  <2> QED BY <2>1 DEF CutAt
<1>5. \E f \in [EndedBy(received', 0) -> Told(commands')] :
        Matches(f, EndedBy(received', 0), received', commands')
  <2> DEFINE f == [e \in {} |-> 0]
  <2>1. f \in [{} -> {}]
    OBVIOUS
  <2>2. Matches(f, {}, received', commands')
    BY <1>3, <2>1 DEF Matches
  <2> QED BY <1>3, <2>1, <2>2
<1>6. (\A i \in 1..(pos' + res') : buf'[i] = received'[Gone' + i])
      /\ \A i \in 1..pos' : buf'[i] # Eol
  BY <1>1
<1> QED BY <1>2, <1>4, <1>5, <1>6 DEF FrameInv

LEMMA RecvFramed ==
  ASSUME IInv, BufferRecv
  PROVE  FrameInv'
<1>1. /\ pos \in Nat /\ pos < Room /\ pos <= Len(buf) /\ res = 0
      /\ buf \in Seq(Bytes) /\ received \in Seq(Bytes) /\ slot = "recv"
      /\ UNCHANGED <<pos, commands>> /\ Len(received) \in Nat
  BY DEF BufferRecv, IInv, BufferTypeOK, RoomInv
<1>2. PICK chunk \in Chunks : /\ buf' = SubSeq(buf, 1, pos) \o chunk
                              /\ res' = Len(chunk)
                              /\ received' = received \o chunk
  BY DEF BufferRecv
<1>3. chunk \in Seq(Bytes) /\ Len(chunk) \in Nat
  BY <1>1, ChunkIs
<1> DEFINE n == Len(received) - pos
<1>4. /\ Gone = n /\ n \in Nat
      /\ \A i \in 1..pos : buf[i] = received[n + i] /\ buf[i] # Eol
      /\ CutAt(received, n)
  BY <1>1 DEF IInv, FrameInv, Gone
<1>5. PICK f \in [EndedBy(received, n) -> Told(commands)] :
        Matches(f, EndedBy(received, n), received, commands)
  BY <1>1, <1>4 DEF IInv, FrameInv
<1>6. /\ received' \in Seq(Bytes)
      /\ Len(received') = Len(received) + Len(chunk)
      /\ \A i \in 1..Len(received) : received'[i] = received[i]
      /\ \A i \in 1..Len(chunk) : received'[Len(received) + i] = chunk[i]
  BY <1>1, <1>2, <1>3
<1>7. /\ \A i \in 1..pos : buf'[i] = buf[i]
      /\ \A i \in 1..Len(chunk) : buf'[pos + i] = chunk[i]
  <2> DEFINE h == SubSeq(buf, 1, pos)
  <2>1. h \in Seq(Bytes) /\ Len(h) = pos /\ \A i \in 1..pos : h[i] = buf[i]
    BY <1>1
  <2> HIDE DEF h
  <2>2. /\ \A i \in 1..pos : (h \o chunk)[i] = h[i]
        /\ \A i \in 1..Len(chunk) : (h \o chunk)[pos + i] = chunk[i]
    BY <1>1, <1>3, <2>1
  <2>3. buf' = h \o chunk
    BY <1>2 DEF h
  <2> QED BY <2>1, <2>2, <2>3
<1>8. Gone' = n
  BY <1>1, <1>2, <1>3, <1>6 DEF Gone
<1>9. \A i \in 1..(pos' + res') : buf'[i] = received'[n + i]
  <2> SUFFICES ASSUME NEW i \in 1..(pos + Len(chunk))
               PROVE  buf'[i] = received'[n + i]
    BY <1>1, <1>2
  <2>1. CASE i <= pos
    <3>1. i \in 1..pos /\ n + i \in 1..Len(received)
      BY <1>1, <1>4, <2>1
    <3> QED BY <1>4, <1>6, <1>7, <3>1
  <2>2. CASE i > pos
    <3>1. i - pos \in 1..Len(chunk) /\ pos + (i - pos) = i
          /\ Len(received) + (i - pos) = n + i
      BY <1>1, <1>3, <1>4, <2>2
    <3>2. buf'[pos + (i - pos)] = chunk[i - pos]
      BY <1>7, <3>1
    <3>3. received'[Len(received) + (i - pos)] = chunk[i - pos]
      BY <1>6, <3>1
    <3> QED BY <3>1, <3>2, <3>3
  <2> QED BY <1>1, <1>3, <2>1, <2>2
<1>10. n <= Len(received) /\ n <= Len(received')
  BY <1>1, <1>3, <1>6
<1> HIDE DEF n
<1>11. /\ EndedBy(received', n) = EndedBy(received, n)
       /\ \A e \in EndedBy(received, n) :
            RestTo(received', e) = RestTo(received, e)
       /\ CutAt(received', n)
  <2>1. \A i \in 1..n : received'[i] = received[i]
    BY <1>1, <1>4, <1>6, <1>10
  <2> QED BY <1>1, <1>4, <1>6, <1>10, <2>1, FrameStays
<1>12. Matches(f, EndedBy(received', n), received', commands')
  BY <1>1, <1>5, <1>11 DEF Matches
<1>13. f \in [EndedBy(received', n) -> Told(commands')]
  BY <1>12 DEF Matches
<1>14. \A i \in 1..pos' : buf'[i] # Eol
  BY <1>1, <1>4, <1>7
<1> QED BY <1>4, <1>8, <1>9, <1>11, <1>12, <1>13, <1>14 DEF FrameInv

LEMMA IncompleteFramed ==
  ASSUME IInv, ScanIncomplete
  PROVE  FrameInv'
<1> DEFINE n == Gone
           w == pos + res
<1>1. /\ pos \in Nat /\ res \in Nat /\ w \in Nat /\ w <= Room
      /\ received \in Seq(Bytes) /\ slot = "scan" /\ res' = 0
      /\ pos' = IF w >= Room THEN 0 ELSE w
      /\ UNCHANGED <<buf, received, commands>>
  BY DEF ScanIncomplete, IInv, BufferTypeOK, RoomInv
<1>2. /\ n \in Nat /\ n = Len(received) - w /\ CutAt(received, n)
      /\ \A i \in 1..w : buf[i] = received[n + i]
      /\ \A i \in 1..pos : buf[i] # Eol
  BY <1>1 DEF IInv, FrameInv, Gone
<1>3. PICK f \in [EndedBy(received, n) -> Told(commands)] :
        Matches(f, EndedBy(received, n), received, commands)
  BY <1>1 DEF IInv, FrameInv
<1>4. \A i \in 1..w : buf[i] # Eol
  <2>1. \A i \in (pos + 1)..w : buf[i] # Eol
    BY DEF ScanIncomplete, Ends
  <2> QED BY <1>1, <1>2, <2>1
<1> HIDE DEF n
<1>5. CASE w < Room
  <2>1. pos' = w /\ Gone' = n
    <3>1. pos' = w /\ pos' + res' = w
      BY <1>1, <1>5, BufferAssumption
    <3> QED BY <1>1, <1>2, <3>1 DEF Gone
  <2>2. \A i \in 1..(pos' + res') : buf'[i] = received'[n + i]
    BY <1>1, <1>2, <2>1
  <2>3. \A i \in 1..pos' : buf'[i] # Eol
    BY <1>1, <1>4, <2>1
  <2> QED BY <1>1, <1>2, <1>3, <2>1, <2>2, <2>3 DEF FrameInv
<1>6. CASE w >= Room
  <2> DEFINE m == n + Room
  <2>1. w = Room /\ pos' = 0 /\ Gone' = m /\ m \in Nat /\ m = Len(received)
    <3>1. w = Room /\ pos' = 0 /\ pos' + res' = 0
      BY <1>1, <1>6, BufferAssumption
    <3>2. m \in Nat /\ m = Len(received)
      BY <1>1, <1>2, <3>1, BufferAssumption
    <3> QED BY <1>1, <3>1, <3>2 DEF Gone
  <2>2. \A i \in (n + 1)..m : received[i] # Eol
    <3> SUFFICES ASSUME NEW i \in (n + 1)..m PROVE received[i] # Eol
      OBVIOUS
    <3>1. i - n \in 1..w /\ n + (i - n) = i
      BY <1>1, <1>2, <2>1, BufferAssumption
    <3> QED BY <1>2, <1>4, <3>1
  <2>3. CutAt(received, m)
    <3>1. PICK b \in 0..n, d \in 0..n :
            /\ n = b + d * Room
            /\ b = 0 \/ received[b] = Eol
            /\ \A i \in (b + 1)..n : received[i] # Eol
      BY <1>2 DEF CutAt
    <3>2. b \in 0..m /\ d + 1 \in 0..m
      BY <1>2, BufferAssumption
    <3>3. m = b + (d + 1) * Room
      <4>1. PICK x \in Int : x = d * Room
        BY <1>2, BufferAssumption
      <4>2. (d + 1) * Room = x + Room
        BY <1>2, <4>1, BufferAssumption
      <4>3. n = b + x
        BY <3>1, <4>1
      <4>4. m = b + (x + Room)
        BY <1>2, <4>3, BufferAssumption
      <4> QED BY <4>2, <4>4
    <3>4. \A i \in (b + 1)..m : received[i] # Eol
      BY <1>2, <2>1, <2>2, <3>1
    <3> HIDE DEF m
    <3> QED BY <3>1, <3>2, <3>3, <3>4 DEF CutAt
  <2>4. EndedBy(received, m) = EndedBy(received, n)
    BY <1>2, <2>1, <2>2 DEF EndedBy, Ended
  <2> HIDE DEF m
  <2>5. /\ \A i \in 1..(pos' + res') : buf'[i] = received'[m + i]
        /\ \A i \in 1..pos' : buf'[i] # Eol
    BY <1>1, <2>1
  <2> QED BY <1>1, <1>3, <2>1, <2>3, <2>4, <2>5 DEF FrameInv
<1> QED BY <1>1, <1>5, <1>6, BufferAssumption

(* A command is given for the first line that ends in the buffer; the ends *)
(* of line right after it end nothing.                                     *)
LEMMA CommandFramed ==
  ASSUME IInv, ScanCommand
  PROVE  FrameInv'
<1> DEFINE n == Gone
           last == pos + res
           s == received
<1>1. /\ pos \in Nat /\ res \in Nat /\ last \in Nat /\ last <= Room
      /\ buf \in Seq(Bytes) /\ s \in Seq(Bytes) /\ Len(s) \in Nat
      /\ commands \in Seq(Seq(Bytes)) /\ slot = "scan" /\ last = Len(buf)
      /\ pos' = 0 /\ UNCHANGED <<slot, received>>
  <2>1. slot = "scan" /\ pos' = 0 /\ UNCHANGED <<slot, received>>
    BY DEF ScanCommand
  <2>2. /\ pos \in Nat /\ res \in Nat /\ buf \in Seq(Bytes)
        /\ s \in Seq(Bytes) /\ commands \in Seq(Seq(Bytes))
    BY DEF IInv, BufferTypeOK
  <2>3. last = Len(buf) /\ last <= Room
    BY <2>1 DEF IInv, RoomInv
  <2>4. last \in Nat /\ Len(s) \in Nat
    BY <2>2
  <2> QED BY <2>1, <2>2, <2>3, <2>4
<1>2. /\ n \in Nat /\ n = Len(s) - last /\ CutAt(s, n)
      /\ \A i \in 1..last : buf[i] = s[n + i]
      /\ \A i \in 1..pos : buf[i] # Eol
  BY <1>1 DEF IInv, FrameInv, Gone
<1>3. PICK f \in [EndedBy(s, n) -> Told(commands)] :
        Matches(f, EndedBy(s, n), s, commands)
  BY <1>1 DEF IInv, FrameInv
<1>4. PICK end \in (pos + 1)..last :
      \E next \in (end + 1)..(last + 1) :
        /\ \A i \in (pos + 1)..(end - 1) : buf[i] # Eol
        /\ \A i \in end..(next - 1) : buf[i] = Eol
        /\ commands' = Append(commands, SubSeq(buf, 1, end - 1))
        /\ buf' = SubSeq(buf, next, last)
        /\ res' = last + 1 - next
  BY CommandFound DEF IInv
<1>5. PICK next \in (end + 1)..(last + 1) :
        /\ \A i \in (pos + 1)..(end - 1) : buf[i] # Eol
        /\ \A i \in end..(next - 1) : buf[i] = Eol
        /\ commands' = Append(commands, SubSeq(buf, 1, end - 1))
        /\ buf' = SubSeq(buf, next, last)
        /\ res' = last + 1 - next
  BY <1>4
<1> DEFINE m == n + next - 1
           e == n + end
           line == SubSeq(buf, 1, end - 1)
<1> HIDE DEF n, last, s
<1>6. /\ end \in Nat /\ next \in Nat /\ 0 < end /\ end < next
      /\ next <= last + 1 /\ end <= last
  BY <1>1
<1>7. /\ m \in Nat /\ e \in Nat /\ n < e /\ e <= m /\ m <= Len(s)
      /\ m = Len(s) - (last + 1 - next)
  BY <1>1, <1>2, <1>6
<1>8. \A i \in 1..(end - 1) : buf[i] # Eol
  BY <1>1, <1>2, <1>5, <1>6
(* In what has been received.                                              *)
<1>9. \A i \in (n + 1)..(e - 1) : s[i] # Eol
  <2> SUFFICES ASSUME NEW i \in (n + 1)..(e - 1) PROVE s[i] # Eol
    OBVIOUS
  <2>1. i - n \in 1..(end - 1) /\ n + (i - n) = i /\ i - n \in 1..last
    BY <1>1, <1>2, <1>6
  <2> QED BY <1>2, <1>8, <2>1
<1>10. \A i \in e..m : s[i] = Eol
  <2> SUFFICES ASSUME NEW i \in e..m PROVE s[i] = Eol
    OBVIOUS
  <2>1. i - n \in end..(next - 1) /\ n + (i - n) = i /\ i - n \in 1..last
    BY <1>1, <1>2, <1>6
  <2> QED BY <1>2, <1>5, <2>1
<1>11. RestTo(s, e) = line
  <2>1. PICK b \in 0..n, d \in 0..n :
          /\ n = b + d * Room
          /\ b = 0 \/ s[b] = Eol
          /\ \A i \in (b + 1)..n : s[i] # Eol
    BY <1>2 DEF CutAt
  <2>2. \A i \in (b + 1)..(e - 1) : s[i] # Eol
    <3>1. \A i \in (b + 1)..(e - 1) : i \in (b + 1)..n \/ i \in (n + 1)..(e - 1)
      BY <1>2, <1>7
    <3> QED BY <1>9, <2>1, <3>1
  <2>3. b \in 0..(e - 1) /\ e \in 1..Len(s) /\ d \in Nat
    BY <1>1, <1>2, <1>7
  <2>4. end - 1 \in 0..(Room - 1)
    BY <1>1, <1>6, BufferAssumption
  <2>5. e - 1 - b = d * Room + (end - 1)
    <3>1. PICK x \in Int : x = d * Room
      BY <1>2, BufferAssumption
    <3>2. n = b + x
      BY <2>1, <3>1
    <3>3. e - 1 - b = x + (end - 1)
      BY <1>2, <1>6, <3>2
    <3> QED BY <3>1, <3>3
  <2>6. RestTo(s, e) = SubSeq(s, e - (end - 1), e - 1)
    <3> HIDE DEF e
    <3>1. b = 0 \/ s[b] = Eol
      BY <2>1
    <3>2. RestTo(s, e) = SubSeq(s, e - ((e - 1 - b) % Room), e - 1)
      BY <1>1, <2>2, <2>3, <3>1, RestIs
    <3>3. (e - 1 - b) % Room = end - 1
      BY <2>3, <2>4, <2>5, ModIs
    <3> QED BY <3>2, <3>3
  <2>7. e - (end - 1) = n + 1 /\ e - 1 = n + (end - 1)
    BY <1>2, <1>6
  <2>8. SubSeq(s, n + 1, n + (end - 1)) = line
    <3>1. \A i \in 1..(end - 1) : s[n + i] = buf[i]
      BY <1>1, <1>2, <1>6
    <3> QED BY <1>1, <1>2, <1>6, <3>1
  <2> QED BY <2>6, <2>7, <2>8
<1>12. \A i \in (e + 1)..m : RestTo(s, i) = <<>>
  <2> SUFFICES ASSUME NEW i \in (e + 1)..m PROVE RestTo(s, i) = <<>>
    OBVIOUS
  <2>1. i \in 1..Len(s) /\ i - 1 \in e..m /\ i - 1 \in 0..(i - 1)
    BY <1>1, <1>7
  <2>2. s[i - 1] = Eol
    BY <1>10, <2>1
  <2>3. i - 1 - (i - 1) = 0 * Room + 0 /\ 0 \in 0..(Room - 1)
    BY <2>1, BufferAssumption
  <2>4. RestTo(s, i) = SubSeq(s, i - 0, i - 1)
    <3>1. \A j \in ((i - 1) + 1)..(i - 1) : s[j] # Eol
      BY <2>1
    <3>2. RestTo(s, i) =
            SubSeq(s, i - ((i - 1 - (i - 1)) % Room), i - 1)
      BY <1>1, <2>1, <2>2, <3>1, RestIs
    <3>3. (i - 1 - (i - 1)) % Room = 0
      BY <2>3, ModIs
    <3> QED BY <3>2, <3>3
  <2> QED BY <2>1, <2>4, SubSeqEmpty
<1>13. line \in Seq(Bytes) /\ Len(line) = end - 1
  BY <1>1, <1>6
(* What is gone after the command, and what is left.                       *)
<1>14. Gone' = m
  BY <1>1, <1>2, <1>5, <1>6, <1>7 DEF Gone, s
<1>15. \A i \in 1..(pos' + res') : buf'[i] = received'[m + i]
  <2> SUFFICES ASSUME NEW i \in 1..(last + 1 - next)
               PROVE  buf'[i] = s[m + i]
    BY <1>1, <1>5, <1>6 DEF s
  <2>1. buf'[i] = buf[next + i - 1]
    BY <1>1, <1>5, <1>6
  <2>2. next + i - 1 \in 1..last /\ n + (next + i - 1) = m + i
    BY <1>1, <1>2, <1>6
  <2> QED BY <1>2, <2>1, <2>2
<1>16. CutAt(s, m)
  <2>1. m \in 0..m /\ 0 \in 0..m /\ m = m + 0 * Room
    BY <1>7, BufferAssumption
  <2>2. s[m] = Eol /\ \A i \in (m + 1)..m : s[i] # Eol
    BY <1>7, <1>10
  <2> HIDE DEF m
  <2> QED BY <2>1, <2>2 DEF CutAt
(* The commands.                                                           *)
<1>17. EndedBy(s, m) = EndedBy(s, n) \cup (IF line = <<>> THEN {} ELSE {e})
  <2>1. \A i \in 1..m : \/ i <= n \/ i \in (n + 1)..(e - 1)
                        \/ i = e \/ i \in (e + 1)..m
    BY <1>2, <1>7
  <2>2. s[e] = Eol
    BY <1>7, <1>10
  <2>3. e \in 1..Len(s)
    BY <1>1, <1>2, <1>7
  <2> HIDE DEF line, e, m
  <2>4. \A i \in EndedBy(s, m) : i \in EndedBy(s, n) \/ (i = e /\ line # <<>>)
    <3> SUFFICES ASSUME NEW i \in EndedBy(s, m)
                 PROVE  i \in EndedBy(s, n) \/ (i = e /\ line # <<>>)
      OBVIOUS
    <3>1. i \in 1..m /\ i \in Ended(s) /\ s[i] = Eol /\ RestTo(s, i) # <<>>
      BY <1>1, <1>7 DEF EndedBy, Ended
    <3>2. CASE i <= n
      BY <3>1, <3>2 DEF EndedBy
    <3>3. i \notin (n + 1)..(e - 1) /\ i \notin (e + 1)..m
      BY <1>9, <1>12, <3>1
    <3>4. i = e => line # <<>>
      BY <1>11, <3>1
    <3> QED BY <2>1, <3>1, <3>2, <3>3, <3>4
  <2>5. \A i \in EndedBy(s, n) : i \in EndedBy(s, m)
    BY <1>1, <1>2, <1>7 DEF EndedBy, Ended
  <2>6. line # <<>> => e \in EndedBy(s, m)
    BY <1>1, <1>7, <1>11, <2>2, <2>3 DEF EndedBy, Ended
  <2> QED BY <2>4, <2>5, <2>6
<1> DEFINE c == Len(commands) + 1
<1>18. /\ Len(commands) \in Nat /\ DOMAIN commands = 1..(c - 1)
       /\ DOMAIN commands' = 1..c /\ commands'[c] = line
       /\ \A i \in 1..(c - 1) : commands'[i] = commands[i]
  <2> HIDE DEF line
  <2>1. commands' = Append(commands, line)
    BY <1>5 DEF line
  <2> QED BY <1>1, <1>13, <2>1
<1>19. Told(commands') = Told(commands) \cup (IF line = <<>> THEN {} ELSE {c})
  <2> HIDE DEF line
  <2> QED BY <1>18 DEF Told
<1>20. \A i \in EndedBy(s, n) : i \in Nat /\ i < e
  BY <1>1, <1>2, <1>7 DEF EndedBy, Ended
<1>21. \A i \in Told(commands) : i \in 1..(c - 1)
  BY <1>18 DEF Told
<1> HIDE DEF line, e, m, c
<1>22. \E g \in [EndedBy(s, m) -> Told(commands')] :
         Matches(g, EndedBy(s, m), s, commands')
  <2>1. CASE line = <<>>
    <3>1. /\ EndedBy(s, m) = EndedBy(s, n) /\ Told(commands') = Told(commands)
      BY <1>17, <1>19, <2>1
    <3>2. \A i \in EndedBy(s, n) : commands'[f[i]] = commands[f[i]]
      BY <1>3, <1>18, <1>21
    <3>3. Matches(f, EndedBy(s, m), s, commands')
      BY <1>3, <3>1, <3>2 DEF Matches
    <3> QED BY <3>1, <3>3
  <2>2. CASE line # <<>>
    <3> DEFINE S == EndedBy(s, n)
               g == [i \in S \cup {e} |-> IF i = e THEN c ELSE f[i]]
    <3>1. /\ EndedBy(s, m) = S \cup {e}
          /\ Told(commands') = Told(commands) \cup {c}
      BY <1>17, <1>19, <2>2
    <3>2. c \in Nat /\ e \in Nat
      BY <1>7, <1>18 DEF c
    <3>3. g[e] = c /\ \A i \in S : g[i] = f[i] /\ f[i] \in Told(commands)
      BY <1>3, <1>7, <1>20, <3>2
    <3>4. g \in [S \cup {e} -> Told(commands) \cup {c}]
      BY <3>3
    <3>5. \A i \in Told(commands) \cup {c} : \E j \in S \cup {e} : g[j] = i
      BY <1>3, <3>3 DEF Matches
    <3>6. \A i, j \in S \cup {e} : i < j => g[i] < g[j]
      <4> SUFFICES ASSUME NEW i \in S \cup {e}, NEW j \in S \cup {e}, i < j
                   PROVE  g[i] < g[j]
        OBVIOUS
      <4>1. i \in S
        BY <1>20, <3>2
      <4>2. CASE j = e
        <5>1. f[i] \in 1..(c - 1)
          BY <1>21, <3>3, <4>1
        <5> QED BY <3>2, <3>3, <4>1, <4>2, <5>1
      <4>3. CASE j \in S
        BY <1>3, <3>3, <4>1, <4>3 DEF Matches
      <4> QED BY <4>2, <4>3
    <3>7. \A i \in S \cup {e} : commands'[g[i]] = RestTo(s, i)
      <4>1. \A i \in S : commands'[f[i]] = commands[f[i]]
        BY <1>18, <1>21, <3>3
      <4>2. \A i \in S : commands[f[i]] = RestTo(s, i)
        BY <1>3 DEF Matches
      <4> QED BY <1>11, <1>18, <3>3, <4>1, <4>2
    <3> HIDE DEF g, S
    <3>8. Matches(g, EndedBy(s, m), s, commands')
      BY <3>1, <3>4, <3>5, <3>6, <3>7 DEF Matches
    <3> QED BY <3>1, <3>4, <3>8
  <2> QED BY <2>1, <2>2
<1>23. \A i \in 1..pos' : buf'[i] # Eol
  BY <1>1
<1>24. received' = s
  BY <1>1 DEF s
<1> QED BY <1>7, <1>14, <1>15, <1>16, <1>22, <1>23, <1>24 DEF FrameInv

LEMMA FrameStep == IInv /\ [BufferNext]_bufferVars => IInv'
<1> SUFFICES ASSUME IInv, [BufferNext]_bufferVars PROVE IInv'
  OBVIOUS
<1>1. BufferTypeOK /\ RoomInv /\ BufferTypeOK' /\ RoomInv'
  BY RoomStep DEF IInv
<1>2. CASE BufferAccept
  BY <1>1, <1>2, AcceptFramed DEF IInv
<1>3. CASE BufferRecv
  BY <1>1, <1>3, RecvFramed DEF IInv
<1>4. CASE BufferClose
  BY <1>1, <1>4 DEF IInv, BufferClose, FrameInv
<1>5. CASE ScanIncomplete
  BY <1>1, <1>5, IncompleteFramed DEF IInv
<1>6. CASE ScanCommand
  BY <1>1, <1>6, CommandFramed DEF IInv
<1>7. CASE UNCHANGED bufferVars
  <2>1. UNCHANGED <<buf, pos, res, slot, received, commands>>
    BY <1>7 DEF bufferVars
  <2>2. FrameInv' = FrameInv
    BY <2>1 DEF FrameInv, Gone
  <2> QED BY <1>1, <2>2 DEF IInv
<1> QED BY <1>2, <1>3, <1>4, <1>5, <1>6, <1>7 DEF BufferNext

LEMMA BufferStart == BufferInit => IInv
BY BufferAssumption DEF BufferInit, IInv, BufferTypeOK, RoomInv, FrameInv

LEMMA BufferInvariant == BufferSpec => []IInv
BY BufferStart, FrameStep, PTL DEF BufferSpec
-----------------------------------------------------------------------------
(* THEOREMS                                                                *)

(* recv() always has room for a byte, and the buffer never holds more than *)
(* it has room for (process_conn()).                                       *)
THEOREM RoomCorrect == BufferSpec => []RoomToReceive
<1>1. IInv => RoomToReceive
  BY DEF IInv, RoomInv, RoomToReceive
<1> QED BY <1>1, BufferInvariant, PTL

(* The commands of a client are the lines it has sent, in their order,     *)
(* whatever the segments they came in and whatever the size of the buffer; *)
(* of a longer line, what the dropping of full buffers leaves.             *)
THEOREM CommandsCorrect == BufferSpec => []CommandsAreLines
<1>1. IInv => CommandsAreLines
  <2> SUFFICES ASSUME IInv, slot = "recv" PROVE CommandsAreLines
    BY DEF CommandsAreLines
  <2> DEFINE n == Gone
             S == EndedBy(received, n)
  <2>1. /\ pos \in Nat /\ res = 0 /\ received \in Seq(Bytes)
        /\ n \in Nat /\ n = Len(received) - pos
        /\ \A i \in 1..pos : buf[i] # Eol
        /\ \A i \in 1..pos : buf[i] = received[n + i]
    BY DEF IInv, BufferTypeOK, RoomInv, FrameInv, Gone
  <2>2. PICK f \in [S -> Told(commands)] :
          Matches(f, S, received, commands)
    BY DEF IInv, FrameInv
  <2> HIDE DEF n
  <2>3. S = Ended(received)
    <3>1. \A e \in Ended(received) : e <= n
      <4> SUFFICES ASSUME NEW e \in 1..Len(received), e > n,
                          received[e] = Eol
                   PROVE  FALSE
        BY <2>1 DEF Ended
      <4>1. e - n \in 1..pos /\ n + (e - n) = e
        BY <2>1
      <4> QED BY <2>1, <4>1
    <3> QED BY <3>1 DEF EndedBy
  <2> HIDE DEF S
  <2> QED BY <2>2, <2>3 DEF CommandsAreLines, Matches
<1> QED BY <1>1, BufferInvariant, PTL
=============================================================================
