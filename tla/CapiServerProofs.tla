--------------------------- MODULE CapiServerProofs ---------------------------
(***************************************************************************)
(* Theorems about CapiServer for any number of slots, clients, commands    *)
(* and report threads.                                                     *)
(***************************************************************************)
EXTENDS CapiServer, TLAPS

-----------------------------------------------------------------------------
(* Type correctness. *)

(* What the descriptors and commands in hand refer to.                     *)
Serving == main.pc \in {"cmd", "run", "handler", "check"}

ServeInv ==
  /\ \A i \in main.fds \cap Slots : conn[i].s \in Clients
  /\ \A c \in Clients : taken[c] <= Len(asked[c]) /\ Len(asked[c]) <= MaxCmds
  /\ \A r \in Reports : rep[r].pc # "none" =>
       rep[r].of \in Clients /\ rep[r].cmd \in 1..MaxCmds
  /\ Serving => /\ Caller \in Clients
                /\ main.upto <= Len(asked[Caller])
  /\ main.pc = "cmd" => taken[Caller] < main.upto
  /\ main.pc \in {"run", "handler", "check"} =>
       taken[Caller] \in 1..main.upto

LEMMA Constants ==
  /\ Top \in Server
  /\ NoReport \in Report
  /\ 1 \in Slots
  /\ Listener \notin Slots
  /\ Top.pc = "top" /\ Top.fds = {}
  /\ NoReport.pc = "none"
BY ServerAssumption
   DEF Top, Server, NoReport, Report, Slots, Listener

LEMMA TypeInit == Init => TypeOK /\ ServeInv
<1> SUFFICES ASSUME Init PROVE TypeOK /\ ServeInv
  OBVIOUS
<1>1. /\ conn \in [Slots -> Conn]
      /\ rep \in [Reports -> Report]
      /\ main \in Server
  BY Constants DEF Init, Conn
<1>2. /\ asked \in [Clients -> Seq(Promise!Kinds)]
      /\ taken \in [Clients -> 0..MaxCmds]
      /\ inbox \in [Clients -> Seq(Promise!Line)]
      /\ \A c \in Clients : Len(asked[c]) = 0 /\ taken[c] = 0
  BY ServerAssumption DEF Init
<1>3. TypeOK
  BY <1>1, <1>2 DEF Init, TypeOK
<1>4. ServeInv
  BY <1>2, Constants, ServerAssumption DEF Init, ServeInv, Serving
<1> QED BY <1>3, <1>4

(* Where the server is when it moves without touching anything else.       *)
LEMMA MainMoves ==
  ASSUME TypeOK, ServeInv, NEW m \in Server, main' = m,
         m.fds \subseteq main.fds,
         m.pc \notin {"cmd", "run", "handler", "check"},
         UNCHANGED <<conn, client, queue, asked, taken, inbox, rep,
                     response_sent, stop_loop, crossed>>
  PROVE  TypeOK' /\ ServeInv'
<1>1. TypeOK'
  BY DEF TypeOK
<1>2. ServeInv'
  BY DEF ServeInv, Serving
<1> QED BY <1>1, <1>2

LEMMA ServerFields ==
  ASSUME NEW m \in Server, NEW i \in Slots, NEW n \in 0..MaxCmds,
         NEW F \in SUBSET (Slots \cup {Listener}),
         NEW p \in {"top", "select", "accept", "scan", "cmd", "run",
                    "handler", "check", "ended"}
  PROVE  /\ [m EXCEPT !.pc = p] \in Server
         /\ [m EXCEPT !.pc = p].pc = p
         /\ [m EXCEPT !.pc = p].fds = m.fds
         /\ [m EXCEPT !.pc = p].i = m.i
         /\ [m EXCEPT !.pc = p].upto = m.upto
         /\ [m EXCEPT !.pc = p, !.fds = F] \in Server
         /\ [m EXCEPT !.pc = p, !.fds = F].pc = p
         /\ [m EXCEPT !.pc = p, !.fds = F].fds = F
         /\ [m EXCEPT !.fds = F] \in Server
         /\ [m EXCEPT !.fds = F].pc = m.pc
         /\ [m EXCEPT !.fds = F].fds = F
         /\ m.fds \subseteq Slots \cup {Listener}
         /\ m.i \in Slots
<1> USE DEF Server
<1>1. [m EXCEPT !.pc = p] \in Server
  OBVIOUS
<1>2. [m EXCEPT !.pc = p, !.fds = F] \in Server
  OBVIOUS
<1>3. [m EXCEPT !.fds = F] \in Server
  OBVIOUS
<1>4. /\ [m EXCEPT !.pc = p].pc = p
      /\ [m EXCEPT !.pc = p].fds = m.fds
      /\ [m EXCEPT !.pc = p].i = m.i
      /\ [m EXCEPT !.pc = p].upto = m.upto
  OBVIOUS
<1>5. /\ [m EXCEPT !.pc = p, !.fds = F].pc = p
      /\ [m EXCEPT !.pc = p, !.fds = F].fds = F
  OBVIOUS
<1>6. /\ [m EXCEPT !.fds = F].pc = m.pc
      /\ [m EXCEPT !.fds = F].fds = F
  OBVIOUS
<1>7. m.fds \subseteq Slots \cup {Listener} /\ m.i \in Slots
  OBVIOUS
<1> QED BY <1>1, <1>2, <1>3, <1>4, <1>5, <1>6, <1>7

LEMMA TypeClient ==
  ASSUME TypeOK, ServeInv, NEW c \in Clients, ClientStep(c)
  PROVE  TypeOK' /\ ServeInv'
<1>1. CASE Connect(c) \/ Leave(c)
  <2>1. TypeOK'
    BY <1>1 DEF Connect, Leave, TypeOK
  <2>2. ServeInv'
    BY <1>1 DEF Connect, Leave, ServeInv, Serving, Caller
  <2> QED BY <2>1, <2>2
<1>2. ASSUME NEW k \in Promise!Kinds, Ask(c, k) PROVE TypeOK' /\ ServeInv'
  <2>0. asked[c] \in Seq(Promise!Kinds) /\ asked \in [Clients -> Seq(Promise!Kinds)]
    BY DEF TypeOK
  <2>1. /\ asked' = [asked EXCEPT ![c] = Append(asked[c], k)]
        /\ Append(asked[c], k) \in Seq(Promise!Kinds)
        /\ Len(Append(asked[c], k)) = Len(asked[c]) + 1
    BY <1>2, <2>0 DEF Ask
  <2>2. asked' \in [Clients -> Seq(Promise!Kinds)]
    BY <2>0, <2>1
  <2>3. TypeOK'
    BY <1>2, <2>2 DEF Ask, TypeOK
  <2>4. /\ Len(asked'[c]) = Len(asked[c]) + 1 /\ Len(asked[c]) < MaxCmds
        /\ \A d \in Clients : d # c => asked'[d] = asked[d]
    <3>1. PICK b : b = Append(asked[c], k)
      OBVIOUS
    <3>2. asked' = [asked EXCEPT ![c] = b]
      BY <2>1, <3>1
    <3>3. asked'[c] = b /\ \A d \in Clients : d # c => asked'[d] = asked[d]
      BY <2>0, <3>2
    <3>4. Len(b) = Len(asked[c]) + 1
      BY <2>1, <3>1
    <3>5. Len(asked[c]) < MaxCmds
      BY <1>2 DEF Ask
    <3> QED BY <3>3, <3>4, <3>5
  <2>5. \A d \in Clients : /\ Len(asked[d]) \in Nat
                           /\ Len(asked[d]) <= Len(asked'[d])
                           /\ Len(asked'[d]) <= MaxCmds
    <3>1. \A d \in Clients : Len(asked[d]) \in Nat /\ Len(asked[d]) <= MaxCmds
      BY <2>0 DEF ServeInv
    <3>2. MaxCmds \in Nat
      BY ServerAssumption
    <3>3. TAKE d \in Clients
    <3>4. CASE d = c
      BY <2>4, <3>1, <3>2, <3>4
    <3>5. CASE d # c
      BY <2>4, <3>1, <3>2, <3>5
    <3> QED BY <3>4, <3>5
  <2>6. \A d \in Clients : taken[d] \in Nat
    BY ServerAssumption DEF TypeOK
  <2>7. main.upto \in Nat
    BY ServerAssumption DEF TypeOK, Server
  <2>8. ServeInv'
    <3>1. UNCHANGED <<conn, main, rep, taken>>
      BY <1>2 DEF Ask
    <3>2. \A d \in Clients : taken'[d] <= Len(asked'[d])
      <4>1. \A d \in Clients : Len(asked'[d]) \in Nat
        BY <2>2
      <4> QED BY <2>5, <2>6, <3>1, <4>1 DEF ServeInv
    <3>3. Serving' => Caller' \in Clients /\ main'.upto <= Len(asked'[Caller'])
      <4>1. \A d \in Clients : Len(asked'[d]) \in Nat
        BY <2>2
      <4>2. Caller' = Caller /\ Serving' = Serving
        BY <3>1 DEF Caller, Serving
      <4> QED BY <2>5, <2>7, <3>1, <4>1, <4>2 DEF ServeInv
    <3> QED BY <2>5, <3>1, <3>2, <3>3 DEF ServeInv, Serving, Caller
  <2> QED BY <2>3, <2>8
<1> QED BY <1>1, <1>2 DEF ClientStep

LEMMA TypeLoop ==
  ASSUME TypeOK, ServeInv,
         LoopTop \/ Select \/ Accept \/ NoAccept \/ ScanDone \/ Term
  PROVE  TypeOK' /\ ServeInv'
<1>0. main \in Server /\ main.fds \subseteq Slots \cup {Listener}
      /\ conn \in [Slots -> Conn]
  BY DEF TypeOK, Server
<1>1. CASE LoopTop
  <2>1. /\ Watched \in SUBSET (Slots \cup {Listener})
        /\ \A i \in Watched \cap Slots : conn[i].s \in Clients
    <3>1. \A i \in Slots : conn[i].s \in Clients \cup {NoClient}
      BY <1>0 DEF Conn
    <3> QED BY <3>1, Constants DEF Watched
  <2>2. /\ main' \in Server
        /\ \A i \in main'.fds \cap Slots : conn[i].s \in Clients
        /\ main'.pc \in {"ended", "select"}
    <3>1. CASE stop_loop
      <4>1. main' = [Top EXCEPT !.pc = "ended"]
        BY <1>1, <3>1 DEF LoopTop
      <4>2. main' \in Server /\ main'.pc = "ended" /\ main'.fds = {}
        BY <4>1, ServerAssumption DEF Top, Server, Slots
      <4> QED BY <4>2
    <3>2. CASE ~stop_loop
      <4>1. main' = [Top EXCEPT !.pc = "select", !.fds = Watched]
        BY <1>1, <3>2 DEF LoopTop
      <4>2. PICK W \in SUBSET (Slots \cup {Listener}) : W = Watched
        BY <2>1
      <4>3. main' = [Top EXCEPT !.pc = "select", !.fds = W]
        BY <4>1, <4>2
      <4>4. main' \in Server /\ main'.pc = "select" /\ main'.fds = Watched
        BY <4>2, <4>3, Constants DEF Server
      <4> QED BY <2>1, <4>4
    <3> QED BY <3>1, <3>2
  <2>3. TypeOK'
    BY <1>1, <2>2 DEF LoopTop, TypeOK
  <2>4. ServeInv'
    BY <1>1, <2>2 DEF LoopTop, ServeInv, Serving
  <2> QED BY <2>3, <2>4
<1>2. CASE Select
  <2>1. PICK F : F = {f \in main.fds : Readable(f)}
    OBVIOUS
  <2>2. main' = [main EXCEPT !.pc = "accept", !.fds = F]
        /\ UNCHANGED <<conn, client, queue, asked, taken, inbox, rep,
                       response_sent, stop_loop, crossed>>
    BY <1>2, <2>1 DEF Select
  <2>3. F \subseteq main.fds /\ F \in SUBSET (Slots \cup {Listener})
    BY <1>0, <2>1
  <2>4. /\ [main EXCEPT !.pc = "accept", !.fds = F] \in Server
        /\ [main EXCEPT !.pc = "accept", !.fds = F].fds = F
        /\ [main EXCEPT !.pc = "accept", !.fds = F].pc = "accept"
    BY <1>0, <2>3 DEF Server
  <2> QED BY <2>2, <2>3, <2>4, MainMoves
<1>3. CASE NoAccept
  <2>1. /\ [main EXCEPT !.pc = "scan"] \in Server
        /\ [main EXCEPT !.pc = "scan"].fds = main.fds
        /\ [main EXCEPT !.pc = "scan"].pc = "scan"
    BY <1>0 DEF Server
  <2> QED BY <1>3, <2>1, MainMoves DEF NoAccept
<1>4. CASE ScanDone
  BY <1>4, Constants, MainMoves DEF ScanDone
<1>5. CASE Term
  <2>1. CASE main' = main
    <3>1. TypeOK'
      BY <1>5, <2>1 DEF Term, TypeOK
    <3>2. ServeInv'
      BY <1>5, <2>1 DEF Term, ServeInv, Serving, Caller
    <3> QED BY <3>1, <3>2
  <2>2. CASE main' = Top
    <3>1. TypeOK'
      BY <1>5, <2>2, Constants DEF Term, TypeOK
    <3>2. ServeInv'
      BY <1>5, <2>2, Constants DEF Term, ServeInv, Serving, Caller
    <3> QED BY <3>1, <3>2
  <2> QED BY <1>5, <2>1, <2>2 DEF Term
<1>6. CASE Accept
  <2>0. UNCHANGED <<asked, taken, inbox, rep, response_sent, stop_loop, crossed>>
    BY <1>6 DEF Accept
  <2>1. CASE UNCHANGED <<conn, client, queue>> /\ main' = Top
    BY <2>0, <2>1, Constants, MainMoves
  <2>2. ASSUME NEW c \in queue, queue' = queue \ {c},
               client' = [client EXCEPT ![c] = "gone"], main' = Top, conn' = conn
        PROVE  TypeOK' /\ ServeInv'
    <3>1. TypeOK'
      BY <2>0, <2>2, Constants DEF TypeOK
    <3>2. ServeInv'
      BY <2>0, <2>2, Constants DEF ServeInv, Serving
    <3> QED BY <3>1, <3>2
  <2>3. ASSUME NEW c \in queue, NEW i \in Free, queue' = queue \ {c},
               conn' = [conn EXCEPT ![i] = [conn[i] EXCEPT !.s = c]],
               main' = [main EXCEPT !.pc = "scan"], client' = client
        PROVE  TypeOK' /\ ServeInv'
    <3>1. c \in Clients /\ i \in Slots /\ conn[i] \in Conn
      BY <1>0, <2>3 DEF TypeOK, Free
    <3>2. [conn[i] EXCEPT !.s = c] \in Conn /\ [conn[i] EXCEPT !.s = c].s = c
      BY <3>1 DEF Conn
    <3>3. /\ main' \in Server /\ main'.pc = "scan" /\ main'.fds = main.fds
      BY <1>0, <2>3 DEF Server
    <3>4. /\ conn' \in [Slots -> Conn]
          /\ \A j \in Slots : conn'[j].s = IF j = i THEN c ELSE conn[j].s
      BY <1>0, <2>3, <3>1, <3>2
    <3>5. TypeOK'
      BY <2>0, <2>3, <3>3, <3>4 DEF TypeOK
    <3>6. ServeInv'
      BY <2>0, <3>1, <3>3, <3>4 DEF ServeInv, Serving
    <3> QED BY <3>5, <3>6
  <2> QED BY <1>6, <2>1, <2>2, <2>3 DEF Accept
<1> QED BY <1>1, <1>2, <1>3, <1>4, <1>5, <1>6

-----------------------------------------------------------------------------
(* Facts the steps that run commands share. *)

LEMMA SlotTyped ==
  ASSUME TypeOK, NEW i \in Slots
  PROVE  /\ conn[i] \in Conn
         /\ conn[i].s \in Clients \cup {NoClient}
         /\ [conn[i] EXCEPT !.s = NoClient] \in Conn
         /\ [conn[i] EXCEPT !.s = NoClient].s = NoClient
         /\ \A b \in BOOLEAN :
              /\ [conn[i] EXCEPT !.waiting_completion = b] \in Conn
              /\ [conn[i] EXCEPT !.waiting_completion = b].s = conn[i].s
<1>1. conn[i] \in Conn
  BY DEF TypeOK
<1> QED BY <1>1 DEF Conn

(* A slot whose flag changes keeps its client.                             *)
LEMMA FlagTyped ==
  ASSUME TypeOK, NEW i \in Slots, NEW b \in BOOLEAN,
         conn' = [conn EXCEPT ![i] = [conn[i] EXCEPT !.waiting_completion = b]]
  PROVE  /\ conn' \in [Slots -> Conn]
         /\ \A j \in Slots : conn'[j].s = conn[j].s
<1>1. PICK k : k = [conn[i] EXCEPT !.waiting_completion = b]
  OBVIOUS
<1>2. k \in Conn /\ k.s = conn[i].s
  BY <1>1, SlotTyped
<1>3. conn' = [conn EXCEPT ![i] = k] /\ conn \in [Slots -> Conn]
  BY <1>1 DEF TypeOK
<1> QED BY <1>2, <1>3

LEMMA InboxTyped ==
  ASSUME TypeOK, NEW i \in Slots, NEW c \in Clients, NEW n \in 1..MaxCmds,
         NEW st \in {"RUNNING", "final"}, send_resp(i, c, n, st)
  PROVE  inbox' \in [Clients -> Seq(Promise!Line)]
<1>1. PICK d : d = conn[i].s
  OBVIOUS
<1>2. d \in Clients \cup {NoClient} /\ inbox \in [Clients -> Seq(Promise!Line)]
  BY <1>1, SlotTyped DEF TypeOK
<1>3. PICK l \in Promise!Line : l = [of |-> c, cmd |-> n, st |-> st]
  BY DEF Promise!Line
<1>4. inbox' = IF d # NoClient /\ client[d] = "there"
                 THEN [inbox EXCEPT ![d] = Append(inbox[d], l)]
                 ELSE inbox
  BY <1>1, <1>3 DEF send_resp
<1>5. d # NoClient => Append(inbox[d], l) \in Seq(Promise!Line)
  BY <1>2
<1> QED BY <1>2, <1>4, <1>5

(* The command in hand. *)
LEMMA InHand ==
  ASSUME TypeOK, ServeInv, Serving
  PROVE  /\ main.i \in Slots
         /\ Caller \in Clients
         /\ taken[Caller] \in Nat
         /\ main.upto \in Nat /\ MaxCmds \in Nat
         /\ main.upto <= Len(asked[Caller])
         /\ Len(asked[Caller]) \in Nat
         /\ Len(asked[Caller]) <= MaxCmds
         /\ main.pc = "cmd" => taken[Caller] + 1 \in 1..MaxCmds
         /\ main.pc # "cmd" => Current \in 1..MaxCmds
<1>1. main.i \in Slots /\ main.upto \in Nat /\ MaxCmds \in Nat
  BY ServerAssumption DEF TypeOK, Server
<1>2. Caller \in Clients /\ main.upto <= Len(asked[Caller])
  BY DEF ServeInv
<1>3. /\ taken[Caller] \in Nat /\ asked[Caller] \in Seq(Promise!Kinds)
  BY <1>1, <1>2 DEF TypeOK
<1>4. Len(asked[Caller]) \in Nat /\ Len(asked[Caller]) <= MaxCmds
  BY <1>2, <1>3 DEF ServeInv
<1>5. main.pc = "cmd" => taken[Caller] < main.upto
  BY DEF ServeInv
<1>6. main.pc # "cmd" => taken[Caller] \in 1..main.upto
  BY DEF ServeInv, Serving
<1> QED BY <1>1, <1>2, <1>3, <1>4, <1>5, <1>6 DEF Current

LEMMA GoOnTyped ==
  ASSUME TypeOK, NEW n, GoOn(n)
  PROVE  /\ main' \in Server /\ main'.fds = main.fds
         /\ \/ /\ n < main.upto /\ main'.pc = "cmd"
               /\ main'.i = main.i /\ main'.upto = main.upto
            \/ main'.pc = "scan"
<1>1. main \in Server
  BY DEF TypeOK
<1>2. CASE n < main.upto
  <2>1. main' = [main EXCEPT !.pc = "cmd"]
    BY <1>2 DEF GoOn
  <2> QED BY <1>1, <1>2, <2>1 DEF Server
<1>3. CASE ~(n < main.upto)
  <2>1. main' = [main EXCEPT !.pc = "scan", !.i = 1, !.upto = 0]
    BY <1>3 DEF GoOn
  <2>2. 1 \in Slots /\ 0 \in 0..MaxCmds
    BY Constants, ServerAssumption
  <2> QED BY <1>1, <2>1, <2>2 DEF Server
<1> QED BY <1>2, <1>3

(* While the command in hand is not done with, slots keep their clients.   *)
LEMMA ServeKept ==
  ASSUME ServeInv, UNCHANGED <<asked, taken>>,
         \A i \in Slots : conn'[i].s = conn[i].s,
         main.i \in Slots, main'.fds = main.fds,
         main'.i = main.i, main'.upto = main.upto,
         \/ main'.pc = main.pc
         \/ {main.pc, main'.pc} \subseteq {"run", "handler", "check"},
         \A r \in Reports : rep'[r].pc # "none" =>
           rep'[r].of \in Clients /\ rep'[r].cmd \in 1..MaxCmds
  PROVE  ServeInv'
<1>1. Caller' = Caller
  BY DEF Caller
<1>2. Serving' = Serving
  BY DEF Serving
<1> QED BY <1>1, <1>2 DEF ServeInv

-----------------------------------------------------------------------------
(* process_conn(). *)
LEMMA TypeConn ==
  ASSUME TypeOK, ServeInv, NEW i \in Slots, Close(i) \/ Recv(i)
  PROVE  TypeOK' /\ ServeInv'
<1>0. /\ main \in Server /\ main.pc = "scan" /\ i \in main.fds
      /\ main.fds \ {i} \in SUBSET (Slots \cup {Listener})
      /\ conn[i].s \in Clients
      /\ conn \in [Slots -> Conn]
  <2>1. main \in Server /\ conn \in [Slots -> Conn]
    BY DEF TypeOK
  <2>2. main.pc = "scan" /\ i \in main.fds
    BY DEF Close, Recv, ReadyConn
  <2> QED BY <2>1, <2>2 DEF Server, ServeInv
<1>1. CASE Close(i)
  <2>1. PICK k : k = [conn[i] EXCEPT !.s = NoClient]
    OBVIOUS
  <2>2. k \in Conn
    BY <2>1, SlotTyped
  <2>3. conn' = [conn EXCEPT ![i] = k]
    BY <1>1, <2>1 DEF Close
  <2>4. /\ conn' \in [Slots -> Conn]
        /\ \A j \in Slots : j # i => conn'[j] = conn[j]
    BY <1>0, <2>2, <2>3
  <2>5. PICK F : F = main.fds \ {i}
    OBVIOUS
  <2>6. main' = [main EXCEPT !.fds = F]
    BY <1>1, <2>5 DEF Close
  <2>7. main' \in Server /\ main'.pc = "scan" /\ main'.fds = F
    BY <1>0, <2>5, <2>6 DEF Server
  <2>8. TypeOK'
    BY <1>1, <2>4, <2>7 DEF Close, TypeOK
  <2>9. \A j \in main'.fds \cap Slots : conn'[j].s \in Clients
    BY <2>4, <2>5, <2>7 DEF ServeInv
  <2>10. ServeInv'
    BY <1>1, <2>7, <2>9 DEF Close, ServeInv, Serving
  <2> QED BY <2>8, <2>10
<1>2. CASE Recv(i)
  <2>0. UNCHANGED <<conn, client, queue, asked, taken, inbox, rep,
                    response_sent, stop_loop, crossed>>
    BY <1>2 DEF Recv
  <2>1. PICK c \in Clients : c = conn[i].s
    BY <1>0
  <2>2. PICK F : F = main.fds \ {i}
    OBVIOUS
  <2>3. PICK n \in taken[c] + 1 .. Len(asked[c]) :
          main' = [main EXCEPT !.pc = "cmd", !.fds = F, !.i = i, !.upto = n]
    BY <1>2, <2>1, <2>2 DEF Recv
  <2>4. /\ taken[c] \in Nat /\ Len(asked[c]) \in Nat
        /\ Len(asked[c]) <= MaxCmds /\ MaxCmds \in Nat
    BY <2>1, ServerAssumption DEF TypeOK, ServeInv
  <2>5. n \in 0..MaxCmds /\ taken[c] < n /\ n <= Len(asked[c])
    BY <2>3, <2>4
  <2>6. /\ main' \in Server /\ main'.pc = "cmd" /\ main'.fds = F
        /\ main'.i = i /\ main'.upto = n
    BY <1>0, <2>2, <2>3, <2>5 DEF Server
  <2>7. TypeOK'
    BY <2>0, <2>6 DEF TypeOK
  <2>8. Caller' = c
    BY <2>0, <2>1, <2>6 DEF Caller
  <2>9. \A j \in main'.fds \cap Slots : conn'[j].s \in Clients
    BY <2>0, <2>2, <2>6 DEF ServeInv
  <2>10. /\ Caller' \in Clients /\ main'.upto <= Len(asked'[Caller'])
         /\ taken'[Caller'] < main'.upto
    BY <2>0, <2>1, <2>5, <2>6, <2>8
  <2>11. ServeInv'
    BY <2>0, <2>6, <2>9, <2>10 DEF ServeInv, Serving
  <2> QED BY <2>7, <2>11
<1> QED BY <1>1, <1>2

(* process_cmd(). *)
LEMMA TypeCommand ==
  ASSUME TypeOK, ServeInv, Command
  PROVE  TypeOK' /\ ServeInv'
<1>0. Serving /\ main.pc = "cmd"
  BY DEF Command, Serving
<1>1. PICK c : c = Caller
  OBVIOUS
<1>2. PICK n : n = taken[c] + 1
  OBVIOUS
<1>3. /\ c \in Clients /\ main.i \in Slots /\ taken[c] \in Nat
      /\ n \in 1..MaxCmds /\ n <= main.upto /\ main.upto \in Nat
      /\ main.upto <= Len(asked[c])
      /\ Len(asked[c]) \in Nat /\ MaxCmds \in Nat
  <2>1. taken[Caller] < main.upto
    BY <1>0 DEF ServeInv
  <2> QED BY <1>0, <1>1, <1>2, <2>1, InHand
<1>4. /\ taken' = [taken EXCEPT ![c] = n]
      /\ UNCHANGED <<conn, client, queue, asked, rep, stop_loop, crossed>>
  BY <1>1, <1>2 DEF Command
<1>5. /\ taken' \in [Clients -> 0..MaxCmds]
      /\ taken'[c] = n
      /\ \A d \in Clients : d # c => taken'[d] = taken[d]
  BY <1>3, <1>4 DEF TypeOK
<1>6. \A d \in Clients : /\ taken'[d] <= Len(asked'[d])
                         /\ Len(asked'[d]) <= MaxCmds
  <2>1. \A d \in Clients : taken[d] <= Len(asked[d]) /\ Len(asked[d]) <= MaxCmds
    BY DEF ServeInv
  <2>2. n <= Len(asked[c])
    BY <1>3
  <2>3. TAKE d \in Clients
  <2>4. CASE d = c
    BY <1>4, <1>5, <2>1, <2>2, <2>4
  <2>5. CASE d # c
    BY <1>4, <1>5, <2>1, <2>5
  <2> QED BY <2>4, <2>5
<1>7. CASE asked[c][n] = "bad"
  <2>1. /\ send_resp(main.i, c, n, "final")
        /\ response_sent' = response_sent + 1
        /\ GoOn(n)
    BY <1>1, <1>2, <1>7 DEF Command
  <2>2. inbox' \in [Clients -> Seq(Promise!Line)]
    BY <1>3, <2>1, InboxTyped
  <2>3. /\ main' \in Server /\ main'.fds = main.fds
        /\ \/ /\ n < main.upto /\ main'.pc = "cmd"
              /\ main'.i = main.i /\ main'.upto = main.upto
           \/ main'.pc = "scan"
    BY <2>1, GoOnTyped
  <2>4. TypeOK'
    BY <1>4, <1>5, <2>1, <2>2, <2>3 DEF TypeOK
  <2>5. \A j \in main'.fds \cap Slots : conn'[j].s \in Clients
    BY <1>4, <2>3 DEF ServeInv
  <2>6. main'.pc = "cmd" =>
          /\ Caller' = c /\ taken'[c] < main'.upto
          /\ main'.upto <= Len(asked'[c])
    BY <1>1, <1>3, <1>4, <1>5, <2>3 DEF Caller
  <2>7. ServeInv'
    BY <1>3, <1>4, <1>6, <2>3, <2>5, <2>6 DEF ServeInv, Serving
  <2> QED BY <2>4, <2>7
<1>8. CASE asked[c][n] # "bad"
  <2>1. /\ response_sent' = 0 /\ UNCHANGED inbox
        /\ main' = [main EXCEPT !.pc = "run"]
    BY <1>1, <1>2, <1>8 DEF Command
  <2>2. /\ main' \in Server /\ main'.pc = "run" /\ main'.fds = main.fds
        /\ main'.i = main.i /\ main'.upto = main.upto
    BY <2>1 DEF TypeOK, Server
  <2>3. TypeOK'
    BY <1>4, <1>5, <2>1, <2>2 DEF TypeOK
  <2>4. \A j \in main'.fds \cap Slots : conn'[j].s \in Clients
    BY <1>4, <2>2 DEF ServeInv
  <2>5. /\ Caller' = c /\ taken'[c] \in 1..main'.upto
        /\ main'.upto <= Len(asked'[c])
    BY <1>1, <1>3, <1>4, <1>5, <2>2 DEF Caller
  <2>6. ServeInv'
    BY <1>3, <1>4, <1>6, <2>2, <2>4, <2>5 DEF ServeInv, Serving
  <2> QED BY <2>3, <2>6
<1> QED BY <1>7, <1>8

LEMMA ReportsTyped ==
  ASSUME TypeOK, ServeInv
  PROVE  \A r \in Reports : rep[r].pc # "none" =>
           rep[r].of \in Clients /\ rep[r].cmd \in 1..MaxCmds
BY DEF ServeInv

LEMMA TypeRun ==
  ASSUME TypeOK, ServeInv, Run
  PROVE  TypeOK' /\ ServeInv'
<1>0. Serving /\ main.pc = "run"
  BY DEF Run, Serving
<1>1. main.i \in Slots /\ Caller \in Clients /\ Current \in 1..MaxCmds
  BY <1>0, InHand
<1>2. inbox' \in [Clients -> Seq(Promise!Line)]
  BY <1>1, InboxTyped DEF Run
<1>3. /\ main' \in Server /\ main'.pc = "handler" /\ main'.fds = main.fds
      /\ main'.i = main.i /\ main'.upto = main.upto
  BY DEF Run, TypeOK, Server
<1>4. TypeOK'
  BY <1>2, <1>3 DEF Run, TypeOK
<1>5. UNCHANGED <<conn, rep, asked, taken>>
  BY DEF Run
<1>6. ServeInv'
  BY <1>0, <1>1, <1>3, <1>5, ReportsTyped, ServeKept
<1> QED BY <1>4, <1>6

LEMMA TypeHandler ==
  ASSUME TypeOK, ServeInv, Finish \/ \E r \in Reports : Defer(r)
  PROVE  TypeOK' /\ ServeInv'
<1>0. /\ Serving /\ main.pc = "handler"
      /\ main' = [main EXCEPT !.pc = "check"]
      /\ UNCHANGED <<client, queue, asked, taken, stop_loop>>
  BY DEF Finish, Defer, Serving
<1>1. main.i \in Slots /\ Caller \in Clients /\ Current \in 1..MaxCmds
  BY <1>0, InHand
<1>2. /\ main' \in Server /\ main'.pc = "check" /\ main'.fds = main.fds
      /\ main'.i = main.i /\ main'.upto = main.upto
  BY <1>0 DEF TypeOK, Server
<1>3. /\ conn' \in [Slots -> Conn]
      /\ \A j \in Slots : conn'[j].s = conn[j].s
  <2>1. CASE conn' = conn
    BY <2>1 DEF TypeOK
  <2>2. ASSUME NEW b \in BOOLEAN,
               conn' = [conn EXCEPT ![main.i] =
                          [conn[main.i] EXCEPT !.waiting_completion = b]]
        PROVE  /\ conn' \in [Slots -> Conn]
               /\ \A j \in Slots : conn'[j].s = conn[j].s
    BY <1>1, <2>2, FlagTyped
  <2> QED BY <2>1, <2>2 DEF Finish, Defer
<1>6. crossed' \subseteq Reports
  BY DEF Finish, Defer, Unanswered, TypeOK
<1>4. CASE Finish
  <2>1. inbox' \in [Clients -> Seq(Promise!Line)]
    BY <1>1, <1>4, InboxTyped DEF Finish
  <2>2. rep' = rep /\ response_sent' = response_sent + 1
    BY <1>4 DEF Finish
  <2>3. TypeOK'
    BY <1>0, <1>2, <1>3, <1>6, <2>1, <2>2 DEF TypeOK
  <2>4. ServeInv'
    BY <1>0, <1>1, <1>2, <1>3, <2>2, ReportsTyped, ServeKept
  <2> QED BY <2>3, <2>4
<1>5. ASSUME NEW r \in Reports, Defer(r)
      PROVE  TypeOK' /\ ServeInv'
  <2>1. PICK new : new = NewReport
    OBVIOUS
  <2>2. new \in Report /\ new.of \in Clients /\ new.cmd \in 1..MaxCmds
    <3>1. PICK c \in Clients : c = Caller
      BY <1>1
    <3>2. PICK n \in 1..MaxCmds : n = Current
      BY <1>1
    <3>3. n \in 0..MaxCmds
      BY ServerAssumption
    <3>4. new = [NoReport EXCEPT !.pc = "work", !.i = main.i, !.of = c,
                                 !.cmd = n]
      BY <2>1, <3>1, <3>2 DEF NewReport
    <3>5. new \in Report /\ new.of = c /\ new.cmd = n
      BY <1>1, <3>3, <3>4, Constants DEF Report
    <3> QED BY <3>5
  <2>3. rep' = [rep EXCEPT ![r] = new] /\ UNCHANGED <<inbox, response_sent>>
    BY <1>5, <2>1 DEF Defer
  <2>4. /\ rep' \in [Reports -> Report]
        /\ \A t \in Reports : rep'[t] = IF t = r THEN new ELSE rep[t]
    BY <2>2, <2>3 DEF TypeOK
  <2>5. TypeOK'
    BY <1>0, <1>2, <1>3, <1>6, <2>3, <2>4 DEF TypeOK
  <2>6. \A t \in Reports : rep'[t].pc # "none" =>
          rep'[t].of \in Clients /\ rep'[t].cmd \in 1..MaxCmds
    BY <2>2, <2>4, ReportsTyped
  <2>7. ServeInv'
    BY <1>0, <1>1, <1>2, <1>3, <2>6, ServeKept
  <2> QED BY <2>5, <2>7
<1> QED BY <1>4, <1>5

LEMMA TypeCheck ==
  ASSUME TypeOK, ServeInv, Check
  PROVE  TypeOK' /\ ServeInv'
<1>0. /\ Serving /\ main.pc = "check" /\ GoOn(Current)
      /\ UNCHANGED <<conn, client, queue, asked, taken, inbox, rep,
                     response_sent, stop_loop, crossed>>
  BY DEF Check, Serving
<1>1. /\ main' \in Server /\ main'.fds = main.fds
      /\ \/ /\ Current < main.upto /\ main'.pc = "cmd"
            /\ main'.i = main.i /\ main'.upto = main.upto
         \/ main'.pc = "scan"
  BY <1>0, GoOnTyped
<1>2. TypeOK'
  BY <1>0, <1>1 DEF TypeOK
<1>3. main'.pc = "cmd" =>
        Caller' = Caller /\ taken[Caller] < main.upto /\ main'.upto = main.upto
  BY <1>0, <1>1 DEF Caller, Current
<1>4. ServeInv'
  BY <1>0, <1>1, <1>3 DEF ServeInv, Serving
<1> QED BY <1>2, <1>4

(* The report threads. *)
LEMMA TypeReport ==
  ASSUME TypeOK, ServeInv, NEW r \in Reports, ReportStep(r)
  PROVE  TypeOK' /\ ServeInv'
<1>0. /\ rep \in [Reports -> Report] /\ rep[r] \in Report
      /\ rep[r].i \in Slots /\ rep[r].pc # "none"
      /\ UNCHANGED <<client, queue, asked, taken, main, stop_loop>>
  <2>1. rep \in [Reports -> Report]
    BY DEF TypeOK
  <2>2. rep[r] \in Report
    BY <2>1
  <2>3. rep[r].i \in Slots
    BY <2>2 DEF Report
  <2> QED BY <2>1, <2>2, <2>3
          DEF ReportStep, ReportWork, ReportSend, ReportLoad, ReportStore,
              ReportRelease
<1>1. rep[r].of \in Clients /\ rep[r].cmd \in 1..MaxCmds
  BY <1>0, ReportsTyped
<1>2. ASSUME NEW new \in Report, rep' = [rep EXCEPT ![r] = new],
             new.pc # "none" => new.of = rep[r].of /\ new.cmd = rep[r].cmd,
             conn' \in [Slots -> Conn],
             \A j \in Slots : conn'[j].s = conn[j].s,
             inbox' \in [Clients -> Seq(Promise!Line)],
             response_sent' \in Nat
      PROVE  TypeOK' /\ ServeInv'
  <2>0. crossed' \subseteq Reports
    BY DEF ReportStep, ReportWork, ReportSend, ReportLoad, ReportStore,
           ReportRelease, TypeOK
  <2>1. /\ rep' \in [Reports -> Report]
        /\ \A t \in Reports : rep'[t] = IF t = r THEN new ELSE rep[t]
    BY <1>0, <1>2
  <2>2. TypeOK'
    BY <1>0, <1>2, <2>0, <2>1 DEF TypeOK
  <2>3. \A t \in Reports : rep'[t].pc # "none" =>
          rep'[t].of \in Clients /\ rep'[t].cmd \in 1..MaxCmds
    BY <1>1, <1>2, <2>1, ReportsTyped
  <2>4. main.i \in Slots
    BY DEF TypeOK, Server
  <2>5. ServeInv'
    BY <1>0, <1>2, <2>3, <2>4, ServeKept
  <2> QED BY <2>2, <2>5
<1>3. /\ conn \in [Slots -> Conn] /\ inbox \in [Clients -> Seq(Promise!Line)]
      /\ response_sent \in Nat
  BY DEF TypeOK
<1>4. CASE ReportWork(r)
  <2>1. PICK p \in {"release", "send"} : rep' = [rep EXCEPT ![r] = [rep[r] EXCEPT !.pc = p]]
    BY <1>4 DEF ReportWork
  <2>2. PICK new : new = [rep[r] EXCEPT !.pc = p]
    OBVIOUS
  <2>3. new \in Report /\ new.of = rep[r].of /\ new.cmd = rep[r].cmd
    BY <1>0, <2>2 DEF Report
  <2>4. rep' = [rep EXCEPT ![r] = new] /\ UNCHANGED <<conn, inbox, response_sent>>
    BY <1>4, <2>1, <2>2 DEF ReportWork
  <2> QED BY <1>2, <1>3, <2>3, <2>4
<1>5. CASE ReportSend(r)
  <2>1. inbox' \in [Clients -> Seq(Promise!Line)]
    BY <1>0, <1>1, <1>5, InboxTyped DEF ReportSend
  <2>2. PICK new : new = [rep[r] EXCEPT !.pc = "load"]
    OBVIOUS
  <2>3. new \in Report /\ new.of = rep[r].of /\ new.cmd = rep[r].cmd
    BY <1>0, <2>2 DEF Report
  <2>4. rep' = [rep EXCEPT ![r] = new] /\ UNCHANGED <<conn, response_sent>>
    BY <1>5, <2>2 DEF ReportSend
  <2> QED BY <1>2, <1>3, <2>1, <2>3, <2>4
<1>6. CASE ReportLoad(r)
  <2>1. PICK new : new = [rep[r] EXCEPT !.pc = "store", !.seen = response_sent]
    OBVIOUS
  <2>2. new \in Report /\ new.of = rep[r].of /\ new.cmd = rep[r].cmd
    BY <1>0, <1>3, <2>1 DEF Report
  <2>3. rep' = [rep EXCEPT ![r] = new] /\ UNCHANGED <<conn, inbox, response_sent>>
    BY <1>6, <2>1 DEF ReportLoad
  <2> QED BY <1>2, <1>3, <2>2, <2>3
<1>7. CASE ReportStore(r)
  <2>1. PICK new : new = [rep[r] EXCEPT !.pc = "release", !.seen = 0]
    OBVIOUS
  <2>2. new \in Report /\ new.of = rep[r].of /\ new.cmd = rep[r].cmd
    BY <1>0, <2>1 DEF Report
  <2>3. rep' = [rep EXCEPT ![r] = new] /\ UNCHANGED <<conn, inbox>>
    BY <1>7, <2>1 DEF ReportStore
  <2>4. response_sent' \in Nat
    BY <1>0, <1>7 DEF ReportStore, Report
  <2> QED BY <1>2, <1>3, <2>2, <2>3, <2>4
<1>8. CASE ReportRelease(r)
  <2>1. rep' = [rep EXCEPT ![r] = NoReport] /\ UNCHANGED <<inbox, response_sent>>
    BY <1>8 DEF ReportRelease
  <2>2. /\ conn' \in [Slots -> Conn]
        /\ \A j \in Slots : conn'[j].s = conn[j].s
    <3>1. conn' = [conn EXCEPT ![rep[r].i] =
                     [conn[rep[r].i] EXCEPT !.waiting_completion = FALSE]]
      BY <1>8 DEF ReportRelease
    <3>2. FALSE \in BOOLEAN
      OBVIOUS
    <3> QED BY <1>0, <3>1, <3>2, FlagTyped
  <2> QED BY <1>2, <1>3, <2>1, <2>2, Constants
<1> QED BY <1>4, <1>5, <1>6, <1>7, <1>8 DEF ReportStep

LEMMA TypeStep ==
  ASSUME TypeOK, ServeInv, [Next]_vars
  PROVE  TypeOK' /\ ServeInv'
<1>1. CASE UNCHANGED vars
  <2>1. TypeOK'
    BY <1>1 DEF vars, TypeOK
  <2>2. ServeInv'
    BY <1>1 DEF vars, ServeInv, Serving, Caller
  <2> QED BY <2>1, <2>2
<1>2. CASE \E c \in Clients : ClientStep(c)
  BY <1>2, TypeClient
<1>3. CASE ServerStep
  <2>1. CASE LoopTop \/ Select \/ Accept \/ NoAccept \/ ScanDone
    BY <2>1, TypeLoop
  <2>2. CASE \E i \in Slots : Close(i) \/ Recv(i)
    BY <2>2, TypeConn
  <2>3. CASE Finish \/ \E r \in Reports : Defer(r)
    BY <2>3, TypeHandler
  <2>4. CASE Command \/ Run \/ Check
    BY <2>4, TypeCommand, TypeRun, TypeCheck
  <2> QED BY <1>3, <2>1, <2>2, <2>3, <2>4 DEF ServerStep
<1>4. CASE Term
  BY <1>4, TypeLoop
<1>5. CASE \E r \in Reports : ReportStep(r)
  BY <1>5, TypeReport
<1> QED BY <1>1, <1>2, <1>3, <1>4, <1>5 DEF Next

(* The variables hold values of their types, and what the server loop has  *)
(* in hand is there: a ready descriptor is an open connection, a command   *)
(* being processed is one that was received from it.                       *)
THEOREM ServerTypeCorrect == Spec => [](TypeOK /\ ServeInv)
<1>1. Init => TypeOK /\ ServeInv
  BY TypeInit
<1>2. (TypeOK /\ ServeInv) /\ [Next]_vars => (TypeOK /\ ServeInv)'
  BY TypeStep
<1> QED BY <1>1, <1>2, PTL DEF Spec

-----------------------------------------------------------------------------
(* A connection that has come in finds a slot: report threads only ever    *)
(* add to the free slots between can_accept and accept(), and the server   *)
(* thread itself changes none.                                             *)

RoomInv ==
  main.pc \in {"select", "accept"} /\ Listener \in main.fds => Free # {}

LEMMA RoomStep ==
  ASSUME TypeOK, ServeInv, RoomInv, [Next]_vars
  PROVE  RoomInv'
<1>0. main \in Server /\ conn \in [Slots -> Conn] /\ rep \in [Reports -> Report]
  BY DEF TypeOK
<1>1. ASSUME conn' = conn, main' = main PROVE RoomInv'
  BY <1>1 DEF RoomInv, Free
<1>2. ASSUME main'.pc \notin {"select", "accept"} PROVE RoomInv'
  BY <1>2 DEF RoomInv
<1>3. CASE UNCHANGED vars
  BY <1>1, <1>3 DEF vars
<1>4. CASE \E c \in Clients : ClientStep(c)
  BY <1>1, <1>4 DEF ClientStep, Connect, Leave, Ask
<1>5. CASE LoopTop
  <2>1. CASE stop_loop
    <3>1. main'.pc = "ended"
      BY <1>5, <2>1, Constants DEF LoopTop, Server
    <3> QED BY <1>2, <3>1
  <2>2. CASE ~stop_loop
    <3>1. PICK W : W = Watched
      OBVIOUS
    <3>2. main'.fds = W
      BY <1>5, <2>2, <3>1, Constants DEF LoopTop, Server
    <3>3. Listener \in W => Free # {}
      BY <3>1, Constants DEF Watched, CanAccept
    <3>4. Free' = Free
      BY <1>5 DEF LoopTop, Free
    <3> QED BY <3>2, <3>3, <3>4 DEF RoomInv
  <2> QED BY <2>1, <2>2
<1>6. CASE Select
  <2>1. PICK F : F = {f \in main.fds : Readable(f)}
    OBVIOUS
  <2>2. main'.fds = F
    BY <1>0, <1>6, <2>1 DEF Select, Server
  <2>3. F \subseteq main.fds /\ main.pc = "select"
    BY <1>6, <2>1 DEF Select
  <2>4. Free' = Free
    BY <1>6 DEF Select, Free
  <2> QED BY <2>2, <2>3, <2>4 DEF RoomInv
<1>7. CASE Accept \/ NoAccept \/ ScanDone
  <2>1. main' = Top \/ main' = [main EXCEPT !.pc = "scan"]
    BY <1>7 DEF Accept, NoAccept, ScanDone
  <2>2. main'.pc \in {"top", "scan"}
    BY <1>0, <2>1, Constants DEF Server
  <2> QED BY <1>2, <2>2
<1>8. CASE Term
  <2>1. CASE main' = main
    BY <1>1, <1>8, <2>1 DEF Term
  <2>2. CASE main' = Top
    BY <1>2, <2>2, Constants
  <2> QED BY <1>8, <2>1, <2>2 DEF Term
<1>9. CASE \E i \in Slots : Close(i) \/ Recv(i)
  <2>1. PICK i \in Slots : Close(i) \/ Recv(i)
    BY <1>9
  <2>2. CASE Close(i)
    <3>1. PICK F : F = main.fds \ {i}
      OBVIOUS
    <3>2. main' = [main EXCEPT !.fds = F] /\ main.pc = "scan"
      BY <2>2, <3>1 DEF Close, ReadyConn
    <3>3. main'.pc = "scan"
      BY <1>0, <3>2 DEF Server
    <3> QED BY <1>2, <3>3
  <2>3. CASE Recv(i)
    <3>1. main'.pc = "cmd"
      BY <1>0, <2>3 DEF Recv, Server
    <3> QED BY <1>2, <3>1
  <2> QED BY <2>1, <2>2, <2>3
<1>10. CASE Command \/ Check
  <2>1. (\E n : GoOn(n)) \/ main' = [main EXCEPT !.pc = "run"]
    BY <1>10 DEF Command, Check
  <2>2. main'.pc \in {"cmd", "scan", "run"}
    <3>1. CASE \E n : GoOn(n)
      BY <3>1, GoOnTyped
    <3>2. CASE main' = [main EXCEPT !.pc = "run"]
      BY <1>0, <3>2 DEF Server
    <3> QED BY <2>1, <3>1, <3>2
  <2> QED BY <1>2, <2>2
<1>11. CASE Run \/ Finish \/ \E r \in Reports : Defer(r)
  <2>1. main' = [main EXCEPT !.pc = "handler"] \/ main' = [main EXCEPT !.pc = "check"]
    BY <1>11 DEF Run, Finish, Defer
  <2>2. main'.pc \in {"handler", "check"}
    BY <1>0, <2>1 DEF Server
  <2> QED BY <1>2, <2>2
<1>12. CASE \E r \in Reports : ReportStep(r)
  <2>1. PICK r \in Reports : ReportStep(r)
    BY <1>12
  <2>2. CASE ReportWork(r) \/ ReportSend(r) \/ ReportLoad(r) \/ ReportStore(r)
    BY <1>1, <2>2 DEF ReportWork, ReportSend, ReportLoad, ReportStore
  <2>3. CASE ReportRelease(r)
    <3>1. rep[r].i \in Slots /\ main' = main
      BY <1>0, <2>3 DEF ReportRelease, Report
    <3>2. PICK k : k = [conn[rep[r].i] EXCEPT !.waiting_completion = FALSE]
      OBVIOUS
    <3>3. k.s = conn[rep[r].i].s /\ k.waiting_completion = FALSE
      BY <1>0, <3>1, <3>2 DEF Conn
    <3>4. conn' = [conn EXCEPT ![rep[r].i] = k]
      BY <2>3, <3>2 DEF ReportRelease
    <3>5. Free \subseteq Free'
      BY <1>0, <3>1, <3>3, <3>4 DEF Free
    <3> QED BY <3>1, <3>5 DEF RoomInv
  <2> QED BY <2>1, <2>2, <2>3 DEF ReportStep
<1> QED BY <1>3, <1>4, <1>5, <1>6, <1>7, <1>8, <1>9, <1>10, <1>11, <1>12
        DEF Next, ServerStep

(* run_loop() never finds itself without a slot for a connection that      *)
(* select() reported, what its comment calls "cannot really happen".       *)
THEOREM RoomCorrect == Spec => []RoomForNewConnection
<1>1. Init => TypeOK /\ ServeInv
  BY TypeInit
<1>2. Init => RoomInv
  BY Constants DEF Init, RoomInv
<1>3. (TypeOK /\ ServeInv) /\ [Next]_vars => (TypeOK /\ ServeInv)'
  BY TypeStep
<1>4. (TypeOK /\ ServeInv /\ RoomInv) /\ [Next]_vars => RoomInv'
  BY RoomStep
<1>5. RoomInv => RoomForNewConnection
  BY DEF RoomInv, RoomForNewConnection
<1> QED BY <1>1, <1>2, <1>3, <1>4, <1>5, PTL DEF Spec

-----------------------------------------------------------------------------
(* The slot of a report thread is held for its client, as long as no other *)
(* command is completed by a thread on the same slot.  The flag that holds *)
(* it is cleared by the thread itself, by a handler that fails to make a   *)
(* thread, and by the other threads of the slot: the induction needs that  *)
(* a thread that is not crossed has no such others.                        *)

Live(r) == rep[r].pc # "none"

(* The command a live report thread completes was dispatched, and is not   *)
(* the one whose handler is running.                                       *)
Dispatched ==
  \A r \in Reports : Live(r) =>
    /\ rep[r].cmd \in 1..Len(asked[rep[r].of])
    /\ asked[rep[r].of][rep[r].cmd] = "deferred"
    /\ rep[r].cmd <= taken[rep[r].of]
    /\ main.pc \in {"run", "handler"} =>
         ~(Caller = rep[r].of /\ Current = rep[r].cmd)

Held ==
  /\ \A r \in crossed : Live(r)
  /\ \A r \in Reports \ crossed : Live(r) =>
       /\ conn[rep[r].i].waiting_completion
       /\ conn[rep[r].i].s \in {rep[r].of, NoClient}
  /\ \A r, t \in Reports :
       Live(r) /\ Live(t) /\ rep[r].i = rep[t].i /\ r # t => r \in crossed

HeldInv == Dispatched /\ Held

LEMMA HeldInit == Init => HeldInv
<1> SUFFICES ASSUME Init PROVE HeldInv
  OBVIOUS
<1>1. \A r \in Reports : ~Live(r)
  BY Constants DEF Init, Live
<1>2. crossed = {}
  BY DEF Init
<1> QED BY <1>1, <1>2 DEF HeldInv, Dispatched, Held

(* Steps that neither dispatch a command nor touch a slot or a thread.     *)
LEMMA HeldKept ==
  ASSUME HeldInv, UNCHANGED <<conn, asked, taken, rep, crossed>>,
         main'.pc \in {"run", "handler"} =>
           main.pc \in {"run", "handler"} /\ main'.i = main.i
  PROVE  HeldInv'
<1>1. Held'
  BY DEF HeldInv, Held, Live
<1>2. main'.i = main.i => Caller' = Caller /\ Current' = Current
  BY DEF Caller, Current
<1>3. Dispatched'
  BY <1>2 DEF HeldInv, Dispatched, Live
<1> QED BY <1>1, <1>3 DEF HeldInv

LEMMA HeldAsk ==
  ASSUME TypeOK, ServeInv, HeldInv,
         NEW c \in Clients, NEW k \in Promise!Kinds, Ask(c, k)
  PROVE  HeldInv'
<1>0. UNCHANGED <<conn, main, rep, taken, crossed>>
  BY DEF Ask
<1>1. /\ asked \in [Clients -> Seq(Promise!Kinds)]
      /\ asked[c] \in Seq(Promise!Kinds)
      /\ Len(asked[c]) \in Nat
  BY DEF TypeOK
<1>2. PICK q : q = Append(asked[c], k)
  OBVIOUS
<1>3. /\ Len(q) = Len(asked[c]) + 1
      /\ q[Len(asked[c]) + 1] = k
      /\ \A n \in 1..Len(asked[c]) : q[n] = asked[c][n]
  BY <1>1, <1>2
<1>4. asked' = [asked EXCEPT ![c] = q]
  BY <1>2 DEF Ask
<1>5. asked'[c] = q /\ \A d \in Clients : d # c => asked'[d] = asked[d]
  BY <1>1, <1>4
<1>6. Held'
  BY <1>0 DEF HeldInv, Held, Live
<1>7. Dispatched'
  <2>1. SUFFICES ASSUME NEW r \in Reports, Live(r)'
                 PROVE  /\ rep'[r].cmd \in 1..Len(asked'[rep'[r].of])
                        /\ asked'[rep'[r].of][rep'[r].cmd] = "deferred"
                        /\ rep'[r].cmd <= taken'[rep'[r].of]
                        /\ main'.pc \in {"run", "handler"} =>
                             ~(Caller' = rep'[r].of /\ Current' = rep'[r].cmd)
    BY DEF Dispatched
  <2>2. /\ Live(r) /\ rep' = rep /\ taken' = taken
        /\ Caller' = Caller /\ Current' = Current
    BY <1>0, <2>1 DEF Live, Caller, Current
  <2>3. /\ rep[r].cmd \in 1..Len(asked[rep[r].of])
        /\ asked[rep[r].of][rep[r].cmd] = "deferred"
        /\ rep[r].cmd <= taken[rep[r].of]
        /\ main.pc \in {"run", "handler"} =>
             ~(Caller = rep[r].of /\ Current = rep[r].cmd)
    BY <2>2 DEF HeldInv, Dispatched
  <2>4. rep[r].of \in Clients
    BY <2>2 DEF ServeInv, Live
  <2>5. /\ rep[r].cmd \in 1..Len(asked'[rep[r].of])
        /\ asked'[rep[r].of][rep[r].cmd] = "deferred"
    <3>1. CASE rep[r].of = c
      BY <1>1, <1>3, <1>5, <2>3, <3>1
    <3>2. CASE rep[r].of # c
      BY <1>5, <2>3, <2>4, <3>2
    <3> QED BY <3>1, <3>2
  <2> QED BY <1>0, <2>2, <2>3, <2>5
<1> QED BY <1>6, <1>7 DEF HeldInv

LEMMA HeldAccept ==
  ASSUME TypeOK, ServeInv, HeldInv, Accept
  PROVE  HeldInv'
<1>0. /\ UNCHANGED <<asked, taken, rep, crossed>>
      /\ main'.pc \in {"top", "scan"}
  <2>1. main \in Server
    BY DEF TypeOK
  <2>2. main' = Top \/ main' = [main EXCEPT !.pc = "scan"]
    BY DEF Accept
  <2>3. main'.pc \in {"top", "scan"}
    BY <2>1, <2>2, Constants DEF Server
  <2> QED BY <2>3 DEF Accept
<1>1. CASE conn' = conn
  BY <1>0, <1>1, HeldKept
<1>2. ASSUME NEW c \in queue, NEW i \in Free,
             conn' = [conn EXCEPT ![i] = [conn[i] EXCEPT !.s = c]]
      PROVE  HeldInv'
  <2>1. /\ i \in Slots /\ ~conn[i].waiting_completion
        /\ conn \in [Slots -> Conn] /\ rep \in [Reports -> Report]
    BY <1>2 DEF Free, TypeOK
  <2>2. \A r \in Reports \ crossed :
          Live(r) => rep[r].i # i /\ rep[r].i \in Slots
    BY <2>1 DEF HeldInv, Held, Report
  <2>3. \A j \in Slots : j # i => conn'[j] = conn[j]
    BY <1>2, <2>1
  <2>4. Held'
    BY <1>0, <2>2, <2>3 DEF HeldInv, Held, Live
  <2>5. Dispatched'
    BY <1>0 DEF HeldInv, Dispatched, Live
  <2> QED BY <2>4, <2>5 DEF HeldInv
<1> QED BY <1>1, <1>2 DEF Accept

LEMMA HeldClose ==
  ASSUME TypeOK, ServeInv, HeldInv, NEW i \in Slots, Close(i)
  PROVE  HeldInv'
<1>0. /\ UNCHANGED <<asked, taken, rep, crossed>>
      /\ main'.pc = "scan"
      /\ conn \in [Slots -> Conn] /\ rep \in [Reports -> Report]
  <2>1. PICK F : F = main.fds \ {i}
    OBVIOUS
  <2>2. main' = [main EXCEPT !.fds = F] /\ main.pc = "scan" /\ main \in Server
    BY <2>1 DEF Close, ReadyConn, TypeOK
  <2>3. main'.pc = "scan"
    BY <2>2 DEF Server
  <2> QED BY <2>3 DEF Close, TypeOK
<1>1. PICK k : k = [conn[i] EXCEPT !.s = NoClient]
  OBVIOUS
<1>2. /\ k.s = NoClient
      /\ k.waiting_completion = conn[i].waiting_completion
  BY <1>0, <1>1 DEF Conn
<1>3. conn' = [conn EXCEPT ![i] = k]
  BY <1>1 DEF Close
<1>4. \A j \in Slots :
        /\ conn'[j].waiting_completion = conn[j].waiting_completion
        /\ conn'[j].s \in {conn[j].s, NoClient}
  BY <1>0, <1>2, <1>3
<1>5. \A r \in Reports : rep[r].i \in Slots
  BY <1>0 DEF Report
<1>6. Held'
  BY <1>0, <1>4, <1>5 DEF HeldInv, Held, Live
<1>7. Dispatched'
  BY <1>0 DEF HeldInv, Dispatched, Live
<1> QED BY <1>6, <1>7 DEF HeldInv

LEMMA HeldCommand ==
  ASSUME TypeOK, ServeInv, HeldInv, Command
  PROVE  HeldInv'
<1>0. Serving /\ main.pc = "cmd"
  BY DEF Command, Serving
<1>1. PICK c \in Clients : c = Caller
  BY <1>0, InHand
<1>2. taken[c] \in Nat /\ taken \in [Clients -> 0..MaxCmds]
  BY <1>0, <1>1, InHand DEF TypeOK
<1>3. /\ taken' = [taken EXCEPT ![c] = taken[c] + 1]
      /\ UNCHANGED <<conn, asked, rep, crossed>>
  BY <1>1 DEF Command
<1>4. /\ taken'[c] = taken[c] + 1
      /\ \A d \in Clients : d # c => taken'[d] = taken[d]
  BY <1>2, <1>3
<1>5. main'.pc \in {"run", "handler"} => Caller' = c /\ Current' = taken[c] + 1
  <2>1. CASE main' = [main EXCEPT !.pc = "run"]
    <3>1. main'.i = main.i
      BY <2>1 DEF TypeOK, Server
    <3> QED BY <1>1, <1>3, <1>4, <3>1 DEF Caller, Current
  <2>2. CASE GoOn(taken[c] + 1)
    BY <2>2, GoOnTyped
  <2> QED BY <1>1, <2>1, <2>2 DEF Command
<1>6. Held'
  BY <1>3 DEF HeldInv, Held, Live
<1>7. Dispatched'
  <2>1. SUFFICES ASSUME NEW r \in Reports, Live(r)
                 PROVE  /\ rep[r].cmd \in 1..Len(asked[rep[r].of])
                        /\ asked[rep[r].of][rep[r].cmd] = "deferred"
                        /\ rep[r].cmd <= taken'[rep[r].of]
                        /\ main'.pc \in {"run", "handler"} =>
                             ~(Caller' = rep[r].of /\ Current' = rep[r].cmd)
    BY <1>3 DEF Dispatched, Live
  <2>2. /\ rep[r].cmd \in 1..Len(asked[rep[r].of])
        /\ asked[rep[r].of][rep[r].cmd] = "deferred"
        /\ rep[r].cmd <= taken[rep[r].of]
    BY <2>1 DEF HeldInv, Dispatched
  <2>3. rep[r].of \in Clients /\ rep[r].cmd \in Nat
    BY <2>1, ServerAssumption DEF ServeInv, Live
  <2>4. CASE rep[r].of = c
    BY <1>2, <1>4, <1>5, <2>2, <2>3, <2>4
  <2>5. CASE rep[r].of # c
    BY <1>4, <1>5, <2>2, <2>3, <2>5
  <2> QED BY <2>4, <2>5
<1> QED BY <1>6, <1>7 DEF HeldInv

LEMMA HeldHandler ==
  ASSUME TypeOK, ServeInv, HeldInv, Finish \/ \E r \in Reports : Defer(r)
  PROVE  HeldInv'
<1>0. /\ Serving /\ main.pc = "handler" /\ UNCHANGED <<asked, taken>>
      /\ main' = [main EXCEPT !.pc = "check"]
      /\ conn \in [Slots -> Conn] /\ rep \in [Reports -> Report]
  BY DEF Finish, Defer, Serving, TypeOK
<1>1. main'.pc = "check" /\ main.i \in Slots
  BY <1>0 DEF TypeOK, Server
<1>2. /\ Caller \in Clients /\ Current \in Nat /\ Current >= 1
      /\ Current <= Len(asked[Caller]) /\ Len(asked[Caller]) \in Nat
  <2>1. Current \in 1..main.upto
    BY <1>0 DEF ServeInv, Current
  <2> QED BY <1>0, <2>1, InHand
<1>3. \A t \in Reports : Live(t) /\ rep[t].i = main.i <=> t \in Unanswered
  BY DEF Unanswered, Live
<1>4. \A r \in Reports : rep[r].i \in Slots
  BY <1>0 DEF Report
<1>5. ASSUME NEW b \in BOOLEAN,
             conn' = [conn EXCEPT ![main.i] =
                        [conn[main.i] EXCEPT !.waiting_completion = b]]
      PROVE  /\ conn'[main.i].waiting_completion = b
             /\ conn'[main.i].s = conn[main.i].s
             /\ \A j \in Slots : j # main.i => conn'[j] = conn[j]
  <2>1. PICK k : k = [conn[main.i] EXCEPT !.waiting_completion = b]
    OBVIOUS
  <2>2. k.waiting_completion = b /\ k.s = conn[main.i].s
    BY <1>0, <1>1, <2>1 DEF Conn
  <2>3. conn' = [conn EXCEPT ![main.i] = k]
    BY <1>5, <2>1
  <2> QED BY <1>0, <1>1, <2>2, <2>3
<1>6. CASE Finish
  <2>1. rep' = rep
    BY <1>6 DEF Finish
  <2>2. CASE UNCHANGED <<conn, crossed>>
    BY <1>0, <1>1, <2>1, <2>2, HeldKept
  <2>3. CASE /\ conn' = [conn EXCEPT ![main.i] =
                           [conn[main.i] EXCEPT !.waiting_completion = FALSE]]
             /\ crossed' = crossed \cup Unanswered
    <3>1. \A r \in Reports \ crossed' :
            Live(r) => rep[r].i # main.i /\ r \notin crossed
      BY <1>3, <2>3
    <3>2. \A j \in Slots : j # main.i => conn'[j] = conn[j]
      BY <1>5, <2>3
    <3>3. Held'
      BY <1>3, <1>4, <2>1, <2>3, <3>1, <3>2 DEF HeldInv, Held, Live, Unanswered
    <3>4. Dispatched'
      BY <1>0, <1>1, <2>1 DEF HeldInv, Dispatched, Live
    <3> QED BY <3>3, <3>4 DEF HeldInv
  <2> QED BY <1>6, <2>2, <2>3 DEF Finish
<1>7. ASSUME NEW r \in Reports, Defer(r)
      PROVE  HeldInv'
  <2>1. Kind = "deferred" /\ ~Live(r)
    BY <1>7 DEF Defer, Live
  <2>2. crossed' = IF Unanswered = {} THEN crossed
                                      ELSE crossed \cup Unanswered \cup {r}
    BY <1>7 DEF Defer
  <2>3. /\ conn'[main.i].waiting_completion = TRUE
        /\ conn'[main.i].s = conn[main.i].s
        /\ \A j \in Slots : j # main.i => conn'[j] = conn[j]
    BY <1>5, <1>7 DEF Defer
  <2>4. PICK new : new = NewReport
    OBVIOUS
  <2>5. new.i = main.i /\ new.of = Caller /\ new.cmd = Current
    BY <2>4 DEF NewReport, NoReport
  <2>6. rep' = [rep EXCEPT ![r] = new]
    BY <1>7, <2>4 DEF Defer
  <2>7. rep'[r] = new /\ \A t \in Reports : t # r => rep'[t] = rep[t]
    BY <1>0, <2>6
  <2>8. Held'
    <3>1. \A t \in crossed' : rep'[t].pc # "none"
      <4>1. new.pc # "none"
        BY <2>4 DEF NewReport, NoReport
      <4>2. \A t \in crossed' : t = r \/ Live(t)
        BY <2>2 DEF HeldInv, Held, Unanswered, Live
      <4>3. crossed \subseteq Reports /\ Unanswered \subseteq Reports
        BY DEF TypeOK, Unanswered
      <4> QED BY <2>2, <2>7, <4>1, <4>2, <4>3 DEF Live
    <3>2. \A t \in Reports \ crossed' : rep'[t].pc # "none" =>
            /\ conn'[rep'[t].i].waiting_completion
            /\ conn'[rep'[t].i].s \in {rep'[t].of, NoClient}
      <4>1. TAKE t \in Reports \ crossed'
      <4>2. CASE t = r
        BY <2>3, <2>5, <2>7, <4>2 DEF Caller
      <4>3. CASE t # r
        <5>1. rep'[t] = rep[t] /\ t \notin crossed
          BY <2>2, <2>7, <4>3
        <5>2. Live(t) => rep[t].i # main.i
          BY <1>3, <2>2
        <5> QED BY <1>4, <2>3, <5>1, <5>2 DEF HeldInv, Held, Live
      <4> QED BY <4>2, <4>3
    <3>3. ASSUME NEW t \in Reports, NEW u \in Reports, t # u,
                 rep'[t].pc # "none", rep'[u].pc # "none",
                 rep'[t].i = rep'[u].i
          PROVE  t \in crossed'
      <4>1. CASE t = r
        <5>1. u \in Unanswered
          BY <1>3, <2>5, <2>7, <3>3, <4>1 DEF Live
        <5> QED BY <2>2, <4>1, <5>1
      <4>2. CASE u = r
        <5>1. t \in Unanswered
          BY <1>3, <2>5, <2>7, <3>3, <4>2 DEF Live
        <5> QED BY <2>2, <5>1
      <4>3. CASE t # r /\ u # r
        BY <2>2, <2>7, <3>3, <4>3 DEF HeldInv, Held, Live
      <4> QED BY <4>1, <4>2, <4>3
    <3> QED BY <3>1, <3>2, <3>3 DEF Held, Live
  <2>9. Dispatched'
    <3>1. SUFFICES ASSUME NEW t \in Reports, rep'[t].pc # "none"
                   PROVE  /\ rep'[t].cmd \in 1..Len(asked[rep'[t].of])
                          /\ asked[rep'[t].of][rep'[t].cmd] = "deferred"
                          /\ rep'[t].cmd <= taken[rep'[t].of]
      BY <1>0, <1>1 DEF Dispatched, Live
    <3>2. CASE t = r
      BY <1>2, <2>1, <2>5, <2>7, <3>2 DEF Kind, Current
    <3>3. CASE t # r
      BY <2>7, <3>1, <3>3 DEF HeldInv, Dispatched, Live
    <3> QED BY <3>2, <3>3
  <2> QED BY <2>8, <2>9 DEF HeldInv
<1> QED BY <1>6, <1>7

LEMMA HeldReport ==
  ASSUME TypeOK, ServeInv, HeldInv, NEW r \in Reports, ReportStep(r)
  PROVE  HeldInv'
<1>0. /\ UNCHANGED <<asked, taken, main>> /\ Live(r)
      /\ conn \in [Slots -> Conn] /\ rep \in [Reports -> Report]
      /\ \A t \in Reports : rep[t].i \in Slots
  <2>1. conn \in [Slots -> Conn] /\ rep \in [Reports -> Report]
    BY DEF TypeOK
  <2>2. \A t \in Reports : rep[t].i \in Slots
    BY <2>1 DEF Report
  <2> QED BY <2>1, <2>2
          DEF ReportStep, ReportWork, ReportSend, ReportLoad, ReportStore,
              ReportRelease, Live
<1>2. ASSUME UNCHANGED <<conn, crossed>>, NEW new,
             rep' = [rep EXCEPT ![r] = new], new.pc # "none",
             new.i = rep[r].i, new.of = rep[r].of, new.cmd = rep[r].cmd
      PROVE  HeldInv'
  <2>1. rep'[r] = new /\ \A t \in Reports : t # r => rep'[t] = rep[t]
    BY <1>0, <1>2
  <2>2. \A t \in Reports : /\ rep'[t].i = rep[t].i /\ rep'[t].of = rep[t].of
                           /\ rep'[t].cmd = rep[t].cmd
                           /\ rep'[t].pc # "none" <=> rep[t].pc # "none"
    BY <1>0, <1>2, <2>1 DEF Live
  <2>3. Held'
    BY <1>2, <2>2 DEF HeldInv, Held, Live
  <2>4. Caller' = Caller /\ Current' = Current
    BY <1>0, <1>2 DEF Caller, Current
  <2>5. Dispatched'
    BY <1>0, <2>2, <2>4 DEF HeldInv, Dispatched, Live
  <2> QED BY <2>3, <2>5 DEF HeldInv
<1>3. CASE ReportWork(r)
  <2>1. PICK p \in {"release", "send"} : rep' = [rep EXCEPT ![r] = [rep[r] EXCEPT !.pc = p]]
    BY <1>3 DEF ReportWork
  <2>2. PICK new : new = [rep[r] EXCEPT !.pc = p]
    OBVIOUS
  <2>3. /\ new.i = rep[r].i /\ new.of = rep[r].of /\ new.cmd = rep[r].cmd
        /\ new.pc # "none"
    BY <1>0, <2>2 DEF Report
  <2> QED BY <1>2, <1>3, <2>1, <2>2, <2>3 DEF ReportWork
<1>4. CASE ReportSend(r)
  <2>1. PICK new : new = [rep[r] EXCEPT !.pc = "load"]
    OBVIOUS
  <2>2. /\ new.i = rep[r].i /\ new.of = rep[r].of /\ new.cmd = rep[r].cmd
        /\ new.pc # "none"
    BY <1>0, <2>1 DEF Report
  <2> QED BY <1>2, <1>4, <2>1, <2>2 DEF ReportSend
<1>5. CASE ReportLoad(r)
  <2>1. PICK new : new = [rep[r] EXCEPT !.pc = "store", !.seen = response_sent]
    OBVIOUS
  <2>2. /\ new.i = rep[r].i /\ new.of = rep[r].of /\ new.cmd = rep[r].cmd
        /\ new.pc # "none"
    BY <1>0, <2>1 DEF Report
  <2> QED BY <1>2, <1>5, <2>1, <2>2 DEF ReportLoad
<1>6. CASE ReportStore(r)
  <2>1. PICK new : new = [rep[r] EXCEPT !.pc = "release", !.seen = 0]
    OBVIOUS
  <2>2. /\ new.i = rep[r].i /\ new.of = rep[r].of /\ new.cmd = rep[r].cmd
        /\ new.pc # "none"
    BY <1>0, <2>1 DEF Report
  <2> QED BY <1>2, <1>6, <2>1, <2>2 DEF ReportStore
<1>7. CASE ReportRelease(r)
  <2>1. rep' = [rep EXCEPT ![r] = NoReport]
    BY <1>7 DEF ReportRelease
  <2>2. \A t \in Reports : rep'[t].pc # "none" => t # r /\ rep'[t] = rep[t]
    BY <1>0, <2>1, Constants
  <2>3. \A t \in Reports \ crossed : t # r /\ Live(t) => rep[t].i # rep[r].i
    BY <1>0 DEF HeldInv, Held
  <2>4. PICK k : k = [conn[rep[r].i] EXCEPT !.waiting_completion = FALSE]
    OBVIOUS
  <2>5. conn' = [conn EXCEPT ![rep[r].i] = k] /\ k.s = conn[rep[r].i].s
    BY <1>0, <1>7, <2>4 DEF ReportRelease, Conn
  <2>6. /\ \A j \in Slots : j # rep[r].i => conn'[j] = conn[j]
        /\ \A j \in Slots : conn'[j].s = conn[j].s
    BY <1>0, <2>5
  <2>7. Held'
    <3>1. crossed' = crossed \ {r} /\ crossed \subseteq Reports
      BY <1>7 DEF ReportRelease, TypeOK
    <3>2. \A t \in crossed' : rep'[t].pc # "none"
      BY <1>0, <2>1, <3>1 DEF HeldInv, Held, Live
    <3>3. \A t \in Reports \ crossed' : rep'[t].pc # "none" =>
            t \notin crossed /\ conn'[rep'[t].i] = conn[rep[t].i]
      BY <1>0, <2>2, <2>3, <2>6, <3>1 DEF Live
    <3> QED BY <2>2, <3>1, <3>2, <3>3 DEF HeldInv, Held, Live
  <2>8. Dispatched'
    <3>1. main.pc \in {"run", "handler"} => Caller' = Caller /\ Current' = Current
      <4>1. main.i \in Slots
        BY DEF TypeOK, Server
      <4> QED BY <1>0, <2>6, <4>1 DEF Caller, Current
    <3> QED BY <1>0, <2>2, <3>1 DEF HeldInv, Dispatched, Live
  <2> QED BY <2>7, <2>8 DEF HeldInv
<1> QED BY <1>3, <1>4, <1>5, <1>6, <1>7 DEF ReportStep

LEMMA HeldStep ==
  ASSUME TypeOK, ServeInv, HeldInv, [Next]_vars
  PROVE  HeldInv'
<1>0. main \in Server
  BY DEF TypeOK
<1>1. CASE UNCHANGED vars
  BY <1>1, HeldKept DEF vars
<1>2. ASSUME NEW c \in Clients, ClientStep(c) PROVE HeldInv'
  <2>1. CASE Connect(c) \/ Leave(c)
    BY <2>1, HeldKept DEF Connect, Leave
  <2>2. CASE \E k \in Promise!Kinds : Ask(c, k)
    BY <2>2, HeldAsk
  <2> QED BY <1>2, <2>1, <2>2 DEF ClientStep
<1>3. CASE LoopTop \/ Select \/ NoAccept \/ ScanDone
  <2>1. UNCHANGED <<conn, asked, taken, rep, crossed>>
    BY <1>3 DEF LoopTop, Select, NoAccept, ScanDone
  <2>2. CASE LoopTop
    <3>1. PICK W : W = Watched
      OBVIOUS
    <3>2. \/ main' = [Top EXCEPT !.pc = "ended"]
          \/ main' = [Top EXCEPT !.pc = "select", !.fds = W]
      BY <2>2, <3>1 DEF LoopTop
    <3>3. main'.pc \in {"ended", "select"}
      BY <3>2, Constants DEF Server
    <3> QED BY <2>1, <3>3, HeldKept
  <2>3. CASE Select
    <3>1. PICK F : F = {f \in main.fds : Readable(f)}
      OBVIOUS
    <3>2. main'.pc = "accept"
      BY <1>0, <2>3, <3>1 DEF Select, Server
    <3> QED BY <2>1, <3>2, HeldKept
  <2>4. CASE NoAccept
    <3>1. main'.pc = "scan"
      BY <1>0, <2>4 DEF NoAccept, Server
    <3> QED BY <2>1, <3>1, HeldKept
  <2>5. CASE ScanDone
    BY <2>1, <2>5, Constants, HeldKept DEF ScanDone
  <2> QED BY <1>3, <2>2, <2>3, <2>4, <2>5
<1>4. CASE Term
  <2>1. UNCHANGED <<conn, asked, taken, rep, crossed>> /\ main' \in {main, Top}
    BY <1>4 DEF Term
  <2>2. CASE main' = main
    BY <2>1, <2>2, HeldKept
  <2>3. CASE main' = Top
    BY <2>1, <2>3, Constants, HeldKept
  <2> QED BY <2>1, <2>2, <2>3
<1>5. ASSUME NEW i \in Slots, Recv(i) PROVE HeldInv'
  <2>1. main'.pc = "cmd"
    BY <1>0, <1>5 DEF Recv, Server
  <2> QED BY <1>5, <2>1, HeldKept DEF Recv
<1>6. CASE Run
  <2>1. main.pc = "run" /\ main'.i = main.i
    BY <1>0, <1>6 DEF Run, Server
  <2> QED BY <1>6, <2>1, HeldKept DEF Run
<1>7. CASE Check
  <2>1. main'.pc \in {"cmd", "scan"}
    BY <1>7, GoOnTyped DEF Check
  <2> QED BY <1>7, <2>1, HeldKept DEF Check
<1> QED BY <1>1, <1>2, <1>3, <1>4, <1>5, <1>6, <1>7, HeldAccept, HeldClose,
           HeldCommand, HeldHandler, HeldReport
        DEF Next, ServerStep

(* A slot whose report thread has yet to answer is not given to another    *)
(* client, unless another command was left to a thread on the same slot:   *)
(* the final status of a traffic_agent_send goes to the client that asked  *)
(* for it or to nobody.                                                    *)
THEOREM SlotsAreHeld == Spec => []SlotHeld
<1>1. Init => TypeOK /\ ServeInv
  BY TypeInit
<1>2. Init => HeldInv
  BY HeldInit
<1>3. (TypeOK /\ ServeInv) /\ [Next]_vars => (TypeOK /\ ServeInv)'
  BY TypeStep
<1>4. (TypeOK /\ ServeInv /\ HeldInv) /\ [Next]_vars => HeldInv'
  BY HeldStep
<1>5. HeldInv => SlotHeld
  BY DEF HeldInv, Held, Live, SlotHeld
<1> QED BY <1>1, <1>2, <1>3, <1>4, <1>5, PTL DEF Spec

-----------------------------------------------------------------------------
(* Answers: CapiServer implements CapiPromise.                             *)

Has(q, l) == \E j \in 1..Len(q) : q[j] = l
LineOf(c, n, st) == [of |-> c, cmd |-> n, st |-> st]
Sts == {"RUNNING", "final"}

(* Command n of c has had no status line; or is run and still wants its    *)
(* final one.                                                              *)
Untouched(c, n) == \A st \in Sts : ~Has(inbox[c], LineOf(c, n, st))
Pending(c, n) ==
  /\ asked[c][n] # "bad"
  /\ ~Has(inbox[c], LineOf(c, n, "final"))
  /\ client[c] = "there" => Has(inbox[c], LineOf(c, n, "RUNNING"))

(* The command that is about to be run; those that the handler or a report *)
(* thread has to complete.                                                 *)
Begun(c, n) == main.pc = "run" /\ c = Caller /\ n = Current
Owed(c, n) ==
  \/ main.pc = "handler" /\ c = Caller /\ n = Current
  \/ \E r \in Reports :
       rep[r].pc \in {"work", "send"} /\ rep[r].of = c /\ rep[r].cmd = n

(* Nothing is sent for a command before it is run, one that somebody has   *)
(* to complete is pending, and no two threads complete the same.           *)
AnswerInv ==
  /\ \A c \in Clients : client[c] = "new" => Len(asked[c]) = 0
  /\ \A c \in Clients, n \in 1..MaxCmds :
       /\ n > taken[c] \/ Begun(c, n) => Untouched(c, n)
       /\ Begun(c, n) => asked[c][n] # "bad"
       /\ Owed(c, n) => Pending(c, n)
  /\ \A r, t \in Reports :
       Live(r) /\ Live(t) /\ rep[r].of = rep[t].of /\ rep[r].cmd = rep[t].cmd
         => r = t

(* Commands are taken in order: those that came before the one in hand     *)
(* have been put by, if their client is still there to know.               *)
PutBy(c, m) ==
  Has(inbox[c], LineOf(c, m, IF asked[c][m] = "deferred" THEN "RUNNING"
                                                         ELSE "final"))
Handled(c, m) == main.pc \in {"run", "handler"} /\ c = Caller /\ m = Current

OrderInv ==
  \A c \in Clients, m \in 1..MaxCmds :
    client[c] = "there" /\ m <= taken[c] => PutBy(c, m) \/ Handled(c, m)

LEMMA AnswerInit == Init => AnswerInv /\ Promise!Init
<1> SUFFICES ASSUME Init PROVE AnswerInv /\ Promise!Init
  OBVIOUS
<1>1. \A r \in Reports : ~Live(r) /\ rep[r].pc \notin {"work", "send"}
  BY Constants DEF Init, Live
<1>2. main.pc = "top"
  BY Constants DEF Init
<1>3. \A c \in Clients : Len(asked[c]) = 0 /\ Len(inbox[c]) = 0
  BY DEF Init
<1>4. \A c \in Clients, n \in 1..MaxCmds :
        Untouched(c, n) /\ ~Begun(c, n) /\ ~Owed(c, n)
  BY <1>1, <1>2, <1>3 DEF Untouched, Has, Begun, Owed
<1>5. AnswerInv
  BY <1>1, <1>3, <1>4 DEF AnswerInv
<1>6. Promise!Init
  BY DEF Init, Promise!Init
<1> QED BY <1>5, <1>6

LEMMA HasAppend ==
  ASSUME NEW S, NEW q \in Seq(S), NEW l \in S, NEW x
  PROVE  Has(Append(q, l), x) <=> Has(q, x) \/ x = l
<1>1. /\ Len(Append(q, l)) = Len(q) + 1 /\ Len(q) \in Nat
      /\ \A j \in 1..Len(q) : Append(q, l)[j] = q[j]
      /\ Append(q, l)[Len(q) + 1] = l
  OBVIOUS
<1> QED BY <1>1 DEF Has

(* A status line reaches the client that it is for, or nobody.             *)
LEMMA SentLine ==
  ASSUME TypeOK, NEW i \in Slots, NEW c \in Clients, NEW n \in 1..MaxCmds,
         NEW st \in Sts, conn[i].s \in {c, NoClient}, send_resp(i, c, n, st)
  PROVE  \E sent \in BOOLEAN :
           /\ sent = (conn[i].s = c /\ client[c] = "there")
           /\ sent => inbox' = [inbox EXCEPT ![c] =
                                  Append(inbox[c], LineOf(c, n, st))]
           /\ ~sent => inbox' = inbox
           /\ \A d \in Clients, m \in 1..MaxCmds, s \in Sts :
                Has(inbox'[d], LineOf(d, m, s)) <=>
                  \/ Has(inbox[d], LineOf(d, m, s))
                  \/ sent /\ d = c /\ m = n /\ s = st
<1>1. LineOf(c, n, st) \in Promise!Line /\ inbox \in [Clients -> Seq(Promise!Line)]
  BY DEF Promise!Line, LineOf, TypeOK, Sts
<1>2. NoClient \notin Clients
  BY ServerAssumption
<1>3. CASE conn[i].s = c /\ client[c] = "there"
  <2>1. inbox' = [inbox EXCEPT ![c] = Append(inbox[c], LineOf(c, n, st))]
    BY <1>2, <1>3 DEF send_resp, LineOf
  <2>2. ASSUME NEW d \in Clients, NEW m \in 1..MaxCmds, NEW s \in Sts
        PROVE  Has(inbox'[d], LineOf(d, m, s)) <=>
                 \/ Has(inbox[d], LineOf(d, m, s))
                 \/ d = c /\ m = n /\ s = st
    <3>1. CASE d # c
      <4>1. inbox'[d] = inbox[d]
        BY <1>1, <2>1, <3>1
      <4> QED BY <3>1, <4>1
    <3>2. CASE d = c
      <4>1. inbox'[d] = Append(inbox[c], LineOf(c, n, st))
        BY <1>1, <2>1, <3>2
      <4>2. inbox[c] \in Seq(Promise!Line)
        BY <1>1
      <4>3. Has(Append(inbox[c], LineOf(c, n, st)), LineOf(d, m, s)) <=>
              Has(inbox[c], LineOf(d, m, s)) \/ LineOf(d, m, s) = LineOf(c, n, st)
        BY <1>1, <4>2, HasAppend
      <4>4. LineOf(d, m, s) = LineOf(c, n, st) <=> d = c /\ m = n /\ s = st
        BY DEF LineOf
      <4> QED BY <3>2, <4>1, <4>3, <4>4
    <3> QED BY <3>1, <3>2
  <2> QED BY <1>3, <2>1, <2>2
<1>4. CASE ~(conn[i].s = c /\ client[c] = "there")
  <2>1. inbox' = inbox
    BY <1>2, <1>4 DEF send_resp
  <2> QED BY <1>4, <2>1
<1> QED BY <1>3, <1>4

LEMMA OwedAsked ==
  ASSUME TypeOK, ServeInv, HeldInv, NEW c \in Clients, NEW n \in 1..MaxCmds,
         Owed(c, n) \/ Begun(c, n)
  PROVE  n <= taken[c] /\ n <= Len(asked[c])
<1>1. CASE main.pc \in {"run", "handler"} /\ c = Caller /\ n = Current
  <2>1. n \in 1..main.upto /\ main.upto <= Len(asked[c]) /\ n = taken[c]
    BY <1>1 DEF ServeInv, Serving, Current
  <2>2. taken[c] \in Nat /\ main.upto \in Nat /\ Len(asked[c]) \in Nat
    BY <1>1, InHand DEF Serving
  <2> QED BY <2>1, <2>2
<1>2. CASE \E r \in Reports :
             rep[r].pc \in {"work", "send"} /\ rep[r].of = c /\ rep[r].cmd = n
  BY <1>2 DEF HeldInv, Dispatched, Live
<1> QED BY <1>1, <1>2 DEF Owed, Begun

(* One that reaches another client is none of that client's commands.      *)
LEMMA StrayLine ==
  ASSUME TypeOK, NEW i \in Slots, NEW c \in Clients, NEW n \in 1..MaxCmds,
         conn[i].s \notin {c, NoClient}, send_resp(i, c, n, "final"),
         asked' = asked, ~Has(inbox[c], LineOf(c, n, "final"))
  PROVE  /\ inbox' = inbox \/ Promise!Stray(conn[i].s, c, n)
         /\ \A d \in Clients, m \in 1..MaxCmds, s \in Sts :
              Has(inbox'[d], LineOf(d, m, s)) <=> Has(inbox[d], LineOf(d, m, s))
<1>1. PICK d : d = conn[i].s
  OBVIOUS
<1>2. d \in Clients /\ d # c /\ NoClient \notin Clients
  BY <1>1, SlotTyped, ServerAssumption
<1>3. LineOf(c, n, "final") \in Promise!Line /\ inbox \in [Clients -> Seq(Promise!Line)]
  BY DEF Promise!Line, LineOf, TypeOK
<1>4. CASE client[d] = "there"
  <2>1. inbox' = [inbox EXCEPT ![d] = Append(inbox[d], LineOf(c, n, "final"))]
    BY <1>1, <1>2, <1>4 DEF send_resp, LineOf
  <2>2. ~Promise!Seen(c, n, "final")
    BY DEF Promise!Seen, Has, LineOf
  <2>3. Promise!Stray(d, c, n)
    BY <1>2, <2>1, <2>2 DEF Promise!Stray, LineOf
  <2>4. ASSUME NEW x \in Clients, NEW m \in 1..MaxCmds, NEW s \in Sts
        PROVE  Has(inbox'[x], LineOf(x, m, s)) <=> Has(inbox[x], LineOf(x, m, s))
    <3>1. CASE x # d
      <4>1. inbox'[x] = inbox[x]
        BY <1>3, <2>1, <3>1
      <4> QED BY <4>1
    <3>2. CASE x = d
      <4>1. inbox'[x] = Append(inbox[x], LineOf(c, n, "final"))
        BY <1>3, <2>1, <3>2
      <4>2. inbox[x] \in Seq(Promise!Line)
        BY <1>3
      <4>3. Has(inbox'[x], LineOf(x, m, s)) <=>
              Has(inbox[x], LineOf(x, m, s)) \/ LineOf(x, m, s) = LineOf(c, n, "final")
        BY <1>3, <4>1, <4>2, HasAppend
      <4>4. LineOf(x, m, s) # LineOf(c, n, "final")
        BY <1>2, <3>2 DEF LineOf
      <4> QED BY <4>3, <4>4
    <3> QED BY <3>1, <3>2
  <2> QED BY <1>1, <2>3, <2>4
<1>5. CASE client[d] # "there"
  <2>1. inbox' = inbox
    BY <1>1, <1>5 DEF send_resp
  <2> QED BY <2>1
<1> QED BY <1>4, <1>5

(* Steps that send nothing and take no command.                            *)
LEMMA AnswerKept ==
  ASSUME TypeOK, ServeInv, HeldInv, AnswerInv, UNCHANGED <<asked, inbox, taken>>,
         \A c \in Clients : client'[c] = "new" => client[c] = "new",
         \A c \in Clients : Len(asked[c]) > 0 /\ client'[c] = "there"
                              => client[c] = "there",
         main'.pc \in {"run", "handler"} =>
           /\ main'.pc = main.pc /\ main'.i = main.i
           /\ conn'[main.i].s = conn[main.i].s,
         \A r \in Reports : Live(r)' =>
           Live(r) /\ rep'[r].of = rep[r].of /\ rep'[r].cmd = rep[r].cmd,
         \A r \in Reports : rep'[r].pc \in {"work", "send"} =>
           rep[r].pc \in {"work", "send"}
  PROVE  AnswerInv'
<1>1. ASSUME NEW c \in Clients, NEW n \in 1..MaxCmds
      PROVE  (Begun(c, n)' => Begun(c, n)) /\ (Owed(c, n)' => Owed(c, n))
  <2>1. main'.pc \in {"run", "handler"} => Caller' = Caller /\ Current' = Current
    BY DEF Caller, Current
  <2>2. Begun(c, n)' => Begun(c, n)
    BY <2>1 DEF Begun
  <2>3. ASSUME NEW r \in Reports, rep'[r].pc \in {"work", "send"},
               rep'[r].of = c, rep'[r].cmd = n
        PROVE  Owed(c, n)
    <3>1. rep[r].pc \in {"work", "send"} /\ Live(r)'
      BY <2>3 DEF Live
    <3> QED BY <2>3, <3>1 DEF Owed
  <2> QED BY <2>1, <2>2, <2>3 DEF Owed
<1>2. ASSUME NEW c \in Clients, NEW n \in 1..MaxCmds, Owed(c, n)
      PROVE  Pending(c, n)'
  <2>1. Len(asked[c]) \in Nat
    BY DEF TypeOK
  <2>2. Len(asked[c]) > 0
    BY <1>2, <2>1, OwedAsked
  <2>3. Pending(c, n)
    BY <1>2 DEF AnswerInv
  <2> QED BY <2>2, <2>3 DEF Pending
<1>3. \A c \in Clients, n \in 1..MaxCmds : Untouched(c, n) => Untouched(c, n)'
  BY DEF Untouched
<1> QED BY <1>1, <1>2, <1>3 DEF AnswerInv

(* A status line for one command changes nothing for the others.           *)
LEMMA OtherLines ==
  ASSUME TypeOK, NEW i \in Slots, NEW c \in Clients, NEW n \in 1..MaxCmds,
         NEW st \in Sts, conn[i].s \in {c, NoClient}, send_resp(i, c, n, st),
         UNCHANGED <<client, asked>>,
         NEW d \in Clients, NEW m \in 1..MaxCmds, ~(d = c /\ m = n)
  PROVE  /\ Untouched(d, m) => Untouched(d, m)'
         /\ Pending(d, m) => Pending(d, m)'
<1>1. \A s \in Sts : Has(inbox'[d], LineOf(d, m, s)) <=> Has(inbox[d], LineOf(d, m, s))
  BY SentLine
<1>2. "final" \in Sts /\ "RUNNING" \in Sts
  BY DEF Sts
<1> QED BY <1>1, <1>2 DEF Untouched, Pending

LEMMA AnswerAsk ==
  ASSUME TypeOK, ServeInv, HeldInv, AnswerInv, NEW c \in Clients,
         NEW k \in Promise!Kinds, Ask(c, k)
  PROVE  AnswerInv'
<1>1. UNCHANGED <<conn, client, taken, inbox, main, rep>>
  BY DEF Ask
<1>2. /\ client[c] = "there" /\ asked \in [Clients -> Seq(Promise!Kinds)]
      /\ asked' = [asked EXCEPT ![c] = Append(asked[c], k)]
  BY DEF Ask, TypeOK
<1>3. \A d \in Clients : client[d] = "new" => asked'[d] = asked[d]
  BY <1>2
<1>4. ASSUME NEW d \in Clients, NEW n \in 1..MaxCmds, n <= Len(asked[d])
      PROVE  asked'[d][n] = asked[d][n]
  <2>1. CASE d = c
    BY <1>2, <1>4, <2>1
  <2>2. CASE d # c
    BY <1>2, <2>2
  <2> QED BY <2>1, <2>2
<1>5. ASSUME NEW d \in Clients, NEW n \in 1..MaxCmds
      PROVE  /\ Begun(d, n)' <=> Begun(d, n)
             /\ Owed(d, n)' <=> Owed(d, n)
             /\ Untouched(d, n)' <=> Untouched(d, n)
  BY <1>1 DEF Begun, Owed, Untouched, Caller, Current
<1>6. ASSUME NEW d \in Clients, NEW n \in 1..MaxCmds, Owed(d, n)
      PROVE  Pending(d, n)'
  <2>1. asked'[d][n] = asked[d][n]
    BY <1>4, <1>6, OwedAsked
  <2>2. Pending(d, n)
    BY <1>6 DEF AnswerInv
  <2> QED BY <1>1, <2>1, <2>2 DEF Pending
<1>7. ASSUME NEW d \in Clients, NEW n \in 1..MaxCmds, Begun(d, n)
      PROVE  asked'[d][n] # "bad"
  BY <1>4, <1>7, OwedAsked DEF AnswerInv
<1>8. \A r \in Reports : Live(r)' <=> Live(r)
  BY <1>1 DEF Live
<1> QED BY <1>1, <1>3, <1>5, <1>6, <1>7, <1>8 DEF AnswerInv

(* The server thread takes, runs and answers the command in hand: the      *)
(* status lines it sends are those of a Reply.                             *)
LEMMA InHandAnswers ==
  ASSUME TypeOK, ServeInv, Serving
  PROVE  /\ main.i \in Slots /\ main \in Server
         /\ Caller \in Clients
         /\ conn[main.i].s \in {Caller, NoClient}
BY InHand DEF Caller, TypeOK

LEMMA ReplyStep ==
  ASSUME TypeOK, NEW i \in Slots, NEW c \in Clients, NEW n \in 1..MaxCmds,
         NEW st \in Sts, conn[i].s \in {c, NoClient}, send_resp(i, c, n, st),
         asked' = asked, n <= Len(asked[c]),
         ~Has(inbox[c], LineOf(c, n, "final")),
         st = "RUNNING" => /\ asked[c][n] # "bad"
                           /\ ~Has(inbox[c], LineOf(c, n, "RUNNING")),
         st = "final" => \/ asked[c][n] = "bad"
                         \/ client[c] = "there"
                              => Has(inbox[c], LineOf(c, n, "RUNNING")),
         client[c] = "there" => \A m \in 1..n - 1 : PutBy(c, m)
  PROVE  [Promise!Next]_(Promise!promise)
<1>1. PICK sent \in BOOLEAN :
        /\ sent = (conn[i].s = c /\ client[c] = "there")
        /\ sent => inbox' = [inbox EXCEPT ![c] =
                               Append(inbox[c], LineOf(c, n, st))]
        /\ ~sent => inbox' = inbox
  BY SentLine
<1>2. CASE ~sent
  BY <1>1, <1>2 DEF Promise!promise
<1>3. CASE sent
  <2>0. \A m \in 1..n - 1 : Promise!PutBy(c, m)
    BY <1>1, <1>3 DEF PutBy, Promise!PutBy, Promise!Seen, Has, LineOf
  <2>1. \A s : Promise!Seen(c, n, s) <=> Has(inbox[c], LineOf(c, n, s))
    BY DEF Promise!Seen, Has, LineOf
  <2>2. inbox' = [inbox EXCEPT ![c] =
                    Append(inbox[c], [of |-> c, cmd |-> n, st |-> st])]
    BY <1>1, <1>3 DEF LineOf
  <2>3. Promise!Reply(c, n, st)
    BY <1>1, <1>3, <2>0, <2>1, <2>2 DEF Promise!Reply, Sts
  <2>4. n \in 1..Len(asked[c])
    <3>1. Len(asked[c]) \in Nat
      BY DEF TypeOK
    <3> QED BY <3>1
  <2> QED BY <2>3, <2>4 DEF Promise!Next, Sts
<1> QED BY <1>2, <1>3

(* Commands before a command that was taken, or is to be taken next.       *)
LEMMA EarlierPutBy ==
  ASSUME TypeOK, OrderInv, NEW c \in Clients, NEW n \in 1..MaxCmds,
         \/ main.pc = "cmd" /\ n <= taken[c] + 1
         \/ n <= taken[c] /\ (main.pc \in {"run", "handler"} /\ c = Caller
                                => Current = taken[c])
  PROVE  client[c] = "there" => \A m \in 1..n - 1 : PutBy(c, m)
<1>1. taken[c] \in Nat /\ MaxCmds \in Nat /\ n \in Nat
  BY ServerAssumption DEF TypeOK
<1>2. SUFFICES ASSUME client[c] = "there", NEW m \in 1..n - 1 PROVE PutBy(c, m)
  OBVIOUS
<1>3. m \in 1..MaxCmds /\ m <= taken[c]
  BY <1>1
<1>4. ~Handled(c, m)
  BY <1>1 DEF Handled
<1> QED BY <1>2, <1>3, <1>4 DEF OrderInv

LEMMA AnswerCommand ==
  ASSUME TypeOK, ServeInv, HeldInv, AnswerInv, OrderInv, Command
  PROVE  AnswerInv' /\ [Promise!Next]_(Promise!promise)
<1>0. /\ Serving /\ main.pc = "cmd"
      /\ UNCHANGED <<conn, client, queue, asked, rep, stop_loop>>
  BY DEF Command, Serving
<1>1. PICK c : c = Caller
  OBVIOUS
<1>2. PICK n : n = taken[c] + 1
  OBVIOUS
<1>3. /\ c \in Clients /\ main.i \in Slots /\ main \in Server
      /\ conn[main.i].s \in {c, NoClient}
      /\ taken[c] \in Nat /\ n \in 1..MaxCmds /\ n <= Len(asked[c])
  <2>1. taken[c] < main.upto /\ main.upto <= Len(asked[c])
    BY <1>0, <1>1 DEF ServeInv
  <2>2. Len(asked[c]) \in Nat /\ main.upto \in Nat /\ taken[c] \in Nat
    BY <1>0, <1>1, InHand
  <2>3. n <= Len(asked[c])
    BY <1>2, <2>1, <2>2
  <2>4. n \in 1..MaxCmds
    BY <1>0, <1>1, <1>2, InHand
  <2> QED BY <1>0, <1>1, <2>2, <2>3, <2>4, InHandAnswers
<1>4. /\ taken' = [taken EXCEPT ![c] = n]
      /\ taken \in [Clients -> 0..MaxCmds]
  BY <1>1, <1>2 DEF Command, TypeOK
<1>5. Untouched(c, n)
  <2>1. n > taken[c]
    BY <1>2, <1>3
  <2> QED BY <1>3, <2>1 DEF AnswerInv
<1>6. \A d \in Clients, m \in 1..MaxCmds :
        m > taken'[d] => m > taken[d] /\ ~(d = c /\ m = n)
  BY <1>2, <1>3, <1>4
<1>7. ASSUME NEW d \in Clients, NEW m \in 1..MaxCmds, main'.pc # "handler",
             Owed(d, m)'
      PROVE  Owed(d, m) /\ ~(d = c /\ m = n)
  <2>1. Owed(d, m)
    BY <1>0, <1>7 DEF Owed
  <2>2. m <= taken[d]
    BY <2>1, OwedAsked
  <2> QED BY <1>2, <1>3, <2>1, <2>2
<1>8. \A r \in Reports : Live(r)' <=> Live(r)
  BY <1>0 DEF Live
<1>9. CASE asked[c][n] = "bad" /\ send_resp(main.i, c, n, "final") /\ GoOn(n)
  <2>1. main'.pc \in {"cmd", "scan"}
    BY <1>9, GoOnTyped
  <2>2. "final" \in Sts /\ "RUNNING" \in Sts
    BY DEF Sts
  <2>3. \A d \in Clients, m \in 1..MaxCmds : ~(d = c /\ m = n) =>
          /\ Untouched(d, m) => Untouched(d, m)'
          /\ Pending(d, m) => Pending(d, m)'
    BY <1>0, <1>3, <1>9, <2>2, OtherLines
  <2>4. \A d \in Clients, m \in 1..MaxCmds : ~Begun(d, m)'
    BY <2>1 DEF Begun
  <2>5. AnswerInv'
    BY <1>0, <1>6, <1>7, <1>8, <2>1, <2>3, <2>4 DEF AnswerInv
  <2>6. [Promise!Next]_(Promise!promise)
    <3>1. client[c] = "there" => \A m \in 1..n - 1 : PutBy(c, m)
      BY <1>0, <1>2, <1>3, EarlierPutBy
    <3> QED BY <1>0, <1>3, <1>5, <1>9, <2>2, <3>1, ReplyStep DEF Untouched
  <2> QED BY <2>5, <2>6
<1>10. CASE /\ asked[c][n] # "bad"
            /\ main' = [main EXCEPT !.pc = "run"]
            /\ UNCHANGED inbox
  <2>1. main'.pc = "run" /\ main'.i = main.i
    BY <1>3, <1>10 DEF Server
  <2>2. Caller' = c /\ Current' = n
    BY <1>0, <1>1, <1>3, <1>4, <2>1 DEF Caller, Current
  <2>3. \A d \in Clients, m \in 1..MaxCmds :
          Begun(d, m)' => d = c /\ m = n
    BY <2>2 DEF Begun
  <2>4. \A d \in Clients, m \in 1..MaxCmds :
          /\ Untouched(d, m) => Untouched(d, m)'
          /\ Pending(d, m) => Pending(d, m)'
    BY <1>0, <1>10 DEF Untouched, Pending
  <2>5. AnswerInv'
    BY <1>0, <1>5, <1>6, <1>7, <1>8, <1>10, <2>1, <2>3, <2>4 DEF AnswerInv
  <2>6. [Promise!Next]_(Promise!promise)
    BY <1>0, <1>10 DEF Promise!promise
  <2> QED BY <2>5, <2>6
<1>11. \/ asked[c][n] = "bad" /\ send_resp(main.i, c, n, "final") /\ GoOn(n)
       \/ /\ asked[c][n] # "bad"
          /\ main' = [main EXCEPT !.pc = "run"]
          /\ UNCHANGED inbox
  BY <1>1, <1>2 DEF Command
<1> QED BY <1>9, <1>10, <1>11

LEMMA AnswerRun ==
  ASSUME TypeOK, ServeInv, HeldInv, AnswerInv, OrderInv, Run
  PROVE  AnswerInv' /\ [Promise!Next]_(Promise!promise)
<1>0. /\ Serving /\ main.pc = "run"
      /\ UNCHANGED <<conn, client, queue, asked, taken, rep, stop_loop>>
      /\ "final" \in Sts /\ "RUNNING" \in Sts
  BY DEF Run, Serving, Sts
<1>1. PICK c : c = Caller
  OBVIOUS
<1>2. PICK n : n = Current
  OBVIOUS
<1>3. /\ c \in Clients /\ n \in 1..MaxCmds /\ main.i \in Slots
      /\ main \in Server /\ conn[main.i].s = c
  BY <1>0, <1>1, <1>2, InHand, InHandAnswers DEF Caller
<1>4. send_resp(main.i, c, n, "RUNNING")
  BY <1>1, <1>2 DEF Run
<1>5. /\ Begun(c, n) /\ Untouched(c, n) /\ asked[c][n] # "bad"
      /\ n <= taken[c] /\ n <= Len(asked[c])
  <2>1. Begun(c, n)
    BY <1>0, <1>1, <1>2 DEF Begun
  <2> QED BY <1>3, <2>1, OwedAsked DEF AnswerInv
<1>6. main'.pc = "handler" /\ main'.i = main.i
  BY <1>3 DEF Run, Server
<1>7. Caller' = c /\ Current' = n
  BY <1>0, <1>1, <1>2, <1>6 DEF Caller, Current
<1>8. \A d \in Clients, m \in 1..MaxCmds : ~(d = c /\ m = n) =>
        /\ Untouched(d, m) => Untouched(d, m)'
        /\ Pending(d, m) => Pending(d, m)'
  BY <1>0, <1>3, <1>4, OtherLines
<1>9. Pending(c, n)'
  <2>1. \A s \in Sts :
          Has(inbox'[c], LineOf(c, n, s)) <=>
            \/ Has(inbox[c], LineOf(c, n, s))
            \/ client[c] = "there" /\ s = "RUNNING"
    BY <1>0, <1>3, <1>4, SentLine
  <2> QED BY <1>0, <1>5, <2>1 DEF Pending, Untouched
<1>10. \A d \in Clients, m \in 1..MaxCmds : ~Begun(d, m)'
  BY <1>6 DEF Begun
<1>11. \A d \in Clients, m \in 1..MaxCmds :
         m > taken'[d] => m > taken[d] /\ ~(d = c /\ m = n)
  <2>1. taken[c] \in Nat
    BY <1>0, <1>1, InHand
  <2> QED BY <1>0, <1>3, <1>5, <2>1
<1>12. \A d \in Clients, m \in 1..MaxCmds :
         Owed(d, m)' => (d = c /\ m = n) \/ Owed(d, m)
  BY <1>0, <1>7 DEF Owed
<1>13. \A r \in Reports : Live(r)' <=> Live(r)
  BY <1>0 DEF Live
<1>14. AnswerInv'
  <2>1. \A d \in Clients, m \in 1..MaxCmds : Owed(d, m)' => Pending(d, m)'
    BY <1>8, <1>9, <1>12 DEF AnswerInv
  <2> QED BY <1>0, <1>8, <1>10, <1>11, <1>13, <2>1 DEF AnswerInv
<1>15. [Promise!Next]_(Promise!promise)
  <2>1. client[c] = "there" => \A m \in 1..n - 1 : PutBy(c, m)
    BY <1>1, <1>3, <1>5, EarlierPutBy DEF Current
  <2> QED BY <1>0, <1>3, <1>4, <1>5, <2>1, ReplyStep DEF Untouched
<1> QED BY <1>14, <1>15

(* The handler answers, or leaves the command to a report thread.          *)
LEMMA AnswerHandler ==
  ASSUME TypeOK, ServeInv, HeldInv, AnswerInv, OrderInv,
         Finish \/ \E r \in Reports : Defer(r)
  PROVE  AnswerInv' /\ [Promise!Next]_(Promise!promise)
<1>0. /\ Serving /\ main.pc = "handler"
      /\ UNCHANGED <<client, queue, asked, taken, stop_loop>>
      /\ main' = [main EXCEPT !.pc = "check"]
      /\ "final" \in Sts /\ "RUNNING" \in Sts
  BY DEF Finish, Defer, Serving, Sts
<1>1. PICK c : c = Caller
  OBVIOUS
<1>2. PICK n : n = Current
  OBVIOUS
<1>3. /\ c \in Clients /\ n \in 1..MaxCmds /\ main.i \in Slots
      /\ main \in Server /\ conn[main.i].s = c
  BY <1>0, <1>1, <1>2, InHand, InHandAnswers DEF Caller
<1>4. Pending(c, n) /\ n <= taken[c] /\ n <= Len(asked[c])
  <2>1. Owed(c, n)
    BY <1>0, <1>1, <1>2 DEF Owed
  <2> QED BY <1>3, <2>1, OwedAsked DEF AnswerInv
<1>5. main'.pc = "check"
  BY <1>0, <1>3 DEF Server
<1>6. \A d \in Clients, m \in 1..MaxCmds : ~Begun(d, m)'
  BY <1>5 DEF Begun
<1>7. \A r \in Reports : Live(r) => ~(rep[r].of = c /\ rep[r].cmd = n)
  BY <1>0, <1>1, <1>2 DEF HeldInv, Dispatched
<1>8. \A d \in Clients, m \in 1..MaxCmds :
        m > taken'[d] => m > taken[d] /\ ~(d = c /\ m = n)
  <2>1. taken[c] \in Nat
    BY <1>0, <1>1, InHand
  <2> QED BY <1>0, <1>3, <1>4, <2>1
<1>9. CASE Finish
  <2>1. send_resp(main.i, c, n, "final") /\ rep' = rep
    BY <1>1, <1>2, <1>9 DEF Finish
  <2>2. \A d \in Clients, m \in 1..MaxCmds : ~(d = c /\ m = n) =>
          /\ Untouched(d, m) => Untouched(d, m)'
          /\ Pending(d, m) => Pending(d, m)'
    BY <1>0, <1>3, <2>1, OtherLines
  <2>3. ASSUME NEW d \in Clients, NEW m \in 1..MaxCmds, Owed(d, m)'
        PROVE  Owed(d, m) /\ ~(d = c /\ m = n)
    <3>1. PICK r \in Reports :
            rep[r].pc \in {"work", "send"} /\ rep[r].of = d /\ rep[r].cmd = m
      BY <1>5, <2>1, <2>3 DEF Owed
    <3>2. Live(r)
      BY <3>1 DEF Live
    <3> QED BY <1>7, <3>1, <3>2 DEF Owed
  <2>4. \A r \in Reports : Live(r)' <=> Live(r)
    BY <2>1 DEF Live
  <2>5. AnswerInv'
    BY <1>0, <1>6, <1>8, <2>1, <2>2, <2>3, <2>4 DEF AnswerInv
  <2>6. [Promise!Next]_(Promise!promise)
    <3>1. client[c] = "there" => \A m \in 1..n - 1 : PutBy(c, m)
      BY <1>1, <1>3, <1>4, EarlierPutBy DEF Current
    <3> QED BY <1>0, <1>3, <1>4, <2>1, <3>1, ReplyStep DEF Pending
  <2> QED BY <2>5, <2>6
<1>10. ASSUME NEW r \in Reports, Defer(r)
       PROVE  AnswerInv' /\ [Promise!Next]_(Promise!promise)
  <2>1. inbox' = inbox /\ ~Live(r) /\ rep \in [Reports -> Report]
    BY <1>10 DEF Defer, Live, TypeOK
  <2>2. PICK new : new = NewReport
    OBVIOUS
  <2>3. new.of = c /\ new.cmd = n
    BY <1>1, <1>2, <2>2 DEF NewReport, NoReport
  <2>4. rep' = [rep EXCEPT ![r] = new]
    BY <1>10, <2>2 DEF Defer
  <2>5. rep'[r] = new /\ \A t \in Reports : t # r => rep'[t] = rep[t]
    BY <2>1, <2>4
  <2>6. \A d \in Clients, m \in 1..MaxCmds :
          /\ Untouched(d, m) => Untouched(d, m)'
          /\ Pending(d, m) => Pending(d, m)'
    BY <1>0, <2>1 DEF Untouched, Pending
  <2>7. ASSUME NEW d \in Clients, NEW m \in 1..MaxCmds, Owed(d, m)'
        PROVE  Pending(d, m)
    <3>1. PICK t \in Reports :
            rep'[t].pc \in {"work", "send"} /\ rep'[t].of = d /\ rep'[t].cmd = m
      BY <1>5, <2>7 DEF Owed
    <3>2. CASE t = r
      BY <1>4, <2>3, <2>5, <3>1, <3>2
    <3>3. CASE t # r
      BY <2>5, <3>1, <3>3 DEF Owed, AnswerInv
    <3> QED BY <3>2, <3>3
  <2>8. ASSUME NEW t \in Reports, NEW u \in Reports, Live(t)', Live(u)',
               rep'[t].of = rep'[u].of, rep'[t].cmd = rep'[u].cmd
        PROVE  t = u
    <3>1. CASE t # r /\ u # r
      BY <2>5, <2>8, <3>1 DEF Live, AnswerInv
    <3>2. CASE t = r /\ u # r
      BY <1>7, <2>3, <2>5, <2>8, <3>2 DEF Live
    <3>3. CASE t # r /\ u = r
      BY <1>7, <2>3, <2>5, <2>8, <3>3 DEF Live
    <3> QED BY <3>1, <3>2, <3>3
  <2>9. AnswerInv'
    BY <1>0, <1>6, <1>8, <2>6, <2>7, <2>8 DEF AnswerInv
  <2>10. [Promise!Next]_(Promise!promise)
    BY <1>0, <2>1 DEF Promise!promise
  <2> QED BY <2>9, <2>10
<1> QED BY <1>9, <1>10

(* What a step tells the clients: what CapiPromise says, or a line that    *)
(* went astray.                                                            *)
Told ==
  [\/ Promise!Next
   \/ \E r \in crossed :
        /\ rep[r].pc = "send"
        /\ Promise!Stray(conn[rep[r].i].s, rep[r].of, rep[r].cmd)
  ]_<<asked, inbox>>

LEMMA PromiseTold == [Promise!Next]_(Promise!promise) => Told
BY DEF Told, Promise!promise

(* A report thread answers the command it was given.                       *)
LEMMA AnswerReport ==
  ASSUME TypeOK, ServeInv, HeldInv, AnswerInv, OrderInv,
         NEW r \in Reports, ReportStep(r)
  PROVE  AnswerInv' /\ Told
<1>0. /\ UNCHANGED <<client, asked, taken, main>> /\ Live(r)
      /\ conn \in [Slots -> Conn] /\ rep \in [Reports -> Report]
      /\ \A t \in Reports : rep[t].i \in Slots
      /\ main.i \in Slots
  <2>1. /\ conn \in [Slots -> Conn] /\ rep \in [Reports -> Report]
        /\ main \in Server
    BY DEF TypeOK
  <2>2. \A t \in Reports : rep[t].i \in Slots
    BY <2>1 DEF Report
  <2>3. main.i \in Slots
    BY <2>1 DEF Server
  <2> QED BY <2>1, <2>2, <2>3
          DEF ReportStep, ReportWork, ReportSend, ReportLoad, ReportStore,
              ReportRelease, Live
(* The steps that do not send.                                             *)
<1>1. ASSUME NEW new, rep' = [rep EXCEPT ![r] = new], inbox' = inbox,
             new.pc # "none" => new.of = rep[r].of /\ new.cmd = rep[r].cmd,
             new.pc \in {"work", "send"} => rep[r].pc \in {"work", "send"},
             \A j \in Slots : conn'[j].s = conn[j].s
      PROVE  AnswerInv' /\ Told
  <2>1. rep'[r] = new /\ \A t \in Reports : t # r => rep'[t] = rep[t]
    BY <1>0, <1>1
  <2>2. \A t \in Reports : Live(t)' =>
          Live(t) /\ rep'[t].of = rep[t].of /\ rep'[t].cmd = rep[t].cmd
    BY <1>0, <1>1, <2>1 DEF Live
  <2>3. \A t \in Reports : rep'[t].pc \in {"work", "send"} =>
          rep[t].pc \in {"work", "send"}
    BY <1>1, <2>1
  <2>4. AnswerInv'
    BY <1>0, <1>1, <2>2, <2>3, AnswerKept
  <2>5. Told
    BY <1>0, <1>1 DEF Told
  <2> QED BY <2>4, <2>5
<1>2. CASE ReportWork(r)
  <2>1. PICK new : new = [rep[r] EXCEPT !.pc =
                            IF conn[rep[r].i].s = NoClient THEN "release" ELSE "send"]
    OBVIOUS
  <2>2. new.of = rep[r].of /\ new.cmd = rep[r].cmd
    BY <1>0, <2>1 DEF Report
  <2>3. rep[r].pc \in {"work", "send"} /\ rep' = [rep EXCEPT ![r] = new]
    BY <1>2, <2>1 DEF ReportWork
  <2>4. inbox' = inbox /\ conn' = conn
    BY <1>2 DEF ReportWork
  <2> QED BY <1>1, <2>2, <2>3, <2>4
<1>3. CASE ReportLoad(r)
  <2>1. PICK new : new = [rep[r] EXCEPT !.pc = "store", !.seen = response_sent]
    OBVIOUS
  <2>2. new.of = rep[r].of /\ new.cmd = rep[r].cmd /\ new.pc = "store"
    BY <1>0, <2>1 DEF Report
  <2>3. rep' = [rep EXCEPT ![r] = new]
    BY <1>3, <2>1 DEF ReportLoad
  <2>4. inbox' = inbox /\ conn' = conn
    BY <1>3 DEF ReportLoad
  <2> QED BY <1>1, <2>2, <2>3, <2>4
<1>4. CASE ReportStore(r)
  <2>1. PICK new : new = [rep[r] EXCEPT !.pc = "release", !.seen = 0]
    OBVIOUS
  <2>2. new.of = rep[r].of /\ new.cmd = rep[r].cmd /\ new.pc = "release"
    BY <1>0, <2>1 DEF Report
  <2>3. rep' = [rep EXCEPT ![r] = new]
    BY <1>4, <2>1 DEF ReportStore
  <2>4. inbox' = inbox /\ conn' = conn
    BY <1>4 DEF ReportStore
  <2> QED BY <1>1, <2>2, <2>3, <2>4
<1>5. CASE ReportRelease(r)
  <2>1. rep' = [rep EXCEPT ![r] = NoReport] /\ inbox' = inbox
    BY <1>5 DEF ReportRelease
  <2>2. \A j \in Slots : conn'[j].s = conn[j].s
    <3>1. conn' = [conn EXCEPT ![rep[r].i] =
                     [conn[rep[r].i] EXCEPT !.waiting_completion = FALSE]]
      BY <1>5 DEF ReportRelease
    <3> QED BY <1>0, <3>1, FlagTyped
  <2>3. NoReport.pc \notin {"work", "send"} /\ NoReport.pc = "none"
    BY Constants
  <2> QED BY <1>1, <2>1, <2>2, <2>3
<1>6. CASE ReportSend(r)
  <2>1. PICK c : c = rep[r].of
    OBVIOUS
  <2>2. PICK n : n = rep[r].cmd
    OBVIOUS
  <2>3. PICK new : new = [rep[r] EXCEPT !.pc = "load"]
    OBVIOUS
  <2>4. new.of = c /\ new.cmd = n /\ new.pc = "load"
    BY <1>0, <2>1, <2>2, <2>3 DEF Report
  <2>5. /\ send_resp(rep[r].i, c, n, "final")
        /\ rep' = [rep EXCEPT ![r] = new]
        /\ rep[r].pc = "send" /\ conn' = conn
    BY <1>6, <2>1, <2>2, <2>3 DEF ReportSend
  <2>6. rep'[r] = new /\ \A t \in Reports : t # r => rep'[t] = rep[t]
    BY <1>0, <2>5
  <2>7. /\ c \in Clients /\ n \in 1..MaxCmds
        /\ conn[rep[r].i].s \in {c, NoClient} \/ r \in crossed
        /\ "final" \in Sts
    BY <1>0, <2>1, <2>2, ReportsTyped DEF HeldInv, Held, Live, Sts
  <2>8. Owed(c, n)
    BY <2>1, <2>2, <2>5 DEF Owed
  <2>9. Pending(c, n) /\ n <= taken[c] /\ n <= Len(asked[c]) /\ taken[c] \in Nat
    <3>1. taken[c] \in Nat
      BY <2>7, ServerAssumption DEF TypeOK
    <3> QED BY <2>7, <2>8, <3>1, OwedAsked DEF AnswerInv
  <2>10. main.pc \in {"run", "handler"} => ~(Caller = c /\ Current = n)
    BY <1>0, <2>1, <2>2 DEF HeldInv, Dispatched
  <2>11. \A d \in Clients, m \in 1..MaxCmds : ~(d = c /\ m = n) =>
           /\ Untouched(d, m) => Untouched(d, m)'
           /\ Pending(d, m) => Pending(d, m)'
    <3>1. CASE conn[rep[r].i].s \in {c, NoClient}
      BY <1>0, <2>5, <2>7, <3>1, OtherLines
    <3>2. CASE conn[rep[r].i].s \notin {c, NoClient}
      <4>1. \A d \in Clients, m \in 1..MaxCmds, s \in Sts :
              Has(inbox'[d], LineOf(d, m, s)) <=> Has(inbox[d], LineOf(d, m, s))
        BY <1>0, <2>5, <2>7, <2>9, <3>2, StrayLine DEF Pending
      <4> QED BY <1>0, <4>1 DEF Untouched, Pending, Sts
    <3> QED BY <3>1, <3>2
  <2>12. Caller' = Caller /\ Current' = Current
    BY <1>0, <2>5 DEF Caller, Current
  <2>13. ASSUME NEW d \in Clients, NEW m \in 1..MaxCmds, Owed(d, m)'
         PROVE  Owed(d, m) /\ ~(d = c /\ m = n)
    <3>1. CASE main'.pc = "handler" /\ d = Caller' /\ m = Current'
      BY <1>0, <2>10, <2>12, <3>1 DEF Owed
    <3>2. ASSUME NEW t \in Reports, rep'[t].pc \in {"work", "send"},
                 rep'[t].of = d, rep'[t].cmd = m
          PROVE  Owed(d, m) /\ ~(d = c /\ m = n)
      <4>1. t # r
        BY <2>4, <2>6, <3>2
      <4>2. rep[t].pc \in {"work", "send"} /\ rep[t].of = d /\ rep[t].cmd = m
        BY <2>6, <3>2, <4>1
      <4>3. Live(t)
        BY <4>2 DEF Live
      <4>4. ~(d = c /\ m = n)
        BY <1>0, <2>1, <2>2, <4>1, <4>2, <4>3 DEF AnswerInv
      <4> QED BY <4>2, <4>4 DEF Owed
    <3> QED BY <2>13, <3>1, <3>2 DEF Owed
  <2>14. \A d \in Clients, m \in 1..MaxCmds :
           /\ Begun(d, m)' <=> Begun(d, m)
           /\ m > taken[d] \/ Begun(d, m) => ~(d = c /\ m = n)
    BY <1>0, <2>7, <2>9, <2>10, <2>12 DEF Begun
  <2>15. ASSUME NEW t \in Reports, NEW u \in Reports, Live(t)', Live(u)',
                rep'[t].of = rep'[u].of, rep'[t].cmd = rep'[u].cmd
         PROVE  t = u
    <3>1. \A v \in Reports : rep'[v].of = rep[v].of /\ rep'[v].cmd = rep[v].cmd
      BY <2>1, <2>2, <2>4, <2>6
    <3>2. \A v \in Reports : Live(v)' => Live(v)
      BY <1>0, <2>6 DEF Live
    <3> QED BY <2>15, <3>1, <3>2 DEF AnswerInv
  <2>16. AnswerInv'
    BY <1>0, <2>11, <2>13, <2>14, <2>15 DEF AnswerInv
  <2>17. Told
    <3>1. CASE conn[rep[r].i].s \in {c, NoClient}
      <4>1. client[c] = "there" => \A m \in 1..n - 1 : PutBy(c, m)
        BY <2>7, <2>9, EarlierPutBy DEF Current
      <4>2. [Promise!Next]_(Promise!promise)
        BY <1>0, <2>5, <2>7, <2>9, <3>1, <4>1, ReplyStep DEF Pending
      <4> QED BY <4>2, PromiseTold
    <3>2. CASE conn[rep[r].i].s \notin {c, NoClient}
      <4>1. inbox' = inbox \/ Promise!Stray(conn[rep[r].i].s, c, n)
        BY <1>0, <2>5, <2>7, <2>9, <3>2, StrayLine DEF Pending
      <4> QED BY <1>0, <2>1, <2>2, <2>5, <2>7, <3>2, <4>1 DEF Told
    <3> QED BY <3>1, <3>2
  <2> QED BY <2>16, <2>17
<1> QED BY <1>2, <1>3, <1>4, <1>5, <1>6 DEF ReportStep

(* Steps of the clients and of the loop between commands.                  *)
LEMMA AnswerQuiet ==
  ASSUME TypeOK, ServeInv, HeldInv, AnswerInv,
         UNCHANGED <<asked, inbox, taken, rep>>,
         \A c \in Clients :
           client'[c] = client[c] \/ client[c] = "new" \/ client'[c] = "gone",
         \A c \in Clients : client'[c] = "new" => client[c] = "new",
         main'.pc \in {"run", "handler"} => UNCHANGED <<main, conn>>
  PROVE  AnswerInv' /\ [Promise!Next]_(Promise!promise)
<1>1. \A c \in Clients : Len(asked[c]) > 0 /\ client'[c] = "there"
                           => client[c] = "there"
  BY DEF AnswerInv
<1>2. \A r \in Reports : Live(r)' <=> Live(r)
  BY DEF Live
<1>3. AnswerInv'
  BY <1>1, <1>2, AnswerKept
<1>4. [Promise!Next]_(Promise!promise)
  BY DEF Promise!promise
<1> QED BY <1>3, <1>4

LEMMA AnswerClient ==
  ASSUME TypeOK, ServeInv, HeldInv, AnswerInv, NEW c \in Clients, ClientStep(c)
  PROVE  AnswerInv' /\ [Promise!Next]_(Promise!promise)
<1>1. client \in [Clients -> {"new", "there", "gone"}]
  BY DEF TypeOK
<1>2. CASE Connect(c)
  <2>1. \A d \in Clients : client'[d] = IF d = c THEN "there" ELSE client[d]
    BY <1>1, <1>2 DEF Connect
  <2>2. client[c] = "new"
    BY <1>2 DEF Connect
  <2>3. UNCHANGED <<asked, inbox, taken, rep, main, conn>>
    BY <1>2 DEF Connect
  <2> QED BY <2>1, <2>2, <2>3, AnswerQuiet
<1>3. CASE Leave(c)
  <2>1. \A d \in Clients : client'[d] = IF d = c THEN "gone" ELSE client[d]
    BY <1>1, <1>3 DEF Leave
  <2>2. UNCHANGED <<asked, inbox, taken, rep, main, conn>>
    BY <1>3 DEF Leave
  <2> QED BY <2>1, <2>2, AnswerQuiet
<1>4. ASSUME NEW k \in Promise!Kinds, Ask(c, k)
      PROVE  AnswerInv' /\ [Promise!Next]_(Promise!promise)
  <2>1. Promise!Ask(c)
    BY <1>4 DEF Ask, Promise!Ask
  <2>2. [Promise!Next]_(Promise!promise)
    BY <2>1 DEF Promise!Next
  <2> QED BY <1>4, <2>2, AnswerAsk
<1> QED BY <1>2, <1>3, <1>4 DEF ClientStep

LEMMA AnswerLoop ==
  ASSUME TypeOK, ServeInv, HeldInv, AnswerInv,
         \/ LoopTop \/ Select \/ Accept \/ NoAccept \/ ScanDone \/ Term \/ Check
         \/ \E i \in Slots : Close(i) \/ Recv(i)
  PROVE  AnswerInv' /\ [Promise!Next]_(Promise!promise)
<1>0. main \in Server /\ client \in [Clients -> {"new", "there", "gone"}]
  BY DEF TypeOK
<1>1. CASE LoopTop
  <2>1. PICK W : W = Watched
    OBVIOUS
  <2>2. \/ main' = [Top EXCEPT !.pc = "ended"]
        \/ main' = [Top EXCEPT !.pc = "select", !.fds = W]
    BY <1>1, <2>1 DEF LoopTop
  <2>3. main'.pc \in {"ended", "select"}
    BY <2>2, Constants DEF Server
  <2>4. UNCHANGED <<asked, inbox, taken, rep, client>>
    BY <1>1 DEF LoopTop
  <2> QED BY <2>3, <2>4, AnswerQuiet
<1>2. CASE Select
  <2>1. PICK F : F = {f \in main.fds : Readable(f)}
    OBVIOUS
  <2>2. main'.pc = "accept"
    BY <1>0, <1>2, <2>1 DEF Select, Server
  <2>3. UNCHANGED <<asked, inbox, taken, rep, client>>
    BY <1>2 DEF Select
  <2> QED BY <2>2, <2>3, AnswerQuiet
<1>3. CASE Accept
  <2>1. main' = Top \/ main' = [main EXCEPT !.pc = "scan"]
    BY <1>3 DEF Accept
  <2>2. main'.pc \in {"top", "scan"}
    BY <1>0, <2>1, Constants DEF Server
  <2>3. \/ client' = client
        \/ \E c \in queue : client' = [client EXCEPT ![c] = "gone"]
    BY <1>3 DEF Accept
  <2>4. \A d \in Clients : client'[d] \in {client[d], "gone"}
    BY <1>0, <2>3
  <2>5. UNCHANGED <<asked, inbox, taken, rep>>
    BY <1>3 DEF Accept
  <2> QED BY <2>2, <2>4, <2>5, AnswerQuiet
<1>4. CASE NoAccept
  <2>1. main'.pc = "scan"
    BY <1>0, <1>4 DEF NoAccept, Server
  <2>2. UNCHANGED <<asked, inbox, taken, rep, client>>
    BY <1>4 DEF NoAccept
  <2> QED BY <2>1, <2>2, AnswerQuiet
<1>5. CASE ScanDone
  <2>1. main'.pc = "top"
    BY <1>5, Constants DEF ScanDone
  <2>2. UNCHANGED <<asked, inbox, taken, rep, client>>
    BY <1>5 DEF ScanDone
  <2> QED BY <2>1, <2>2, AnswerQuiet
<1>6. CASE Term
  <2>1. UNCHANGED <<asked, inbox, taken, rep, client, conn>>
        /\ main' \in {main, Top}
    BY <1>6 DEF Term
  <2>2. main' = main \/ main'.pc = "top"
    BY <2>1, Constants
  <2> QED BY <2>1, <2>2, AnswerQuiet
<1>7. CASE Check
  <2>1. main'.pc \in {"cmd", "scan"}
    BY <1>7, GoOnTyped DEF Check
  <2>2. UNCHANGED <<asked, inbox, taken, rep, client>>
    BY <1>7 DEF Check
  <2> QED BY <2>1, <2>2, AnswerQuiet
<1>8. ASSUME NEW i \in Slots, Close(i)
      PROVE  AnswerInv' /\ [Promise!Next]_(Promise!promise)
  <2>1. PICK F : F = main.fds \ {i}
    OBVIOUS
  <2>2. main' = [main EXCEPT !.fds = F] /\ main.pc = "scan"
    BY <1>8, <2>1 DEF Close, ReadyConn
  <2>3. main'.pc = "scan"
    BY <1>0, <2>2 DEF Server
  <2>4. UNCHANGED <<asked, inbox, taken, rep, client>>
    BY <1>8 DEF Close
  <2> QED BY <2>3, <2>4, AnswerQuiet
<1>9. ASSUME NEW i \in Slots, Recv(i)
      PROVE  AnswerInv' /\ [Promise!Next]_(Promise!promise)
  <2>1. main'.pc = "cmd"
    BY <1>0, <1>9 DEF Recv, Server
  <2>2. UNCHANGED <<asked, inbox, taken, rep, client>>
    BY <1>9 DEF Recv
  <2> QED BY <2>1, <2>2, AnswerQuiet
<1> QED BY <1>1, <1>2, <1>3, <1>4, <1>5, <1>6, <1>7, <1>8, <1>9

LEMMA AnswerStep ==
  ASSUME TypeOK, ServeInv, HeldInv, AnswerInv, OrderInv, [Next]_vars
  PROVE  AnswerInv' /\ Told
<1>1. CASE UNCHANGED vars
  <2>1. UNCHANGED <<asked, inbox, taken, rep, client, main, conn>>
    BY <1>1 DEF vars
  <2> QED BY <2>1, AnswerQuiet, PromiseTold
<1> QED BY <1>1, AnswerClient, AnswerLoop, AnswerCommand, AnswerRun,
           AnswerHandler, AnswerReport, PromiseTold
        DEF Next, ServerStep

(* Lines that were sent stay. *)
LEMMA LinesStay ==
  ASSUME TypeOK, NEW i \in Slots, NEW c \in Clients, NEW n \in 1..MaxCmds,
         NEW st \in Sts, send_resp(i, c, n, st), NEW d \in Clients, NEW l,
         Has(inbox[d], l)
  PROVE  Has(inbox'[d], l)
<1>1. PICK x : x = conn[i].s
  OBVIOUS
<1>2. PICK k : k = LineOf(c, n, st)
  OBVIOUS
<1>3. k \in Promise!Line /\ inbox \in [Clients -> Seq(Promise!Line)]
  BY <1>2 DEF Promise!Line, LineOf, TypeOK, Sts
<1>4. \/ inbox' = inbox
      \/ inbox' = [inbox EXCEPT ![x] = Append(inbox[x], k)]
  BY <1>1, <1>2 DEF send_resp, LineOf
<1>5. inbox'[d] = inbox[d] \/ inbox'[d] = Append(inbox[d], k)
  BY <1>3, <1>4
<1>6. inbox[d] \in Seq(Promise!Line)
  BY <1>3
<1>7. Has(Append(inbox[d], k), l) <=> Has(inbox[d], l) \/ l = k
  BY <1>3, <1>6, HasAppend
<1>8. CASE inbox'[d] = inbox[d]
  BY <1>8
<1>9. CASE inbox'[d] = Append(inbox[d], k)
  BY <1>7, <1>9
<1> QED BY <1>5, <1>8, <1>9

(* Steps that take no command and finish none unanswered.                  *)
LEMMA OrderKept ==
  ASSUME TypeOK, ServeInv, AnswerInv, OrderInv, taken' = taken,
         \A c \in Clients : \A m \in 1..Len(asked[c]) : asked'[c][m] = asked[c][m],
         \A c \in Clients : client'[c] = "there" => client[c] \in {"new", "there"},
         \A c \in Clients : \A l : Has(inbox[c], l) => Has(inbox'[c], l),
         \A c \in Clients, m \in 1..MaxCmds :
           client[c] = "there" /\ Handled(c, m) => Handled(c, m)' \/ PutBy(c, m)'
  PROVE  OrderInv'
<1>1. SUFFICES ASSUME NEW c \in Clients, NEW m \in 1..MaxCmds,
                      client'[c] = "there", m <= taken[c]
               PROVE  PutBy(c, m)' \/ Handled(c, m)'
  BY DEF OrderInv
<1>2. taken[c] \in Nat /\ Len(asked[c]) \in Nat /\ taken[c] <= Len(asked[c])
  BY ServerAssumption DEF TypeOK, ServeInv
<1>3. m \in 1..Len(asked[c])
  BY <1>1, <1>2
<1>4. client[c] = "there"
  BY <1>1, <1>3 DEF AnswerInv
<1>5. PutBy(c, m) => PutBy(c, m)'
  BY <1>3 DEF PutBy
<1> QED BY <1>1, <1>4, <1>5 DEF OrderInv

(* The server thread takes the next command. *)
LEMMA OrderCommand ==
  ASSUME TypeOK, ServeInv, HeldInv, AnswerInv, OrderInv, Command
  PROVE  OrderInv'
<1>0. /\ Serving /\ main.pc = "cmd"
      /\ UNCHANGED <<conn, client, asked>>
      /\ "final" \in Sts /\ "RUNNING" \in Sts
  BY DEF Command, Serving, Sts
<1>1. PICK c : c = Caller
  OBVIOUS
<1>2. PICK n : n = taken[c] + 1
  OBVIOUS
<1>3. /\ c \in Clients /\ main.i \in Slots /\ main \in Server
      /\ conn[main.i].s = c /\ taken[c] \in Nat /\ n \in 1..MaxCmds
  BY <1>0, <1>1, <1>2, InHand, InHandAnswers DEF Caller
<1>4. /\ taken' = [taken EXCEPT ![c] = n]
      /\ taken \in [Clients -> 0..MaxCmds]
  BY <1>1, <1>2 DEF Command, TypeOK
<1>5. CASE asked[c][n] = "bad" /\ send_resp(main.i, c, n, "final")
  <2>1. client[c] = "there" => Has(inbox'[c], LineOf(c, n, "final"))
    BY <1>0, <1>3, <1>5, SentLine
  <2>2. \A d \in Clients : \A l : Has(inbox[d], l) => Has(inbox'[d], l)
    BY <1>0, <1>3, <1>5, LinesStay
  <2>3. SUFFICES ASSUME NEW d \in Clients, NEW m \in 1..MaxCmds,
                        client[d] = "there", m <= taken'[d]
                 PROVE  PutBy(d, m)'
    BY <1>0 DEF OrderInv
  <2>4. CASE d = c /\ m = n
    BY <1>0, <1>5, <2>1, <2>3, <2>4 DEF PutBy
  <2>5. CASE ~(d = c /\ m = n)
    <3>1. m <= taken[d]
      BY <1>2, <1>3, <1>4, <2>3, <2>5
    <3>2. PutBy(d, m)
      BY <1>0, <2>3, <3>1 DEF OrderInv, Handled
    <3> QED BY <1>0, <2>2, <3>2 DEF PutBy
  <2> QED BY <2>4, <2>5
<1>6. CASE main' = [main EXCEPT !.pc = "run"] /\ inbox' = inbox
  <2>1. main'.pc = "run" /\ main'.i = main.i
    BY <1>3, <1>6 DEF Server
  <2>2. Caller' = c /\ Current' = n
    BY <1>0, <1>1, <1>3, <1>4, <2>1 DEF Caller, Current
  <2>3. SUFFICES ASSUME NEW d \in Clients, NEW m \in 1..MaxCmds,
                        client[d] = "there", m <= taken'[d],
                        ~(d = c /\ m = n)
                 PROVE  PutBy(d, m)'
    BY <1>0, <2>1, <2>2 DEF OrderInv, Handled
  <2>4. m <= taken[d]
    BY <1>2, <1>3, <1>4, <2>3
  <2>5. PutBy(d, m)
    BY <1>0, <2>3, <2>4 DEF OrderInv, Handled
  <2> QED BY <1>0, <1>6, <2>5 DEF PutBy
<1> QED BY <1>1, <1>2, <1>5, <1>6 DEF Command

(* It runs a command, answers it or leaves it to a thread.                 *)
LEMMA OrderHandler ==
  ASSUME TypeOK, ServeInv, HeldInv, AnswerInv, OrderInv,
         Run \/ Finish \/ \E r \in Reports : Defer(r)
  PROVE  OrderInv'
<1>0. /\ Serving /\ main.pc \in {"run", "handler"}
      /\ UNCHANGED <<client, asked, taken>>
      /\ "final" \in Sts /\ "RUNNING" \in Sts
  BY DEF Run, Finish, Defer, Serving, Sts
<1>1. PICK c : c = Caller
  OBVIOUS
<1>2. PICK n : n = Current
  OBVIOUS
<1>3. /\ c \in Clients /\ n \in 1..MaxCmds /\ main.i \in Slots
      /\ main \in Server /\ conn[main.i].s = c
  BY <1>0, <1>1, <1>2, InHand, InHandAnswers DEF Caller
<1>4. ASSUME \A d \in Clients : \A l : Has(inbox[d], l) => Has(inbox'[d], l),
             client[c] = "there" => Handled(c, n)' \/ PutBy(c, n)'
      PROVE  OrderInv'
  <2>1. \A d \in Clients, m \in 1..MaxCmds : Handled(d, m) => d = c /\ m = n
    BY <1>1, <1>2 DEF Handled
  <2> QED BY <1>0, <1>4, <2>1, OrderKept
<1>5. CASE Run
  <2>1. send_resp(main.i, c, n, "RUNNING") /\ conn' = conn
    BY <1>1, <1>2, <1>5 DEF Run
  <2>2. \A d \in Clients : \A l : Has(inbox[d], l) => Has(inbox'[d], l)
    BY <1>0, <1>3, <2>1, LinesStay
  <2>3. main'.pc = "handler" /\ main'.i = main.i
    BY <1>3, <1>5 DEF Run, Server
  <2>4. Handled(c, n)'
    BY <1>0, <1>1, <1>2, <2>1, <2>3 DEF Handled, Caller, Current
  <2> QED BY <1>4, <2>2, <2>4
<1>6. ASSUME main.pc = "handler" PROVE Pending(c, n)
  <2>1. Owed(c, n)
    BY <1>1, <1>2, <1>6 DEF Owed
  <2> QED BY <1>3, <2>1 DEF AnswerInv
<1>7. CASE Finish
  <2>1. send_resp(main.i, c, n, "final") /\ Pending(c, n)
    BY <1>1, <1>2, <1>6, <1>7 DEF Finish
  <2>2. \A d \in Clients : \A l : Has(inbox[d], l) => Has(inbox'[d], l)
    BY <1>0, <1>3, <2>1, LinesStay
  <2>3. client[c] = "there" => Has(inbox'[c], LineOf(c, n, "final"))
    BY <1>0, <1>3, <2>1, SentLine
  <2>4. client[c] = "there" => PutBy(c, n)'
    BY <1>0, <1>3, <2>1, <2>2, <2>3 DEF PutBy, Pending
  <2> QED BY <1>4, <2>2, <2>4
<1>8. ASSUME NEW r \in Reports, Defer(r) PROVE OrderInv'
  <2>1. inbox' = inbox /\ Pending(c, n) /\ asked[c][n] = "deferred"
    BY <1>1, <1>2, <1>6, <1>8 DEF Defer, Kind
  <2>2. client[c] = "there" => PutBy(c, n)'
    BY <1>0, <2>1 DEF PutBy, Pending
  <2> QED BY <1>4, <2>1, <2>2
<1> QED BY <1>5, <1>7, <1>8

(* Clients, the loop between commands, and report threads.                 *)
LEMMA OrderOthers ==
  ASSUME TypeOK, ServeInv, HeldInv, AnswerInv, OrderInv,
         \/ \E c \in Clients : ClientStep(c)
         \/ LoopTop \/ Select \/ Accept \/ NoAccept \/ ScanDone \/ Term \/ Check
         \/ \E i \in Slots : Close(i) \/ Recv(i)
         \/ \E r \in Reports : ReportStep(r)
  PROVE  OrderInv'
<1>0. /\ client \in [Clients -> {"new", "there", "gone"}]
      /\ conn \in [Slots -> Conn] /\ rep \in [Reports -> Report]
      /\ main.i \in Slots
  BY DEF TypeOK, Server
<1>1. CASE \E c \in Clients : ClientStep(c)
  <2>1. UNCHANGED <<taken, inbox, main, conn>>
    BY <1>1 DEF ClientStep, Connect, Leave, Ask
  <2>2. \A c \in Clients, m \in 1..MaxCmds : Handled(c, m) => Handled(c, m)'
    BY <2>1 DEF Handled, Caller, Current
  <2>3. \A c \in Clients : client'[c] = "there" => client[c] \in {"new", "there"}
    BY <1>0, <1>1 DEF ClientStep, Connect, Leave, Ask
  <2>4. \A c \in Clients : \A m \in 1..Len(asked[c]) : asked'[c][m] = asked[c][m]
    <3>1. CASE asked' = asked
      BY <3>1
    <3>2. ASSUME NEW d \in Clients, NEW k \in Promise!Kinds, Ask(d, k)
          PROVE  \A c \in Clients : \A m \in 1..Len(asked[c]) :
                   asked'[c][m] = asked[c][m]
      <4>1. /\ asked \in [Clients -> Seq(Promise!Kinds)]
            /\ asked' = [asked EXCEPT ![d] = Append(asked[d], k)]
        BY <3>2 DEF Ask, TypeOK
      <4>2. TAKE c \in Clients
      <4>3. CASE c = d
        BY <4>1, <4>3
      <4>4. CASE c # d
        BY <4>1, <4>4
      <4> QED BY <4>3, <4>4
    <3> QED BY <1>1, <3>1, <3>2 DEF ClientStep, Connect, Leave
  <2> QED BY <2>1, <2>2, <2>3, <2>4, OrderKept
<1>2. CASE \/ LoopTop \/ Select \/ Accept \/ NoAccept \/ ScanDone \/ Term \/ Check
           \/ \E i \in Slots : Close(i) \/ Recv(i)
  <2>1. UNCHANGED <<taken, inbox, asked>>
    BY <1>2 DEF LoopTop, Select, Accept, NoAccept, ScanDone, Term, Check,
                Close, Recv
  <2>2. main.pc \in {"run", "handler"} => UNCHANGED <<main, conn>>
    BY <1>2 DEF LoopTop, Select, Accept, NoAccept, ScanDone, Term, Check,
                Close, Recv, ReadyConn
  <2>3. \A c \in Clients, m \in 1..MaxCmds : Handled(c, m) => Handled(c, m)'
    BY <2>1, <2>2 DEF Handled, Caller, Current
  <2>4. \/ client' = client
        \/ \E c \in Clients : client' = [client EXCEPT ![c] = "gone"]
    <3>1. queue \subseteq Clients
      BY DEF TypeOK
    <3> QED BY <1>2, <3>1 DEF LoopTop, Select, Accept, NoAccept, ScanDone, Term,
                              Check, Close, Recv
  <2>5. \A c \in Clients : client'[c] = "there" => client[c] = "there"
    BY <1>0, <2>4
  <2> QED BY <2>1, <2>3, <2>5, OrderKept
<1>3. ASSUME NEW r \in Reports, ReportStep(r) PROVE OrderInv'
  <2>0. /\ rep[r].i \in Slots
        /\ rep[r].pc # "none" =>
             rep[r].of \in Clients /\ rep[r].cmd \in 1..MaxCmds
    BY <1>0, ReportsTyped DEF Report
  <2>1. UNCHANGED <<taken, client, asked, main>>
    BY <1>3 DEF ReportStep, ReportWork, ReportSend, ReportLoad, ReportStore,
                ReportRelease
  <2>2. \A j \in Slots : conn'[j].s = conn[j].s
    <3>1. CASE conn' = conn
      BY <3>1
    <3>2. CASE ReportRelease(r)
      <4>1. conn' = [conn EXCEPT ![rep[r].i] =
                       [conn[rep[r].i] EXCEPT !.waiting_completion = FALSE]]
        BY <3>2 DEF ReportRelease
      <4> QED BY <2>0, <4>1, FlagTyped
    <3> QED BY <1>3, <3>1, <3>2
            DEF ReportStep, ReportWork, ReportSend, ReportLoad, ReportStore
  <2>3. \A c \in Clients, m \in 1..MaxCmds : Handled(c, m) => Handled(c, m)'
    BY <1>0, <2>1, <2>2 DEF Handled, Caller, Current
  <2>4. \A c \in Clients : \A l : Has(inbox[c], l) => Has(inbox'[c], l)
    <3>1. CASE inbox' = inbox
      BY <3>1
    <3>2. CASE ReportSend(r)
      <4>1. /\ send_resp(rep[r].i, rep[r].of, rep[r].cmd, "final")
            /\ rep[r].pc # "none" /\ "final" \in Sts
        BY <3>2 DEF ReportSend, Sts
      <4> QED BY <2>0, <4>1, LinesStay
    <3> QED BY <1>3, <3>1, <3>2
            DEF ReportStep, ReportWork, ReportLoad, ReportStore, ReportRelease
  <2> QED BY <2>1, <2>3, <2>4, OrderKept
<1> QED BY <1>1, <1>2, <1>3

LEMMA OrderStep ==
  ASSUME TypeOK, ServeInv, HeldInv, AnswerInv, OrderInv, [Next]_vars
  PROVE  OrderInv'
<1>1. CASE UNCHANGED vars
  <2>1. UNCHANGED <<asked, inbox, taken, client, main, conn>>
    BY <1>1 DEF vars
  <2>2. \A c \in Clients, m \in 1..MaxCmds : Handled(c, m) => Handled(c, m)'
    BY <2>1 DEF Handled, Caller, Current
  <2> QED BY <2>1, <2>2, OrderKept
<1> QED BY <1>1, OrderCommand, OrderHandler, OrderOthers DEF Next, ServerStep

(* Clients are answered as CapiPromise says: a status line never goes to a *)
(* client that did not ask for it, a command that is carried out is        *)
(* answered RUNNING and then once more, a refused one once, and commands   *)
(* are taken in order.  The only line that may go astray is the final      *)
(* status of a report thread whose slot was another command's to complete  *)
(* too.                                                                    *)
THEOREM PromiseKept == Spec => KeepsPromise
<1>1. Init => TypeOK /\ ServeInv
  BY TypeInit
<1>2. Init => HeldInv
  BY HeldInit
<1>3. Init => AnswerInv /\ Promise!Init
  BY AnswerInit
<1>4. Init => OrderInv
  BY DEF Init, OrderInv
<1>5. (TypeOK /\ ServeInv) /\ [Next]_vars => (TypeOK /\ ServeInv)'
  BY TypeStep
<1>6. (TypeOK /\ ServeInv /\ HeldInv) /\ [Next]_vars => HeldInv'
  BY HeldStep
<1>7. (TypeOK /\ ServeInv /\ HeldInv /\ AnswerInv /\ OrderInv) /\ [Next]_vars
        => AnswerInv' /\ OrderInv' /\ Told
  BY AnswerStep, OrderStep
<1> QED BY <1>1, <1>2, <1>3, <1>4, <1>5, <1>6, <1>7, PTL
        DEF Spec, KeepsPromise, Told
=============================================================================
