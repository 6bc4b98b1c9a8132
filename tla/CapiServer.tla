------------------------------ MODULE CapiServer ------------------------------
(***************************************************************************)
(* The control server of sigma_dut: run_loop() and process_conn() in       *)
(* src/sigma_dut.c, which accept connections into a few slots and run the  *)
(* commands that arrive on them one after the other, and the report        *)
(* threads of src/traffic_agent.c, which answer a command after its        *)
(* handler has returned and keep its slot from being given away meanwhile. *)
(*                                                                         *)
(* A client is one TCP connection.  It may leave at any time, and may send *)
(* commands before it is accepted.  Commands are whole lines here.         *)
(***************************************************************************)
EXTENDS Integers, Sequences, FiniteSets

CONSTANTS
  MaxConnections,  \* MAX_CONNECTIONS, the number of slots
  Clients,         \* control connections
  NoClient,        \* the -1 in conn[i].s
  Reports,         \* report threads
  MaxCmds,         \* bound of the model on the commands of one client
  MaxDeferred,     \* how many of them are completed by a report thread
  Orderly,         \* clients wait for a final status before they go on
  CanFail,         \* accept() and pthread_create() may fail
  CanTerm          \* SIGINT or SIGTERM may come

ASSUME ServerAssumption ==
  /\ MaxConnections \in Nat \ {0}
  /\ NoClient \notin Clients
  /\ MaxCmds \in Nat /\ MaxDeferred \in Nat
  /\ {Orderly, CanFail, CanTerm} \subseteq BOOLEAN

VARIABLES
  conn,           \* the slots
  client,         \* whether each client is there
  queue,          \* connections waiting to be accepted
  asked,          \* asked[c]: the kinds of the commands c has sent
  taken,          \* taken[c]: how many of them process_cmd() was called for
  inbox,          \* inbox[c]: the status lines c was sent
  main,           \* where the server thread is
  rep,            \* the report threads
  response_sent,  \* dut->response_sent
  stop_loop,      \* stop_loop
  crossed         \* no variable of the code: see below

vars == <<conn, client, queue, asked, taken, inbox, main, rep, response_sent,
          stop_loop, crossed>>

Promise == INSTANCE CapiPromise WITH asked <- asked, inbox <- inbox

(* crossed only records what happened: the report threads whose slot was   *)
(* also another command's to complete while they had it.  A slot has one   *)
(* waiting_completion, which the first thread to end, or a handler that    *)
(* fails to make a thread, clears for all of them.                         *)

Slots == 1..MaxConnections
Listener == 0   \* dut->s among the descriptors

Conn == [s : Clients \cup {NoClient}, waiting_completion : BOOLEAN]

(* fds: what select() is to watch, or found ready; i: the connection being *)
(* processed; upto: the last command that the current recv() brought.      *)
Server ==
  [pc : {"top", "select", "accept", "scan", "cmd", "run", "handler", "check",
         "ended"},
   fds : SUBSET (Slots \cup {Listener}), i : Slots, upto : 0..MaxCmds]

(* The command to complete, the slot to answer on, and response_sent as    *)
(* the thread read it.                                                     *)
Report ==
  [pc : {"none", "work", "send", "load", "store", "release"},
   i : Slots, of : Clients \cup {NoClient}, cmd : 0..MaxCmds, seen : Nat]

TypeOK ==
  /\ conn \in [Slots -> Conn]
  /\ client \in [Clients -> {"new", "there", "gone"}]
  /\ queue \subseteq Clients
  /\ asked \in [Clients -> Seq(Promise!Kinds)]
  /\ taken \in [Clients -> 0..MaxCmds]
  /\ inbox \in [Clients -> Seq(Promise!Line)]
  /\ main \in Server
  /\ rep \in [Reports -> Report]
  /\ response_sent \in Nat
  /\ stop_loop \in BOOLEAN
  /\ crossed \subseteq Reports

NoReport ==
  [pc |-> "none", i |-> 1, of |-> NoClient, cmd |-> 0, seen |-> 0]
Top == [pc |-> "top", fds |-> {}, i |-> 1, upto |-> 0]

Init ==
  /\ conn = [i \in Slots |-> [s |-> NoClient, waiting_completion |-> FALSE]]
  /\ client = [c \in Clients |-> "new"]
  /\ queue = {}
  /\ asked = [c \in Clients |-> <<>>]
  /\ taken = [c \in Clients |-> 0]
  /\ inbox = [c \in Clients |-> <<>>]
  /\ main = Top
  /\ rep = [r \in Reports |-> NoReport]
  /\ response_sent = 0
  /\ stop_loop = FALSE
  /\ crossed = {}

(* A status line for command n of client c, sent to whoever has slot i.  A *)
(* closed socket makes sendmsg() fail; a client that left reads no more.   *)
send_resp(i, c, n, st) ==
  LET d == conn[i].s IN
    inbox' = IF d # NoClient /\ client[d] = "there"
               THEN [inbox EXCEPT
                       ![d] = Append(@, [of |-> c, cmd |-> n, st |-> st])]
               ELSE inbox

Answered(c, n) ==
  \E j \in 1..Len(inbox[c]) :
    inbox[c][j] = [of |-> c, cmd |-> n, st |-> "final"]

-----------------------------------------------------------------------------
(* The clients. *)
Connect(c) ==
  /\ client[c] = "new"
  /\ client' = [client EXCEPT ![c] = "there"]
  /\ queue' = queue \cup {c}
  /\ UNCHANGED <<conn, asked, taken, inbox, main, rep, response_sent,
                 stop_loop, crossed>>

Deferred(c) == {n \in 1..Len(asked[c]) : asked[c][n] = "deferred"}

Ask(c, k) ==
  /\ client[c] = "there"
  /\ Len(asked[c]) < MaxCmds
  /\ k = "deferred" => Cardinality(Deferred(c)) < MaxDeferred
  /\ Orderly => \A n \in 1..Len(asked[c]) : Answered(c, n)
  /\ asked' = [asked EXCEPT ![c] = Append(@, k)]
  /\ UNCHANGED <<conn, client, queue, taken, inbox, main, rep, response_sent,
                 stop_loop, crossed>>

Leave(c) ==
  /\ client[c] = "there"
  /\ client' = [client EXCEPT ![c] = "gone"]
  /\ UNCHANGED <<conn, queue, asked, taken, inbox, main, rep, response_sent,
                 stop_loop, crossed>>

-----------------------------------------------------------------------------
(* run_loop(). *)
(* Mutation: a closed slot is free even if a report thread still has it.   *)
Free_Closed == {i \in Slots : conn[i].s = NoClient}
Free ==
  {i \in Slots : conn[i].s = NoClient /\ ~conn[i].waiting_completion}

(* Mutation: can_accept is set for every closed slot.                      *)
CanAccept_Closed == \E i \in Slots : conn[i].s = NoClient
CanAccept == Free # {}

(* Mutation: connections are not read while their command is incomplete.   *)
Watched_NotWaiting ==
  {i \in Slots : conn[i].s # NoClient /\ ~conn[i].waiting_completion}
    \cup {f \in {Listener} : CanAccept}
Watched ==
  {i \in Slots : conn[i].s # NoClient} \cup {f \in {Listener} : CanAccept}

(* The slots are looked at one by one while report threads release some;   *)
(* since they only ever release them, can_accept is as at one moment.      *)
LoopTop ==
  /\ main.pc = "top"
  /\ main' = IF stop_loop THEN [Top EXCEPT !.pc = "ended"]
                          ELSE [Top EXCEPT !.pc = "select", !.fds = Watched]
  /\ UNCHANGED <<conn, client, queue, asked, taken, inbox, rep,
                 response_sent, stop_loop, crossed>>

Readable(f) ==
  IF f = Listener
    THEN queue # {}
    ELSE LET c == conn[f].s IN taken[c] < Len(asked[c]) \/ client[c] = "gone"

Select ==
  /\ main.pc = "select"
  /\ \E f \in main.fds : Readable(f)
  /\ main' = [main EXCEPT !.pc = "accept",
                          !.fds = {f \in main.fds : Readable(f)}]
  /\ UNCHANGED <<conn, client, queue, asked, taken, inbox, rep,
                 response_sent, stop_loop, crossed>>

(* The first free slot is taken.  Without one, or when accept() fails, the *)
(* loop starts over without having served the other connections.           *)
Accept ==
  /\ main.pc = "accept"
  /\ Listener \in main.fds
  /\ IF Free = {}
       THEN main' = Top /\ UNCHANGED <<conn, client, queue>>
       ELSE \E c \in queue, i \in Free :
              /\ \A j \in Free : i <= j
              /\ queue' = queue \ {c}
              /\ \/ /\ conn' = [conn EXCEPT ![i] = [@ EXCEPT !.s = c]]
                    /\ main' = [main EXCEPT !.pc = "scan"]
                    /\ UNCHANGED client
                 \/ /\ CanFail
                    /\ client' = [client EXCEPT ![c] = "gone"]
                    /\ main' = Top
                    /\ UNCHANGED conn
  /\ UNCHANGED <<asked, taken, inbox, rep, response_sent, stop_loop, crossed>>

NoAccept ==
  /\ main.pc = "accept"
  /\ Listener \notin main.fds
  /\ main' = [main EXCEPT !.pc = "scan"]
  /\ UNCHANGED <<conn, client, queue, asked, taken, inbox, rep,
                 response_sent, stop_loop, crossed>>

ScanDone ==
  /\ main.pc = "scan"
  /\ main.fds \subseteq {Listener}
  /\ main' = Top
  /\ UNCHANGED <<conn, client, queue, asked, taken, inbox, rep,
                 response_sent, stop_loop, crossed>>

(* handle_term().  It makes select() return when select() is waiting, but  *)
(* not when the loop has yet to call it.                                   *)
Term ==
  /\ CanTerm
  /\ ~stop_loop
  /\ stop_loop' = TRUE
  /\ \/ UNCHANGED main
     \/ main.pc = "select" /\ main' = Top
  /\ UNCHANGED <<conn, client, queue, asked, taken, inbox, rep, response_sent,
                 crossed>>

-----------------------------------------------------------------------------
(* process_conn() on the ready connections in turn.  The slot is freed on  *)
(* end of file and on an error; otherwise one recv() brings one command or *)
(* several, all of which are run before the next connection is looked at.  *)
ReadyConn(i) ==
  /\ main.pc = "scan"
  /\ i \in main.fds
  /\ \A j \in main.fds \ {Listener} : i <= j

Close(i) ==
  /\ ReadyConn(i)
  /\ client[conn[i].s] = "gone"
  /\ conn' = [conn EXCEPT ![i] = [@ EXCEPT !.s = NoClient]]
  /\ main' = [main EXCEPT !.fds = main.fds \ {i}]
  /\ UNCHANGED <<client, queue, asked, taken, inbox, rep, response_sent,
                 stop_loop, crossed>>

Recv(i) ==
  /\ ReadyConn(i)
  /\ \E n \in taken[conn[i].s] + 1 .. Len(asked[conn[i].s]) :
       main' = [main EXCEPT !.pc = "cmd", !.fds = main.fds \ {i}, !.i = i,
                            !.upto = n]
  /\ UNCHANGED <<conn, client, queue, asked, taken, inbox, rep,
                 response_sent, stop_loop, crossed>>

(* The client and the command being processed. *)
Caller == conn[main.i].s
Current == taken[Caller]
Kind == asked[Caller][Current]

(* The rest of what was received, or the next connection.                  *)
GoOn(n) ==
  main' = IF n < main.upto
            THEN [main EXCEPT !.pc = "cmd"]
            ELSE [main EXCEPT !.pc = "scan", !.i = 1, !.upto = 0]

(* process_cmd().  Unknown commands and invalid parameters are answered at *)
(* once; response_sent counts the lines sent for the others.               *)
Command ==
  LET c == Caller
      n == taken[c] + 1
  IN /\ main.pc = "cmd"
     /\ taken' = [taken EXCEPT ![c] = n]
     /\ \/ /\ asked[c][n] = "bad"
           /\ send_resp(main.i, c, n, "final")
           /\ response_sent' = response_sent + 1
           /\ GoOn(n)
        \/ /\ asked[c][n] # "bad"
           /\ response_sent' = 0
           /\ main' = [main EXCEPT !.pc = "run"]
           /\ UNCHANGED inbox
     /\ UNCHANGED <<conn, client, queue, asked, rep, stop_loop, crossed>>

Run ==
  /\ main.pc = "run"
  /\ send_resp(main.i, Caller, Current, "RUNNING")
  /\ response_sent' = response_sent + 1
  /\ main' = [main EXCEPT !.pc = "handler"]
  /\ UNCHANGED <<conn, client, queue, asked, taken, rep, stop_loop, crossed>>

(* The report threads that have yet to answer on the slot being served.    *)
Unanswered == {q \in Reports : rep[q].pc # "none" /\ rep[q].i = main.i}

(* The handler, or process_cmd() for it, sends the final status.           *)
Finish ==
  /\ main.pc = "handler"
  /\ send_resp(main.i, Caller, Current, "final")
  /\ response_sent' = response_sent + 1
  /\ main' = [main EXCEPT !.pc = "check"]
  /\ UNCHANGED <<client, queue, asked, taken, rep, stop_loop>>
  /\ \/ UNCHANGED <<conn, crossed>>
     \/ /\ CanFail /\ Kind = "deferred"   \* no report thread could be made
        /\ conn' = [conn EXCEPT ![main.i] =
                      [@ EXCEPT !.waiting_completion = FALSE]]
        /\ crossed' = crossed \cup Unanswered

(* cmd_traffic_agent_send leaves the final status to a report thread.      *)
(* Mutation: the thread is given the slot before the right one.            *)
NewReport_WrongSlot ==
  [NoReport EXCEPT !.pc = "work", !.i = main.i - 1, !.of = Caller,
                   !.cmd = Current]
NewReport ==
  [NoReport EXCEPT !.pc = "work", !.i = main.i, !.of = Caller,
                   !.cmd = Current]

Defer(r) ==
  /\ main.pc = "handler"
  /\ Kind = "deferred"
  /\ rep[r].pc = "none"
  /\ conn' = [conn EXCEPT ![main.i] = [@ EXCEPT !.waiting_completion = TRUE]]
  /\ rep' = [rep EXCEPT ![r] = NewReport]
  /\ main' = [main EXCEPT !.pc = "check"]
  /\ crossed' = IF Unanswered = {} THEN crossed
                                   ELSE crossed \cup Unanswered \cup {r}
  /\ UNCHANGED <<client, queue, asked, taken, inbox, response_sent, stop_loop>>

(* The number of status lines is looked at, and logged when it is wrong.   *)
Check ==
  /\ main.pc = "check"
  /\ GoOn(Current)
  /\ UNCHANGED <<conn, client, queue, asked, taken, inbox, rep,
                 response_sent, stop_loop, crossed>>

-----------------------------------------------------------------------------
(* The end of send_report_thread().  response_sent++ is a load and a store *)
(* that may come apart; the server thread's own need not be split, since   *)
(* the values the two orders of an overlap leave are the same.             *)
ReportWork(r) ==
  /\ rep[r].pc = "work"
  /\ rep' = [rep EXCEPT ![r] = [@ EXCEPT !.pc =
               IF conn[rep[r].i].s = NoClient THEN "release" ELSE "send"]]
  /\ UNCHANGED <<conn, client, queue, asked, taken, inbox, main,
                 response_sent, stop_loop, crossed>>

ReportSend(r) ==
  /\ rep[r].pc = "send"
  /\ send_resp(rep[r].i, rep[r].of, rep[r].cmd, "final")
  /\ rep' = [rep EXCEPT ![r] = [@ EXCEPT !.pc = "load"]]
  /\ UNCHANGED <<conn, client, queue, asked, taken, main, response_sent,
                 stop_loop, crossed>>

ReportLoad(r) ==
  /\ rep[r].pc = "load"
  /\ rep' = [rep EXCEPT ![r] = [@ EXCEPT !.pc = "store",
                                         !.seen = response_sent]]
  /\ UNCHANGED <<conn, client, queue, asked, taken, inbox, main,
                 response_sent, stop_loop, crossed>>

ReportStore(r) ==
  /\ rep[r].pc = "store"
  /\ response_sent' = rep[r].seen + 1
  /\ rep' = [rep EXCEPT ![r] = [@ EXCEPT !.pc = "release", !.seen = 0]]
  /\ UNCHANGED <<conn, client, queue, asked, taken, inbox, main, stop_loop,
                 crossed>>

ReportRelease(r) ==
  /\ rep[r].pc = "release"
  /\ conn' = [conn EXCEPT ![rep[r].i] =
                [@ EXCEPT !.waiting_completion = FALSE]]
  /\ rep' = [rep EXCEPT ![r] = NoReport]
  /\ crossed' = crossed \ {r}
  /\ UNCHANGED <<client, queue, asked, taken, inbox, main, response_sent,
                 stop_loop>>

-----------------------------------------------------------------------------
ClientStep(c) ==
  Connect(c) \/ Leave(c) \/ \E k \in Promise!Kinds : Ask(c, k)

ServerStep ==
  \/ LoopTop \/ Select \/ Accept \/ NoAccept \/ ScanDone
  \/ \E i \in Slots : Close(i) \/ Recv(i)
  \/ Command \/ Run \/ Finish \/ Check
  \/ \E r \in Reports : Defer(r)

ReportStep(r) ==
  \/ ReportWork(r) \/ ReportSend(r) \/ ReportLoad(r) \/ ReportStore(r)
  \/ ReportRelease(r)

Next ==
  \/ \E c \in Clients : ClientStep(c)
  \/ ServerStep
  \/ Term
  \/ \E r \in Reports : ReportStep(r)

Spec == Init /\ [][Next]_vars

(* The server and the report threads keep running (handlers return, and    *)
(* streams come to their end); clients owe nothing.                        *)
Fairness ==
  /\ WF_vars(ServerStep)
  /\ \A r \in Reports : WF_vars(ReportStep(r))

FairSpec == Spec /\ Fairness

-----------------------------------------------------------------------------
(* "This cannot really happen" (sigma_dut.c:662): when a connection has    *)
(* come in, there is a slot for it, although slots may have changed hands  *)
(* since can_accept was computed.                                          *)
RoomForNewConnection ==
  main.pc = "accept" /\ Listener \in main.fds => Free # {}

(* While a report thread has yet to answer on a slot, no other client has  *)
(* the slot, unless the slot was another command's to complete as well.    *)
(* (Then waiting_completion, which is one flag for all of them, is cleared *)
(* by the first to end: sigma_dut.c:641 may give the slot away although    *)
(* the others have yet to answer on it.)                                   *)
SlotHeld ==
  \A r \in Reports \ crossed : rep[r].pc # "none" =>
    conn[rep[r].i].s \in {rep[r].of, NoClient}

(* Clients are answered as CapiPromise says, except that a report thread   *)
(* that shared its slot as above may send its final status to the client   *)
(* that has got the slot since.                                            *)
KeepsPromise ==
  Promise!Init /\
  [][\/ Promise!Next
     \/ \E r \in crossed :
          /\ rep[r].pc = "send"
          /\ Promise!Stray(conn[rep[r].i].s, rep[r].of, rep[r].cmd)
    ]_<<asked, inbox>>

(* Every command of a client that has been accepted and stays is answered, *)
(* unless the program is told to terminate.                                *)
EveryCommandAnswered ==
  \A c \in Clients, n \in 1..MaxCmds :
    (\E i \in Slots : conn[i].s = c) /\ n <= Len(asked[c])
      ~> Answered(c, n) \/ client[c] = "gone" \/ stop_loop

(* "sigma_dut terminating" (sigma_dut.c:598): the server loop ends.        *)
TermEnds == stop_loop ~> main.pc = "ended"

=============================================================================
