----------------------------- MODULE TrafficAgent -----------------------------
(***************************************************************************)
(* The traffic agent of sigma_dut (src/traffic_agent.c): the table of      *)
(* streams, the commands traffic_agent_config, _send, _receive_start,      *)
(* _receive_stop and _reset that the one server thread runs, the sender    *)
(* and receiver thread each started stream has, and the report thread each *)
(* accepted send command leaves behind to join the senders and to answer   *)
(* on the control connection.                                              *)
(*                                                                         *)
(* Nothing in the C code locks the table, so every thread's accesses to it *)
(* interleave here.  A step reads or writes at most one stream, except     *)
(* where only the server thread touches the fields involved.               *)
(*                                                                         *)
(* A list of stream identifiers is a set: the loops over it visit it in    *)
(* any order.  Payloads, counters and statistics are left out.             *)
(***************************************************************************)
EXTENDS Integers

CONSTANTS
  MaxStreams,    \* MAX_SIGMA_STREAMS, the size of dut->streams
  MaxStreamId,   \* bound of the model on the counter dut->stream_id
  Conns,         \* the control connections commands arrive on
  NoConn,        \* no connection
  Threads,       \* pthread_t values of sender and receiver threads
  NoThread,      \* the pthread_t of a zeroed stream
  Reports,       \* pthread_t values of report threads
  CanFail,       \* socket calls and pthread_create may fail
  Orderly,       \* the controller keeps to the order described at Orderly*
  WithTcp        \* streams may use TCP

ASSUME ConstantsAssumption ==
  /\ MaxStreams \in Nat \ {0}
  /\ MaxStreamId \in Nat \ {0}
  /\ NoConn \notin Conns
  /\ NoThread \notin Threads
  /\ {CanFail, Orderly, WithTcp} \subseteq BOOLEAN

VARIABLES
  streams,             \* dut->streams
  num_streams,         \* dut->num_streams
  stream_id,           \* dut->stream_id, the last identifier given out
  thr,                 \* the sender and receiver threads
  rep,                 \* the report threads
  main,                \* where the server thread is in its command handler
  waiting_completion,  \* conn->waiting_completion
  status               \* the last status line sent on each connection

vars == <<streams, num_streams, stream_id, thr, rep, main,
          waiting_completion, status>>

Slots == 1..MaxStreams
Ids == 1..MaxStreamId

(***************************************************************************)
(* A stream's socket is -1 ("none"), an open descriptor ("open"), or the   *)
(* descriptor 0 that memset leaves behind ("zero").                        *)
(***************************************************************************)
Stream ==
  [stream_id : 0..MaxStreamId, sender : BOOLEAN, tcp : BOOLEAN,
   started : BOOLEAN, stop : BOOLEAN, sock : {"none", "zero", "open"},
   thr : Threads \cup {NoThread}, ta_send_in_progress : BOOLEAN]

Zeroed ==
  [stream_id |-> 0, sender |-> FALSE, tcp |-> FALSE, started |-> FALSE,
   stop |-> FALSE, sock |-> "zero", thr |-> NoThread,
   ta_send_in_progress |-> FALSE]

(* "free": no such thread; "accept": a TCP receiver blocked in accept();   *)
(* "run": sending or receiving; "held": in a loop or a wait that looks at  *)
(* neither stop nor the time; "exited": returned and not yet joined.       *)
Thread ==
  [st : {"free", "accept", "run", "held", "exited"}, role : {"send", "receive"},
   slot : Slots]

(* ids: the streams of the command; todo: those the current loop has left; *)
(* slot and target: the stream pointer in hand and the thread being joined.*)
Report ==
  [pc : {"none", "stop", "join", "clear", "close", "done"},
   conn : Conns \cup {NoConn}, ids : SUBSET Ids, todo : SUBSET Ids,
   slot : Slots, target : Threads \cup {NoThread}]

(* The server thread's handler keeps slots instead of identifiers: only    *)
(* this thread configures and resets streams, so get_stream() gives it the *)
(* same answer throughout a handler.                                       *)
Handler ==
  [pc : {"idle", "open", "create", "report", "mark", "stop", "join"},
   op : {"none", "send", "receive_start", "receive_stop", "reset"},
   conn : Conns \cup {NoConn}, ids : SUBSET Ids,
   all : SUBSET Slots, todo : SUBSET Slots,
   slot : Slots, target : Threads \cup {NoThread}]

Statuses == {"idle", "RUNNING", "COMPLETE", "ERROR", "INVALID", "closed"}

TypeOK ==
  /\ streams \in [Slots -> Stream]
  /\ num_streams \in 0..MaxStreams
  /\ stream_id \in 0..MaxStreamId
  /\ thr \in [Threads -> Thread]
  /\ rep \in [Reports -> Report]
  /\ main \in Handler
  /\ waiting_completion \in [Conns -> BOOLEAN]
  /\ status \in [Conns -> Statuses]

-----------------------------------------------------------------------------
(* The streams an identifier names: get_stream() returns the first one, or *)
(* NULL when there is none.  StreamIdsUnique: there is never a second.     *)
Configured == 1..num_streams
get_stream(id) == {k \in Configured : streams[k].stream_id = id}
Named(S) == {k \in Configured : streams[k].stream_id \in S}

(* A thread that does not exist, and the server thread between commands:   *)
(* the fields that nothing will read are at fixed values.                  *)
FreeThread == [st |-> "free", role |-> "send", slot |-> 1]
NoReport ==
  [pc |-> "none", conn |-> NoConn, ids |-> {}, todo |-> {}, slot |-> 1,
   target |-> NoThread]
Idle ==
  [pc |-> "idle", op |-> "none", conn |-> NoConn, ids |-> {}, all |-> {},
   todo |-> {}, slot |-> 1, target |-> NoThread]

Init ==
  /\ streams = [k \in Slots |-> Zeroed]
  /\ num_streams = 0
  /\ stream_id = 0
  /\ thr = [t \in Threads |-> FreeThread]
  /\ rep = [r \in Reports |-> NoReport]
  /\ main = Idle
  /\ waiting_completion = [c \in Conns |-> FALSE]
  /\ status = [c \in Conns |-> "idle"]

(***************************************************************************)
(* What an orderly controller refrains from; the code does not check any   *)
(* of it.                                                                  *)
(***************************************************************************)
(* It waits for a command's final status before its connection's next one. *)
OrderlyCommand(c) == Orderly => status[c] # "RUNNING"
(* It does not start a receiver that was started and not stopped.          *)
OrderlyReceiveStart(S) == Orderly => \A k \in Named(S) : ~streams[k].started
(* It stops receivers only; send commands end by themselves.               *)
OrderlyReceiveStop(S) == Orderly => \A k \in Named(S) : ~streams[k].sender
(* It resets the agent only after every send command was answered.         *)
OrderlyReset == Orderly => \A r \in Reports : rep[r].pc \in {"none", "done"}

(* run_loop() gives a closed connection's slot to the next one only once   *)
(* nothing waits to be completed on it.                                    *)
Command(c) ==
  /\ main.pc = "idle"
  /\ status[c] = "closed" => ~waiting_completion[c]
  /\ OrderlyCommand(c)

(* The command is answered with a final status and changes nothing else.   *)
Answer(c, st) ==
  /\ status' = [status EXCEPT ![c] = st]
  /\ UNCHANGED <<streams, num_streams, stream_id, thr, rep, main,
                 waiting_completion>>

(* Where the server thread goes next: the rest of a loop or the next phase.*)
Begin(c, o, p, S, all) ==
  main' = [Idle EXCEPT !.pc = p, !.op = o, !.conn = c, !.ids = S,
                       !.all = all, !.todo = all]
Loop(k, next) ==
  main' = IF main.todo = {k}
            THEN [main EXCEPT !.pc = next, !.todo = main.all]
            ELSE [main EXCEPT !.todo = @ \ {k}]
Return(st) ==
  /\ main' = Idle
  /\ status' = [status EXCEPT ![main.conn] = st]

-----------------------------------------------------------------------------
(* cmd_traffic_agent_config.  The stream a command fills in.               *)
(* Mutation: the identifier is taken before the counter is advanced.       *)
NewStream_OldId(sender, tcp, id) ==
  [Zeroed EXCEPT !.sock = "none", !.sender = sender, !.tcp = tcp,
                 !.stream_id = id - 1]
NewStream(sender, tcp, id) ==
  [Zeroed EXCEPT !.sock = "none", !.sender = sender, !.tcp = tcp,
                 !.stream_id = id]

(* Mutation: one stream too many is let in.                                *)
TableFull_OffByOne == num_streams > MaxStreams
TableFull == num_streams = MaxStreams

(* The table is full; or a parameter is bad, when the next slot has been   *)
(* cleared and partly filled in but is not counted.                        *)
ConfigRefused(c) ==
  /\ Command(c)
  /\ IF TableFull
       THEN UNCHANGED streams
       ELSE \E s \in BOOLEAN : streams' =
              [streams EXCEPT ![num_streams + 1] = NewStream(s, FALSE, 0)]
  /\ \E st \in {"ERROR", "INVALID"} : status' = [status EXCEPT ![c] = st]
  /\ UNCHANGED <<num_streams, stream_id, thr, rep, main, waiting_completion>>

Config(c) ==
  /\ Command(c)
  /\ ~TableFull
  /\ stream_id < MaxStreamId
  /\ \E s, t \in BOOLEAN :
       /\ t => WithTcp
       /\ streams' = [streams EXCEPT ![num_streams + 1] =
                        NewStream(s, t, stream_id + 1)]
  /\ stream_id' = stream_id + 1
  /\ num_streams' = num_streams + 1
  /\ status' = [status EXCEPT ![c] = "COMPLETE"]
  /\ UNCHANGED <<thr, rep, main, waiting_completion>>

-----------------------------------------------------------------------------
(* The checks the send and receive commands make on the streams they name. *)
Known(S) == \A id \in S : get_stream(id) # {}
(* Mutation: send commands do not look at ta_send_in_progress.             *)
Busy_Never(S) == FALSE
Busy(S) == \E k \in Named(S) : streams[k].ta_send_in_progress

(* A list that does not parse or names a stream twice, an unknown stream,  *)
(* or a stream of the other direction.                                     *)
BadList(c, S) == Command(c) /\ \E st \in {"ERROR", "INVALID"} : Answer(c, st)

WrongStreams(c, S, sender) ==
  /\ Command(c)
  /\ ~Known(S) \/ \E k \in Named(S) : streams[k].sender # sender
  /\ Answer(c, "INVALID")

SendRefused(c, S) == Command(c) /\ Busy(S) /\ Answer(c, "ERROR")

Send(c, S) ==
  /\ Command(c)
  /\ Known(S)
  /\ \A k \in Named(S) : streams[k].sender
  /\ ~Busy(S)
  /\ Begin(c, "send", "open", S, Named(S))
  /\ status' = [status EXCEPT ![c] = "RUNNING"]
  /\ UNCHANGED <<streams, num_streams, stream_id, thr, rep,
                 waiting_completion>>

(* Nothing looks at the streams' started.                                  *)
ReceiveStart(c, S) ==
  /\ Command(c)
  /\ OrderlyReceiveStart(S)
  /\ Known(S)
  /\ \A k \in Named(S) : ~streams[k].sender
  /\ Begin(c, "receive_start", "open", S, Named(S))
  /\ status' = [status EXCEPT ![c] = "RUNNING"]
  /\ UNCHANGED <<streams, num_streams, stream_id, thr, rep,
                 waiting_completion>>

(* First loop of both commands: a socket for every stream.  A failure ends *)
(* the command and leaves what was opened; IPTV and BURST streams keep a   *)
(* socket whose options could not be set.                                  *)
OpenSocket(k) ==
  /\ main.pc = "open"
  /\ k \in main.todo
  /\ \/ /\ streams' = [streams EXCEPT ![k] = [@ EXCEPT !.sock = "open"]]
        /\ Loop(k, "create")
        /\ UNCHANGED status
     \/ /\ CanFail
        /\ \E s \in {"none", "open"} :
             streams' = [streams EXCEPT ![k] = [@ EXCEPT !.sock = s]]
        /\ Return("ERROR")
  /\ UNCHANGED <<num_streams, stream_id, thr, rep, waiting_completion>>

(* Second loop: a thread for every stream.                                 *)
NewThread(k) ==
  [st |-> IF streams[k].tcp /\ ~streams[k].sender THEN "accept" ELSE "run",
   role |-> IF streams[k].sender THEN "send" ELSE "receive", slot |-> k]

CreateThread(k) ==
  /\ main.pc = "create"
  /\ k \in main.todo
  /\ \/ /\ \E t \in Threads :
             /\ thr[t].st = "free"
             /\ thr' = [thr EXCEPT ![t] = NewThread(k)]
             /\ streams' = [streams EXCEPT
                              ![k] = [@ EXCEPT !.thr = t, !.started = TRUE]]
        /\ IF main.op = "receive_start" /\ main.todo = {k}
             THEN Return("COMPLETE")
             ELSE Loop(k, "report") /\ UNCHANGED status
     \/ CanFail /\ Return("ERROR") /\ UNCHANGED <<streams, thr>>
  /\ UNCHANGED <<num_streams, stream_id, rep, waiting_completion>>

(* The thread that will answer the send command.  The streams are marked   *)
(* as being sent only after it exists.                                     *)
CreateReport ==
  /\ main.pc = "report"
  /\ \/ /\ \E r \in Reports :
             /\ rep[r].pc = "none"
             /\ rep' = [rep EXCEPT ![r] =
                          [NoReport EXCEPT !.pc = "stop", !.conn = main.conn,
                             !.ids = main.ids, !.todo = main.ids]]
        /\ waiting_completion' =
             [waiting_completion EXCEPT ![main.conn] = TRUE]
        /\ main' = [main EXCEPT !.pc = "mark"]
        /\ UNCHANGED status
     \/ /\ CanFail
        /\ waiting_completion' =
             [waiting_completion EXCEPT ![main.conn] = FALSE]
        /\ Return("ERROR")
        /\ UNCHANGED rep
  /\ UNCHANGED <<streams, num_streams, stream_id, thr>>

MarkSending(k) ==
  /\ main.pc = "mark"
  /\ k \in main.todo
  /\ streams' = [streams EXCEPT ![k] = [@ EXCEPT !.ta_send_in_progress = TRUE]]
  /\ IF main.todo = {k}
       THEN main' = Idle
       ELSE Loop(k, "idle")
  /\ UNCHANGED <<num_streams, stream_id, thr, rep, waiting_completion, status>>

-----------------------------------------------------------------------------
(* cmd_traffic_agent_receive_stop accepts every started stream, a sender's *)
(* too, and tells all of them to stop before it waits for any.             *)
NotStarted(c, S) ==
  /\ Command(c)
  /\ ~Known(S) \/ \E k \in Named(S) : ~streams[k].started
  /\ Answer(c, "INVALID")

ReceiveStop(c, S) ==
  /\ Command(c)
  /\ OrderlyReceiveStop(S)
  /\ Known(S)
  /\ \A k \in Named(S) : streams[k].started
  /\ streams' = [k \in Slots |-> IF k \in Named(S)
                   THEN [streams[k] EXCEPT !.stop = TRUE] ELSE streams[k]]
  /\ Begin(c, "receive_stop", "stop", S, Named(S))
  /\ status' = [status EXCEPT ![c] = "RUNNING"]
  /\ UNCHANGED <<num_streams, stream_id, thr, rep, waiting_completion>>

(* cmd_traffic_agent_reset.  The identifiers go on from where they were.   *)
Cleared == [k \in Slots |-> Zeroed]

Reset(c) ==
  /\ Command(c)
  /\ OrderlyReset
  /\ IF num_streams = 0
       THEN /\ streams' = Cleared
            /\ status' = [status EXCEPT ![c] = "COMPLETE"]
            /\ UNCHANGED main
       ELSE /\ Begin(c, "reset", "stop", {}, Configured)
            /\ status' = [status EXCEPT ![c] = "RUNNING"]
            /\ UNCHANGED streams
  /\ UNCHANGED <<num_streams, stream_id, thr, rep, waiting_completion>>

(* stop_stream(), from either command: nothing to do for a stream that is  *)
(* not started, else a pthread_join on the thread it has now.              *)
(* Mutation: reset joins without telling the thread to stop.               *)
MainStop_NoFlag(k) ==
  /\ main.pc = "stop"
  /\ k \in main.todo
  /\ main' = IF streams[k].started
               THEN [main EXCEPT !.todo = @ \ {k}, !.pc = "join", !.slot = k,
                                 !.target = streams[k].thr]
               ELSE [main EXCEPT !.todo = @ \ {k}]
  /\ UNCHANGED <<streams, num_streams, stream_id, thr, rep,
                 waiting_completion, status>>
MainStop(k) ==
  /\ main.pc = "stop"
  /\ k \in main.todo
  /\ streams' = [streams EXCEPT
                   ![k] = [@ EXCEPT !.stop = streams[k].stop \/ main.op = "reset"]]
  /\ main' = IF streams[k].started
               THEN [main EXCEPT !.todo = @ \ {k}, !.pc = "join", !.slot = k,
                                 !.target = streams[k].thr]
               ELSE [main EXCEPT !.todo = @ \ {k}]
  /\ UNCHANGED <<num_streams, stream_id, thr, rep, waiting_completion, status>>

(* Joining a thread that is joined already, or that another thread is      *)
(* joining, is undefined: the call may also come back at once.             *)
Joiners(t) == {r \in Reports : rep[r].pc = "join" /\ rep[r].target = t}
                \cup {m \in {"main"} : main.pc = "join" /\ main.target = t}
(* Mutation: the thread is detached instead of joined.                     *)
JoinReturns_Detached(t) == UNCHANGED thr
JoinReturns(t) ==
  \/ thr[t].st = "exited" /\ thr' = [thr EXCEPT ![t] = FreeThread]
  \/ thr[t].st = "free" /\ UNCHANGED thr
  \/ (\E a, b \in Joiners(t) : a # b) /\ UNCHANGED thr

(* The rest of stop_stream(): a socket that is not -1 is closed.           *)
Stopped(s) == [s EXCEPT !.sock = "none", !.started = FALSE]

MainJoined ==
  /\ main.pc = "join"
  /\ JoinReturns(main.target)
  /\ streams' = [streams EXCEPT ![main.slot] = Stopped(@)]
  /\ main' = [main EXCEPT !.pc = "stop", !.slot = 1, !.target = NoThread]
  /\ UNCHANGED <<num_streams, stream_id, rep, waiting_completion, status>>

(* Mutation: reset starts the identifiers over.                            *)
StopsDone_IdsRestart ==
  /\ main.pc = "stop"
  /\ main.todo = {}
  /\ IF main.op = "reset"
       THEN num_streams' = 0 /\ streams' = Cleared /\ stream_id' = 0
       ELSE UNCHANGED <<num_streams, streams, stream_id>>
  /\ Return("COMPLETE")
  /\ UNCHANGED <<thr, rep, waiting_completion>>
StopsDone ==
  /\ main.pc = "stop"
  /\ main.todo = {}
  /\ IF main.op = "reset"
       THEN num_streams' = 0 /\ streams' = Cleared
       ELSE UNCHANGED <<num_streams, streams>>
  /\ Return("COMPLETE")
  /\ UNCHANGED <<stream_id, thr, rep, waiting_completion>>

-----------------------------------------------------------------------------
(* The stream threads. *)

(* A TCP receiver waits for its peer and does not look at stop meanwhile;  *)
(* the connected socket takes the place of the listening one.              *)
(* Mutation: the parent socket is closed after s->sock was overwritten.    *)
Accept_CloseLast(t) ==
  /\ thr[t].st = "accept"
  /\ thr' = [thr EXCEPT ![t] = [@ EXCEPT !.st = "run"]]
  /\ streams' = [streams EXCEPT ![thr[t].slot] = [@ EXCEPT !.sock = "none"]]
  /\ UNCHANGED <<num_streams, stream_id, rep, main, waiting_completion,
                 status>>
Accept(t) ==
  /\ thr[t].st = "accept"
  /\ \/ /\ thr' = [thr EXCEPT ![t] = [@ EXCEPT !.st = "run"]]
        /\ streams' = [streams EXCEPT
                         ![thr[t].slot] = [@ EXCEPT !.sock = "open"]]
     \/ /\ CanFail
        /\ thr' = [thr EXCEPT ![t] = [@ EXCEPT !.st = "exited"]]
        /\ UNCHANGED streams
  /\ UNCHANGED <<num_streams, stream_id, rep, main, waiting_completion,
                 status>>

(* A sender ends when its duration is over, or with stop set: by itself    *)
(* when the peer is gone or the U-APSD test is over.                       *)
(* Mutation: the duration is not looked at.                                *)
SenderEnds_NoDuration(t) ==
  /\ thr[t].st = "run"
  /\ thr[t].role = "send"
  /\ streams[thr[t].slot].stop
  /\ thr' = [thr EXCEPT ![t] = [@ EXCEPT !.st = "exited"]]
  /\ UNCHANGED <<streams, num_streams, stream_id, rep, main,
                 waiting_completion, status>>
SenderEnds(t) ==
  /\ thr[t].st = "run"
  /\ thr[t].role = "send"
  /\ thr' = [thr EXCEPT ![t] = [@ EXCEPT !.st = "exited"]]
  /\ \/ UNCHANGED streams
     \/ streams' = [streams EXCEPT ![thr[t].slot] = [@ EXCEPT !.stop = TRUE]]
  /\ UNCHANGED <<num_streams, stream_id, rep, main, waiting_completion,
                 status>>

(* A receiver ends when it sees stop or cannot receive, and one of profile *)
(* Start_Sync at once; one of profile U-APSD has then set or seen stop and *)
(* closes its socket.                                                      *)
ReceiverEnds(t) ==
  /\ thr[t].st = "run"
  /\ thr[t].role = "receive"
  /\ thr' = [thr EXCEPT ![t] = [@ EXCEPT !.st = "exited"]]
  /\ \/ UNCHANGED streams
     \/ streams' = [streams EXCEPT ![thr[t].slot] =
                       [@ EXCEPT !.stop = TRUE, !.sock = "none"]]
  /\ UNCHANGED <<num_streams, stream_id, rep, main, waiting_completion,
                 status>>

(* send_burst tries a packet again for as long as send() fails, also after *)
(* it has set stop, and begins a new burst without a look at the time when *)
(* the last took too long; a U-APSD receiver that is to end waits for its  *)
(* sender on a condition variable (sigma_uapsd_stop).  What would end such *)
(* a wait lies outside this module and need not come.                      *)
Hold(t) ==
  /\ thr[t].st = "run"
  /\ thr' = [thr EXCEPT ![t] = [@ EXCEPT !.st = "held"]]
  /\ UNCHANGED <<streams, num_streams, stream_id, rep, main,
                 waiting_completion, status>>

HeldEnds(t) ==
  /\ thr[t].st = "held"
  /\ thr' = [thr EXCEPT ![t] = [@ EXCEPT !.st = "exited"]]
  /\ \/ /\ thr[t].role = "send"
        /\ \/ UNCHANGED streams
           \/ streams' =
                [streams EXCEPT ![thr[t].slot] = [@ EXCEPT !.stop = TRUE]]
     \/ /\ thr[t].role = "receive"
        /\ streams' = [streams EXCEPT ![thr[t].slot] =
                          [@ EXCEPT !.stop = TRUE, !.sock = "none"]]
  /\ UNCHANGED <<num_streams, stream_id, rep, main, waiting_completion,
                 status>>

-----------------------------------------------------------------------------
(* send_report_thread: stop_stream(get_stream(id)) for every identifier of *)
(* the command, which may be gone from the table by now.                   *)
ReportStop(r, id) ==
  /\ rep[r].pc = "stop"
  /\ id \in rep[r].todo
  /\ \/ /\ \A k \in get_stream(id) : ~streams[k].started
        /\ rep' = [rep EXCEPT ![r] = [@ EXCEPT !.todo = rep[r].todo \ {id}]]
     \/ \E k \in get_stream(id) :
          /\ streams[k].started
          /\ rep' = [rep EXCEPT ![r] =
                       [@ EXCEPT !.todo = rep[r].todo \ {id}, !.pc = "join", !.slot = k,
                                 !.target = streams[k].thr]]
  /\ UNCHANGED <<streams, num_streams, stream_id, thr, main,
                 waiting_completion, status>>

ReportJoined(r) ==
  /\ rep[r].pc = "join"
  /\ JoinReturns(rep[r].target)
  /\ streams' = [streams EXCEPT ![rep[r].slot] = Stopped(@)]
  /\ rep' = [rep EXCEPT ![r] = [@ EXCEPT !.pc = "stop", !.slot = 1,
                                         !.target = NoThread]]
  /\ UNCHANGED <<num_streams, stream_id, main, waiting_completion, status>>

(* The counters of all streams are read and written into the answer.       *)
ReportBuilt(r) ==
  /\ rep[r].pc = "stop"
  /\ rep[r].todo = {}
  /\ rep' = [rep EXCEPT ![r] = [@ EXCEPT !.pc = "clear", !.todo = rep[r].ids]]
  /\ UNCHANGED <<streams, num_streams, stream_id, thr, main,
                 waiting_completion, status>>

(* A stream is open for the next send command before its TCP socket, or    *)
(* whatever s->sock is by then, is closed.                                 *)
(* Mutation: UDP sockets are closed as well.                               *)
ReportClear_AllSockets(r, id) ==
  /\ rep[r].pc = "clear"
  /\ id \in rep[r].todo
  /\ \/ /\ get_stream(id) = {}
        /\ rep' = [rep EXCEPT ![r] = [@ EXCEPT !.todo = rep[r].todo \ {id}]]
        /\ UNCHANGED streams
     \/ \E k \in get_stream(id) :
          /\ streams' = [streams EXCEPT
                           ![k] = [@ EXCEPT !.ta_send_in_progress = FALSE]]
          /\ rep' = [rep EXCEPT ![r] = [@ EXCEPT !.todo = rep[r].todo \ {id},
                                            !.slot = k, !.pc = "close"]]
  /\ UNCHANGED <<num_streams, stream_id, thr, main, waiting_completion,
                 status>>
ReportClear(r, id) ==
  /\ rep[r].pc = "clear"
  /\ id \in rep[r].todo
  /\ \/ /\ get_stream(id) = {}
        /\ rep' = [rep EXCEPT ![r] = [@ EXCEPT !.todo = rep[r].todo \ {id}]]
        /\ UNCHANGED streams
     \/ \E k \in get_stream(id) :
          /\ streams' = [streams EXCEPT
                           ![k] = [@ EXCEPT !.ta_send_in_progress = FALSE]]
          /\ IF streams[k].tcp
               THEN rep' = [rep EXCEPT ![r] = [@ EXCEPT !.todo = rep[r].todo \ {id},
                                                 !.slot = k, !.pc = "close"]]
               ELSE rep' = [rep EXCEPT ![r] = [@ EXCEPT !.todo = rep[r].todo \ {id}]]
  /\ UNCHANGED <<num_streams, stream_id, thr, main, waiting_completion,
                 status>>

ReportClose(r) ==
  /\ rep[r].pc = "close"
  /\ streams' = [streams EXCEPT ![rep[r].slot] = [@ EXCEPT !.sock = "none"]]
  /\ rep' = [rep EXCEPT ![r] = [@ EXCEPT !.pc = "clear", !.slot = 1]]
  /\ UNCHANGED <<num_streams, stream_id, thr, main, waiting_completion,
                 status>>

(* The answer goes out unless the connection was closed meanwhile.         *)
ReportComplete(r) ==
  /\ rep[r].pc = "clear"
  /\ rep[r].todo = {}
  /\ \/ status' = [status EXCEPT ![rep[r].conn] = "COMPLETE"]
     \/ status' = [status EXCEPT ![rep[r].conn] = "closed"]
  /\ rep' = [rep EXCEPT ![r] = [@ EXCEPT !.pc = "done"]]
  /\ UNCHANGED <<streams, num_streams, stream_id, thr, main,
                 waiting_completion>>

(* Mutation: the slot is not released.                                     *)
ReportDone_StillWaiting(r) ==
  /\ rep[r].pc = "done"
  /\ rep' = [rep EXCEPT ![r] = NoReport]
  /\ UNCHANGED <<streams, num_streams, stream_id, thr, main,
                 waiting_completion, status>>
ReportDone(r) ==
  /\ rep[r].pc = "done"
  /\ waiting_completion' = [waiting_completion EXCEPT ![rep[r].conn] = FALSE]
  /\ rep' = [rep EXCEPT ![r] = NoReport]
  /\ UNCHANGED <<streams, num_streams, stream_id, thr, main, status>>

-----------------------------------------------------------------------------
CommandStep ==
  \E c \in Conns :
    \/ ConfigRefused(c) \/ Config(c) \/ Reset(c)
    \/ \E S \in SUBSET Ids \ {{}} :
         \/ BadList(c, S) \/ SendRefused(c, S) \/ Send(c, S)
         \/ WrongStreams(c, S, TRUE) \/ WrongStreams(c, S, FALSE)
         \/ ReceiveStart(c, S) \/ NotStarted(c, S) \/ ReceiveStop(c, S)

HandlerStep ==
  \/ \E k \in Slots :
       OpenSocket(k) \/ CreateThread(k) \/ MarkSending(k) \/ MainStop(k)
  \/ CreateReport \/ MainJoined \/ StopsDone

StreamThread(t) ==
  Accept(t) \/ SenderEnds(t) \/ ReceiverEnds(t) \/ Hold(t) \/ HeldEnds(t)

ReportStep(r) ==
  \/ \E id \in Ids : ReportStop(r, id) \/ ReportClear(r, id)
  \/ ReportJoined(r) \/ ReportBuilt(r) \/ ReportClose(r)
  \/ ReportComplete(r) \/ ReportDone(r)

Next ==
  \/ CommandStep
  \/ HandlerStep
  \/ \E t \in Threads : StreamThread(t)
  \/ \E r \in Reports : ReportStep(r)

Spec == Init /\ [][Next]_vars

(* Every thread that can go on does.  Unless it is held, a sender ends as  *)
(* its loop looks at the time, and a receiver that was told to stop as its *)
(* loop looks at stop every 300 ms.  No peer has to connect, nothing that  *)
(* is held has to end, and no command has to come.                         *)
Fairness ==
  /\ WF_vars(HandlerStep)
  /\ \A r \in Reports : WF_vars(ReportStep(r))
  /\ \A t \in Threads :
       /\ WF_vars(SenderEnds(t))
       /\ WF_vars(streams[thr[t].slot].stop /\ ReceiverEnds(t))

FairSpec == Spec /\ Fairness

-----------------------------------------------------------------------------
(* Stream identifiers are never given out twice, also across resets: two   *)
(* configured streams differ, and the stream a report finds under one of   *)
(* its identifiers is still the sender the command named (get_stream in a  *)
(* report thread that a reset and new configurations have overtaken).      *)
StreamIdsUnique ==
  \A j, k \in Configured :
    /\ streams[j].stream_id \in 1..stream_id
    /\ streams[j].stream_id = streams[k].stream_id => j = k

ReportNamesSenders ==
  \A r \in Reports : rep[r].pc # "none" =>
    \A k \in Named(rep[r].ids) : streams[k].sender

(* A connection slot is kept from new connections only as long as a report *)
(* thread exists that will release it, failed commands included.           *)
WaitingHasReport ==
  \A c \in Conns : waiting_completion[c] =>
    \E r \in Reports : rep[r].conn = c /\ rep[r].pc # "none"

(* While stop_stream() waits in pthread_join, the stream whose socket and  *)
(* started flag it goes on to clear is the stream it was called for: not   *)
(* reset, configured or started anew behind its back.                      *)
StopStreamFresh ==
  Orderly =>
    /\ \A r \in Reports : rep[r].pc = "join" =>
         /\ rep[r].slot \in Named(rep[r].ids)
         /\ streams[rep[r].slot].started
         /\ streams[rep[r].slot].thr = rep[r].target
    /\ main.pc = "join" =>
         /\ main.slot \in Configured
         /\ streams[main.slot].started
         /\ streams[main.slot].thr = main.target

(* No thread is joined by two threads at a time, which POSIX leaves        *)
(* undefined.                                                              *)
NoDoubleJoin ==
  Orderly => \A t \in Threads : \A a, b \in Joiners(t) : a = b

(* A sending or receiving thread belongs to a configured and started       *)
(* stream that knows it, so that reset and receive_stop can end it: no     *)
(* thread is forgotten, and no stream has two.                             *)
Live(t) == thr[t].st # "free"
ThreadsKnown ==
  (Orderly /\ ~CanFail) =>
    \A t \in Threads : Live(t) =>
      /\ thr[t].slot \in Configured
      /\ streams[thr[t].slot].started
      /\ streams[thr[t].slot].thr = t

(* The answer to a send command is made only when none of its streams'     *)
(* senders is at work: the counters it reports are final.                  *)
CompleteAfterSend ==
  (Orderly /\ ~CanFail) =>
    \A r \in Reports : rep[r].pc = "clear" =>
      \A t \in Threads :
        thr[t].slot \in Named(rep[r].todo) => thr[t].st \notin {"run", "held"}

(* No thread works on a socket that was closed under it, except a TCP      *)
(* sender; how that one loses its socket is said by SocketTaken.           *)
Using(t) == thr[t].st \in {"accept", "run", "held"}
TcpSender(k) == streams[k].tcp /\ streams[k].sender
SocketHeld ==
  (Orderly /\ ~CanFail) =>
    \A t \in Threads : Using(t) =>
      streams[thr[t].slot].sock = "open" \/ TcpSender(thr[t].slot)

(* The socket of a stream that a thread works on, or that the handler has  *)
(* opened for the thread it is about to create, is closed by nobody but a  *)
(* report thread that closes the TCP socket of the send command before     *)
(* (traffic_agent.c 1091): stop_stream() has closed that one already, so   *)
(* all it can find there is the socket of the next command.                *)
Prepared(k) ==
  \/ main.pc = "open" /\ k \in main.all \ main.todo
  \/ main.pc = "create" /\ k \in main.todo
InUse(k) == Prepared(k) \/ \E t \in Threads : Using(t) /\ thr[t].slot = k
SocketTaken ==
  [][(Orderly /\ ~CanFail) =>
       \A k \in Slots :
         /\ InUse(k) /\ InUse(k)'
         /\ streams[k].sock = "open" /\ streams'[k].sock # "open"
         => /\ TcpSender(k)
            /\ \E r \in Reports : rep[r].pc = "close" /\ rep[r].slot = k
                                 /\ rep'[r].pc = "clear"]_vars

(* A command handler comes back to the server loop, and a report thread    *)
(* ends, whatever the stream threads are doing, with one exception: it is  *)
(* for ever joining a thread that looks at stop no more.  That is a TCP    *)
(* receiver whose peer does not connect, or a thread that is held.         *)
Waits(t) == thr[t].st \in {"accept", "held"}

HandlerReturns ==
  \/ []<>(main.pc = "idle")
  \/ <>[](main.pc = "join" /\ Waits(main.target))
ReportsEnd ==
  \A r \in Reports :
    \/ []<>(rep[r].pc = "none")
    \/ <>[](rep[r].pc = "join" /\ Waits(rep[r].target))

(* The answer "Multiple concurrent send cmds on same streamID not          *)
(* supported" (traffic_agent.c:1160) is given while a send command on the  *)
(* stream is under way, and not after it.                                  *)
RefusedOnlyWhileSending ==
  main.pc = "idle" =>
    \A k \in Configured : streams[k].ta_send_in_progress =>
      \E r \in Reports : /\ rep[r].pc \in {"stop", "join", "clear"}
                         /\ streams[k].stream_id \in rep[r].ids

(* The same line's promise that one stream is never sent on twice at once. *)
Sending(t) == thr[t].st \in {"run", "held"} /\ thr[t].role = "send"
NoConcurrentSends ==
  \A t, u \in Threads :
    Sending(t) /\ Sending(u) /\ thr[t].slot = thr[u].slot => t = u

=============================================================================
