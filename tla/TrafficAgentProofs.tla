-------------------------- MODULE TrafficAgentProofs --------------------------
(***************************************************************************)
(* Theorems about TrafficAgent for every table size, every set of threads  *)
(* and connections and every controller.                                   *)
(***************************************************************************)
EXTENDS TrafficAgent, TLAPS

-----------------------------------------------------------------------------
(* Type correctness. *)

LEMMA ConstantTypes ==
  /\ Zeroed \in Stream
  /\ Cleared \in [Slots -> Stream]
  /\ FreeThread \in Thread
  /\ NoReport \in Report
  /\ Idle \in Handler
  /\ 1 \in Slots
BY ConstantsAssumption
   DEF Zeroed, Cleared, Stream, Slots, FreeThread, Thread, NoReport, Report,
       Idle, Handler

LEMMA NewStreamType ==
  ASSUME NEW s \in BOOLEAN, NEW t \in BOOLEAN, NEW i \in 0..MaxStreamId
  PROVE  NewStream(s, t, i) \in Stream
BY DEF NewStream, Zeroed, Stream

(* Assigning the fields that the actions assign keeps a record typed, and  *)
(* the fields they read have their types.                                  *)
LEMMA StreamFields ==
  ASSUME NEW s \in Stream
  PROVE  /\ [s EXCEPT !.sock = "none"] \in Stream
         /\ [s EXCEPT !.sock = "open"] \in Stream
         /\ [s EXCEPT !.stop = TRUE] \in Stream
         /\ [s EXCEPT !.ta_send_in_progress = TRUE] \in Stream
         /\ [s EXCEPT !.ta_send_in_progress = FALSE] \in Stream
         /\ Stopped(s) \in Stream
         /\ s.thr \in Threads \cup {NoThread}
         /\ s.stop \in BOOLEAN
<1>1. [s EXCEPT !.sock = "none"] \in Stream
  BY DEF Stream, Stopped
<1>2. [s EXCEPT !.sock = "open"] \in Stream
  BY DEF Stream, Stopped
<1>3. [s EXCEPT !.stop = TRUE] \in Stream
  BY DEF Stream, Stopped
<1>4. [s EXCEPT !.ta_send_in_progress = TRUE] \in Stream
  BY DEF Stream, Stopped
<1>5. [s EXCEPT !.ta_send_in_progress = FALSE] \in Stream
  BY DEF Stream, Stopped
<1>6. Stopped(s) \in Stream
  BY DEF Stream, Stopped
<1>7. s.thr \in Threads \cup {NoThread}
  BY DEF Stream, Stopped
<1>8. s.stop \in BOOLEAN
  BY DEF Stream, Stopped
<1> QED BY <1>1, <1>2, <1>3, <1>4, <1>5, <1>6, <1>7, <1>8

LEMMA StreamThr ==
  ASSUME NEW s \in Stream, NEW t \in Threads
  PROVE  [s EXCEPT !.thr = t, !.started = TRUE] \in Stream
BY DEF Stream

LEMMA StreamStop ==
  ASSUME NEW s \in Stream, NEW b \in BOOLEAN
  PROVE  [s EXCEPT !.stop = b] \in Stream
BY DEF Stream

(* What an ending thread may do to its stream.                             *)
LEMMA StreamEnd ==
  ASSUME NEW s \in Stream
  PROVE  [s EXCEPT !.stop = TRUE, !.sock = "none"] \in Stream
BY DEF Stream

LEMMA ThreadFields ==
  ASSUME NEW t \in Thread
  PROVE  /\ [t EXCEPT !.st = "run"] \in Thread
         /\ [t EXCEPT !.st = "held"] \in Thread
         /\ [t EXCEPT !.st = "exited"] \in Thread
         /\ t.slot \in Slots
<1>1. [t EXCEPT !.st = "run"] \in Thread
  BY DEF Thread
<1>2. [t EXCEPT !.st = "held"] \in Thread
  BY DEF Thread
<1>3. [t EXCEPT !.st = "exited"] \in Thread
  BY DEF Thread
<1>4. t.slot \in Slots
  BY DEF Thread
<1> QED BY <1>1, <1>2, <1>3, <1>4

LEMMA ReportFields ==
  ASSUME NEW r \in Report
  PROVE  /\ [r EXCEPT !.pc = "clear", !.todo = r.ids] \in Report
         /\ [r EXCEPT !.pc = "done"] \in Report
         /\ r.slot \in Slots
<1>1. [r EXCEPT !.pc = "clear", !.todo = r.ids] \in Report
  BY DEF Report
<1>2. [r EXCEPT !.pc = "done"] \in Report
  BY DEF Report
<1>3. r.slot \in Slots
  BY DEF Report
<1> QED BY <1>1, <1>2, <1>3

LEMMA ReportTodo ==
  ASSUME NEW r \in Report, NEW id
  PROVE  [r EXCEPT !.todo = r.todo \ {id}] \in Report
BY DEF Report

LEMMA ReportToJoin ==
  ASSUME NEW r \in Report, NEW id, NEW k \in Slots,
         NEW t \in Threads \cup {NoThread}
  PROVE  /\ [r EXCEPT !.todo = r.todo \ {id}, !.pc = "join", !.slot = k, !.target = t]
              \in Report
         /\ [r EXCEPT !.pc = "stop", !.slot = k, !.target = t] \in Report
<1>1. [r EXCEPT !.todo = r.todo \ {id}, !.pc = "join", !.slot = k, !.target = t]
              \in Report
  BY DEF Report
<1>2. [r EXCEPT !.pc = "stop", !.slot = k, !.target = t] \in Report
  BY DEF Report
<1> QED BY <1>1, <1>2

LEMMA ReportToClose ==
  ASSUME NEW r \in Report, NEW id, NEW k \in Slots
  PROVE  /\ [r EXCEPT !.todo = r.todo \ {id}, !.slot = k, !.pc = "close"] \in Report
         /\ [r EXCEPT !.pc = "clear", !.slot = k] \in Report
<1>1. [r EXCEPT !.todo = r.todo \ {id}, !.slot = k, !.pc = "close"] \in Report
  BY DEF Report
<1>2. [r EXCEPT !.pc = "clear", !.slot = k] \in Report
  BY DEF Report
<1> QED BY <1>1, <1>2

LEMMA HandlerFields ==
  ASSUME NEW m \in Handler, NEW k \in Slots,
         NEW t \in Threads \cup {NoThread}
  PROVE  /\ [m EXCEPT !.todo = @ \ {k}] \in Handler
         /\ [m EXCEPT !.pc = "mark"] \in Handler
         /\ [m EXCEPT !.pc = "stop", !.slot = k, !.target = t] \in Handler
         /\ [m EXCEPT !.todo = @ \ {k}, !.pc = "join", !.slot = k, !.target = t]
              \in Handler
         /\ m.slot \in Slots
<1>1. [m EXCEPT !.todo = @ \ {k}] \in Handler
  BY DEF Handler
<1>2. [m EXCEPT !.pc = "mark"] \in Handler
  BY DEF Handler
<1>3. [m EXCEPT !.pc = "stop", !.slot = k, !.target = t] \in Handler
  BY DEF Handler
<1>4. [m EXCEPT !.todo = @ \ {k}, !.pc = "join", !.slot = k, !.target = t]
              \in Handler
  BY DEF Handler
<1>5. m.slot \in Slots
  BY DEF Handler
<1> QED BY <1>1, <1>2, <1>3, <1>4, <1>5

LEMMA ReportStart ==
  ASSUME NEW m \in Handler
  PROVE  [NoReport EXCEPT !.pc = "stop", !.conn = m.conn, !.ids = m.ids,
                          !.todo = m.ids] \in Report
BY ConstantTypes DEF Handler, Report, NoReport

LEMMA BeginType ==
  ASSUME NEW c \in Conns, NEW S \in SUBSET Ids, NEW all \in SUBSET Slots,
         NEW o \in {"send", "receive_start", "receive_stop", "reset"},
         NEW p \in {"open", "stop"}, Begin(c, o, p, S, all)
  PROVE  main' \in Handler
BY ConstantTypes DEF Begin, Handler, Idle

LEMMA ConfiguredSlots == TypeOK => Configured \subseteq Slots
BY ConstantsAssumption DEF TypeOK, Configured, Slots

LEMMA NamedSlots ==
  ASSUME TypeOK PROVE /\ \A S : Named(S) \subseteq Configured
                      /\ \A S : Named(S) \subseteq Slots
                      /\ \A id : get_stream(id) \subseteq Slots
                      /\ Configured \subseteq Slots
BY ConfiguredSlots DEF Named, get_stream

(* Init establishes the types.                                             *)
LEMMA TypeInit == Init => TypeOK
BY ConstantTypes, ConstantsAssumption
   DEF Init, TypeOK, Statuses, Cleared

LEMMA TypeCommand == TypeOK /\ CommandStep => TypeOK'
<1> SUFFICES ASSUME TypeOK, NEW c \in Conns PROVE
      /\ ConfigRefused(c) => TypeOK'
      /\ Config(c) => TypeOK'
      /\ Reset(c) => TypeOK'
      /\ \A S \in SUBSET Ids \ {{}} :
           /\ BadList(c, S) \/ SendRefused(c, S) \/ NotStarted(c, S)
                \/ WrongStreams(c, S, TRUE) \/ WrongStreams(c, S, FALSE)
                => TypeOK'
           /\ Send(c, S) => TypeOK'
           /\ ReceiveStart(c, S) => TypeOK'
           /\ ReceiveStop(c, S) => TypeOK'
  BY DEF CommandStep
<1> USE DEF TypeOK, Statuses
<1>1. ConfigRefused(c) => TypeOK'
  <2> SUFFICES ASSUME ConfigRefused(c) PROVE TypeOK'
    OBVIOUS
  <2>1. streams' \in [Slots -> Stream]
    <3>1. \A s \in BOOLEAN : NewStream(s, FALSE, 0) \in Stream
      <4>1. FALSE \in BOOLEAN /\ 0 \in 0..MaxStreamId
        BY ConstantsAssumption
      <4> QED BY <4>1, NewStreamType
    <3> QED BY <3>1 DEF ConfigRefused
  <2> QED BY <2>1 DEF ConfigRefused
<1>2. Config(c) => TypeOK'
  <2> SUFFICES ASSUME Config(c) PROVE TypeOK'
    OBVIOUS
  <2>1. stream_id' \in 0..MaxStreamId /\ num_streams' \in 0..MaxStreams
    BY ConstantsAssumption DEF Config, TableFull
  <2>2. streams' \in [Slots -> Stream]
    <3>1. PICK s \in BOOLEAN, t \in BOOLEAN :
            streams' = [streams EXCEPT ![num_streams + 1] =
                         NewStream(s, t, stream_id + 1)]
      BY DEF Config
    <3>2. stream_id + 1 \in 0..MaxStreamId
      BY <2>1 DEF Config
    <3>3. NewStream(s, t, stream_id + 1) \in Stream
      BY <3>2, NewStreamType
    <3>4. streams \in [Slots -> Stream]
      BY DEF TypeOK
    <3> QED BY ONLY <3>1, <3>3, <3>4
  <2> QED BY <2>1, <2>2 DEF Config
<1>3. Reset(c) => TypeOK'
  <2>1. Reset(c) /\ num_streams # 0 => main' \in Handler
    <3>1. Configured \in SUBSET Slots
      BY ConfiguredSlots
    <3> QED BY <3>1, BeginType DEF Reset
  <2> QED BY <2>1, ConstantTypes DEF Reset
<1>4. ASSUME NEW S \in SUBSET Ids PROVE
      /\ BadList(c, S) \/ SendRefused(c, S) \/ NotStarted(c, S)
           \/ WrongStreams(c, S, TRUE) \/ WrongStreams(c, S, FALSE)
           => TypeOK'
      /\ Send(c, S) => TypeOK'
      /\ ReceiveStart(c, S) => TypeOK'
      /\ ReceiveStop(c, S) => TypeOK'
  <2>0. Named(S) \in SUBSET Slots
    BY NamedSlots
  <2>1. BadList(c, S) \/ SendRefused(c, S) \/ NotStarted(c, S)
          \/ WrongStreams(c, S, TRUE) \/ WrongStreams(c, S, FALSE)
          => TypeOK'
    BY DEF BadList, SendRefused, NotStarted, WrongStreams, Answer
  <2>2. Send(c, S) => TypeOK'
    BY <2>0, BeginType DEF Send
  <2>3. ReceiveStart(c, S) => TypeOK'
    BY <2>0, BeginType DEF ReceiveStart
  <2>4. ReceiveStop(c, S) => TypeOK'
    <3> SUFFICES ASSUME ReceiveStop(c, S) PROVE TypeOK'
      OBVIOUS
    <3>1. main' \in Handler
      BY <2>0, BeginType DEF ReceiveStop
    <3>2. ASSUME NEW s \in Stream PROVE [s EXCEPT !.stop = TRUE] \in Stream
      BY DEF Stream
    <3>3. streams' \in [Slots -> Stream]
      BY <3>2 DEF ReceiveStop
    <3> QED BY <3>1, <3>3 DEF ReceiveStop
  <2> QED BY <2>1, <2>2, <2>3, <2>4
<1> QED BY <1>1, <1>2, <1>3, <1>4

LEMMA TypeHandler == TypeOK /\ HandlerStep => TypeOK'
<1> SUFFICES ASSUME TypeOK, NEW k \in Slots PROVE
      /\ OpenSocket(k) => TypeOK'
      /\ CreateThread(k) => TypeOK'
      /\ MarkSending(k) => TypeOK'
      /\ MainStop(k) => TypeOK'
      /\ CreateReport => TypeOK'
      /\ MainJoined => TypeOK'
      /\ StopsDone => TypeOK'
  BY ConstantTypes DEF HandlerStep
<1>0. /\ streams \in [Slots -> Stream] /\ streams[k] \in Stream
      /\ main \in Handler /\ thr \in [Threads -> Thread]
      /\ status \in [Conns -> Statuses]
  BY DEF TypeOK
<1>1. ASSUME NEW next \in {"create", "report", "idle"}, Loop(k, next)
      PROVE  main' \in Handler
  BY <1>0, <1>1 DEF Loop, Handler
<1>2. ASSUME NEW st \in {"COMPLETE", "ERROR"}, Return(st)
      PROVE  main' \in Handler /\ status' \in [Conns -> Statuses]
  BY <1>0, <1>2, ConstantTypes DEF Return, Statuses
<1>3. ASSUME OpenSocket(k) PROVE TypeOK'
  <2>1. streams' \in [Slots -> Stream]
    BY <1>0, <1>3, StreamFields DEF OpenSocket
  <2>2. main' \in Handler /\ status' \in [Conns -> Statuses]
    BY <1>0, <1>1, <1>2, <1>3 DEF OpenSocket
  <2> QED BY <1>3, <2>1, <2>2 DEF OpenSocket, TypeOK
<1>4. ASSUME CreateThread(k) PROVE TypeOK'
  <2>0. NewThread(k) \in Thread
    BY DEF NewThread, Thread
  <2>1. thr' \in [Threads -> Thread]
    BY <1>0, <1>4, <2>0 DEF CreateThread
  <2>2. streams' \in [Slots -> Stream]
    BY <1>0, <1>4, StreamThr DEF CreateThread
  <2>3. main' \in Handler /\ status' \in [Conns -> Statuses]
    BY <1>0, <1>1, <1>2, <1>4 DEF CreateThread
  <2> QED BY <1>4, <2>1, <2>2, <2>3 DEF CreateThread, TypeOK
<1>5. ASSUME MarkSending(k) PROVE TypeOK'
  <2>1. streams' \in [Slots -> Stream]
    BY <1>0, <1>5, StreamFields DEF MarkSending
  <2>2. main' \in Handler
    BY <1>1, <1>5, ConstantTypes DEF MarkSending
  <2> QED BY <1>5, <2>1, <2>2 DEF MarkSending, TypeOK
<1>6. ASSUME MainStop(k) PROVE TypeOK'
  <2>1. streams' \in [Slots -> Stream]
    <3>1. (streams[k].stop \/ main.op = "reset") \in BOOLEAN
      BY <1>0, StreamFields
    <3> QED BY <1>0, <1>6, <3>1, StreamStop DEF MainStop
  <2>2. main' \in Handler
    <3>1. streams[k].thr \in Threads \cup {NoThread}
      BY <1>0 DEF Stream
    <3> QED BY <1>0, <1>6, <3>1, HandlerFields DEF MainStop
  <2> QED BY <1>6, <2>1, <2>2 DEF MainStop, TypeOK
<1>7. ASSUME CreateReport PROVE TypeOK'
  <2>1. main' \in Handler /\ status' \in [Conns -> Statuses]
    <3>1. [main EXCEPT !.pc = "mark"] \in Handler
      BY <1>0 DEF Handler
    <3> QED BY <1>0, <1>2, <1>7, <3>1 DEF CreateReport
  <2>2. rep' \in [Reports -> Report]
    BY <1>0, <1>7, ReportStart DEF CreateReport, TypeOK
  <2>3. waiting_completion' \in [Conns -> BOOLEAN]
    BY <1>7 DEF CreateReport, TypeOK
  <2> QED BY <1>7, <2>1, <2>2, <2>3 DEF CreateReport, TypeOK
<1>8. ASSUME MainJoined PROVE TypeOK'
  <2>0. main.slot \in Slots
    BY <1>0 DEF Handler
  <2>1. streams' \in [Slots -> Stream]
    <3>1. Stopped(streams[main.slot]) \in Stream
      BY <1>0, <2>0, StreamFields
    <3> QED BY <1>0, <1>8, <2>0, <3>1 DEF MainJoined
  <2>2. main' \in Handler
    BY <1>0, <1>8, ConstantTypes, HandlerFields DEF MainJoined
  <2>3. thr' \in [Threads -> Thread]
    BY <1>0, <1>8, ConstantTypes DEF MainJoined, JoinReturns
  <2> QED BY <1>8, <2>1, <2>2, <2>3 DEF MainJoined, TypeOK
<1>9. ASSUME StopsDone PROVE TypeOK'
  BY <1>2, <1>9, ConstantTypes, ConstantsAssumption DEF StopsDone, TypeOK
<1> QED BY <1>3, <1>4, <1>5, <1>6, <1>7, <1>8, <1>9

LEMMA TypeThread ==
  ASSUME NEW t \in Threads, TypeOK, StreamThread(t) PROVE TypeOK'
<1>0. /\ thr \in [Threads -> Thread] /\ thr[t] \in Thread
      /\ streams \in [Slots -> Stream]
  BY DEF TypeOK
<1>1. CASE Accept(t)
  <2>1. thr' \in [Threads -> Thread]
    BY <1>0, <1>1, ThreadFields DEF Accept
  <2>2. streams' \in [Slots -> Stream]
    <3>1. /\ thr[t].slot \in Slots
          /\ [streams[thr[t].slot] EXCEPT !.sock = "open"] \in Stream
      BY <1>0, ThreadFields, StreamFields
    <3> QED BY <1>0, <1>1, <3>1 DEF Accept
  <2> QED BY <1>1, <2>1, <2>2 DEF Accept, TypeOK
<1>2. CASE SenderEnds(t)
  <2>1. thr' \in [Threads -> Thread]
    BY <1>0, <1>2, ThreadFields DEF SenderEnds
  <2>2. streams' \in [Slots -> Stream]
    <3>1. /\ thr[t].slot \in Slots
          /\ [streams[thr[t].slot] EXCEPT !.stop = TRUE] \in Stream
      BY <1>0, ThreadFields, StreamFields
    <3> QED BY <1>0, <1>2, <3>1 DEF SenderEnds
  <2> QED BY <1>2, <2>1, <2>2 DEF SenderEnds, TypeOK
<1>3. CASE ReceiverEnds(t)
  <2>1. thr' \in [Threads -> Thread]
    BY <1>0, <1>3, ThreadFields DEF ReceiverEnds
  <2>2. streams' \in [Slots -> Stream]
    <3>1. /\ thr[t].slot \in Slots
          /\ [streams[thr[t].slot] EXCEPT !.stop = TRUE, !.sock = "none"] \in Stream
      BY <1>0, ThreadFields, StreamEnd
    <3> QED BY <1>0, <1>3, <3>1 DEF ReceiverEnds
  <2> QED BY <1>3, <2>1, <2>2 DEF ReceiverEnds, TypeOK
<1>4. CASE Hold(t)
  <2>1. thr' \in [Threads -> Thread]
    BY <1>0, <1>4, ThreadFields DEF Hold
  <2> QED BY <1>4, <2>1 DEF Hold, TypeOK
<1>5. CASE HeldEnds(t)
  <2>1. thr' \in [Threads -> Thread]
    BY <1>0, <1>5, ThreadFields DEF HeldEnds
  <2>2. streams' \in [Slots -> Stream]
    <3>1. /\ thr[t].slot \in Slots
          /\ [streams[thr[t].slot] EXCEPT !.stop = TRUE] \in Stream
          /\ [streams[thr[t].slot] EXCEPT !.stop = TRUE, !.sock = "none"] \in Stream
      BY <1>0, ThreadFields, StreamFields, StreamEnd
    <3> QED BY <1>0, <1>5, <3>1 DEF HeldEnds
  <2> QED BY <1>5, <2>1, <2>2 DEF HeldEnds, TypeOK
<1> QED BY <1>1, <1>2, <1>3, <1>4, <1>5 DEF StreamThread

LEMMA TypeReport ==
  ASSUME NEW r \in Reports, TypeOK, ReportStep(r) PROVE TypeOK'
<1>0. /\ rep \in [Reports -> Report] /\ rep[r] \in Report
      /\ streams \in [Slots -> Stream]
      /\ rep[r].slot \in Slots
      /\ 1 \in Slots
      /\ NoThread \in Threads \cup {NoThread}
      /\ \A id : get_stream(id) \subseteq Slots
  BY NamedSlots, ReportFields, ConstantTypes DEF TypeOK
<1>1. ASSUME NEW id \in Ids, ReportStop(r, id) PROVE TypeOK'
  <2>1. \A k \in Slots : streams[k].thr \in Threads \cup {NoThread}
    BY <1>0 DEF Stream
  <2>2. rep' \in [Reports -> Report]
    <3>1. /\ [rep[r] EXCEPT !.todo = rep[r].todo \ {id}] \in Report
          /\ \A k \in get_stream(id) :
               [rep[r] EXCEPT !.todo = rep[r].todo \ {id}, !.pc = "join", !.slot = k,
                              !.target = streams[k].thr] \in Report
      BY <1>0, <2>1, ReportTodo, ReportToJoin
    <3>2. CASE rep' = [rep EXCEPT ![r] = [@ EXCEPT !.todo = rep[r].todo \ {id}]]
      BY <1>0, <3>1, <3>2
    <3>3. ASSUME NEW k \in get_stream(id),
                 rep' = [rep EXCEPT ![r] =
                   [@ EXCEPT !.todo = rep[r].todo \ {id}, !.pc = "join", !.slot = k,
                             !.target = streams[k].thr]]
          PROVE  rep' \in [Reports -> Report]
      BY <1>0, <3>1, <3>3
    <3> QED BY <1>1, <3>2, <3>3 DEF ReportStop
  <2> QED BY <1>1, <2>2 DEF ReportStop, TypeOK
<1>2. ASSUME NEW id \in Ids, ReportClear(r, id) PROVE TypeOK'
  <2>1. rep' \in [Reports -> Report]
    <3>1. /\ [rep[r] EXCEPT !.todo = rep[r].todo \ {id}] \in Report
          /\ \A k \in get_stream(id) :
               [rep[r] EXCEPT !.todo = rep[r].todo \ {id}, !.slot = k, !.pc = "close"]
                 \in Report
      BY <1>0, ReportTodo, ReportToClose
    <3>2. CASE rep' = [rep EXCEPT ![r] = [@ EXCEPT !.todo = rep[r].todo \ {id}]]
      BY <1>0, <3>1, <3>2
    <3>3. ASSUME NEW k \in get_stream(id),
                 rep' = [rep EXCEPT ![r] =
                   [@ EXCEPT !.todo = rep[r].todo \ {id}, !.slot = k, !.pc = "close"]]
          PROVE  rep' \in [Reports -> Report]
      BY <1>0, <3>1, <3>3
    <3> QED BY <1>2, <3>2, <3>3 DEF ReportClear
  <2>2. streams' \in [Slots -> Stream]
    <3>1. \A k \in get_stream(id) : /\ k \in Slots
            /\ [streams[k] EXCEPT !.ta_send_in_progress = FALSE] \in Stream
      BY <1>0, StreamFields
    <3> QED BY <1>0, <1>2, <3>1 DEF ReportClear
  <2> QED BY <1>2, <2>1, <2>2 DEF ReportClear, TypeOK
<1>3. CASE ReportJoined(r)
  <2>1. streams' \in [Slots -> Stream]
    <3>1. Stopped(streams[rep[r].slot]) \in Stream
      BY <1>0, StreamFields
    <3> QED BY <1>0, <1>3, <3>1 DEF ReportJoined
  <2>2. rep' \in [Reports -> Report]
    BY <1>0, <1>3, ReportToJoin DEF ReportJoined
  <2>3. thr' \in [Threads -> Thread]
    BY <1>3, ConstantTypes DEF ReportJoined, JoinReturns, TypeOK
  <2> QED BY <1>3, <2>1, <2>2, <2>3 DEF ReportJoined, TypeOK
<1>4. CASE ReportBuilt(r)
  <2>1. rep' \in [Reports -> Report]
    BY <1>0, <1>4, ReportFields DEF ReportBuilt
  <2> QED BY <1>4, <2>1 DEF ReportBuilt, TypeOK
<1>5. CASE ReportClose(r)
  <2>1. streams' \in [Slots -> Stream]
    <3>1. [streams[rep[r].slot] EXCEPT !.sock = "none"] \in Stream
      BY <1>0 DEF Stream
    <3> QED BY <1>0, <1>5, <3>1 DEF ReportClose
  <2>2. rep' \in [Reports -> Report]
    BY <1>0, <1>5, ReportToClose DEF ReportClose
  <2> QED BY <1>5, <2>1, <2>2 DEF ReportClose, TypeOK
<1>6. CASE ReportComplete(r)
  <2>1. rep' \in [Reports -> Report]
    BY <1>0, <1>6, ReportFields DEF ReportComplete
  <2> QED BY <1>6, <2>1 DEF ReportComplete, Statuses, TypeOK
<1>7. CASE ReportDone(r)
  BY <1>7, ConstantTypes DEF ReportDone, TypeOK
<1> QED BY <1>1, <1>2, <1>3, <1>4, <1>5, <1>6, <1>7 DEF ReportStep

LEMMA TypeNext == TypeOK /\ [Next]_vars => TypeOK'
<1> SUFFICES ASSUME TypeOK, [Next]_vars PROVE TypeOK'
  OBVIOUS
<1>1. CASE UNCHANGED vars
  BY <1>1 DEF TypeOK, vars
<1> QED
  BY <1>1, TypeCommand, TypeHandler, TypeThread, TypeReport DEF Next

(* Every variable keeps its type, for all constants and all controllers.   *)
THEOREM TypeCorrect == Spec => []TypeOK
BY TypeInit, TypeNext, PTL DEF Spec

=============================================================================
