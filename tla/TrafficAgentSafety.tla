-------------------------- MODULE TrafficAgentSafety --------------------------
(***************************************************************************)
(* The safety theorems of TrafficAgent: stream identifiers name what they  *)
(* named when the command came, no connection slot is withheld for nobody, *)
(* and, for an orderly controller, stop_stream() finishes on the stream it *)
(* began with and no thread is joined by two threads at once; when nothing *)
(* fails either, no thread is forgotten by its stream, a send command is   *)
(* answered after its senders have ended, and only a TCP sender can have   *)
(* its socket closed under it, by one report thread's one step.            *)
(***************************************************************************)
EXTENDS TrafficAgentProofs

-----------------------------------------------------------------------------
(* What the actions do to records, field by field. *)

(* A stream that only changed in its socket or stop flag.                  *)
SameStream(s, t) ==
  /\ t.stream_id = s.stream_id
  /\ t.sender = s.sender
  /\ t.tcp = s.tcp
  /\ t.started = s.started
  /\ t.thr = s.thr
  /\ t.ta_send_in_progress = s.ta_send_in_progress

LEMMA StreamEffects ==
  ASSUME NEW s \in Stream, NEW b \in BOOLEAN, NEW v \in {"none", "open"}
  PROVE  /\ SameStream(s, s)
         /\ SameStream(s, [s EXCEPT !.sock = v])
         /\ SameStream(s, [s EXCEPT !.stop = b])
         /\ SameStream(s, [s EXCEPT !.stop = b, !.sock = v])
<1>1. SameStream(s, s)
  BY DEF SameStream
<1>2. SameStream(s, [s EXCEPT !.sock = v])
  BY DEF SameStream, Stream
<1>3. SameStream(s, [s EXCEPT !.stop = b])
  BY DEF SameStream, Stream
<1>4. SameStream(s, [s EXCEPT !.stop = b, !.sock = v])
  BY DEF SameStream, Stream
<1> QED BY <1>1, <1>2, <1>3, <1>4

LEMMA StreamMarked ==
  ASSUME NEW s \in Stream, NEW b \in BOOLEAN,
         NEW t, t = [s EXCEPT !.ta_send_in_progress = b]
  PROVE  /\ t.stream_id = s.stream_id
         /\ t.sender = s.sender /\ t.tcp = s.tcp
         /\ t.started = s.started
         /\ t.thr = s.thr
         /\ t.ta_send_in_progress = b
BY DEF Stream

LEMMA StreamStarted ==
  ASSUME NEW s \in Stream, NEW u \in Threads,
         NEW t, t = [s EXCEPT !.thr = u, !.started = TRUE]
  PROVE  /\ t.stream_id = s.stream_id
         /\ t.sender = s.sender /\ t.tcp = s.tcp
         /\ t.started
         /\ t.thr = u
         /\ t.ta_send_in_progress = s.ta_send_in_progress
BY DEF Stream

LEMMA StreamStopped ==
  ASSUME NEW s \in Stream, NEW t, t = Stopped(s)
  PROVE  /\ t.stream_id = s.stream_id
         /\ t.sender = s.sender /\ t.tcp = s.tcp
         /\ ~t.started
         /\ t.thr = s.thr
         /\ t.ta_send_in_progress = s.ta_send_in_progress
BY DEF Stream, Stopped

LEMMA NewStreamFields ==
  ASSUME NEW s, NEW t, NEW i
  PROVE  /\ NewStream(s, t, i).stream_id = i
         /\ NewStream(s, t, i).sender = s
         /\ NewStream(s, t, i).started = FALSE
         /\ NewStream(s, t, i).ta_send_in_progress = FALSE
BY DEF NewStream, Zeroed

LEMMA IdleFields ==
  /\ Idle.pc = "idle" /\ Idle.op = "none"
  /\ Idle.ids = {} /\ Idle.all = {} /\ Idle.todo = {}
BY DEF Idle

LEMMA NoReportFields ==
  /\ NoReport.pc = "none" /\ NoReport.ids = {} /\ NoReport.todo = {}
BY DEF NoReport

LEMMA BeginFields ==
  ASSUME NEW c, NEW o, NEW p, NEW S, NEW all, Begin(c, o, p, S, all)
  PROVE  /\ main'.pc = p /\ main'.op = o /\ main'.conn = c /\ main'.ids = S
         /\ main'.all = all /\ main'.todo = all
BY DEF Begin, Idle

LEMMA LoopFields ==
  ASSUME TypeOK, NEW k, NEW next, Loop(k, next)
  PROVE  /\ main'.op = main.op /\ main'.ids = main.ids
         /\ main'.all = main.all /\ main'.conn = main.conn
         /\ \/ /\ main.todo = {k}
               /\ main'.pc = next
               /\ main'.todo = main.all
            \/ /\ main.todo # {k}
               /\ main'.pc = main.pc
               /\ main'.todo = main.todo \ {k}
<1>1. main \in Handler
  BY DEF TypeOK
<1>2. CASE main.todo = {k}
  BY <1>1, <1>2 DEF Loop, Handler
<1>3. CASE main.todo # {k}
  BY <1>1, <1>3 DEF Loop, Handler
<1> QED BY <1>2, <1>3

-----------------------------------------------------------------------------
(* Names: identifiers, directions and protocols of the configured streams. *)
SameNames ==
  /\ num_streams' = num_streams
  /\ stream_id' = stream_id
  /\ \A k \in Configured : /\ streams'[k].stream_id = streams[k].stream_id
                           /\ streams'[k].sender = streams[k].sender
                           /\ streams'[k].tcp = streams[k].tcp

(* A step that assigns one stream, and keeps its names, keeps all names.   *)
LEMMA OneStream ==
  ASSUME TypeOK, NEW j \in Slots, NEW s,
         s.stream_id = streams[j].stream_id, s.sender = streams[j].sender,
         s.tcp = streams[j].tcp,
         streams' = [streams EXCEPT ![j] = s],
         num_streams' = num_streams, stream_id' = stream_id
  PROVE  SameNames
BY ConfiguredSlots DEF TypeOK, SameNames

LEMMA SameNamesUnchanged ==
  ASSUME UNCHANGED <<streams, num_streams, stream_id>> PROVE SameNames
BY DEF SameNames

(* Only a new configuration and a reset change names.                      *)
LEMMA CommandNames ==
  ASSUME TypeOK, CommandStep
  PROVE  SameNames \/ \E c \in Conns : Config(c)
<1>1. ASSUME NEW c \in Conns, ConfigRefused(c) PROVE SameNames
  <2>1. CASE TableFull
    BY <1>1, <2>1, SameNamesUnchanged DEF ConfigRefused
  <2>2. CASE ~TableFull
    <3>1. num_streams + 1 \notin Configured
      BY DEF TypeOK, Configured
    <3> QED BY <1>1, <2>2, <3>1, ConfiguredSlots
            DEF ConfigRefused, SameNames, TypeOK
  <2> QED BY <2>1, <2>2
<1>2. ASSUME NEW c \in Conns, Reset(c) PROVE SameNames
  <2>1. CASE num_streams = 0
    BY <1>2, <2>1 DEF Reset, SameNames, Configured
  <2>2. CASE num_streams # 0
    BY <1>2, <2>2, SameNamesUnchanged DEF Reset
  <2> QED BY <2>1, <2>2
<1>3. ASSUME NEW c \in Conns, NEW S,
             \/ BadList(c, S) \/ SendRefused(c, S) \/ Send(c, S)
             \/ WrongStreams(c, S, TRUE) \/ WrongStreams(c, S, FALSE)
             \/ ReceiveStart(c, S) \/ NotStarted(c, S)
      PROVE  SameNames
  BY <1>3, SameNamesUnchanged
     DEF BadList, SendRefused, Send, WrongStreams, ReceiveStart, NotStarted,
         Answer
<1>4. ASSUME NEW c \in Conns, NEW S, ReceiveStop(c, S) PROVE SameNames
  <2>1. \A k \in Slots : streams[k] \in Stream
    BY DEF TypeOK
  <2>2. ASSUME NEW k \in Slots PROVE SameStream(streams[k], streams'[k])
    BY <1>4, <2>1, StreamEffects DEF ReceiveStop
  <2> QED BY <1>4, <2>2, ConfiguredSlots
          DEF ReceiveStop, SameNames, SameStream
<1> QED BY <1>1, <1>2, <1>3, <1>4 DEF CommandStep

LEMMA HandlerNames ==
  ASSUME TypeOK, HandlerStep
  PROVE  SameNames \/ StopsDone
<1>0. \A k \in Slots : streams[k] \in Stream
  BY DEF TypeOK
<1>1. ASSUME NEW k \in Slots, OpenSocket(k) PROVE SameNames
  <2>1. PICK v \in {"none", "open"} :
          streams' = [streams EXCEPT ![k] = [streams[k] EXCEPT !.sock = v]]
    BY <1>1 DEF OpenSocket
  <2>2. SameStream(streams[k], [streams[k] EXCEPT !.sock = v])
    BY <1>0, StreamEffects
  <2> QED BY <1>1, <2>1, <2>2, OneStream DEF OpenSocket, SameStream
<1>2. ASSUME NEW k \in Slots, CreateThread(k) PROVE SameNames
  <2>1. CASE streams' = streams
    BY <1>2, <2>1, SameNamesUnchanged DEF CreateThread
  <2>2. ASSUME NEW t \in Threads,
               streams' = [streams EXCEPT
                 ![k] = [streams[k] EXCEPT !.thr = t, !.started = TRUE]]
        PROVE SameNames
    <3>1. PICK s : s = [streams[k] EXCEPT !.thr = t, !.started = TRUE]
      OBVIOUS
    <3>2. /\ s.stream_id = streams[k].stream_id
          /\ s.sender = streams[k].sender
          /\ s.tcp = streams[k].tcp
      BY <1>0, <3>1 DEF Stream
    <3>3. num_streams' = num_streams /\ stream_id' = stream_id
      BY <1>2 DEF CreateThread
    <3>4. streams' = [streams EXCEPT ![k] = s]
      BY <2>2, <3>1
    <3> QED BY <3>2, <3>3, <3>4, OneStream
  <2> QED BY <1>2, <2>1, <2>2 DEF CreateThread
<1>3. ASSUME NEW k \in Slots, MarkSending(k) PROVE SameNames
  BY <1>0, <1>3, StreamMarked, OneStream DEF MarkSending
<1>4. ASSUME NEW k \in Slots, MainStop(k) PROVE SameNames
  <2>1. (streams[k].stop \/ main.op = "reset") \in BOOLEAN
    BY <1>0, StreamFields
  <2>2. SameStream(streams[k],
          [streams[k] EXCEPT !.stop = streams[k].stop \/ main.op = "reset"])
    BY <1>0, <2>1, StreamEffects
  <2> QED BY <1>4, <2>2, OneStream DEF MainStop, SameStream
<1>5. CASE CreateReport
  BY <1>5, SameNamesUnchanged DEF CreateReport
<1>6. CASE MainJoined
  <2>1. main.slot \in Slots
    BY DEF TypeOK, Handler
  <2> QED BY <1>0, <1>6, <2>1, StreamStopped, OneStream DEF MainJoined
<1> QED BY <1>1, <1>2, <1>3, <1>4, <1>5, <1>6 DEF HandlerStep

(* What the steps of the stream threads have in common.                    *)
LEMMA ThreadStep ==
  ASSUME TypeOK, NEW t \in Threads, StreamThread(t)
  PROVE  /\ thr[t].slot \in Slots
         /\ UNCHANGED <<num_streams, stream_id, rep, main, waiting_completion,
                        status>>
         /\ Using(t)
         /\ \E st \in {"run", "held", "exited"} :
              thr' = [thr EXCEPT ![t] = [thr[t] EXCEPT !.st = st]]
         /\ \/ streams' = streams
            \/ \E s : /\ streams' = [streams EXCEPT ![thr[t].slot] = s]
                      /\ SameStream(streams[thr[t].slot], s)
<1>0. /\ thr[t].slot \in Slots /\ streams[thr[t].slot] \in Stream
      /\ thr \in [Threads -> Thread]
  BY ThreadFields DEF TypeOK
<1> DEFINE Same(s) == SameStream(streams[thr[t].slot], s)
<1>1. \A v \in {"none", "open"} :
        /\ Same([streams[thr[t].slot] EXCEPT !.sock = v])
        /\ Same([streams[thr[t].slot] EXCEPT !.stop = TRUE])
        /\ Same([streams[thr[t].slot] EXCEPT !.stop = TRUE, !.sock = v])
  BY <1>0, StreamEffects
<1> HIDE DEF Same
<1> DEFINE Goal ==
      /\ UNCHANGED <<num_streams, stream_id, rep, main, waiting_completion,
                     status>>
      /\ Using(t)
      /\ \E st \in {"run", "held", "exited"} :
           thr' = [thr EXCEPT ![t] = [thr[t] EXCEPT !.st = st]]
      /\ \/ streams' = streams
         \/ \E s : streams' = [streams EXCEPT ![thr[t].slot] = s] /\ Same(s)
<1>2. ASSUME Accept(t) PROVE Goal
  BY <1>1, <1>2 DEF Accept, Using
<1>3. ASSUME SenderEnds(t) PROVE Goal
  BY <1>1, <1>3 DEF SenderEnds, Using
<1>4. ASSUME ReceiverEnds(t) PROVE Goal
  BY <1>1, <1>4 DEF ReceiverEnds, Using
<1>5. ASSUME Hold(t) PROVE Goal
  BY <1>5 DEF Hold, Using
<1>6. ASSUME HeldEnds(t) PROVE Goal
  BY <1>1, <1>6 DEF HeldEnds, Using
<1>7. Goal
  BY <1>2, <1>3, <1>4, <1>5, <1>6 DEF StreamThread
<1> QED BY <1>0, <1>7 DEF Same

LEMMA ThreadNames ==
  ASSUME TypeOK, NEW t \in Threads, StreamThread(t)
  PROVE  SameNames
BY ThreadStep, OneStream, SameNamesUnchanged DEF SameStream

LEMMA ReportNames ==
  ASSUME TypeOK, NEW r \in Reports, ReportStep(r)
  PROVE  SameNames
<1>0. /\ \A k \in Slots : streams[k] \in Stream
      /\ \A id : get_stream(id) \subseteq Slots
      /\ rep[r].slot \in Slots
  BY NamedSlots, ReportFields DEF TypeOK
<1>1. CASE UNCHANGED streams
  BY <1>1, SameNamesUnchanged
     DEF ReportStep, ReportStop, ReportJoined, ReportBuilt, ReportClear,
         ReportClose, ReportComplete, ReportDone
<1>2. ASSUME NEW id, ReportClear(r, id), NEW k \in get_stream(id),
             streams' = [streams EXCEPT ![k] =
               [streams[k] EXCEPT !.ta_send_in_progress = FALSE]]
      PROVE  SameNames
  BY <1>0, <1>2, StreamMarked, OneStream DEF ReportClear
<1>3. CASE ReportJoined(r)
  BY <1>0, <1>3, StreamStopped, OneStream DEF ReportJoined
<1>4. CASE ReportClose(r)
  <2>1. SameStream(streams[rep[r].slot],
                   [streams[rep[r].slot] EXCEPT !.sock = "none"])
    BY <1>0, StreamEffects
  <2> QED BY <1>0, <1>4, <2>1, OneStream DEF ReportClose, SameStream
<1> QED BY <1>1, <1>2, <1>3, <1>4
        DEF ReportStep, ReportStop, ReportBuilt, ReportClear, ReportComplete,
            ReportDone

LEMMA StepNames ==
  ASSUME TypeOK, [Next]_vars
  PROVE  \/ SameNames
         \/ \E c \in Conns : Config(c)
         \/ StopsDone
<1>1. CASE UNCHANGED vars
  BY <1>1, SameNamesUnchanged DEF vars
<1> QED BY <1>1, CommandNames, HandlerNames, ThreadNames, ReportNames DEF Next

-----------------------------------------------------------------------------
(* Where a handler can be, and what a report thread has left.              *)
PcInv ==
  /\ main.pc = "idle" => main = Idle
  /\ main.pc \in {"open", "create"} => main.op \in {"send", "receive_start"}
  /\ main.pc \in {"report", "mark"} => main.op = "send"
  /\ main.pc \in {"stop", "join"} => main.op \in {"receive_stop", "reset"}
  /\ \A r \in Reports : rep[r].todo \subseteq rep[r].ids

LEMMA PcCommand ==
  ASSUME PcInv, CommandStep PROVE PcInv'
<1>1. rep' = rep
  BY DEF CommandStep, ConfigRefused, Config, Reset, BadList, SendRefused, Send,
         WrongStreams, ReceiveStart, NotStarted, ReceiveStop, Answer
<1>2. \/ main' = main
      \/ \E c \in Conns : \E S : Begin(c, "send", "open", S, Named(S))
      \/ \E c \in Conns : \E S : Begin(c, "receive_start", "open", S, Named(S))
      \/ \E c \in Conns : \E S : Begin(c, "receive_stop", "stop", S, Named(S))
      \/ \E c \in Conns : Begin(c, "reset", "stop", {}, Configured)
  BY DEF CommandStep, ConfigRefused, Config, Reset, BadList, SendRefused, Send,
         WrongStreams, ReceiveStart, NotStarted, ReceiveStop, Answer
<1> QED BY <1>1, <1>2, BeginFields DEF PcInv

LEMMA PcHandler ==
  ASSUME TypeOK, PcInv, HandlerStep PROVE PcInv'
<1>0. main \in Handler
  BY DEF TypeOK
<1>1. CASE main' = Idle /\ rep' = rep
  BY <1>1, IdleFields DEF PcInv
<1>2. ASSUME NEW k, NEW next, Loop(k, next), rep' = rep,
             \/ main.pc = "open" /\ next = "create"
             \/ main.pc = "create" /\ next = "report" /\ main.op = "send"
             \/ main.pc = "create" /\ next = "report" /\ main.todo # {k}
             \/ main.pc = "mark" /\ main.todo # {k}
      PROVE  PcInv'
  BY <1>2, LoopFields DEF PcInv
<1>3. ASSUME NEW k \in Slots, OpenSocket(k) PROVE PcInv'
  BY <1>1, <1>2, <1>3 DEF OpenSocket, Return
<1>4. ASSUME NEW k \in Slots, CreateThread(k) PROVE PcInv'
  <2>1. main.op \in {"send", "receive_start"} /\ main.pc = "create" /\ rep' = rep
    BY <1>4 DEF CreateThread, PcInv
  <2>2. \/ main' = Idle
        \/ Loop(k, "report") /\ (main.op # "receive_start" \/ main.todo # {k})
    BY <1>4 DEF CreateThread, Return
  <2> QED BY <1>1, <1>2, <2>1, <2>2
<1>5. ASSUME NEW k \in Slots, MarkSending(k) PROVE PcInv'
  BY <1>1, <1>2, <1>5 DEF MarkSending
<1>6. ASSUME NEW k \in Slots, MainStop(k) PROVE PcInv'
  <2>1. main'.op = main.op /\ main'.pc \in {"stop", "join"} /\ rep' = rep
        /\ main.pc = "stop"
    BY <1>0, <1>6 DEF MainStop, Handler
  <2> QED BY <2>1 DEF PcInv
<1>7. CASE CreateReport
  <2>1. CASE main' = Idle /\ rep' = rep
    BY <1>1, <2>1
  <2>2. ASSUME NEW r \in Reports,
               rep' = [rep EXCEPT ![r] =
                         [NoReport EXCEPT !.pc = "stop", !.conn = main.conn,
                            !.ids = main.ids, !.todo = main.ids]],
               main' = [main EXCEPT !.pc = "mark"], main.pc = "report"
        PROVE  PcInv'
    <3>1. \A q \in Reports : rep'[q].todo \subseteq rep'[q].ids
      BY <2>2 DEF TypeOK, PcInv, NoReport
    <3>2. main'.pc = "mark" /\ main'.op = main.op
      BY <1>0, <2>2 DEF Handler
    <3> QED BY <2>2, <3>1, <3>2 DEF PcInv
  <2> QED BY <1>7, <2>1, <2>2 DEF CreateReport, Return
<1>8. CASE MainJoined
  <2>1. main'.op = main.op /\ main'.pc = "stop" /\ rep' = rep
        /\ main.pc = "join"
    BY <1>0, <1>8 DEF MainJoined, Handler
  <2> QED BY <2>1 DEF PcInv
<1>9. CASE StopsDone
  BY <1>1, <1>9 DEF StopsDone, Return
<1> QED BY <1>3, <1>4, <1>5, <1>6, <1>7, <1>8, <1>9 DEF HandlerStep

(* What a report thread's steps leave of its identifiers.                  *)
LEMMA ReportIds ==
  ASSUME TypeOK, NEW r \in Reports, ReportStep(r)
  PROVE  /\ main' = main
         /\ \A q \in Reports : q # r => rep'[q] = rep[q]
         /\ \/ rep'[r].ids = rep[r].ids /\ rep'[r].todo \subseteq rep[r].todo
            \/ rep'[r].ids = rep[r].ids /\ rep'[r].todo = rep[r].ids
            \/ rep'[r].ids = {} /\ rep'[r].todo = {}
<1>0. rep \in [Reports -> Report] /\ rep[r] \in Report
  BY DEF TypeOK
<1>1. main' = main /\ \A q \in Reports : q # r => rep'[q] = rep[q]
  BY <1>0 DEF ReportStep, ReportStop, ReportJoined, ReportBuilt, ReportClear,
              ReportClose, ReportComplete, ReportDone
<1>2. ASSUME NEW id, ReportStop(r, id)
      PROVE rep'[r].ids = rep[r].ids /\ rep'[r].todo \subseteq rep[r].todo
  <2>1. CASE rep' = [rep EXCEPT ![r] = [rep[r] EXCEPT !.todo = rep[r].todo \ {id}]]
    BY <1>0, <2>1 DEF Report
  <2>2. ASSUME NEW k, NEW t,
               rep' = [rep EXCEPT ![r] =
                       [rep[r] EXCEPT !.todo = rep[r].todo \ {id},
                          !.pc = "join", !.slot = k, !.target = t]]
        PROVE  rep'[r].ids = rep[r].ids /\ rep'[r].todo \subseteq rep[r].todo
    BY <1>0, <2>2 DEF Report
  <2> QED BY <1>2, <2>1, <2>2 DEF ReportStop
<1>3. ASSUME NEW id, ReportClear(r, id)
      PROVE rep'[r].ids = rep[r].ids /\ rep'[r].todo \subseteq rep[r].todo
  <2>1. CASE rep' = [rep EXCEPT ![r] = [rep[r] EXCEPT !.todo = rep[r].todo \ {id}]]
    BY <1>0, <2>1 DEF Report
  <2>2. ASSUME NEW k,
               rep' = [rep EXCEPT ![r] =
                       [rep[r] EXCEPT !.todo = rep[r].todo \ {id},
                          !.slot = k, !.pc = "close"]]
        PROVE  rep'[r].ids = rep[r].ids /\ rep'[r].todo \subseteq rep[r].todo
    BY <1>0, <2>2 DEF Report
  <2> QED BY <1>3, <2>1, <2>2 DEF ReportClear
<1>4. CASE ReportJoined(r) \/ ReportClose(r) \/ ReportComplete(r)
  <2>1. rep'[r].ids = rep[r].ids /\ rep'[r].todo = rep[r].todo
    <3>1. CASE ReportJoined(r)
      BY <1>0, <3>1 DEF ReportJoined, Report
    <3>2. CASE ReportClose(r)
      BY <1>0, <3>2 DEF ReportClose, Report
    <3>3. CASE ReportComplete(r)
      BY <1>0, <3>3 DEF ReportComplete, Report
    <3> QED BY <1>4, <3>1, <3>2, <3>3
  <2> QED BY <1>1, <2>1
<1>5. CASE ReportBuilt(r)
  <2>1. rep'[r].ids = rep[r].ids /\ rep'[r].todo = rep[r].ids
    BY <1>0, <1>5 DEF ReportBuilt, Report
  <2> QED BY <1>1, <2>1
<1>6. CASE ReportDone(r)
  <2>1. rep'[r] = NoReport
    BY <1>0, <1>6 DEF ReportDone
  <2> QED BY <1>1, <2>1, NoReportFields
<1> QED BY <1>1, <1>2, <1>3, <1>4, <1>5, <1>6 DEF ReportStep

LEMMA PcReport ==
  ASSUME TypeOK, PcInv, NEW r \in Reports, ReportStep(r) PROVE PcInv'
<1>1. \A q \in Reports : rep'[q].todo \subseteq rep'[q].ids
  BY ReportIds DEF PcInv
<1> QED BY <1>1, ReportIds DEF PcInv

LEMMA PcNext ==
  ASSUME TypeOK, PcInv, [Next]_vars PROVE PcInv'
<1>1. CASE UNCHANGED vars
  BY <1>1 DEF vars, PcInv
<1>2. ASSUME NEW t \in Threads, StreamThread(t) PROVE PcInv'
  BY <1>2, ThreadStep DEF PcInv
<1> QED BY <1>1, <1>2, PcCommand, PcHandler, PcReport DEF Next

-----------------------------------------------------------------------------
(* The inductive invariant behind StreamIdsUnique and ReportNamesSenders:  *)
(* whoever holds identifiers holds ones that were given out, and those of  *)
(* a send command still name senders, or nothing.                          *)
GivenOut(S) == S \subseteq 1..stream_id
NamesSenders(S) == \A k \in Named(S) : streams[k].sender

IdsInv ==
  /\ StreamIdsUnique
  /\ GivenOut(main.ids)
  /\ main.op = "send" => NamesSenders(main.ids)
  /\ \A r \in Reports : GivenOut(rep[r].ids) /\ NamesSenders(rep[r].ids)

(* The identifiers a command is carried out with.                          *)
LEMMA CommandIds ==
  ASSUME TypeOK, IdsInv, CommandStep
  PROVE  /\ rep' = rep
         /\ \/ main' = main
            \/ /\ GivenOut(main'.ids)
               /\ main'.op = "send" => NamesSenders(main'.ids)
<1>1. rep' = rep
  BY DEF CommandStep, ConfigRefused, Config, Reset, BadList, SendRefused, Send,
         WrongStreams, ReceiveStart, NotStarted, ReceiveStop, Answer
<1>2. ASSUME NEW S, Known(S) PROVE GivenOut(S)
  BY <1>2 DEF Known, get_stream, GivenOut, IdsInv, StreamIdsUnique
<1>3. ASSUME NEW c, NEW S, Send(c, S)
      PROVE  GivenOut(main'.ids) /\ NamesSenders(main'.ids)
  BY <1>2, <1>3, BeginFields DEF Send, NamesSenders
<1>4. ASSUME NEW c, NEW S, ReceiveStart(c, S) \/ ReceiveStop(c, S)
      PROVE  GivenOut(main'.ids) /\ main'.op # "send"
  BY <1>2, <1>4, BeginFields DEF ReceiveStart, ReceiveStop
<1>5. ASSUME NEW c, Reset(c), main' # main
      PROVE  GivenOut(main'.ids) /\ main'.op # "send"
  BY <1>5, BeginFields DEF Reset, GivenOut
<1> QED BY <1>1, <1>3, <1>4, <1>5
        DEF CommandStep, ConfigRefused, Config, BadList, SendRefused,
            WrongStreams, NotStarted, Answer

LEMMA HandlerIds ==
  ASSUME TypeOK, PcInv, HandlerStep
  PROVE  /\ \/ main' = Idle
            \/ main'.ids = main.ids /\ main'.op = main.op
         /\ \A r \in Reports :
              \/ rep'[r] = rep[r]
              \/ rep'[r].ids = main.ids /\ main.op = "send"
<1>0. main \in Handler /\ rep \in [Reports -> Report]
  BY DEF TypeOK
<1>1. ASSUME NEW k \in Slots,
             OpenSocket(k) \/ CreateThread(k) \/ MarkSending(k)
      PROVE  /\ main' = Idle \/ (main'.ids = main.ids /\ main'.op = main.op)
             /\ rep' = rep
  <2>1. rep' = rep /\ (main' = Idle \/ \E next : Loop(k, next))
    BY <1>1 DEF OpenSocket, CreateThread, MarkSending, Return
  <2> QED BY <2>1, LoopFields
<1>2. ASSUME NEW k \in Slots, MainStop(k)
      PROVE  main'.ids = main.ids /\ main'.op = main.op /\ rep' = rep
  BY <1>0, <1>2 DEF MainStop, Handler
<1>3. ASSUME CreateReport
      PROVE  /\ main' = Idle \/ (main'.ids = main.ids /\ main'.op = main.op)
             /\ \A r \in Reports :
                  \/ rep'[r] = rep[r]
                  \/ rep'[r].ids = main.ids /\ main.op = "send"
  <2>1. main' = Idle \/ main' = [main EXCEPT !.pc = "mark"]
    BY <1>3 DEF CreateReport, Return
  <2>2. main' = Idle \/ (main'.ids = main.ids /\ main'.op = main.op)
    BY <1>0, <2>1 DEF Handler
  <2>3. main.op = "send"
    BY <1>3 DEF CreateReport, PcInv
  <2>4. rep' = rep \/ \E r \in Reports :
          rep' = [rep EXCEPT ![r] =
                    [NoReport EXCEPT !.pc = "stop", !.conn = main.conn,
                       !.ids = main.ids, !.todo = main.ids]]
    BY <1>3 DEF CreateReport
  <2>5. \A r \in Reports : rep'[r] = rep[r] \/ rep'[r].ids = main.ids
    BY <1>0, <2>4 DEF NoReport
  <2> QED BY <2>2, <2>3, <2>5
<1>4. CASE MainJoined
  BY <1>0, <1>4 DEF MainJoined, Handler
<1>5. CASE StopsDone
  BY <1>5 DEF StopsDone, Return
<1> QED BY <1>1, <1>2, <1>3, <1>4, <1>5 DEF HandlerStep

(* Whatever step is taken: the identifiers held afterwards are those held  *)
(* before, or come from a command.                                         *)
LEMMA StepIds ==
  ASSUME TypeOK, PcInv, IdsInv, [Next]_vars
  PROVE  /\ GivenOut(main'.ids)
         /\ main'.op = "send" => NamesSenders(main'.ids)
         /\ \A r \in Reports : GivenOut(rep'[r].ids) /\ NamesSenders(rep'[r].ids)
<1>0. GivenOut({}) /\ NamesSenders({})
  BY DEF GivenOut, NamesSenders, Named
<1>1. CASE CommandStep
  BY <1>1, CommandIds DEF IdsInv
<1>2. CASE HandlerStep
  <2>1. /\ GivenOut(main'.ids)
        /\ main'.op = "send" => NamesSenders(main'.ids)
    BY <1>0, <1>2, HandlerIds, IdleFields DEF IdsInv
  <2>2. \A r \in Reports : GivenOut(rep'[r].ids) /\ NamesSenders(rep'[r].ids)
    BY <1>2, HandlerIds DEF IdsInv
  <2> QED BY <2>1, <2>2
<1>3. CASE UNCHANGED vars \/ \E t \in Threads : StreamThread(t)
  <2>1. main' = main /\ rep' = rep
    BY <1>3, ThreadStep DEF vars
  <2> QED BY <2>1 DEF IdsInv
<1>4. ASSUME NEW r \in Reports, ReportStep(r)
      PROVE  /\ GivenOut(main'.ids)
             /\ main'.op = "send" => NamesSenders(main'.ids)
             /\ \A q \in Reports : GivenOut(rep'[q].ids) /\ NamesSenders(rep'[q].ids)
  <2>1. main' = main /\ \A q \in Reports : rep'[q].ids \in {rep[q].ids, {}}
    BY <1>4, ReportIds
  <2> QED BY <1>0, <2>1 DEF IdsInv
<1> QED BY <1>1, <1>2, <1>3, <1>4 DEF Next

LEMMA IdsInit == Init => PcInv /\ IdsInv
BY IdleFields, NoReportFields
   DEF Init, PcInv, IdsInv, StreamIdsUnique, GivenOut, NamesSenders, Named,
       Configured

LEMMA IdsNext ==
  ASSUME TypeOK, PcInv, IdsInv, [Next]_vars PROVE IdsInv'
<1>0. /\ stream_id \in Nat /\ num_streams \in Nat
      /\ streams \in [Slots -> Stream]
  BY ConstantsAssumption DEF TypeOK
<1>1. CASE SameNames
  BY <1>1, StepIds
     DEF SameNames, IdsInv, StreamIdsUnique, GivenOut, NamesSenders, Named,
         Configured
<1>2. ASSUME NEW c \in Conns, Config(c) PROVE IdsInv'
  <2>1. PICK s \in BOOLEAN, t \in BOOLEAN :
          streams' = [streams EXCEPT ![num_streams + 1] =
                        NewStream(s, t, stream_id + 1)]
    BY <1>2 DEF Config
  <2>2. /\ num_streams' = num_streams + 1 /\ stream_id' = stream_id + 1
        /\ num_streams + 1 \in Slots
    BY <1>0, <1>2, ConstantsAssumption DEF Config, TableFull, TypeOK, Slots
  <2>3. /\ Configured' = Configured \cup {num_streams + 1}
        /\ num_streams + 1 \notin Configured
    BY <1>0, <2>2 DEF Configured
  <2>4. /\ \A k \in Configured : streams'[k] = streams[k]
        /\ streams'[num_streams + 1].stream_id = stream_id + 1
    <3>1. NewStream(s, t, stream_id + 1).stream_id = stream_id + 1
      BY DEF NewStream, Zeroed
    <3> QED BY <1>0, <2>1, <2>2, <2>3, <3>1, ConfiguredSlots
  <2>5. StreamIdsUnique'
    BY <1>0, <2>2, <2>3, <2>4 DEF IdsInv, StreamIdsUnique
  <2>6. ASSUME NEW S, GivenOut(S), NamesSenders(S)
        PROVE  /\ S \subseteq 1..stream_id'
               /\ \A k \in Configured' :
                    streams'[k].stream_id \in S => streams'[k].sender
    BY <1>0, <2>2, <2>3, <2>4, <2>6 DEF GivenOut, NamesSenders, Named
  <2>7. ASSUME NEW S, GivenOut(S) PROVE S \subseteq 1..stream_id'
    BY <1>0, <2>2, <2>7 DEF GivenOut
  <2> QED BY <2>5, <2>6, <2>7, StepIds DEF IdsInv, GivenOut, NamesSenders, Named
<1>3. CASE StopsDone
  <2>1. stream_id' = stream_id
    BY <1>3 DEF StopsDone
  <2>2. CASE main.op = "reset"
    <3>1. Configured' = {}
      BY <1>3, <2>2 DEF StopsDone, Configured
    <3> QED BY <2>1, <3>1, StepIds
            DEF IdsInv, StreamIdsUnique, GivenOut, NamesSenders, Named
  <2>3. CASE main.op # "reset"
    BY <1>1, <1>3, <2>3, SameNamesUnchanged DEF StopsDone
  <2> QED BY <2>2, <2>3
<1> QED BY <1>1, <1>2, <1>3, StepNames

LEMMA IdsAlways == Spec => []IdsInv
<1>1. TypeOK /\ PcInv /\ IdsInv /\ [Next]_vars => (PcInv /\ IdsInv)'
  BY PcNext, IdsNext
<1> QED BY IdsInit, TypeCorrect, <1>1, PTL DEF Spec

(* No identifier is given out twice, across resets and whatever the        *)
(* controller asks: two configured streams differ in theirs.               *)
THEOREM IdsCorrect == Spec => []StreamIdsUnique
<1>1. IdsInv => StreamIdsUnique
  BY DEF IdsInv
<1> QED BY IdsAlways, <1>1, PTL

(* What a report thread finds under its identifiers, when it looks them up *)
(* after resets and new configurations, are senders: no receiver is ever   *)
(* configured under an identifier of theirs.                               *)
THEOREM ReportNamesCorrect == Spec => []ReportNamesSenders
<1>1. IdsInv => ReportNamesSenders
  BY DEF IdsInv, NamesSenders, ReportNamesSenders
<1> QED BY IdsAlways, <1>1, PTL

-----------------------------------------------------------------------------
(* Which reports a step leaves with their connection.                      *)
LEMMA WaitingNext ==
  ASSUME TypeOK, WaitingHasReport, [Next]_vars PROVE WaitingHasReport'
<1>0. /\ rep \in [Reports -> Report]
      /\ waiting_completion \in [Conns -> BOOLEAN]
  BY DEF TypeOK
<1>1. CASE rep' = rep /\ waiting_completion' = waiting_completion
  BY <1>1 DEF WaitingHasReport
<1>2. CASE CommandStep
  BY <1>1, <1>2
     DEF CommandStep, ConfigRefused, Config, Reset, BadList, SendRefused, Send,
         WrongStreams, ReceiveStart, NotStarted, ReceiveStop, Answer
<1>3. CASE HandlerStep /\ ~CreateReport
  BY <1>1, <1>3 DEF HandlerStep, OpenSocket, CreateThread, MarkSending,
                    MainStop, MainJoined, StopsDone
<1>4. CASE CreateReport
  <2>1. ASSUME NEW r \in Reports,
               rep[r].pc = "none",
               rep' = [rep EXCEPT ![r] =
                         [NoReport EXCEPT !.pc = "stop", !.conn = main.conn,
                            !.ids = main.ids, !.todo = main.ids]],
               waiting_completion' =
                 [waiting_completion EXCEPT ![main.conn] = TRUE]
        PROVE  WaitingHasReport'
    <3>1. /\ rep'[r].conn = main.conn /\ rep'[r].pc # "none"
          /\ \A q \in Reports \ {r} : rep'[q] = rep[q]
      BY <1>0, <2>1 DEF NoReport
    <3>2. \A c \in Conns : waiting_completion'[c] =>
            c = main.conn \/ waiting_completion[c]
      BY <1>0, <2>1
    <3> QED BY <2>1, <3>1, <3>2 DEF WaitingHasReport
  <2>2. CASE rep' = rep /\ waiting_completion' =
               [waiting_completion EXCEPT ![main.conn] = FALSE]
    BY <1>0, <2>2 DEF WaitingHasReport
  <2> QED BY <1>4, <2>1, <2>2 DEF CreateReport
<1>5. ASSUME NEW t \in Threads, StreamThread(t) PROVE WaitingHasReport'
  BY <1>1, <1>5, ThreadStep
<1>6. ASSUME NEW r \in Reports, ReportStep(r), ~ReportDone(r)
      PROVE  WaitingHasReport'
  <2>0. rep[r] \in Report
    BY <1>0
  <2>1. waiting_completion' = waiting_completion
    BY <1>6 DEF ReportStep, ReportStop, ReportJoined, ReportBuilt, ReportClear,
                ReportClose, ReportComplete
  <2>2. rep'[r].conn = rep[r].conn /\ rep'[r].pc # "none"
    <3>1. ASSUME NEW id, ReportStop(r, id)
          PROVE  rep'[r].conn = rep[r].conn /\ rep'[r].pc # "none"
      <4>1. CASE rep' = [rep EXCEPT ![r] =
                          [rep[r] EXCEPT !.todo = rep[r].todo \ {id}]]
        BY <1>0, <2>0, <3>1, <4>1 DEF ReportStop, Report
      <4>2. ASSUME NEW k, NEW t, rep' = [rep EXCEPT ![r] =
                     [rep[r] EXCEPT !.todo = rep[r].todo \ {id},
                        !.pc = "join", !.slot = k, !.target = t]]
            PROVE  rep'[r].conn = rep[r].conn /\ rep'[r].pc # "none"
        BY <1>0, <2>0, <4>2 DEF Report
      <4> QED BY <3>1, <4>1, <4>2 DEF ReportStop
    <3>2. ASSUME NEW id, ReportClear(r, id)
          PROVE  rep'[r].conn = rep[r].conn /\ rep'[r].pc # "none"
      <4>1. CASE rep' = [rep EXCEPT ![r] =
                          [rep[r] EXCEPT !.todo = rep[r].todo \ {id}]]
        BY <1>0, <2>0, <3>2, <4>1 DEF ReportClear, Report
      <4>2. ASSUME NEW k, rep' = [rep EXCEPT ![r] =
                     [rep[r] EXCEPT !.todo = rep[r].todo \ {id},
                        !.slot = k, !.pc = "close"]]
            PROVE  rep'[r].conn = rep[r].conn /\ rep'[r].pc # "none"
        BY <1>0, <2>0, <4>2 DEF Report
      <4> QED BY <3>2, <4>1, <4>2 DEF ReportClear
    <3>3. CASE ReportJoined(r)
      BY <1>0, <2>0, <3>3 DEF ReportJoined, Report
    <3>4. CASE ReportBuilt(r)
      BY <1>0, <2>0, <3>4 DEF ReportBuilt, Report
    <3>5. CASE ReportClose(r)
      BY <1>0, <2>0, <3>5 DEF ReportClose, Report
    <3>6. CASE ReportComplete(r)
      BY <1>0, <2>0, <3>6 DEF ReportComplete, Report
    <3> QED BY <1>6, <3>1, <3>2, <3>3, <3>4, <3>5, <3>6 DEF ReportStep
  <2> QED BY <1>6, <2>1, <2>2, ReportIds DEF WaitingHasReport
<1>7. ASSUME NEW r \in Reports, ReportDone(r) PROVE WaitingHasReport'
  <2>1. \A c \in Conns : waiting_completion'[c] =>
          waiting_completion[c] /\ c # rep[r].conn
    BY <1>0, <1>7 DEF ReportDone
  <2>2. \A q \in Reports \ {r} : rep'[q] = rep[q]
    BY <1>0, <1>7 DEF ReportDone
  <2> QED BY <2>1, <2>2 DEF WaitingHasReport
<1> QED BY <1>1, <1>2, <1>3, <1>4, <1>5, <1>6, <1>7 DEF Next, vars

(* A connection that is kept from new clients has a report thread that will *)
(* give it back, for any controller and whatever fails.                    *)
THEOREM NoSlotWithheld == Spec => []WaitingHasReport
<1>1. Init => WaitingHasReport
  BY DEF Init, WaitingHasReport
<1> QED BY <1>1, TypeCorrect, WaitingNext, PTL DEF Spec

-----------------------------------------------------------------------------
(* The inductive invariant behind StopStreamFresh and NoDoubleJoin, for an *)
(* orderly controller.                                                     *)

(* The streams a handler works on.                                         *)
HandlerInv ==
  /\ main.all \subseteq Configured
  /\ main.todo \subseteq main.all
  /\ main.pc = "report" => main.todo = main.all
  /\ main.pc = "join" => main.slot \in main.all
  /\ main.op = "send" => main.all = Named(main.ids)
  /\ main.op \in {"receive_start", "receive_stop"} =>
       \A k \in main.all : ~streams[k].sender
  /\ main.op = "reset" => \A r \in Reports : rep[r].pc \in {"none", "done"}

(* The identifiers whose ta_send_in_progress a report thread has not reset *)
(* yet, and the streams marked as being sent, or about to be.              *)
Claims(r) == {id \in rep[r].ids :
                \/ rep[r].pc \in {"stop", "join"}
                \/ rep[r].pc \in {"clear", "close"} /\ id \in rep[r].todo}
Raised(k) ==
  \/ streams[k].ta_send_in_progress
  \/ main.pc = "mark" /\ k \in main.todo

ClaimsDisjoint ==
  \A q, r \in Reports : q # r => Claims(q) \cap Claims(r) = {}
ClaimsRaised ==
  \A r \in Reports : \A k \in Configured :
    streams[k].stream_id \in Claims(r) => Raised(k)
(* A send command that is being started has none of a report's streams.    *)
ClaimsNew ==
  main.pc \in {"open", "create", "report"} /\ main.op = "send" =>
    \A r \in Reports : main.ids \cap Claims(r) = {}

(* A started stream's thread exists and works for that stream.             *)
StartedInv ==
  \A k \in Configured : streams[k].started =>
    /\ streams[k].thr \in Threads
    /\ Live(streams[k].thr)
    /\ thr[streams[k].thr].slot = k

(* The two halves of StopStreamFresh.                                      *)
ReportFresh ==
  \A r \in Reports : rep[r].pc = "join" =>
    /\ rep[r].slot \in Configured
    /\ streams[rep[r].slot].stream_id \in rep[r].ids
    /\ streams[rep[r].slot].started
    /\ streams[rep[r].slot].thr = rep[r].target
MainFresh ==
  main.pc = "join" =>
    /\ main.slot \in Configured
    /\ streams[main.slot].started
    /\ streams[main.slot].thr = main.target

OrderInv ==
  /\ HandlerInv
  /\ ClaimsDisjoint /\ ClaimsRaised /\ ClaimsNew
  /\ StartedInv
  /\ ReportFresh /\ MainFresh

(* Everything known of a state before a step.                              *)
Known0 == TypeOK /\ PcInv /\ IdsInv /\ OrderInv /\ Orderly

(* The configured streams keep everything but sockets and stop flags.      *)
SameStreams == SameNames /\ \A k \in Configured : SameStream(streams[k], streams'[k])

LEMMA NamesConfigured == SameNames => Configured' = Configured
BY DEF SameNames, Configured

LEMMA OneSameStream ==
  ASSUME TypeOK, NEW j \in Slots, NEW s, SameStream(streams[j], s),
         streams' = [streams EXCEPT ![j] = s],
         num_streams' = num_streams, stream_id' = stream_id
  PROVE  SameStreams
BY ConfiguredSlots DEF TypeOK, SameStreams, SameNames, SameStream

LEMMA SameStreamsUnchanged ==
  ASSUME UNCHANGED <<streams, num_streams, stream_id>> PROVE SameStreams
BY DEF SameStreams, SameNames, SameStream

(* What a handler may do to main and keep HandlerInv.                      *)
LEMMA HandlerKept ==
  ASSUME HandlerInv, SameNames,
         \/ main' = Idle
         \/ /\ main'.op = main.op /\ main'.ids = main.ids
            /\ main'.all = main.all /\ main'.todo \subseteq main.all
            /\ main'.pc = "report" => main'.todo = main.all
            /\ main'.pc = "join" => main'.slot \in main.all,
         \/ main.op # "reset"
         \/ \A r \in Reports : rep[r].pc \in {"none", "done"} =>
              rep'[r].pc \in {"none", "done"}
  PROVE  HandlerInv'
<1>1. Configured' = Configured
  BY NamesConfigured
<1>2. CASE main' = Idle
  BY <1>2, IdleFields DEF HandlerInv
<1>3. CASE main' # Idle
  <2>1. \A k \in Configured : /\ streams'[k].stream_id = streams[k].stream_id
                             /\ streams'[k].sender = streams[k].sender
    BY DEF SameNames
  <2>2. Named(main.ids)' = {k \in Configured : streams[k].stream_id \in main.ids}
    BY <1>1, <1>3, <2>1 DEF Named
  <2> QED BY <1>1, <1>3, <2>1, <2>2 DEF HandlerInv, Named
<1> QED BY <1>2, <1>3

(* Nothing but main changes: reports keep what they have.                  *)
LEMMA MainOnly ==
  ASSUME OrderInv, SameStreams, rep' = rep,
         \A t \in Threads : Live(t)' = Live(t) /\ thr'[t].slot = thr[t].slot
  PROVE  ClaimsDisjoint' /\ StartedInv' /\ ReportFresh'
<1>1. /\ Configured' = Configured
      /\ \A k \in Configured : SameStream(streams[k], streams'[k])
  BY NamesConfigured DEF SameStreams
<1>2. ClaimsDisjoint'
  BY DEF OrderInv, ClaimsDisjoint, Claims
<1>3. StartedInv'
  BY <1>1 DEF OrderInv, StartedInv, SameStream, Live
<1>4. ReportFresh'
  BY <1>1 DEF OrderInv, ReportFresh, SameStream
<1> QED BY <1>2, <1>3, <1>4

LEMMA RaisedKept ==
  ASSUME OrderInv, SameStreams, rep' = rep,
         (main'.pc = main.pc /\ main'.todo = main.todo) \/ main.pc # "mark"
  PROVE  ClaimsRaised'
BY NamesConfigured
   DEF OrderInv, SameStreams, SameStream, ClaimsRaised, Claims, Raised

(* Steps that concern none of this.                                        *)
LEMMA OrderQuiet ==
  ASSUME OrderInv, SameStreams, rep' = rep, main' = main,
         \A t \in Threads : Live(t)' = Live(t) /\ thr'[t].slot = thr[t].slot
  PROVE  OrderInv'
<1>1. HandlerInv'
  BY HandlerKept DEF OrderInv, SameStreams, HandlerInv
<1>2. ClaimsNew'
  BY DEF OrderInv, ClaimsNew, Claims
<1>3. MainFresh'
  BY NamesConfigured DEF OrderInv, MainFresh, SameStreams, SameStream
<1> QED BY <1>1, <1>2, <1>3, MainOnly, RaisedKept DEF OrderInv

(* A handler ends without having changed anything but sockets.             *)
LEMMA OrderReturn ==
  ASSUME OrderInv, SameStreams, rep' = rep, thr' = thr, main' = Idle,
         main.pc # "mark"
  PROVE  OrderInv'
<1>1. HandlerInv'
  BY HandlerKept DEF OrderInv, SameStreams
<1>2. ClaimsNew' /\ MainFresh'
  BY IdleFields DEF ClaimsNew, MainFresh
<1>3. \A t \in Threads : Live(t)' = Live(t) /\ thr'[t].slot = thr[t].slot
  BY DEF Live
<1> QED BY <1>1, <1>2, <1>3, MainOnly, RaisedKept DEF OrderInv

-----------------------------------------------------------------------------
(* Commands keep OrderInv. *)

(* A command starts a handler; the streams keep all but stop flags.        *)
LEMMA OrderBegin ==
  ASSUME Known0, SameStreams, rep' = rep, thr' = thr, main.pc = "idle",
         NEW c, NEW S, NEW all, NEW o, NEW p, Begin(c, o, p, S, all),
         p \in {"open", "stop"},
         all \subseteq Configured,
         o = "send" => all = Named(S) /\ ~Busy(S) /\ Known(S),
         o \in {"receive_start", "receive_stop"} => \A k \in all : ~streams[k].sender,
         o = "reset" => \A r \in Reports : rep[r].pc \in {"none", "done"}
  PROVE  OrderInv'
<1>0. OrderInv
  BY DEF Known0
<1>1. Configured' = Configured /\ SameNames
  BY NamesConfigured DEF SameStreams
<1>2. /\ main'.pc = p /\ main'.op = o /\ main'.ids = S /\ main'.all = all
      /\ main'.todo = all
  BY BeginFields
<1>3. \A k \in Configured : /\ streams'[k].stream_id = streams[k].stream_id
                           /\ streams'[k].sender = streams[k].sender
  BY <1>1 DEF SameNames
<1>4. HandlerInv'
  <2>1. Named(S)' = Named(S)
    BY <1>1, <1>3 DEF Named
  <2> QED BY <1>1, <1>2, <1>3, <2>1 DEF HandlerInv
<1>5. ClaimsNew'
  <2>1. ASSUME o = "send", NEW r \in Reports, NEW id \in S, id \in Claims(r)
        PROVE FALSE
    <3>1. PICK k \in Configured : streams[k].stream_id = id
      BY <2>1 DEF Known, get_stream
    <3>2. streams[k].ta_send_in_progress
      BY <1>0, <2>1, <3>1 DEF OrderInv, ClaimsRaised, Raised
    <3> QED BY <2>1, <3>1, <3>2 DEF Busy, Named
  <2> QED BY <1>2, <2>1 DEF ClaimsNew, Claims
<1>6. MainFresh'
  BY <1>2 DEF MainFresh
<1>7. \A t \in Threads : Live(t)' = Live(t) /\ thr'[t].slot = thr[t].slot
  BY DEF Live
<1> QED BY <1>0, <1>4, <1>5, <1>6, <1>7, MainOnly, RaisedKept DEF OrderInv

LEMMA OrderConfig ==
  ASSUME Known0, NEW c \in Conns, Config(c)
  PROVE  OrderInv'
<1>0. /\ OrderInv /\ TypeOK /\ IdsInv
      /\ stream_id \in Nat /\ num_streams \in Nat
      /\ streams \in [Slots -> Stream]
      /\ main' = main /\ main = Idle /\ rep' = rep /\ thr' = thr
  BY ConstantsAssumption DEF Known0, TypeOK, Config, Command, PcInv
<1>1. PICK s \in BOOLEAN, t \in BOOLEAN :
        streams' = [streams EXCEPT ![num_streams + 1] =
                      NewStream(s, t, stream_id + 1)]
  BY DEF Config
<1>2. /\ num_streams' = num_streams + 1 /\ stream_id' = stream_id + 1
      /\ num_streams + 1 \in Slots
  BY <1>0, ConstantsAssumption DEF Config, TableFull, TypeOK, Slots
<1>3. /\ Configured' = Configured \cup {num_streams + 1}
      /\ num_streams + 1 \notin Configured
  BY <1>0, <1>2 DEF Configured
<1>4. /\ \A k \in Configured : streams'[k] = streams[k]
      /\ streams'[num_streams + 1].stream_id = stream_id + 1
      /\ ~streams'[num_streams + 1].started
  <2>1. /\ NewStream(s, t, stream_id + 1).stream_id = stream_id + 1
        /\ NewStream(s, t, stream_id + 1).started = FALSE
    BY DEF NewStream, Zeroed
  <2> QED BY <1>0, <1>1, <1>2, <1>3, <2>1, ConfiguredSlots
<1>5. HandlerInv' /\ ClaimsNew' /\ MainFresh'
  BY <1>0, IdleFields DEF HandlerInv, ClaimsNew, MainFresh
<1>6. ClaimsDisjoint'
  BY <1>0 DEF OrderInv, ClaimsDisjoint, Claims
<1>7. ClaimsRaised'
  <2>1. \A r \in Reports : stream_id + 1 \notin Claims(r)
    BY <1>0 DEF IdsInv, GivenOut, Claims
  <2>2. \A r \in Reports : Claims(r)' = Claims(r)
    BY <1>0 DEF Claims
  <2>3. \A k \in Configured : Raised(k)' = Raised(k)
    BY <1>0, <1>4 DEF Raised
  <2> QED BY <1>0, <1>3, <1>4, <2>1, <2>2, <2>3 DEF OrderInv, ClaimsRaised
<1>8. StartedInv'
  BY <1>0, <1>3, <1>4 DEF OrderInv, StartedInv, Live
<1>9. ReportFresh'
  BY <1>0, <1>3, <1>4 DEF OrderInv, ReportFresh
<1> QED BY <1>5, <1>6, <1>7, <1>8, <1>9 DEF OrderInv

LEMMA OrderCommand ==
  ASSUME Known0, CommandStep PROVE OrderInv'
<1>0. TypeOK /\ OrderInv /\ Orderly
  BY DEF Known0
<1>1. ASSUME SameStreams, UNCHANGED <<rep, main, thr>> PROVE OrderInv'
  BY <1>0, <1>1, OrderQuiet DEF Live
<1>2. ASSUME NEW c \in Conns, ConfigRefused(c) PROVE OrderInv'
  <2>1. CASE TableFull
    BY <1>1, <1>2, <2>1, SameStreamsUnchanged DEF ConfigRefused
  <2>2. CASE ~TableFull
    <3>1. num_streams + 1 \notin Configured
      BY <1>0 DEF TypeOK, Configured
    <3>2. SameStreams
      BY <1>0, <1>2, <2>2, <3>1, ConfiguredSlots
         DEF ConfigRefused, SameStreams, SameStream, SameNames, TypeOK
    <3> QED BY <1>1, <1>2, <3>2 DEF ConfigRefused
  <2> QED BY <2>1, <2>2
<1>3. ASSUME NEW c \in Conns, Reset(c) PROVE OrderInv'
  <2>0. /\ rep' = rep /\ thr' = thr /\ main.pc = "idle"
        /\ UNCHANGED <<num_streams, stream_id>>
        /\ \A r \in Reports : rep[r].pc \in {"none", "done"}
    BY <1>0, <1>3 DEF Reset, Command, OrderlyReset
  <2>1. CASE num_streams = 0
    <3>1. SameStreams
      BY <2>0, <2>1 DEF SameStreams, SameNames, Configured
    <3> QED BY <1>1, <1>3, <2>1, <3>1 DEF Reset
  <2>2. CASE num_streams # 0
    <3>1. Begin(c, "reset", "stop", {}, Configured) /\ SameStreams
      BY <1>3, <2>0, <2>2, SameStreamsUnchanged DEF Reset
    <3> QED BY <2>0, <3>1, OrderBegin
  <2> QED BY <2>1, <2>2
<1>4. ASSUME NEW c \in Conns, NEW S,
             \/ BadList(c, S) \/ SendRefused(c, S) \/ NotStarted(c, S)
             \/ WrongStreams(c, S, TRUE) \/ WrongStreams(c, S, FALSE)
      PROVE  OrderInv'
  BY <1>1, <1>4, SameStreamsUnchanged
     DEF BadList, SendRefused, WrongStreams, NotStarted, Answer
<1>5. \A S : Named(S) \subseteq Configured
  BY DEF Named
<1>6. ASSUME NEW c \in Conns, NEW S, Send(c, S) PROVE OrderInv'
  <2>1. /\ SameStreams /\ rep' = rep /\ thr' = thr /\ main.pc = "idle"
        /\ Begin(c, "send", "open", S, Named(S)) /\ ~Busy(S) /\ Known(S)
    BY <1>6, SameStreamsUnchanged DEF Send, Command
  <2> QED BY <1>5, <2>1, OrderBegin
<1>7. ASSUME NEW c \in Conns, NEW S, ReceiveStart(c, S) PROVE OrderInv'
  <2>1. /\ SameStreams /\ rep' = rep /\ thr' = thr /\ main.pc = "idle"
        /\ Begin(c, "receive_start", "open", S, Named(S))
        /\ \A k \in Named(S) : ~streams[k].sender
    BY <1>7, SameStreamsUnchanged DEF ReceiveStart, Command
  <2> QED BY <1>5, <2>1, OrderBegin
<1>8. ASSUME NEW c \in Conns, NEW S, ReceiveStop(c, S) PROVE OrderInv'
  <2>1. /\ rep' = rep /\ thr' = thr /\ main.pc = "idle"
        /\ UNCHANGED <<num_streams, stream_id>>
        /\ Begin(c, "receive_stop", "stop", S, Named(S))
        /\ \A k \in Named(S) : ~streams[k].sender
    BY <1>0, <1>8 DEF ReceiveStop, Command, OrderlyReceiveStop
  <2>2. \A k \in Slots : streams[k] \in Stream
    BY <1>0 DEF TypeOK
  <2>3. ASSUME NEW k \in Slots PROVE SameStream(streams[k], streams'[k])
    BY <1>8, <2>2, StreamEffects DEF ReceiveStop
  <2>4. SameStreams
    BY <1>0, <2>1, <2>3, ConfiguredSlots DEF SameStreams, SameNames, SameStream
  <2> QED BY <1>5, <2>1, <2>4, OrderBegin
<1> QED BY <1>2, <1>3, <1>4, <1>6, <1>7, <1>8, OrderConfig DEF CommandStep

-----------------------------------------------------------------------------
(* The handlers' steps keep OrderInv. *)

LEMMA OrderOpen ==
  ASSUME Known0, NEW k \in Slots, OpenSocket(k) PROVE OrderInv'
<1>0. /\ TypeOK /\ OrderInv /\ PcInv /\ streams[k] \in Stream
      /\ main.pc = "open" /\ rep' = rep /\ thr' = thr
  BY DEF Known0, TypeOK, OpenSocket
<1>1. SameStreams
  <2>1. PICK v \in {"none", "open"} :
          streams' = [streams EXCEPT ![k] = [streams[k] EXCEPT !.sock = v]]
    BY DEF OpenSocket
  <2>2. SameStream(streams[k], [streams[k] EXCEPT !.sock = v])
    BY <1>0, StreamEffects
  <2>3. num_streams' = num_streams /\ stream_id' = stream_id
    BY DEF OpenSocket
  <2> QED BY <1>0, <2>1, <2>2, <2>3, OneSameStream
<1>2. CASE main' = Idle
  BY <1>0, <1>1, <1>2, OrderReturn
<1>3. CASE Loop(k, "create")
  <2>1. /\ main'.op = main.op /\ main'.ids = main.ids /\ main'.all = main.all
        /\ main'.todo \subseteq main.all /\ main'.pc \in {"open", "create"}
    BY <1>0, <1>3, LoopFields DEF OrderInv, HandlerInv
  <2>2. HandlerInv'
    BY <1>0, <1>1, <2>1, HandlerKept DEF OrderInv, SameStreams
  <2>3. ClaimsNew' /\ MainFresh'
    BY <1>0, <2>1 DEF OrderInv, ClaimsNew, MainFresh, Claims
  <2> QED BY <1>0, <1>1, <2>2, <2>3, MainOnly, RaisedKept DEF OrderInv, Live
<1> QED BY <1>2, <1>3 DEF OpenSocket, Return

LEMMA OrderCreate ==
  ASSUME Known0, NEW k \in Slots, CreateThread(k) PROVE OrderInv'
<1>0. /\ TypeOK /\ OrderInv /\ PcInv /\ IdsInv /\ streams[k] \in Stream
      /\ streams \in [Slots -> Stream] /\ thr \in [Threads -> Thread]
      /\ main.pc = "create" /\ k \in main.todo /\ rep' = rep
      /\ num_streams' = num_streams /\ stream_id' = stream_id
      /\ Configured \subseteq Slots
  BY ConfiguredSlots DEF Known0, TypeOK, CreateThread
<1>1. CASE CanFail /\ Return("ERROR") /\ UNCHANGED <<streams, thr>>
  BY <1>0, <1>1, OrderReturn, SameStreamsUnchanged DEF Return
<1>2. ASSUME NEW t \in Threads, thr[t].st = "free",
             thr' = [thr EXCEPT ![t] = NewThread(k)],
             streams' = [streams EXCEPT
               ![k] = [streams[k] EXCEPT !.thr = t, !.started = TRUE]],
             main' = Idle \/ Loop(k, "report")
      PROVE  OrderInv'
  <2>1. /\ k \in main.all /\ k \in Configured /\ Configured' = Configured
        /\ main.op \in {"send", "receive_start"}
    BY <1>0 DEF OrderInv, HandlerInv, PcInv, Configured
  <2>2. /\ \A j \in Configured : j # k => streams'[j] = streams[j]
        /\ streams'[k].stream_id = streams[k].stream_id
        /\ streams'[k].sender = streams[k].sender
        /\ streams'[k].tcp = streams[k].tcp
        /\ streams'[k].started
        /\ streams'[k].thr = t
        /\ streams'[k].ta_send_in_progress = streams[k].ta_send_in_progress
    <3>1. PICK s : s = [streams[k] EXCEPT !.thr = t, !.started = TRUE]
      OBVIOUS
    <3>2. /\ s.stream_id = streams[k].stream_id
          /\ s.sender = streams[k].sender
          /\ s.started /\ s.thr = t /\ s.tcp = streams[k].tcp
          /\ s.ta_send_in_progress = streams[k].ta_send_in_progress
      BY <1>0, <3>1 DEF Stream
    <3>3. streams' = [streams EXCEPT ![k] = s]
      BY <1>2, <3>1
    <3> QED BY <1>0, <3>2, <3>3
  <2>3. SameNames
    BY <1>0, <2>1, <2>2 DEF SameNames
  <2>4. \/ main' = Idle
        \/ /\ main'.op = main.op /\ main'.ids = main.ids
           /\ main'.all = main.all /\ main'.todo \subseteq main.all
           /\ main'.pc \in {"create", "report"}
           /\ main'.pc = "report" => main'.todo = main.all
    BY <1>0, <1>2, LoopFields DEF OrderInv, HandlerInv
  <2>5. HandlerInv'
    BY <1>0, <2>1, <2>3, <2>4, HandlerKept DEF OrderInv
  <2>6. ClaimsDisjoint'
    BY <1>0 DEF OrderInv, ClaimsDisjoint, Claims
  <2>7. ClaimsRaised'
    BY <1>0, <2>1, <2>2 DEF OrderInv, ClaimsRaised, Claims, Raised
  <2>8. ClaimsNew' /\ MainFresh'
    BY <1>0, <2>4, IdleFields DEF OrderInv, ClaimsNew, MainFresh, Claims
  <2>9. StartedInv'
    <3>1. thr'[t].slot = k /\ thr'[t].st # "free"
      BY <1>0, <1>2 DEF NewThread
    <3>2. \A u \in Threads : u # t => thr'[u] = thr[u]
      BY <1>0, <1>2
    <3>3. ~Live(t)
      BY <1>2 DEF Live
    <3> QED BY <1>0, <2>1, <2>2, <3>1, <3>2, <3>3 DEF OrderInv, StartedInv, Live
  <2>10. ASSUME NEW r \in Reports, rep[r].pc = "join" PROVE rep[r].slot # k
    <3>1. /\ rep[r].slot \in Configured
          /\ streams[rep[r].slot].stream_id \in rep[r].ids
      BY <1>0, <2>10 DEF OrderInv, ReportFresh
    <3>2. streams[rep[r].slot].sender
      BY <1>0, <3>1 DEF IdsInv, NamesSenders, Named
    <3>3. streams[rep[r].slot].stream_id \in Claims(r)
      BY <2>10, <3>1 DEF Claims
    <3>4. CASE main.op = "send"
      <4>1. streams[k].stream_id \in main.ids
        BY <1>0, <2>1, <3>4 DEF OrderInv, HandlerInv, Named
      <4> QED BY <1>0, <3>3, <3>4, <4>1 DEF OrderInv, ClaimsNew
    <3>5. CASE main.op = "receive_start"
      BY <1>0, <2>1, <3>2, <3>5 DEF OrderInv, HandlerInv
    <3> QED BY <2>1, <3>4, <3>5
  <2>11. ReportFresh'
    BY <1>0, <2>1, <2>2, <2>10 DEF OrderInv, ReportFresh
  <2> QED BY <2>5, <2>6, <2>7, <2>8, <2>9, <2>11 DEF OrderInv
<1> QED BY <1>1, <1>2 DEF CreateThread, Return

LEMMA OrderReport ==
  ASSUME Known0, CreateReport PROVE OrderInv'
<1>0. /\ TypeOK /\ OrderInv /\ PcInv /\ IdsInv /\ main \in Handler
      /\ rep \in [Reports -> Report]
      /\ main.pc = "report" /\ main.op = "send"
      /\ UNCHANGED <<streams, num_streams, stream_id, thr>>
  BY DEF Known0, TypeOK, CreateReport, PcInv
<1>1. SameStreams /\ SameNames /\ Configured' = Configured
  BY <1>0, SameStreamsUnchanged, NamesConfigured DEF SameStreams
<1>2. CASE main' = Idle /\ rep' = rep
  BY <1>0, <1>1, <1>2, OrderReturn
<1>3. ASSUME NEW r \in Reports, rep[r].pc = "none",
             rep' = [rep EXCEPT ![r] =
                       [NoReport EXCEPT !.pc = "stop", !.conn = main.conn,
                          !.ids = main.ids, !.todo = main.ids]],
             main' = [main EXCEPT !.pc = "mark"]
      PROVE  OrderInv'
  <2>1. /\ main'.pc = "mark" /\ main'.op = "send" /\ main'.ids = main.ids
        /\ main'.all = main.all /\ main'.todo = main.todo
    BY <1>0, <1>3 DEF Handler
  <2>2. /\ main.todo = main.all /\ main.all = Named(main.ids)
    BY <1>0 DEF OrderInv, HandlerInv
  <2>3. /\ \A q \in Reports : q # r => rep'[q] = rep[q]
        /\ rep'[r].pc = "stop" /\ rep'[r].ids = main.ids
    BY <1>0, <1>3 DEF NoReport
  <2>4. HandlerInv'
    BY <1>0, <1>1, <2>1, <2>2, HandlerKept DEF OrderInv
  <2>5. ClaimsDisjoint'
    BY <1>0, <2>3 DEF OrderInv, ClaimsDisjoint, ClaimsNew, Claims
  <2>6. ClaimsRaised'
    <3>1. ASSUME NEW j \in Configured, streams[j].stream_id \in main.ids
          PROVE  Raised(j)'
      BY <2>1, <2>2, <3>1 DEF Raised, Named
    <3>2. ASSUME NEW q \in Reports, q # r, NEW j \in Configured,
                 streams[j].stream_id \in Claims(q)
          PROVE  Raised(j)'
      BY <1>0, <3>2 DEF OrderInv, ClaimsRaised, Raised
    <3>3. \A q \in Reports : q # r => Claims(q)' = Claims(q)
      BY <2>3 DEF Claims
    <3>4. Claims(r)' = main.ids
      BY <2>3 DEF Claims
    <3> QED BY <1>0, <1>1, <3>1, <3>2, <3>3, <3>4 DEF ClaimsRaised
  <2>7. ClaimsNew' /\ MainFresh'
    BY <2>1 DEF ClaimsNew, MainFresh
  <2>8. StartedInv'
    BY <1>0, <1>1 DEF OrderInv, StartedInv, Live
  <2>9. ReportFresh'
    BY <1>0, <1>1, <2>3 DEF OrderInv, ReportFresh
  <2> QED BY <2>4, <2>5, <2>6, <2>7, <2>8, <2>9 DEF OrderInv
<1> QED BY <1>2, <1>3 DEF CreateReport, Return

LEMMA OrderMark ==
  ASSUME Known0, NEW k \in Slots, MarkSending(k) PROVE OrderInv'
<1>0. /\ TypeOK /\ OrderInv /\ streams[k] \in Stream
      /\ streams \in [Slots -> Stream]
      /\ main.pc = "mark" /\ k \in main.todo /\ rep' = rep /\ thr' = thr
      /\ num_streams' = num_streams /\ stream_id' = stream_id
      /\ Configured' = Configured /\ Configured \subseteq Slots
  BY ConfiguredSlots DEF Known0, TypeOK, MarkSending, Configured
<1>1. /\ \A j \in Configured : j # k => streams'[j] = streams[j]
      /\ streams'[k].stream_id = streams[k].stream_id
      /\ streams'[k].sender = streams[k].sender
      /\ streams'[k].tcp = streams[k].tcp
      /\ streams'[k].started = streams[k].started
      /\ streams'[k].thr = streams[k].thr
      /\ streams'[k].ta_send_in_progress
  <2>1. PICK s : s = [streams[k] EXCEPT !.ta_send_in_progress = TRUE]
    OBVIOUS
  <2>2. /\ s.stream_id = streams[k].stream_id /\ s.sender = streams[k].sender
        /\ s.started = streams[k].started /\ s.thr = streams[k].thr /\ s.tcp = streams[k].tcp
        /\ s.ta_send_in_progress
    BY <1>0, <2>1 DEF Stream
  <2>3. streams' = [streams EXCEPT ![k] = s]
    BY <2>1 DEF MarkSending
  <2> QED BY <1>0, <2>2, <2>3
<1>2. SameNames
  BY <1>0, <1>1 DEF SameNames
<1>3. \/ main' = Idle /\ main.todo = {k}
      \/ /\ main'.op = main.op /\ main'.ids = main.ids /\ main'.pc = "mark"
         /\ main'.all = main.all /\ main'.todo = main.todo \ {k}
  BY <1>0, LoopFields DEF MarkSending
<1>4. HandlerInv'
  <2>1. main.todo \subseteq main.all
    BY <1>0 DEF OrderInv, HandlerInv
  <2> QED BY <1>0, <1>2, <1>3, <2>1, HandlerKept DEF OrderInv
<1>5. ClaimsDisjoint'
  BY <1>0 DEF OrderInv, ClaimsDisjoint, Claims
<1>6. ClaimsRaised'
  <2>1. ASSUME NEW j \in Configured, Raised(j) PROVE Raised(j)'
    BY <1>0, <1>1, <1>3, <2>1 DEF Raised
  <2>2. \A j \in Configured : streams'[j].stream_id = streams[j].stream_id
    BY <1>2 DEF SameNames
  <2>3. \A r \in Reports : Claims(r)' = Claims(r)
    BY <1>0 DEF Claims
  <2> QED BY <1>0, <2>1, <2>2, <2>3 DEF OrderInv, ClaimsRaised
<1>7. ClaimsNew' /\ MainFresh'
  BY <1>3, IdleFields DEF ClaimsNew, MainFresh
<1>8. StartedInv'
  BY <1>0, <1>1 DEF OrderInv, StartedInv, Live
<1>9. ReportFresh'
  BY <1>0, <1>1 DEF OrderInv, ReportFresh
<1> QED BY <1>4, <1>5, <1>6, <1>7, <1>8, <1>9 DEF OrderInv

LEMMA OrderStop ==
  ASSUME Known0, NEW k \in Slots, MainStop(k) PROVE OrderInv'
<1>0. /\ TypeOK /\ OrderInv /\ PcInv /\ streams[k] \in Stream
      /\ main \in Handler
      /\ main.pc = "stop" /\ k \in main.todo /\ rep' = rep /\ thr' = thr
  BY DEF Known0, TypeOK, MainStop
<1>1. SameStreams
  <2>1. (streams[k].stop \/ main.op = "reset") \in BOOLEAN
    BY <1>0, StreamFields
  <2>2. SameStream(streams[k],
          [streams[k] EXCEPT !.stop = streams[k].stop \/ main.op = "reset"])
    BY <1>0, <2>1, StreamEffects
  <2> QED BY <1>0, <2>2, OneSameStream DEF MainStop
<1>2. /\ main.todo \subseteq main.all /\ main.all \subseteq Configured
  BY <1>0 DEF OrderInv, HandlerInv
<1>3. /\ main'.op = main.op /\ main'.ids = main.ids /\ main'.all = main.all
      /\ main'.todo = main.todo \ {k}
      /\ \/ main'.pc = "stop"
         \/ /\ main'.pc = "join" /\ main'.slot = k
            /\ main'.target = streams[k].thr /\ streams[k].started
  <2>1. CASE streams[k].started
    BY <1>0, <2>1 DEF MainStop, Handler
  <2>2. CASE ~streams[k].started
    BY <1>0, <2>2 DEF MainStop, Handler
  <2> QED BY <2>1, <2>2
<1>4. HandlerInv'
  BY <1>0, <1>1, <1>2, <1>3, HandlerKept DEF OrderInv, SameStreams
<1>5. ClaimsNew'
  BY <1>3 DEF ClaimsNew
<1>6. MainFresh'
  <2>1. k \in Configured /\ Configured' = Configured
    BY <1>0, <1>1, <1>2, NamesConfigured DEF SameStreams
  <2>2. SameStream(streams[k], streams'[k])
    BY <1>1, <2>1 DEF SameStreams
  <2> QED BY <1>3, <2>1, <2>2 DEF MainFresh, SameStream
<1> QED BY <1>0, <1>1, <1>4, <1>5, <1>6, MainOnly, RaisedKept DEF OrderInv, Live

(* What pthread_join may do to the threads.                                *)
LEMMA JoinEffect ==
  ASSUME TypeOK, NEW t, JoinReturns(t)
  PROVE  \A u \in Threads : u # t => thr'[u] = thr[u]
BY DEF TypeOK, JoinReturns

(* stop_stream() returns: slot j has been stopped after joining its thread.*)
LEMMA StoppedEffect ==
  ASSUME TypeOK, OrderInv, NEW j \in Configured, streams[j].started,
         JoinReturns(streams[j].thr),
         streams' = [streams EXCEPT ![j] = Stopped(streams[j])],
         num_streams' = num_streams, stream_id' = stream_id
  PROVE  /\ SameNames /\ Configured' = Configured
         /\ \A i \in Configured : i # j => streams'[i] = streams[i]
         /\ \A i \in Configured :
              streams'[i].ta_send_in_progress = streams[i].ta_send_in_progress
         /\ StartedInv'
<1>0. /\ streams \in [Slots -> Stream] /\ j \in Slots
      /\ Configured \subseteq Slots /\ Configured' = Configured
      /\ streams[j] \in Stream
  BY ConfiguredSlots DEF TypeOK, Configured
<1>1. /\ \A i \in Configured : i # j => streams'[i] = streams[i]
      /\ streams'[j] = Stopped(streams[j])
  BY <1>0
<1>2. /\ streams'[j].stream_id = streams[j].stream_id
      /\ streams'[j].sender = streams[j].sender
      /\ streams'[j].tcp = streams[j].tcp
      /\ ~streams'[j].started
      /\ streams'[j].ta_send_in_progress = streams[j].ta_send_in_progress
  BY <1>0, <1>1 DEF Stopped, Stream
<1>3. SameNames
  BY <1>1, <1>2 DEF SameNames
<1>4. StartedInv'
  <2>1. thr[streams[j].thr].slot = j
    BY DEF OrderInv, StartedInv
  <2>2. ASSUME NEW i \in Configured, streams'[i].started
        PROVE  /\ streams'[i].thr \in Threads
               /\ thr'[streams'[i].thr].st # "free"
               /\ thr'[streams'[i].thr].slot = i
    <3>1. i # j /\ streams'[i] = streams[i]
      BY <1>1, <1>2, <2>2
    <3>2. /\ streams[i].thr \in Threads /\ Live(streams[i].thr)
          /\ thr[streams[i].thr].slot = i
      BY <2>2, <3>1 DEF OrderInv, StartedInv
    <3>3. thr'[streams[i].thr] = thr[streams[i].thr]
      BY <2>1, <3>1, <3>2, JoinEffect
    <3> QED BY <3>1, <3>2, <3>3 DEF Live
  <2> QED BY <1>0, <2>2 DEF StartedInv, Live
<1> QED BY <1>0, <1>1, <1>2, <1>3, <1>4

LEMMA OrderJoined ==
  ASSUME Known0, MainJoined PROVE OrderInv'
<1>0. /\ TypeOK /\ OrderInv /\ PcInv /\ IdsInv /\ main \in Handler
      /\ main.pc = "join" /\ rep' = rep
      /\ main.slot \in Configured /\ main.slot \in main.all
      /\ streams[main.slot].started
      /\ streams[main.slot].thr = main.target
      /\ num_streams' = num_streams /\ stream_id' = stream_id
  BY DEF Known0, MainJoined, OrderInv, MainFresh, HandlerInv, TypeOK
<1>1. /\ SameNames /\ Configured' = Configured
      /\ \A i \in Configured : i # main.slot => streams'[i] = streams[i]
      /\ \A i \in Configured :
           streams'[i].ta_send_in_progress = streams[i].ta_send_in_progress
      /\ StartedInv'
  <2>1. JoinReturns(streams[main.slot].thr)
    BY <1>0 DEF MainJoined
  <2>2. streams' = [streams EXCEPT ![main.slot] = Stopped(streams[main.slot])]
    BY DEF MainJoined
  <2> QED BY <1>0, <2>1, <2>2, StoppedEffect
<1>2. /\ main'.op = main.op /\ main'.ids = main.ids /\ main'.pc = "stop"
      /\ main'.all = main.all /\ main'.todo = main.todo
  BY <1>0 DEF MainJoined, Handler
<1>3. HandlerInv'
  <2>1. main.todo \subseteq main.all
    BY <1>0 DEF OrderInv, HandlerInv
  <2> QED BY <1>0, <1>1, <1>2, <2>1, HandlerKept DEF OrderInv
<1>4. ClaimsDisjoint'
  BY <1>0 DEF OrderInv, ClaimsDisjoint, Claims
<1>5. ClaimsRaised'
  <2>1. \A i \in Configured : streams'[i].stream_id = streams[i].stream_id
    BY <1>1 DEF SameNames
  <2> QED BY <1>0, <1>1, <2>1 DEF OrderInv, ClaimsRaised, Claims, Raised
<1>6. ClaimsNew' /\ MainFresh'
  BY <1>2 DEF ClaimsNew, MainFresh
<1>7. ASSUME NEW r \in Reports, rep[r].pc = "join" PROVE rep[r].slot # main.slot
  <2>1. /\ rep[r].slot \in Configured
        /\ streams[rep[r].slot].stream_id \in rep[r].ids
    BY <1>0, <1>7 DEF OrderInv, ReportFresh
  <2>2. streams[rep[r].slot].sender
    BY <1>0, <2>1 DEF IdsInv, NamesSenders, Named
  <2>3. main.op \in {"receive_stop", "reset"}
    BY <1>0 DEF PcInv
  <2> QED BY <1>0, <1>7, <2>2, <2>3 DEF OrderInv, HandlerInv
<1>8. ReportFresh'
  BY <1>0, <1>1, <1>7 DEF OrderInv, ReportFresh
<1> QED BY <1>1, <1>3, <1>4, <1>5, <1>6, <1>8 DEF OrderInv

LEMMA OrderDone ==
  ASSUME Known0, StopsDone PROVE OrderInv'
<1>0. /\ OrderInv /\ main.pc = "stop" /\ rep' = rep /\ thr' = thr
      /\ main' = Idle /\ stream_id' = stream_id
  BY DEF Known0, StopsDone, Return
<1>1. CASE main.op = "reset"
  <2>1. Configured' = {}
    BY <1>1 DEF StopsDone, Configured
  <2>2. /\ \A r \in Reports : rep[r].pc \in {"none", "done"}
    BY <1>0, <1>1 DEF OrderInv, HandlerInv
  <2>3. HandlerInv' /\ ClaimsNew' /\ MainFresh'
    BY <1>0, IdleFields DEF HandlerInv, ClaimsNew, MainFresh
  <2>4. ClaimsDisjoint'
    BY <1>0 DEF OrderInv, ClaimsDisjoint, Claims
  <2>5. ReportFresh'
    BY <1>0, <2>2 DEF ReportFresh
  <2> QED BY <2>1, <2>3, <2>4, <2>5 DEF OrderInv, ClaimsRaised, StartedInv
<1>2. CASE main.op # "reset"
  BY <1>0, <1>2, SameStreamsUnchanged, OrderReturn DEF StopsDone
<1> QED BY <1>1, <1>2

LEMMA OrderHandler ==
  ASSUME Known0, HandlerStep PROVE OrderInv'
BY OrderOpen, OrderCreate, OrderMark, OrderStop, OrderReport, OrderJoined,
   OrderDone DEF HandlerStep

-----------------------------------------------------------------------------
(* The other threads' steps keep OrderInv. *)

(* A stream thread writes to sockets and stop flags only, and a live thread *)
(* stays live.                                                             *)
LEMMA ThreadEffects ==
  ASSUME TypeOK, NEW t \in Threads, StreamThread(t)
  PROVE  /\ SameStreams /\ rep' = rep /\ main' = main
         /\ \A u \in Threads : Live(u)' = Live(u) /\ thr'[u].slot = thr[u].slot
<1>0. thr \in [Threads -> Thread] /\ thr[t] \in Thread
  BY DEF TypeOK
<1>1. \A u \in Threads : Live(u)' = Live(u) /\ thr'[u].slot = thr[u].slot
  <2>1. PICK st \in {"run", "held", "exited"} :
          thr' = [thr EXCEPT ![t] = [thr[t] EXCEPT !.st = st]]
    BY ThreadStep
  <2>2. thr[t].st # "free"
    BY ThreadStep DEF Using
  <2>3. thr'[t].st # "free" /\ thr'[t].slot = thr[t].slot
    BY <1>0, <2>1 DEF Thread
  <2> QED BY <1>0, <2>1, <2>2, <2>3 DEF Live
<1>2. SameStreams
  BY ThreadStep, OneSameStream, SameStreamsUnchanged
<1> QED BY <1>1, <1>2, ThreadStep

LEMMA OrderThread ==
  ASSUME Known0, NEW t \in Threads, StreamThread(t) PROVE OrderInv'
BY ThreadEffects, OrderQuiet DEF Known0

(* A report thread moves on and claims no more than it did.                *)
LEMMA ReportMoves ==
  ASSUME Known0, NEW r \in Reports, main' = main, SameNames,
         \A q \in Reports : q # r => rep'[q] = rep[q],
         rep[r].pc \in {"none", "done"} => rep'[r].pc \in {"none", "done"},
         Claims(r)' \subseteq Claims(r)
  PROVE  HandlerInv' /\ ClaimsDisjoint' /\ ClaimsNew'
<1>0. OrderInv
  BY DEF Known0
<1>1. HandlerInv'
  BY <1>0, HandlerKept DEF OrderInv, HandlerInv
<1>2. \A q \in Reports : q # r => Claims(q)' = Claims(q)
  BY DEF Claims
<1>3. ClaimsDisjoint'
  BY <1>0, <1>2 DEF OrderInv, ClaimsDisjoint
<1>4. ClaimsNew'
  BY <1>0, <1>2 DEF OrderInv, ClaimsNew
<1> QED BY <1>1, <1>3, <1>4

(* It does so without touching what others look at in the streams.         *)
LEMMA OrderReportQuiet ==
  ASSUME Known0, NEW r \in Reports, main' = main, thr' = thr, SameStreams,
         \A q \in Reports : q # r => rep'[q] = rep[q],
         rep[r].pc \in {"none", "done"} => rep'[r].pc \in {"none", "done"},
         Claims(r)' \subseteq Claims(r),
         rep'[r].pc = "join" =>
           /\ rep'[r].slot \in Configured
           /\ streams[rep'[r].slot].stream_id \in rep'[r].ids
           /\ streams[rep'[r].slot].started
           /\ streams[rep'[r].slot].thr = rep'[r].target
  PROVE  OrderInv'
<1>0. OrderInv
  BY DEF Known0
<1>1. /\ SameNames /\ Configured' = Configured
      /\ \A k \in Configured : SameStream(streams[k], streams'[k])
  BY NamesConfigured DEF SameStreams
<1>2. HandlerInv' /\ ClaimsDisjoint' /\ ClaimsNew'
  BY <1>1, ReportMoves
<1>3. ClaimsRaised'
  <2>1. \A q \in Reports : Claims(q)' \subseteq Claims(q)
    BY DEF Claims
  <2> QED BY <1>0, <1>1, <2>1 DEF OrderInv, ClaimsRaised, Raised, SameStream
<1>4. StartedInv'
  BY <1>0, <1>1 DEF OrderInv, StartedInv, SameStream, Live
<1>5. ReportFresh'
  <2>1. ASSUME NEW q \in Reports, rep'[q].pc = "join"
        PROVE  /\ rep'[q].slot \in Configured
               /\ streams[rep'[q].slot].stream_id \in rep'[q].ids
               /\ streams[rep'[q].slot].started
               /\ streams[rep'[q].slot].thr = rep'[q].target
    BY <1>0, <2>1 DEF OrderInv, ReportFresh
  <2> QED BY <1>1, <2>1 DEF ReportFresh, SameStream
<1>6. MainFresh'
  BY <1>0, <1>1 DEF OrderInv, MainFresh, SameStream
<1> QED BY <1>2, <1>3, <1>4, <1>5, <1>6 DEF OrderInv

LEMMA OrderReportJoined ==
  ASSUME Known0, NEW r \in Reports, ReportJoined(r) PROVE OrderInv'
<1>0. /\ TypeOK /\ OrderInv /\ IdsInv /\ PcInv /\ rep[r] \in Report
      /\ rep \in [Reports -> Report]
      /\ rep[r].pc = "join" /\ main' = main
      /\ num_streams' = num_streams /\ stream_id' = stream_id
      /\ rep[r].slot \in Configured
      /\ streams[rep[r].slot].stream_id \in rep[r].ids
      /\ streams[rep[r].slot].started
      /\ streams[rep[r].slot].thr = rep[r].target
  BY DEF Known0, ReportJoined, OrderInv, ReportFresh, TypeOK
<1>1. /\ SameNames /\ Configured' = Configured
      /\ \A i \in Configured : i # rep[r].slot => streams'[i] = streams[i]
      /\ \A i \in Configured :
           streams'[i].ta_send_in_progress = streams[i].ta_send_in_progress
      /\ StartedInv'
  <2>1. JoinReturns(streams[rep[r].slot].thr)
    BY <1>0 DEF ReportJoined
  <2>2. streams' = [streams EXCEPT ![rep[r].slot] = Stopped(streams[rep[r].slot])]
    BY DEF ReportJoined
  <2> QED BY <1>0, <2>1, <2>2, StoppedEffect
<1>2. /\ rep'[r].pc = "stop" /\ rep'[r].ids = rep[r].ids
      /\ \A q \in Reports : q # r => rep'[q] = rep[q]
  BY <1>0 DEF ReportJoined, Report
<1>3. Claims(r)' = Claims(r)
  BY <1>0, <1>2 DEF Claims
<1>4. HandlerInv' /\ ClaimsDisjoint' /\ ClaimsNew'
  BY <1>0, <1>1, <1>2, <1>3, ReportMoves
<1>5. ClaimsRaised'
  <2>1. \A i \in Configured : streams'[i].stream_id = streams[i].stream_id
    BY <1>1 DEF SameNames
  <2>2. \A q \in Reports : Claims(q)' = Claims(q)
    BY <1>2, <1>3 DEF Claims
  <2> QED BY <1>0, <1>1, <2>1, <2>2 DEF OrderInv, ClaimsRaised, Raised
<1>6. ASSUME NEW q \in Reports, q # r, rep[q].pc = "join"
      PROVE  rep[q].slot # rep[r].slot
  <2>1. streams[rep[q].slot].stream_id \in Claims(q)
    BY <1>0, <1>6 DEF OrderInv, ReportFresh, Claims
  <2>2. streams[rep[r].slot].stream_id \in Claims(r)
    BY <1>0 DEF Claims
  <2> QED BY <1>0, <1>6, <2>1, <2>2 DEF OrderInv, ClaimsDisjoint
<1>7. ReportFresh'
  BY <1>0, <1>1, <1>2, <1>6 DEF OrderInv, ReportFresh
<1>8. MainFresh'
  <2>1. ASSUME main.pc = "join" PROVE main.slot # rep[r].slot
    <3>1. streams[rep[r].slot].sender
      BY <1>0 DEF IdsInv, NamesSenders, Named
    <3>2. main.op \in {"receive_stop", "reset"} /\ main.slot \in main.all
      BY <1>0, <2>1 DEF PcInv, OrderInv, HandlerInv
    <3> QED BY <1>0, <3>1, <3>2 DEF OrderInv, HandlerInv
  <2> QED BY <1>0, <1>1, <2>1 DEF OrderInv, MainFresh
<1> QED BY <1>1, <1>4, <1>5, <1>7, <1>8 DEF OrderInv

LEMMA OrderReportClear ==
  ASSUME Known0, NEW r \in Reports, NEW id, ReportClear(r, id) PROVE OrderInv'
<1>0. /\ TypeOK /\ OrderInv /\ rep[r] \in Report /\ rep \in [Reports -> Report]
      /\ streams \in [Slots -> Stream] /\ Configured \subseteq Slots
      /\ rep[r].pc = "clear" /\ id \in rep[r].todo /\ rep[r].todo \subseteq rep[r].ids
      /\ main' = main /\ thr' = thr
      /\ num_streams' = num_streams /\ stream_id' = stream_id
  BY ConfiguredSlots DEF Known0, ReportClear, TypeOK, PcInv
<1>1. /\ rep'[r].pc \in {"clear", "close"} /\ rep'[r].ids = rep[r].ids
      /\ rep'[r].todo = rep[r].todo \ {id}
      /\ \A q \in Reports : q # r => rep'[q] = rep[q]
  <2>1. CASE rep' = [rep EXCEPT ![r] = [rep[r] EXCEPT !.todo = rep[r].todo \ {id}]]
    BY <1>0, <2>1 DEF Report
  <2>2. ASSUME NEW k, rep' = [rep EXCEPT ![r] =
                 [rep[r] EXCEPT !.todo = rep[r].todo \ {id},
                    !.slot = k, !.pc = "close"]]
        PROVE  /\ rep'[r].pc \in {"clear", "close"} /\ rep'[r].ids = rep[r].ids
               /\ rep'[r].todo = rep[r].todo \ {id}
               /\ \A q \in Reports : q # r => rep'[q] = rep[q]
    BY <1>0, <2>2 DEF Report
  <2> QED BY <2>1, <2>2 DEF ReportClear
<1>2. Claims(r)' = Claims(r) \ {id}
  BY <1>0, <1>1 DEF Claims
<1>3. CASE streams' = streams
  <2>1. SameStreams
    BY <1>0, <1>3, SameStreamsUnchanged
  <2> QED BY <1>0, <1>1, <1>2, <2>1, OrderReportQuiet
<1>4. ASSUME NEW k \in get_stream(id),
             streams' = [streams EXCEPT ![k] =
               [streams[k] EXCEPT !.ta_send_in_progress = FALSE]]
      PROVE  OrderInv'
  <2>0. k \in Configured /\ streams[k].stream_id = id /\ streams[k] \in Stream
    BY <1>0, <1>4 DEF get_stream
  <2>1. /\ \A j \in Configured : j # k => streams'[j] = streams[j]
        /\ streams'[k].stream_id = streams[k].stream_id
        /\ streams'[k].sender = streams[k].sender
        /\ streams'[k].tcp = streams[k].tcp
        /\ streams'[k].started = streams[k].started
        /\ streams'[k].thr = streams[k].thr
    <3>1. PICK s : s = [streams[k] EXCEPT !.ta_send_in_progress = FALSE]
      OBVIOUS
    <3>2. /\ s.stream_id = streams[k].stream_id /\ s.sender = streams[k].sender
          /\ s.started = streams[k].started /\ s.thr = streams[k].thr /\ s.tcp = streams[k].tcp
      BY <2>0, <3>1 DEF Stream
    <3>3. streams' = [streams EXCEPT ![k] = s]
      BY <1>4, <3>1
    <3> QED BY <1>0, <2>0, <3>2, <3>3
  <2>2. SameNames /\ Configured' = Configured
    BY <1>0, <2>1 DEF SameNames, Configured
  <2>3. HandlerInv' /\ ClaimsDisjoint' /\ ClaimsNew'
    BY <1>0, <1>1, <1>2, <2>2, ReportMoves
  <2>4. ClaimsRaised'
    <3>1. id \in Claims(r)
      BY <1>0 DEF Claims
    <3>2. \A q \in Reports : q # r => Claims(q)' = Claims(q) /\ id \notin Claims(q)
      BY <1>0, <1>1, <3>1 DEF Claims, OrderInv, ClaimsDisjoint
    <3>3. ASSUME NEW q \in Reports, NEW j \in Configured,
                 streams'[j].stream_id \in Claims(q)'
          PROVE  Raised(j)'
      <4>1. streams[j].stream_id \in Claims(q) /\ streams[j].stream_id # id
        BY <1>2, <2>1, <3>2, <3>3
      <4>2. streams'[j] = streams[j]
        BY <2>0, <2>1, <4>1
      <4>3. Raised(j)
        BY <1>0, <4>1 DEF OrderInv, ClaimsRaised
      <4> QED BY <1>0, <4>2, <4>3 DEF Raised
    <3> QED BY <2>2, <3>3 DEF ClaimsRaised
  <2>5. StartedInv'
    BY <1>0, <2>1, <2>2 DEF OrderInv, StartedInv, Live
  <2>6. ReportFresh'
    BY <1>0, <1>1, <2>1, <2>2 DEF OrderInv, ReportFresh
  <2>7. MainFresh'
    BY <1>0, <2>1, <2>2 DEF OrderInv, MainFresh
  <2> QED BY <2>3, <2>4, <2>5, <2>6, <2>7 DEF OrderInv
<1> QED BY <1>3, <1>4 DEF ReportClear

LEMMA OrderReportStep ==
  ASSUME Known0, NEW r \in Reports, ReportStep(r) PROVE OrderInv'
<1>0. /\ TypeOK /\ OrderInv /\ rep[r] \in Report /\ rep \in [Reports -> Report]
      /\ rep[r].todo \subseteq rep[r].ids /\ rep[r].slot \in Slots
      /\ \A q \in Reports : q # r => rep'[q] = rep[q]
  BY ReportIds, ReportFields DEF Known0, TypeOK, PcInv
<1>1. ASSUME NEW id, ReportStop(r, id) PROVE OrderInv'
  <2>0. /\ main' = main /\ thr' = thr /\ SameStreams
        /\ rep[r].pc = "stop" /\ id \in rep[r].todo
    BY <1>1, SameStreamsUnchanged DEF ReportStop
  <2>1. CASE rep' = [rep EXCEPT ![r] = [rep[r] EXCEPT !.todo = rep[r].todo \ {id}]]
    <3>1. rep'[r].pc = "stop" /\ rep'[r].ids = rep[r].ids
      BY <1>0, <2>0, <2>1 DEF Report
    <3>2. Claims(r)' = Claims(r)
      BY <2>0, <3>1 DEF Claims
    <3> QED BY <1>0, <2>0, <3>1, <3>2, OrderReportQuiet
  <2>2. ASSUME NEW k \in get_stream(id), streams[k].started,
               rep' = [rep EXCEPT ![r] =
                 [rep[r] EXCEPT !.todo = rep[r].todo \ {id},
                    !.pc = "join", !.slot = k, !.target = streams[k].thr]]
        PROVE  OrderInv'
    <3>1. /\ rep'[r].pc = "join" /\ rep'[r].ids = rep[r].ids
          /\ rep'[r].slot = k /\ rep'[r].target = streams[k].thr
      BY <1>0, <2>2 DEF Report
    <3>2. Claims(r)' = Claims(r)
      BY <2>0, <3>1 DEF Claims
    <3>3. k \in Configured /\ streams[k].stream_id = id
      BY <2>2 DEF get_stream
    <3> QED BY <1>0, <2>0, <2>2, <3>1, <3>2, <3>3, OrderReportQuiet
  <2> QED BY <1>1, <2>1, <2>2 DEF ReportStop
<1>2. CASE ReportBuilt(r)
  <2>0. /\ main' = main /\ thr' = thr /\ SameStreams /\ rep[r].pc = "stop"
    BY <1>2, SameStreamsUnchanged DEF ReportBuilt
  <2>1. rep'[r].pc = "clear" /\ rep'[r].ids = rep[r].ids /\ rep'[r].todo = rep[r].ids
    BY <1>0, <1>2 DEF ReportBuilt, Report
  <2>2. Claims(r)' = Claims(r)
    BY <2>0, <2>1 DEF Claims
  <2> QED BY <1>0, <2>0, <2>1, <2>2, OrderReportQuiet
<1>3. CASE ReportClose(r)
  <2>0. /\ main' = main /\ thr' = thr /\ rep[r].pc = "close"
        /\ num_streams' = num_streams /\ stream_id' = stream_id
        /\ streams[rep[r].slot] \in Stream
        /\ streams' = [streams EXCEPT ![rep[r].slot] =
                         [streams[rep[r].slot] EXCEPT !.sock = "none"]]
    BY <1>0, <1>3 DEF ReportClose, TypeOK
  <2>1. SameStreams
    <3>1. SameStream(streams[rep[r].slot],
                     [streams[rep[r].slot] EXCEPT !.sock = "none"])
      BY <2>0, StreamEffects
    <3> QED BY <1>0, <2>0, <3>1, OneSameStream
  <2>2. rep'[r].pc = "clear" /\ rep'[r].ids = rep[r].ids /\ rep'[r].todo = rep[r].todo
    BY <1>0, <1>3 DEF ReportClose, Report
  <2>3. Claims(r)' = Claims(r)
    BY <2>0, <2>2 DEF Claims
  <2> QED BY <1>0, <2>0, <2>1, <2>2, <2>3, OrderReportQuiet
<1>4. CASE ReportComplete(r)
  <2>0. /\ main' = main /\ thr' = thr /\ SameStreams /\ rep[r].pc = "clear"
    BY <1>4, SameStreamsUnchanged DEF ReportComplete
  <2>1. rep'[r].pc = "done"
    BY <1>0, <1>4 DEF ReportComplete, Report
  <2>2. Claims(r)' = {}
    BY <2>1 DEF Claims
  <2> QED BY <1>0, <2>0, <2>1, <2>2, OrderReportQuiet
<1>5. CASE ReportDone(r)
  <2>0. /\ main' = main /\ thr' = thr /\ SameStreams
    BY <1>5, SameStreamsUnchanged DEF ReportDone
  <2>1. rep'[r].pc = "none"
    BY <1>0, <1>5, NoReportFields DEF ReportDone
  <2>2. Claims(r)' = {}
    BY <2>1 DEF Claims
  <2> QED BY <1>0, <2>0, <2>1, <2>2, OrderReportQuiet
<1> QED BY <1>1, <1>2, <1>3, <1>4, <1>5, OrderReportJoined, OrderReportClear
        DEF ReportStep

LEMMA OrderInit == Init => OrderInv
BY IdleFields, NoReportFields
   DEF Init, OrderInv, HandlerInv, ClaimsDisjoint, ClaimsRaised, ClaimsNew,
       StartedInv, ReportFresh, MainFresh, Claims, Configured, Named

LEMMA OrderNext ==
  ASSUME TypeOK, PcInv, IdsInv, Orderly => OrderInv, [Next]_vars
  PROVE  Orderly => OrderInv'
<1> SUFFICES ASSUME Known0 PROVE OrderInv'
  BY DEF Known0
<1>1. CASE UNCHANGED vars
  <2>1. SameStreams /\ rep' = rep /\ main' = main /\ thr' = thr
    BY <1>1, SameStreamsUnchanged DEF vars
  <2> QED BY <2>1, OrderQuiet DEF Known0, Live
<1> QED BY <1>1, OrderCommand, OrderHandler, OrderThread, OrderReportStep DEF Next

LEMMA OrderCorrect == Spec => [](TypeOK /\ PcInv /\ IdsInv /\ (Orderly => OrderInv))
<1>1. TypeOK /\ PcInv /\ IdsInv /\ (Orderly => OrderInv) /\ [Next]_vars
        => (PcInv /\ IdsInv /\ (Orderly => OrderInv))'
  BY PcNext, IdsNext, OrderNext
<1> QED BY <1>1, IdsInit, OrderInit, TypeCorrect, PTL DEF Spec

(* stop_stream() writes to the stream it was called for, whoever runs it.  *)
THEOREM StopsAreFresh == Spec => []StopStreamFresh
<1>1. (Orderly => OrderInv) => StopStreamFresh
  BY DEF OrderInv, ReportFresh, MainFresh, StopStreamFresh, Named
<1> QED BY <1>1, OrderCorrect, PTL

LEMMA JoinersSingle ==
  ASSUME PcInv, IdsInv, Orderly => OrderInv PROVE NoDoubleJoin
<1>1. ASSUME PcInv, IdsInv, OrderInv, NEW t \in Threads,
             NEW q \in Reports, NEW r \in Reports, q # r,
             rep[q].pc = "join", rep[q].target = t,
             rep[r].pc = "join", rep[r].target = t
      PROVE  FALSE
  <2>1. /\ rep[q].slot = rep[r].slot
        /\ streams[rep[q].slot].stream_id \in rep[q].ids
        /\ streams[rep[q].slot].stream_id \in rep[r].ids
    BY <1>1 DEF OrderInv, ReportFresh, StartedInv
  <2> QED BY <1>1, <2>1 DEF OrderInv, ClaimsDisjoint, Claims
<1>2. ASSUME PcInv, IdsInv, OrderInv, NEW t \in Threads, NEW r \in Reports,
             main.pc = "join", main.target = t,
             rep[r].pc = "join", rep[r].target = t
      PROVE  FALSE
  <2>1. /\ rep[r].slot = main.slot
        /\ main.slot \in Named(rep[r].ids)
    BY <1>2 DEF OrderInv, ReportFresh, MainFresh, StartedInv, Named
  <2>2. streams[main.slot].sender
    BY <1>2, <2>1 DEF IdsInv, NamesSenders
  <2>3. main.op \in {"receive_stop", "reset"} /\ main.slot \in main.all
    BY <1>2 DEF PcInv, OrderInv, HandlerInv
  <2> QED BY <1>2, <2>2, <2>3 DEF OrderInv, HandlerInv
<1> QED BY <1>1, <1>2 DEF NoDoubleJoin, Joiners

(* No two threads join the same thread.                                    *)
THEOREM JoinsAreSingle == Spec => []NoDoubleJoin
BY JoinersSingle, OrderCorrect, PTL

-----------------------------------------------------------------------------
(* The inductive invariant behind ThreadsKnown and CompleteAfterSend, for  *)
(* an orderly controller and when nothing fails.                           *)

ThreadsOfStreams ==
  \A t \in Threads : Live(t) =>
    /\ thr[t].slot \in Configured
    /\ streams[thr[t].slot].started
    /\ streams[thr[t].slot].thr = t

(* A handler starts only streams that are not started.                     *)
NotYetStarted ==
  /\ main.pc = "open" => \A k \in main.all : ~streams[k].started
  /\ main.pc = "create" => \A k \in main.todo : ~streams[k].started

(* A stream that is sent on is marked, or its handler has yet to do so.    *)
Starting(k) ==
  main.pc \in {"create", "report"} /\ main.op = "send" /\ k \in main.all
SendersRaised ==
  \A k \in Configured :
    streams[k].started /\ streams[k].sender => Raised(k) \/ Starting(k)

(* What a report thread or a reset has gone past is stopped.               *)
StillToStop(r, k) ==
  \/ rep[r].pc \in {"stop", "join"} /\ streams[k].stream_id \in rep[r].todo
  \/ rep[r].pc = "join" /\ rep[r].slot = k
ReportsStop ==
  \A r \in Reports : \A k \in Configured :
    streams[k].started /\ streams[k].stream_id \in Claims(r)
      => StillToStop(r, k)
ResetStops ==
  main.op = "reset" =>
    /\ main.all = Configured
    /\ \A k \in Configured : streams[k].started =>
         k \in main.todo \/ (main.pc = "join" /\ main.slot = k)

KnownInv ==
  ThreadsOfStreams /\ NotYetStarted /\ SendersRaised /\ ReportsStop /\ ResetStops

Known1 == Known0 /\ ~CanFail /\ KnownInv

LEMMA KnownThreads ==
  ASSUME KnownInv, SameStreams,
         \A t \in Threads : Live(t)' = Live(t) /\ thr'[t].slot = thr[t].slot
  PROVE  ThreadsOfStreams'
<1>1. /\ Configured' = Configured
      /\ \A k \in Configured : SameStream(streams[k], streams'[k])
  BY NamesConfigured DEF SameStreams
<1> QED BY <1>1 DEF KnownInv, ThreadsOfStreams, SameStream

LEMMA KnownReports ==
  ASSUME KnownInv, SameStreams, rep' = rep
  PROVE  ReportsStop'
<1>1. /\ Configured' = Configured
      /\ \A k \in Configured : SameStream(streams[k], streams'[k])
  BY NamesConfigured DEF SameStreams
<1>2. \A r \in Reports : Claims(r)' = Claims(r)
  BY DEF Claims
<1> QED BY <1>1, <1>2 DEF KnownInv, ReportsStop, StillToStop, SameStream

LEMMA KnownMain ==
  ASSUME OrderInv, KnownInv, SameStreams, main' = main
  PROVE  NotYetStarted' /\ SendersRaised' /\ ResetStops'
<1>1. /\ Configured' = Configured
      /\ \A k \in Configured : SameStream(streams[k], streams'[k])
  BY NamesConfigured DEF SameStreams
<1>2. main.all \subseteq Configured /\ main.todo \subseteq main.all
  BY DEF OrderInv, HandlerInv
<1>3. NotYetStarted'
  BY <1>1, <1>2 DEF KnownInv, NotYetStarted, SameStream
<1>4. SendersRaised'
  BY <1>1 DEF KnownInv, SendersRaised, Raised, Starting, SameStream
<1>5. ResetStops'
  BY <1>1 DEF KnownInv, ResetStops, SameStream
<1> QED BY <1>3, <1>4, <1>5

(* A handler that is not marking streams goes on or ends, and no stream    *)
(* that is sent on was in its hands.                                       *)
LEMMA KnownMoves ==
  ASSUME KnownInv, SameStreams, main.pc \notin {"create", "report", "mark"},
         main'.pc \notin {"open", "create"}, main'.op # "reset"
  PROVE  NotYetStarted' /\ SendersRaised' /\ ResetStops'
<1>1. /\ Configured' = Configured
      /\ \A k \in Configured : SameStream(streams[k], streams'[k])
  BY NamesConfigured DEF SameStreams
<1>2. NotYetStarted' /\ ResetStops'
  BY DEF NotYetStarted, ResetStops
<1>3. SendersRaised'
  BY <1>1 DEF KnownInv, SendersRaised, Raised, Starting, SameStream
<1> QED BY <1>2, <1>3

(* Steps that concern none of this.                                        *)
LEMMA KnownQuiet ==
  ASSUME OrderInv, KnownInv, SameStreams, rep' = rep, main' = main,
         \A t \in Threads : Live(t)' = Live(t) /\ thr'[t].slot = thr[t].slot
  PROVE  KnownInv'
BY KnownThreads, KnownReports, KnownMain DEF KnownInv

-----------------------------------------------------------------------------
(* Commands keep KnownInv. *)

LEMMA KnownBegin ==
  ASSUME Known1, SameStreams, rep' = rep, thr' = thr, main.pc = "idle",
         NEW c, NEW S, NEW all, NEW o, NEW p, Begin(c, o, p, S, all),
         p \in {"open", "stop"}, all \subseteq Configured,
         p = "open" => \A k \in all : ~streams[k].started,
         o = "reset" => all = Configured
  PROVE  KnownInv'
<1>0. OrderInv /\ KnownInv
  BY DEF Known1, Known0
<1>1. /\ Configured' = Configured
      /\ \A k \in Configured : SameStream(streams[k], streams'[k])
  BY NamesConfigured DEF SameStreams
<1>2. /\ main'.pc = p /\ main'.op = o /\ main'.all = all /\ main'.todo = all
  BY BeginFields
<1>3. ThreadsOfStreams' /\ ReportsStop'
  BY <1>0, KnownThreads, KnownReports DEF Live
<1>4. NotYetStarted'
  BY <1>1, <1>2 DEF NotYetStarted, SameStream
<1>5. SendersRaised'
  BY <1>0, <1>1 DEF KnownInv, SendersRaised, Raised, Starting, SameStream
<1>6. ResetStops'
  BY <1>1, <1>2 DEF ResetStops
<1> QED BY <1>3, <1>4, <1>5, <1>6 DEF KnownInv

LEMMA KnownConfig ==
  ASSUME Known1, NEW c \in Conns, Config(c)
  PROVE  KnownInv'
<1>0. /\ KnownInv /\ OrderInv /\ TypeOK /\ IdsInv
      /\ stream_id \in Nat /\ num_streams \in Nat
      /\ streams \in [Slots -> Stream]
      /\ main' = main /\ main = Idle /\ rep' = rep /\ thr' = thr
  BY ConstantsAssumption DEF Known1, Known0, TypeOK, Config, Command, PcInv
<1>1. PICK s \in BOOLEAN, t \in BOOLEAN :
        streams' = [streams EXCEPT ![num_streams + 1] =
                      NewStream(s, t, stream_id + 1)]
  BY DEF Config
<1>2. num_streams' = num_streams + 1 /\ num_streams + 1 \in Slots
  BY <1>0, ConstantsAssumption DEF Config, TableFull, TypeOK, Slots
<1>3. /\ Configured' = Configured \cup {num_streams + 1}
      /\ num_streams + 1 \notin Configured
  BY <1>0, <1>2 DEF Configured
<1>4. /\ \A k \in Configured : streams'[k] = streams[k]
      /\ ~streams'[num_streams + 1].started
  <2>1. NewStream(s, t, stream_id + 1).started = FALSE
    BY DEF NewStream, Zeroed
  <2> QED BY <1>0, <1>1, <1>2, <1>3, <2>1, ConfiguredSlots
<1>5. ThreadsOfStreams'
  BY <1>0, <1>3, <1>4 DEF KnownInv, ThreadsOfStreams, Live
<1>6. NotYetStarted' /\ ResetStops'
  BY <1>0, IdleFields DEF NotYetStarted, ResetStops
<1>7. SendersRaised'
  BY <1>0, <1>3, <1>4, IdleFields DEF KnownInv, SendersRaised, Raised, Starting
<1>8. ReportsStop'
  <2>1. \A r \in Reports : Claims(r)' = Claims(r)
    BY <1>0 DEF Claims
  <2> QED BY <1>0, <1>3, <1>4, <2>1 DEF KnownInv, ReportsStop, StillToStop
<1> QED BY <1>5, <1>6, <1>7, <1>8 DEF KnownInv

LEMMA KnownCommand ==
  ASSUME Known1, CommandStep PROVE KnownInv'
<1>0. TypeOK /\ OrderInv /\ Orderly /\ KnownInv /\ PcInv
  BY DEF Known1, Known0
<1>1. ASSUME SameStreams, UNCHANGED <<rep, main, thr>> PROVE KnownInv'
  BY <1>0, <1>1, KnownQuiet DEF Live
<1>2. ASSUME NEW c \in Conns, ConfigRefused(c) PROVE KnownInv'
  <2>1. CASE TableFull
    BY <1>1, <1>2, <2>1, SameStreamsUnchanged DEF ConfigRefused
  <2>2. CASE ~TableFull
    <3>1. num_streams + 1 \notin Configured
      BY <1>0 DEF TypeOK, Configured
    <3>2. SameStreams
      BY <1>0, <1>2, <2>2, <3>1, ConfiguredSlots
         DEF ConfigRefused, SameStreams, SameStream, SameNames, TypeOK
    <3> QED BY <1>1, <1>2, <3>2 DEF ConfigRefused
  <2> QED BY <2>1, <2>2
<1>3. ASSUME NEW c \in Conns, Reset(c) PROVE KnownInv'
  <2>0. /\ rep' = rep /\ thr' = thr /\ main.pc = "idle"
        /\ UNCHANGED <<num_streams, stream_id>>
    BY <1>3 DEF Reset, Command
  <2>1. CASE num_streams = 0
    <3>1. SameStreams
      BY <2>0, <2>1 DEF SameStreams, SameNames, Configured
    <3> QED BY <1>1, <1>3, <2>1, <3>1 DEF Reset
  <2>2. CASE num_streams # 0
    <3>1. Begin(c, "reset", "stop", {}, Configured) /\ SameStreams
      BY <1>3, <2>0, <2>2, SameStreamsUnchanged DEF Reset
    <3> QED BY <2>0, <3>1, KnownBegin
  <2> QED BY <2>1, <2>2
<1>4. ASSUME NEW c \in Conns, NEW S,
             \/ BadList(c, S) \/ SendRefused(c, S) \/ NotStarted(c, S)
             \/ WrongStreams(c, S, TRUE) \/ WrongStreams(c, S, FALSE)
      PROVE  KnownInv'
  BY <1>1, <1>4, SameStreamsUnchanged
     DEF BadList, SendRefused, WrongStreams, NotStarted, Answer
<1>5. \A S : Named(S) \subseteq Configured
  BY DEF Named
<1>6. ASSUME NEW c \in Conns, NEW S, Send(c, S) PROVE KnownInv'
  <2>1. /\ SameStreams /\ rep' = rep /\ thr' = thr /\ main.pc = "idle"
        /\ Begin(c, "send", "open", S, Named(S))
    BY <1>6, SameStreamsUnchanged DEF Send, Command
  <2>2. ASSUME NEW k \in Named(S) PROVE ~streams[k].started
    <3>1. k \in Configured /\ streams[k].sender /\ ~streams[k].ta_send_in_progress
      BY <1>6 DEF Send, Busy, Named
    <3> QED BY <1>0, <2>1, <3>1 DEF KnownInv, SendersRaised, Raised, Starting
  <2> QED BY <1>5, <2>1, <2>2, KnownBegin
<1>7. ASSUME NEW c \in Conns, NEW S, ReceiveStart(c, S) PROVE KnownInv'
  <2>1. /\ SameStreams /\ rep' = rep /\ thr' = thr /\ main.pc = "idle"
        /\ Begin(c, "receive_start", "open", S, Named(S))
        /\ \A k \in Named(S) : ~streams[k].started
    BY <1>0, <1>7, SameStreamsUnchanged
       DEF ReceiveStart, Command, OrderlyReceiveStart
  <2> QED BY <1>5, <2>1, KnownBegin
<1>8. ASSUME NEW c \in Conns, NEW S, ReceiveStop(c, S) PROVE KnownInv'
  <2>1. /\ rep' = rep /\ thr' = thr /\ main.pc = "idle"
        /\ UNCHANGED <<num_streams, stream_id>>
        /\ Begin(c, "receive_stop", "stop", S, Named(S))
    BY <1>8 DEF ReceiveStop, Command
  <2>2. \A k \in Slots : streams[k] \in Stream
    BY <1>0 DEF TypeOK
  <2>3. ASSUME NEW k \in Slots PROVE SameStream(streams[k], streams'[k])
    BY <1>8, <2>2, StreamEffects DEF ReceiveStop
  <2>4. SameStreams
    BY <1>0, <2>1, <2>3, ConfiguredSlots DEF SameStreams, SameNames, SameStream
  <2> QED BY <1>5, <2>1, <2>4, KnownBegin
<1> QED BY <1>2, <1>3, <1>4, <1>6, <1>7, <1>8, KnownConfig DEF CommandStep

-----------------------------------------------------------------------------
(* The handlers' steps keep KnownInv. *)

LEMMA KnownOpen ==
  ASSUME Known1, NEW k \in Slots, OpenSocket(k) PROVE KnownInv'
<1>0. /\ TypeOK /\ OrderInv /\ KnownInv /\ streams[k] \in Stream
      /\ main.pc = "open" /\ rep' = rep /\ thr' = thr
      /\ num_streams' = num_streams /\ stream_id' = stream_id
  BY DEF Known1, Known0, TypeOK, OpenSocket
<1>1. /\ streams' = [streams EXCEPT ![k] = [streams[k] EXCEPT !.sock = "open"]]
      /\ Loop(k, "create")
  BY DEF Known1, OpenSocket
<1>2. SameStreams
  <2>1. SameStream(streams[k], [streams[k] EXCEPT !.sock = "open"])
    BY <1>0, StreamEffects
  <2> QED BY <1>0, <1>1, <2>1, OneSameStream
<1>3. /\ Configured' = Configured
      /\ \A j \in Configured : SameStream(streams[j], streams'[j])
  BY <1>2, NamesConfigured DEF SameStreams
<1>4. /\ main'.op = main.op /\ main'.all = main.all
      /\ main'.todo \subseteq main.all /\ main'.pc \in {"open", "create"}
      /\ main.all \subseteq Configured
  BY <1>0, <1>1, LoopFields DEF OrderInv, HandlerInv
<1>5. ThreadsOfStreams' /\ ReportsStop'
  BY <1>0, <1>2, KnownThreads, KnownReports DEF Live
<1>6. NotYetStarted'
  BY <1>0, <1>3, <1>4 DEF KnownInv, NotYetStarted, SameStream
<1>7. SendersRaised'
  BY <1>0, <1>3 DEF KnownInv, SendersRaised, Raised, Starting, SameStream
<1>8. ResetStops'
  <2>1. main.op # "reset"
    BY <1>0 DEF Known1, Known0, PcInv
  <2> QED BY <1>4, <2>1 DEF ResetStops
<1> QED BY <1>5, <1>6, <1>7, <1>8 DEF KnownInv

(* The stream that gets a thread is nobody's: no report thread has it, and *)
(* no other thread works for it.                                           *)
LEMMA KnownCreate ==
  ASSUME Known1, NEW k \in Slots, CreateThread(k) PROVE KnownInv'
<1>0. /\ TypeOK /\ OrderInv /\ PcInv /\ IdsInv /\ KnownInv
      /\ streams[k] \in Stream
      /\ streams \in [Slots -> Stream] /\ thr \in [Threads -> Thread]
      /\ main.pc = "create" /\ k \in main.todo /\ rep' = rep
      /\ num_streams' = num_streams /\ stream_id' = stream_id
      /\ Configured \subseteq Slots /\ Configured' = Configured
  BY ConfiguredSlots DEF Known1, Known0, TypeOK, CreateThread, Configured
<1>1. PICK t \in Threads :
        /\ thr[t].st = "free"
        /\ thr' = [thr EXCEPT ![t] = NewThread(k)]
        /\ streams' = [streams EXCEPT
             ![k] = [streams[k] EXCEPT !.thr = t, !.started = TRUE]]
        /\ \/ main.op = "receive_start" /\ main' = Idle
           \/ Loop(k, "report")
  BY DEF Known1, CreateThread, Return
<1>2. /\ k \in main.all /\ k \in Configured /\ ~streams[k].started
      /\ main.all \subseteq Configured /\ main.todo \subseteq main.all
      /\ main.op \in {"send", "receive_start"}
  BY <1>0 DEF OrderInv, HandlerInv, PcInv, KnownInv, NotYetStarted
<1>3. /\ \A j \in Configured : j # k => streams'[j] = streams[j]
      /\ streams'[k].stream_id = streams[k].stream_id
      /\ streams'[k].sender = streams[k].sender
      /\ streams'[k].tcp = streams[k].tcp
      /\ streams'[k].started
      /\ streams'[k].thr = t
  <2>1. PICK s : s = [streams[k] EXCEPT !.thr = t, !.started = TRUE]
    OBVIOUS
  <2>2. /\ s.stream_id = streams[k].stream_id
        /\ s.sender = streams[k].sender
        /\ s.started /\ s.thr = t /\ s.tcp = streams[k].tcp
    BY <1>0, <2>1 DEF Stream
  <2>3. streams' = [streams EXCEPT ![k] = s]
    BY <1>1, <2>1
  <2> QED BY <1>0, <2>2, <2>3
<1>4. \/ main.op = "receive_start" /\ main' = Idle
      \/ /\ main'.op = main.op /\ main'.all = main.all
         /\ \/ main'.pc = "create" /\ main'.todo = main.todo \ {k}
            \/ main'.pc = "report"
  BY <1>0, <1>1, LoopFields
<1>5. ThreadsOfStreams'
  <2>1. /\ thr'[t].slot = k
        /\ \A u \in Threads : u # t => thr'[u] = thr[u]
    BY <1>0, <1>1 DEF NewThread
  <2>2. ASSUME NEW u \in Threads, u # t, Live(u)
        PROVE  /\ thr[u].slot \in Configured
               /\ streams'[thr[u].slot].started
               /\ streams'[thr[u].slot].thr = u
    <3>1. /\ thr[u].slot \in Configured
          /\ streams[thr[u].slot].started
          /\ streams[thr[u].slot].thr = u
      BY <1>0, <2>2 DEF KnownInv, ThreadsOfStreams
    <3> QED BY <1>2, <1>3, <3>1
  <2> QED BY <1>0, <1>2, <1>3, <2>1, <2>2 DEF ThreadsOfStreams, Live
<1>6. NotYetStarted'
  BY <1>0, <1>2, <1>3, <1>4, IdleFields DEF KnownInv, NotYetStarted
<1>7. SendersRaised'
  <2>1. ASSUME NEW j \in Configured, streams'[j].started, streams'[j].sender
        PROVE  streams'[j].ta_send_in_progress \/ Starting(j)'
    <3>1. CASE j = k
      <4>1. main.op = "send"
        BY <1>0, <1>2, <1>3, <2>1, <3>1 DEF OrderInv, HandlerInv
      <4> QED BY <1>2, <1>4, <3>1, <4>1 DEF Starting
    <3>2. CASE j # k
      <4>1. streams[j].ta_send_in_progress \/ Starting(j)
        BY <1>0, <1>3, <2>1, <3>2 DEF KnownInv, SendersRaised, Raised
      <4> QED BY <1>3, <1>4, <3>2, <4>1 DEF Starting
    <3> QED BY <3>1, <3>2
  <2> QED BY <1>0, <2>1 DEF SendersRaised, Raised
<1>8. ReportsStop'
  <2>1. ASSUME NEW r \in Reports PROVE streams[k].stream_id \notin Claims(r)
    <3>1. CASE main.op = "send"
      <4>1. streams[k].stream_id \in main.ids
        BY <1>0, <1>2, <3>1 DEF OrderInv, HandlerInv, Named
      <4> QED BY <1>0, <3>1, <4>1 DEF OrderInv, ClaimsNew
    <3>2. CASE main.op = "receive_start"
      <4>1. ~streams[k].sender
        BY <1>0, <1>2, <3>2 DEF OrderInv, HandlerInv
      <4> QED BY <1>0, <1>2, <4>1 DEF IdsInv, NamesSenders, Named, Claims
    <3> QED BY <1>2, <3>1, <3>2
  <2>2. \A r \in Reports : Claims(r)' = Claims(r)
    BY <1>0 DEF Claims
  <2> QED BY <1>0, <1>3, <2>1, <2>2 DEF KnownInv, ReportsStop, StillToStop
<1>9. ResetStops'
  BY <1>2, <1>4, IdleFields DEF ResetStops
<1> QED BY <1>5, <1>6, <1>7, <1>8, <1>9 DEF KnownInv

LEMMA KnownReport ==
  ASSUME Known1, CreateReport PROVE KnownInv'
<1>0. /\ TypeOK /\ OrderInv /\ PcInv /\ KnownInv /\ main \in Handler
      /\ rep \in [Reports -> Report]
      /\ main.pc = "report" /\ main.op = "send"
      /\ UNCHANGED <<streams, num_streams, stream_id, thr>>
      /\ main.todo = main.all /\ Configured' = Configured
  BY DEF Known1, Known0, TypeOK, CreateReport, PcInv, OrderInv, HandlerInv,
         Configured
<1>1. PICK r \in Reports :
        /\ rep' = [rep EXCEPT ![r] =
                     [NoReport EXCEPT !.pc = "stop", !.conn = main.conn,
                        !.ids = main.ids, !.todo = main.ids]]
        /\ main' = [main EXCEPT !.pc = "mark"]
  BY DEF Known1, CreateReport
<1>2. /\ main'.pc = "mark" /\ main'.op = "send" /\ main'.todo = main.todo
  BY <1>0, <1>1 DEF Handler
<1>3. /\ \A q \in Reports : q # r => rep'[q] = rep[q]
      /\ rep'[r].pc = "stop" /\ rep'[r].ids = main.ids /\ rep'[r].todo = main.ids
  BY <1>0, <1>1 DEF NoReport
<1>4. ThreadsOfStreams'
  BY <1>0 DEF KnownInv, ThreadsOfStreams, Live
<1>5. NotYetStarted' /\ ResetStops'
  BY <1>2 DEF NotYetStarted, ResetStops
<1>6. SendersRaised'
  BY <1>0, <1>2 DEF KnownInv, SendersRaised, Raised, Starting
<1>7. ReportsStop'
  <2>1. \A q \in Reports : q # r => Claims(q)' = Claims(q)
    BY <1>3 DEF Claims
  <2>2. Claims(r)' = main.ids
    BY <1>3 DEF Claims
  <2> QED BY <1>0, <1>3, <2>1, <2>2 DEF KnownInv, ReportsStop, StillToStop
<1> QED BY <1>4, <1>5, <1>6, <1>7 DEF KnownInv

LEMMA KnownMark ==
  ASSUME Known1, NEW k \in Slots, MarkSending(k) PROVE KnownInv'
<1>0. /\ TypeOK /\ OrderInv /\ PcInv /\ KnownInv /\ streams[k] \in Stream
      /\ streams \in [Slots -> Stream]
      /\ main.pc = "mark" /\ main.op = "send" /\ k \in main.todo
      /\ rep' = rep /\ thr' = thr
      /\ Configured' = Configured /\ Configured \subseteq Slots
  BY ConfiguredSlots DEF Known1, Known0, TypeOK, MarkSending, Configured, PcInv
<1>1. /\ \A j \in Configured : j # k => streams'[j] = streams[j]
      /\ streams'[k].stream_id = streams[k].stream_id
      /\ streams'[k].sender = streams[k].sender
      /\ streams'[k].tcp = streams[k].tcp
      /\ streams'[k].started = streams[k].started
      /\ streams'[k].thr = streams[k].thr
      /\ streams'[k].ta_send_in_progress
  <2>1. PICK s : s = [streams[k] EXCEPT !.ta_send_in_progress = TRUE]
    OBVIOUS
  <2>2. /\ s.stream_id = streams[k].stream_id /\ s.sender = streams[k].sender
        /\ s.started = streams[k].started /\ s.thr = streams[k].thr /\ s.tcp = streams[k].tcp
        /\ s.ta_send_in_progress
    BY <1>0, <2>1, StreamMarked
  <2>3. streams' = [streams EXCEPT ![k] = s]
    BY <2>1 DEF MarkSending
  <2> QED BY <1>0, <2>2, <2>3
<1>2. \/ main' = Idle /\ main.todo = {k}
      \/ /\ main'.op = main.op /\ main'.pc = "mark"
         /\ main'.todo = main.todo \ {k}
  BY <1>0, LoopFields DEF MarkSending
<1>3. ThreadsOfStreams'
  BY <1>0, <1>1 DEF KnownInv, ThreadsOfStreams, Live
<1>4. NotYetStarted' /\ ResetStops'
  BY <1>0, <1>2, IdleFields DEF NotYetStarted, ResetStops
<1>5. SendersRaised'
  <2>1. ASSUME NEW j \in Configured, Raised(j) PROVE Raised(j)'
    BY <1>0, <1>1, <1>2, <2>1 DEF Raised
  <2>2. \A j \in Configured : ~Starting(j)
    BY <1>0 DEF Starting
  <2> QED BY <1>0, <1>1, <2>1, <2>2 DEF KnownInv, SendersRaised
<1>6. ReportsStop'
  <2>1. \A r \in Reports : Claims(r)' = Claims(r)
    BY <1>0 DEF Claims
  <2> QED BY <1>0, <1>1, <2>1 DEF KnownInv, ReportsStop, StillToStop
<1> QED BY <1>3, <1>4, <1>5, <1>6 DEF KnownInv

LEMMA KnownStop ==
  ASSUME Known1, NEW k \in Slots, MainStop(k) PROVE KnownInv'
<1>0. /\ TypeOK /\ OrderInv /\ KnownInv /\ streams[k] \in Stream
      /\ main \in Handler
      /\ main.pc = "stop" /\ k \in main.todo /\ rep' = rep /\ thr' = thr
  BY DEF Known1, Known0, TypeOK, MainStop
<1>1. SameStreams
  <2>1. (streams[k].stop \/ main.op = "reset") \in BOOLEAN
    BY <1>0, StreamFields
  <2>2. SameStream(streams[k],
          [streams[k] EXCEPT !.stop = streams[k].stop \/ main.op = "reset"])
    BY <1>0, <2>1, StreamEffects
  <2> QED BY <1>0, <2>2, OneSameStream DEF MainStop
<1>2. /\ Configured' = Configured
      /\ \A j \in Configured : SameStream(streams[j], streams'[j])
  BY <1>1, NamesConfigured DEF SameStreams
<1>3. /\ main'.op = main.op /\ main'.all = main.all
      /\ main'.todo = main.todo \ {k}
      /\ \/ main'.pc = "stop" /\ ~streams[k].started
         \/ main'.pc = "join" /\ main'.slot = k
  <2>1. CASE streams[k].started
    BY <1>0, <2>1 DEF MainStop, Handler
  <2>2. CASE ~streams[k].started
    BY <1>0, <2>2 DEF MainStop, Handler
  <2> QED BY <2>1, <2>2
<1>4. ThreadsOfStreams' /\ ReportsStop'
  BY <1>0, <1>1, KnownThreads, KnownReports DEF Live
<1>5. NotYetStarted'
  BY <1>3 DEF NotYetStarted
<1>6. SendersRaised'
  BY <1>0, <1>2 DEF KnownInv, SendersRaised, Raised, Starting, SameStream
<1>7. ResetStops'
  BY <1>0, <1>2, <1>3 DEF KnownInv, ResetStops, SameStream
<1> QED BY <1>4, <1>5, <1>6, <1>7 DEF KnownInv

(* stop_stream() returns: its thread is gone, the others are what they     *)
(* were.                                                                   *)
LEMMA KnownStopped ==
  ASSUME Known1, NEW j \in Configured, streams[j].started,
         JoinReturns(streams[j].thr),
         streams' = [streams EXCEPT ![j] = Stopped(streams[j])],
         num_streams' = num_streams, stream_id' = stream_id
  PROVE  /\ Configured' = Configured
         /\ ThreadsOfStreams'
         /\ \A i \in Configured :
              /\ streams'[i].stream_id = streams[i].stream_id
              /\ streams'[i].sender = streams[i].sender
              /\ streams'[i].started => streams[i].started /\ i # j
              /\ streams'[i].ta_send_in_progress = streams[i].ta_send_in_progress
<1>0. /\ TypeOK /\ OrderInv /\ KnownInv /\ Orderly
      /\ streams \in [Slots -> Stream] /\ j \in Slots
      /\ Configured \subseteq Slots /\ Configured' = Configured
      /\ streams[j] \in Stream /\ thr \in [Threads -> Thread]
  BY ConfiguredSlots DEF Known1, Known0, TypeOK, Configured
<1>1. /\ \A i \in Configured : i # j => streams'[i] = streams[i]
      /\ streams'[j] = Stopped(streams[j])
  BY <1>0
<1>2. /\ streams'[j].stream_id = streams[j].stream_id
      /\ streams'[j].sender = streams[j].sender
      /\ streams'[j].tcp = streams[j].tcp
      /\ ~streams'[j].started
      /\ streams'[j].ta_send_in_progress = streams[j].ta_send_in_progress
  BY <1>0, <1>1, StreamStopped
<1>3. streams[j].thr \in Threads /\ Live(streams[j].thr)
  BY <1>0 DEF OrderInv, StartedInv
<1>4. \A u \in Threads : u = streams[j].thr => thr'[u].st = "free"
  <2>1. ~(\E a, b \in Joiners(streams[j].thr) : a # b)
    <3>1. NoDoubleJoin
      BY JoinersSingle DEF Known1, Known0
    <3> QED BY <1>0, <1>3, <3>1 DEF NoDoubleJoin
  <2>2. thr' = [thr EXCEPT ![streams[j].thr] = FreeThread]
    BY <1>3, <2>1 DEF JoinReturns, Live
  <2> QED BY <1>0, <1>3, <2>2 DEF FreeThread
<1>5. \A u \in Threads : u # streams[j].thr => thr'[u] = thr[u]
  BY <1>0, JoinEffect
<1>6. ThreadsOfStreams'
  <2>1. ASSUME NEW u \in Threads, thr'[u].st # "free"
        PROVE  /\ thr'[u].slot \in Configured
               /\ streams'[thr'[u].slot].started
               /\ streams'[thr'[u].slot].thr = u
    <3>1. u # streams[j].thr
      BY <1>4, <2>1
    <3>2. thr'[u] = thr[u] /\ Live(u)
      BY <1>5, <2>1, <3>1 DEF Live
    <3>3. /\ thr[u].slot \in Configured
          /\ streams[thr[u].slot].started
          /\ streams[thr[u].slot].thr = u
      BY <1>0, <3>2 DEF KnownInv, ThreadsOfStreams
    <3> QED BY <1>1, <3>1, <3>2, <3>3
  <2> QED BY <1>0, <2>1 DEF ThreadsOfStreams, Live
<1> QED BY <1>0, <1>1, <1>2, <1>6

LEMMA KnownJoined ==
  ASSUME Known1, MainJoined PROVE KnownInv'
<1>0. /\ OrderInv /\ KnownInv /\ main \in Handler
      /\ main.pc = "join" /\ rep' = rep
      /\ main.slot \in Configured
      /\ streams[main.slot].started
      /\ streams[main.slot].thr = main.target
      /\ num_streams' = num_streams /\ stream_id' = stream_id
  BY DEF Known1, Known0, MainJoined, OrderInv, MainFresh, TypeOK
<1>1. /\ Configured' = Configured
      /\ ThreadsOfStreams'
      /\ \A i \in Configured :
           /\ streams'[i].stream_id = streams[i].stream_id
           /\ streams'[i].sender = streams[i].sender
           /\ streams'[i].started => streams[i].started /\ i # main.slot
           /\ streams'[i].ta_send_in_progress = streams[i].ta_send_in_progress
  <2>1. JoinReturns(streams[main.slot].thr)
    BY <1>0 DEF MainJoined
  <2>2. streams' = [streams EXCEPT ![main.slot] = Stopped(streams[main.slot])]
    BY DEF MainJoined
  <2> QED BY <1>0, <2>1, <2>2, KnownStopped
<1>2. /\ main'.op = main.op /\ main'.pc = "stop"
      /\ main'.all = main.all /\ main'.todo = main.todo
  BY <1>0 DEF MainJoined, Handler
<1>3. NotYetStarted'
  BY <1>2 DEF NotYetStarted
<1>4. SendersRaised'
  BY <1>0, <1>1 DEF KnownInv, SendersRaised, Raised, Starting
<1>5. ReportsStop'
  <2>1. \A r \in Reports : Claims(r)' = Claims(r)
    BY <1>0 DEF Claims
  <2> QED BY <1>0, <1>1, <2>1 DEF KnownInv, ReportsStop, StillToStop
<1>6. ResetStops'
  BY <1>0, <1>1, <1>2 DEF KnownInv, ResetStops
<1> QED BY <1>1, <1>3, <1>4, <1>5, <1>6 DEF KnownInv

LEMMA KnownDone ==
  ASSUME Known1, StopsDone PROVE KnownInv'
<1>0. /\ KnownInv /\ main.pc = "stop" /\ main.todo = {}
      /\ rep' = rep /\ thr' = thr
      /\ main' = Idle /\ stream_id' = stream_id
  BY DEF Known1, StopsDone, Return
<1>1. CASE main.op = "reset"
  <2>1. Configured' = {}
    BY <1>1 DEF StopsDone, Configured
  <2>2. \A t \in Threads : ~Live(t)
    BY <1>0, <1>1 DEF KnownInv, ThreadsOfStreams, ResetStops
  <2>3. ThreadsOfStreams'
    BY <1>0, <2>2 DEF ThreadsOfStreams, Live
  <2>4. NotYetStarted' /\ ResetStops'
    BY <1>0, IdleFields DEF NotYetStarted, ResetStops
  <2> QED BY <2>1, <2>3, <2>4 DEF KnownInv, SendersRaised, ReportsStop
<1>2. CASE main.op # "reset"
  <2>1. SameStreams
    BY <1>0, <1>2, SameStreamsUnchanged DEF StopsDone
  <2>2. NotYetStarted' /\ SendersRaised' /\ ResetStops'
    BY <1>0, <2>1, KnownMoves, IdleFields
  <2> QED BY <1>0, <2>1, <2>2, KnownThreads, KnownReports DEF KnownInv, Live
<1> QED BY <1>1, <1>2

LEMMA KnownHandler ==
  ASSUME Known1, HandlerStep PROVE KnownInv'
BY KnownOpen, KnownCreate, KnownReport, KnownMark, KnownStop, KnownJoined,
   KnownDone DEF HandlerStep

-----------------------------------------------------------------------------
(* The other threads' steps keep KnownInv. *)

LEMMA KnownThread ==
  ASSUME Known1, NEW t \in Threads, StreamThread(t) PROVE KnownInv'
BY ThreadEffects, KnownQuiet DEF Known1, Known0

(* A report thread moves on past streams that are not started.             *)
LEMMA KnownReportQuiet ==
  ASSUME Known1, NEW r \in Reports, main' = main, thr' = thr, SameStreams,
         \A q \in Reports : q # r => rep'[q] = rep[q],
         \A k \in Configured :
           streams[k].started /\ streams[k].stream_id \in Claims(r)' =>
             \/ /\ rep'[r].pc \in {"stop", "join"}
                /\ streams[k].stream_id \in rep'[r].todo
             \/ rep'[r].pc = "join" /\ rep'[r].slot = k
  PROVE  KnownInv'
<1>0. OrderInv /\ KnownInv
  BY DEF Known1, Known0
<1>1. /\ Configured' = Configured
      /\ \A k \in Configured : SameStream(streams[k], streams'[k])
  BY NamesConfigured DEF SameStreams
<1>2. NotYetStarted' /\ SendersRaised' /\ ResetStops' /\ ThreadsOfStreams'
  BY <1>0, KnownMain, KnownThreads DEF Live
<1>3. ReportsStop'
  <2>1. ASSUME NEW q \in Reports, NEW k \in Configured,
               streams[k].started, streams[k].stream_id \in Claims(q)'
        PROVE  \/ /\ rep'[q].pc \in {"stop", "join"}
                  /\ streams[k].stream_id \in rep'[q].todo
               \/ rep'[q].pc = "join" /\ rep'[q].slot = k
    <3>1. CASE q = r
      BY <2>1, <3>1
    <3>2. CASE q # r
      <4>1. Claims(q)' = Claims(q) /\ rep'[q] = rep[q]
        BY <3>2 DEF Claims
      <4> QED BY <1>0, <2>1, <4>1 DEF KnownInv, ReportsStop, StillToStop
    <3> QED BY <3>1, <3>2
  <2> QED BY <1>1, <2>1 DEF ReportsStop, StillToStop, SameStream
<1> QED BY <1>2, <1>3 DEF KnownInv

LEMMA KnownReportJoined ==
  ASSUME Known1, NEW r \in Reports, ReportJoined(r) PROVE KnownInv'
<1>0. /\ OrderInv /\ KnownInv /\ rep[r] \in Report /\ rep \in [Reports -> Report]
      /\ rep[r].pc = "join" /\ main' = main
      /\ num_streams' = num_streams /\ stream_id' = stream_id
      /\ rep[r].slot \in Configured
      /\ streams[rep[r].slot].started
      /\ streams[rep[r].slot].thr = rep[r].target
      /\ main.all \subseteq Configured /\ main.todo \subseteq main.all
  BY DEF Known1, Known0, ReportJoined, OrderInv, ReportFresh, HandlerInv, TypeOK
<1>1. /\ Configured' = Configured
      /\ ThreadsOfStreams'
      /\ \A i \in Configured :
           /\ streams'[i].stream_id = streams[i].stream_id
           /\ streams'[i].sender = streams[i].sender
           /\ streams'[i].started => streams[i].started /\ i # rep[r].slot
           /\ streams'[i].ta_send_in_progress = streams[i].ta_send_in_progress
  <2>1. JoinReturns(streams[rep[r].slot].thr)
    BY <1>0 DEF ReportJoined
  <2>2. streams' = [streams EXCEPT ![rep[r].slot] = Stopped(streams[rep[r].slot])]
    BY DEF ReportJoined
  <2> QED BY <1>0, <2>1, <2>2, KnownStopped
<1>2. /\ rep'[r].pc = "stop" /\ rep'[r].ids = rep[r].ids
      /\ rep'[r].todo = rep[r].todo
      /\ \A q \in Reports : q # r => rep'[q] = rep[q]
  BY <1>0 DEF ReportJoined, Report
<1>3. NotYetStarted'
  BY <1>0, <1>1 DEF KnownInv, NotYetStarted
<1>4. SendersRaised'
  BY <1>0, <1>1 DEF KnownInv, SendersRaised, Raised, Starting
<1>5. ResetStops'
  BY <1>0, <1>1 DEF KnownInv, ResetStops
<1>6. ReportsStop'
  <2>1. \A q \in Reports : Claims(q)' = Claims(q)
    BY <1>0, <1>2 DEF Claims
  <2>2. ASSUME NEW q \in Reports, NEW k \in Configured,
               streams'[k].started, streams'[k].stream_id \in Claims(q)'
        PROVE  StillToStop(q, k)'
    <3>1. /\ streams[k].started /\ k # rep[r].slot
          /\ streams'[k].stream_id = streams[k].stream_id
          /\ StillToStop(q, k)
      BY <1>0, <1>1, <2>1, <2>2 DEF KnownInv, ReportsStop
    <3>2. CASE q = r
      BY <1>0, <1>2, <3>1, <3>2 DEF StillToStop
    <3>3. CASE q # r
      BY <1>2, <3>1, <3>3 DEF StillToStop
    <3> QED BY <3>2, <3>3
  <2> QED BY <1>1, <2>2 DEF ReportsStop
<1> QED BY <1>1, <1>3, <1>4, <1>5, <1>6 DEF KnownInv

LEMMA KnownReportClear ==
  ASSUME Known1, NEW r \in Reports, NEW id, ReportClear(r, id) PROVE KnownInv'
<1>0. /\ OrderInv /\ KnownInv /\ rep[r] \in Report /\ rep \in [Reports -> Report]
      /\ streams \in [Slots -> Stream] /\ Configured \subseteq Slots
      /\ rep[r].pc = "clear" /\ id \in rep[r].todo /\ rep[r].todo \subseteq rep[r].ids
      /\ main' = main /\ thr' = thr
      /\ num_streams' = num_streams /\ stream_id' = stream_id
      /\ main.all \subseteq Configured /\ main.todo \subseteq main.all
  BY ConfiguredSlots
     DEF Known1, Known0, ReportClear, TypeOK, PcInv, OrderInv, HandlerInv
<1>1. /\ rep'[r].pc \in {"clear", "close"} /\ rep'[r].ids = rep[r].ids
      /\ rep'[r].todo = rep[r].todo \ {id}
      /\ \A q \in Reports : q # r => rep'[q] = rep[q]
  <2>1. CASE rep' = [rep EXCEPT ![r] = [rep[r] EXCEPT !.todo = rep[r].todo \ {id}]]
    BY <1>0, <2>1 DEF Report
  <2>2. ASSUME NEW k, rep' = [rep EXCEPT ![r] =
                 [rep[r] EXCEPT !.todo = rep[r].todo \ {id},
                    !.slot = k, !.pc = "close"]]
        PROVE  /\ rep'[r].pc \in {"clear", "close"} /\ rep'[r].ids = rep[r].ids
               /\ rep'[r].todo = rep[r].todo \ {id}
               /\ \A q \in Reports : q # r => rep'[q] = rep[q]
    BY <1>0, <2>2 DEF Report
  <2> QED BY <2>1, <2>2 DEF ReportClear
<1>2. /\ Claims(r)' \subseteq Claims(r) /\ id \in Claims(r)
      /\ \A q \in Reports : q # r => Claims(q)' = Claims(q)
  BY <1>0, <1>1 DEF Claims
<1>3. \A k \in Configured : streams[k].started => streams[k].stream_id \notin Claims(r)
  BY <1>0 DEF KnownInv, ReportsStop, StillToStop
<1>4. CASE streams' = streams
  <2>1. SameStreams
    BY <1>0, <1>4, SameStreamsUnchanged
  <2> QED BY <1>0, <1>1, <1>2, <1>3, <2>1, KnownReportQuiet
<1>5. ASSUME NEW k \in get_stream(id),
             streams' = [streams EXCEPT ![k] =
               [streams[k] EXCEPT !.ta_send_in_progress = FALSE]]
      PROVE  KnownInv'
  <2>0. /\ k \in Configured /\ streams[k] \in Stream /\ ~streams[k].started
        /\ Configured' = Configured
    BY <1>0, <1>2, <1>3, <1>5 DEF get_stream, Configured
  <2>1. /\ \A j \in Configured : j # k => streams'[j] = streams[j]
        /\ streams'[k].stream_id = streams[k].stream_id
        /\ ~streams'[k].started
    <3>1. PICK s : s = [streams[k] EXCEPT !.ta_send_in_progress = FALSE]
      OBVIOUS
    <3>2. s.stream_id = streams[k].stream_id /\ ~s.started
      BY <2>0, <3>1 DEF Stream
    <3>3. streams' = [streams EXCEPT ![k] = s]
      BY <1>5, <3>1
    <3> QED BY <1>0, <2>0, <3>2, <3>3
  <2>2. ThreadsOfStreams'
    BY <1>0, <2>0, <2>1 DEF KnownInv, ThreadsOfStreams, Live
  <2>3. NotYetStarted' /\ ResetStops'
    BY <1>0, <2>0, <2>1 DEF KnownInv, NotYetStarted, ResetStops
  <2>4. SendersRaised'
    BY <1>0, <2>0, <2>1 DEF KnownInv, SendersRaised, Raised, Starting
  <2>5. ReportsStop'
    <3>1. ASSUME NEW q \in Reports, NEW j \in Configured,
                 streams'[j].started, streams'[j].stream_id \in Claims(q)'
          PROVE  StillToStop(q, j)'
      <4>1. j # k /\ streams'[j] = streams[j] /\ streams[j].started
        BY <2>1, <3>1
      <4>2. q # r
        BY <1>2, <1>3, <3>1, <4>1
      <4>3. rep'[q] = rep[q] /\ StillToStop(q, j)
        BY <1>0, <1>1, <1>2, <3>1, <4>1, <4>2 DEF KnownInv, ReportsStop
      <4> QED BY <4>1, <4>3 DEF StillToStop
    <3> QED BY <2>0, <3>1 DEF ReportsStop
  <2> QED BY <2>2, <2>3, <2>4, <2>5 DEF KnownInv
<1> QED BY <1>4, <1>5 DEF ReportClear

LEMMA KnownReportStep ==
  ASSUME Known1, NEW r \in Reports, ReportStep(r) PROVE KnownInv'
<1>0. /\ TypeOK /\ OrderInv /\ KnownInv /\ IdsInv
      /\ rep[r] \in Report /\ rep \in [Reports -> Report]
      /\ rep[r].slot \in Slots
      /\ \A q \in Reports : q # r => rep'[q] = rep[q]
  BY ReportIds, ReportFields DEF Known1, Known0, TypeOK
<1>1. ASSUME NEW id, ReportStop(r, id) PROVE KnownInv'
  <2>0. /\ main' = main /\ thr' = thr /\ SameStreams
        /\ rep[r].pc = "stop" /\ id \in rep[r].todo
    BY <1>1, SameStreamsUnchanged DEF ReportStop
  <2>1. \A j \in Configured :
          streams[j].started /\ streams[j].stream_id \in Claims(r)
            => streams[j].stream_id \in rep[r].todo
    BY <1>0, <2>0 DEF KnownInv, ReportsStop, StillToStop
  <2>2. ASSUME \A k \in get_stream(id) : ~streams[k].started,
               rep' = [rep EXCEPT ![r] = [rep[r] EXCEPT !.todo = rep[r].todo \ {id}]]
        PROVE  KnownInv'
    <3>1. /\ rep'[r].pc = "stop" /\ rep'[r].ids = rep[r].ids
          /\ rep'[r].todo = rep[r].todo \ {id}
      BY <1>0, <2>0, <2>2 DEF Report
    <3>2. Claims(r)' = Claims(r)
      BY <2>0, <3>1 DEF Claims
    <3>3. \A j \in Configured : streams[j].started => streams[j].stream_id # id
      BY <2>2 DEF get_stream
    <3> QED BY <1>0, <2>0, <2>1, <3>1, <3>2, <3>3, KnownReportQuiet
  <2>3. ASSUME NEW k \in get_stream(id), streams[k].started,
               rep' = [rep EXCEPT ![r] =
                 [rep[r] EXCEPT !.todo = rep[r].todo \ {id},
                    !.pc = "join", !.slot = k, !.target = streams[k].thr]]
        PROVE  KnownInv'
    <3>1. /\ rep'[r].pc = "join" /\ rep'[r].ids = rep[r].ids
          /\ rep'[r].slot = k /\ rep'[r].todo = rep[r].todo \ {id}
      BY <1>0, <2>3 DEF Report
    <3>2. Claims(r)' = Claims(r)
      BY <2>0, <3>1 DEF Claims
    <3>3. \A j \in Configured : streams[j].stream_id = id => j = k
      BY <1>0, <2>3 DEF get_stream, IdsInv, StreamIdsUnique
    <3> QED BY <1>0, <2>0, <2>1, <3>1, <3>2, <3>3, KnownReportQuiet
  <2> QED BY <1>1, <2>2, <2>3 DEF ReportStop
<1>2. CASE ReportBuilt(r)
  <2>0. /\ main' = main /\ thr' = thr /\ SameStreams
        /\ rep[r].pc = "stop" /\ rep[r].todo = {}
    BY <1>2, SameStreamsUnchanged DEF ReportBuilt
  <2>1. rep'[r].pc = "clear" /\ rep'[r].ids = rep[r].ids /\ rep'[r].todo = rep[r].ids
    BY <1>0, <1>2 DEF ReportBuilt, Report
  <2>2. Claims(r)' = Claims(r)
    BY <2>0, <2>1 DEF Claims
  <2>3. \A k \in Configured : streams[k].started => streams[k].stream_id \notin Claims(r)
    BY <1>0, <2>0 DEF KnownInv, ReportsStop, StillToStop
  <2> QED BY <1>0, <2>0, <2>2, <2>3, KnownReportQuiet
<1>3. CASE ReportClose(r)
  <2>0. /\ main' = main /\ thr' = thr /\ rep[r].pc = "close"
        /\ num_streams' = num_streams /\ stream_id' = stream_id
        /\ streams[rep[r].slot] \in Stream
        /\ streams' = [streams EXCEPT ![rep[r].slot] =
                         [streams[rep[r].slot] EXCEPT !.sock = "none"]]
    BY <1>0, <1>3 DEF ReportClose, TypeOK
  <2>1. SameStreams
    <3>1. SameStream(streams[rep[r].slot],
                     [streams[rep[r].slot] EXCEPT !.sock = "none"])
      BY <2>0, StreamEffects
    <3> QED BY <1>0, <2>0, <3>1, OneSameStream
  <2>2. rep'[r].pc = "clear" /\ rep'[r].ids = rep[r].ids /\ rep'[r].todo = rep[r].todo
    BY <1>0, <1>3 DEF ReportClose, Report
  <2>3. Claims(r)' = Claims(r)
    BY <2>0, <2>2 DEF Claims
  <2>4. \A k \in Configured : streams[k].started => streams[k].stream_id \notin Claims(r)
    BY <1>0, <2>0 DEF KnownInv, ReportsStop, StillToStop
  <2> QED BY <1>0, <2>0, <2>1, <2>3, <2>4, KnownReportQuiet
<1>4. ASSUME ReportComplete(r) \/ ReportDone(r) PROVE KnownInv'
  <2>0. main' = main /\ thr' = thr /\ SameStreams
    BY <1>4, SameStreamsUnchanged DEF ReportComplete, ReportDone
  <2>1. rep'[r].pc \in {"done", "none"}
    BY <1>0, <1>4, NoReportFields DEF ReportComplete, ReportDone, Report
  <2>2. Claims(r)' = {}
    BY <2>1 DEF Claims
  <2> QED BY <1>0, <2>0, <2>2, KnownReportQuiet
<1> QED BY <1>1, <1>2, <1>3, <1>4, KnownReportJoined, KnownReportClear
        DEF ReportStep

LEMMA KnownInit == Init => KnownInv
BY IdleFields
   DEF Init, KnownInv, ThreadsOfStreams, NotYetStarted, SendersRaised,
       ReportsStop, ResetStops, Configured, Live, FreeThread

LEMMA KnownNext ==
  ASSUME TypeOK, PcInv, IdsInv, Orderly => OrderInv,
         Orderly /\ ~CanFail => KnownInv, [Next]_vars
  PROVE  Orderly /\ ~CanFail => KnownInv'
<1> SUFFICES ASSUME Known1 PROVE KnownInv'
  BY DEF Known1, Known0
<1>1. CASE UNCHANGED vars
  <2>1. SameStreams /\ rep' = rep /\ main' = main /\ thr' = thr
    BY <1>1, SameStreamsUnchanged DEF vars
  <2> QED BY <2>1, KnownQuiet DEF Known1, Known0, Live
<1> QED BY <1>1, KnownCommand, KnownHandler, KnownThread, KnownReportStep DEF Next

LEMMA KnownCorrect == Spec => [](PcInv /\ (Orderly /\ ~CanFail => KnownInv))
<1> DEFINE I == TypeOK /\ PcInv /\ IdsInv /\ (Orderly => OrderInv)
<1> DEFINE K == Orderly /\ ~CanFail => KnownInv
<1>1. Init => K
  BY KnownInit
<1>2. I /\ K /\ [Next]_vars => K'
  BY KnownNext
<1>3. Spec => []I
  BY OrderCorrect
<1>4. I => PcInv
  OBVIOUS
<1> HIDE DEF I, K
<1>5. Spec => [](PcInv /\ K)
  BY <1>1, <1>2, <1>3, <1>4, PTL DEF Spec
<1> QED BY <1>5 DEF K

(* When nothing fails and the controller is orderly, every sending or      *)
(* receiving thread is the one its configured and started stream knows.    *)
THEOREM ThreadsAreKnown == Spec => []ThreadsKnown
<1>1. (Orderly /\ ~CanFail => KnownInv) => ThreadsKnown
  BY DEF KnownInv, ThreadsOfStreams, ThreadsKnown
<1> QED BY <1>1, KnownCorrect, PTL

(* When nothing fails and the controller is orderly, send_report_thread    *)
(* answers a send command after the last of its senders has ended.         *)
THEOREM AnswersAreFinal == Spec => []CompleteAfterSend
<1>1. PcInv /\ (Orderly /\ ~CanFail => KnownInv) => CompleteAfterSend
  <2> SUFFICES ASSUME PcInv, KnownInv, NEW r \in Reports, rep[r].pc = "clear",
                      NEW t \in Threads, thr[t].slot \in Named(rep[r].todo),
                      thr[t].st \in {"run", "held"}
               PROVE  FALSE
    BY DEF CompleteAfterSend
  <2>1. /\ thr[t].slot \in Configured
        /\ streams[thr[t].slot].stream_id \in Claims(r)
    BY DEF Named, Claims, PcInv
  <2>2. streams[thr[t].slot].started
    BY DEF KnownInv, ThreadsOfStreams, Live
  <2> QED BY <2>1, <2>2 DEF KnownInv, ReportsStop, StillToStop
<1> QED BY <1>1, KnownCorrect, PTL

-----------------------------------------------------------------------------
(* The inductive invariant behind SocketHeld and SocketTaken, for an       *)
(* orderly controller and when nothing fails.                              *)

(* A socket that is in use is open, unless a report thread took it from a  *)
(* TCP sender; and report threads are about to close TCP senders' sockets  *)
(* only.                                                                   *)
Held == \A k \in Slots : InUse(k) => streams[k].sock = "open" \/ TcpSender(k)
ClosesTcp ==
  \A r \in Reports : rep[r].pc = "close" =>
    rep[r].slot \in Configured /\ TcpSender(rep[r].slot)
SockInv == Held /\ ClosesTcp

LEMMA InUseConfigured ==
  ASSUME Known1, NEW k, InUse(k) PROVE k \in Configured /\ k \in Slots
<1>0. OrderInv /\ KnownInv /\ Configured \subseteq Slots
  BY ConfiguredSlots DEF Known1, Known0
<1>1. CASE Prepared(k)
  BY <1>0, <1>1 DEF Prepared, OrderInv, HandlerInv
<1>2. ASSUME NEW t \in Threads, Using(t), thr[t].slot = k PROVE k \in Configured
  BY <1>0, <1>2 DEF KnownInv, ThreadsOfStreams, Using, Live
<1> QED BY <1>0, <1>1, <1>2 DEF InUse

(* A stream remains what it is for as long as it is configured.            *)
LEMMA TcpSenderKept ==
  ASSUME TypeOK, [Next]_vars, NEW k \in Configured, k \in Configured', TcpSender(k)
  PROVE  streams'[k].tcp /\ streams'[k].sender
<1>1. CASE SameNames
  BY <1>1 DEF SameNames, TcpSender
<1>2. ASSUME NEW c \in Conns, Config(c)
      PROVE  streams'[k].tcp /\ streams'[k].sender
  <2>1. k # num_streams + 1 /\ k \in Slots
    BY ConfiguredSlots DEF TypeOK, Configured
  <2> QED BY <1>2, <2>1 DEF Config, TcpSender, TypeOK
<1>3. CASE StopsDone
  BY <1>3 DEF StopsDone, TcpSender, Configured
<1> QED BY <1>1, <1>2, <1>3, StepNames

(* Only ReportClear lets a report thread close a socket on its own.        *)
LEMMA ReportToTcp ==
  ASSUME TypeOK, NEW r \in Reports, ReportStep(r), rep'[r].pc = "close"
  PROVE  \E id \in rep[r].todo : \E k \in get_stream(id) :
           streams[k].tcp /\ rep'[r].slot = k
<1>0. rep \in [Reports -> Report] /\ rep[r] \in Report
  BY DEF TypeOK
<1>1. ASSUME NEW id, ReportStop(r, id) PROVE FALSE
  <2>1. CASE rep' = [rep EXCEPT ![r] = [rep[r] EXCEPT !.todo = rep[r].todo \ {id}]]
    BY <1>0, <1>1, <2>1 DEF Report, ReportStop
  <2>2. ASSUME NEW k, NEW t,
               rep' = [rep EXCEPT ![r] =
                       [rep[r] EXCEPT !.todo = rep[r].todo \ {id},
                          !.pc = "join", !.slot = k, !.target = t]]
        PROVE  FALSE
    BY <1>0, <2>2 DEF Report
  <2> QED BY <1>1, <2>1, <2>2 DEF ReportStop
<1>2. ASSUME NEW id, ReportClear(r, id)
      PROVE  /\ id \in rep[r].todo
             /\ \E k \in get_stream(id) : streams[k].tcp /\ rep'[r].slot = k
  <2>1. CASE rep' = [rep EXCEPT ![r] = [rep[r] EXCEPT !.todo = rep[r].todo \ {id}]]
    BY <1>0, <1>2, <2>1 DEF Report, ReportClear
  <2>2. ASSUME NEW k \in get_stream(id), streams[k].tcp,
               rep' = [rep EXCEPT ![r] =
                       [rep[r] EXCEPT !.todo = rep[r].todo \ {id},
                          !.slot = k, !.pc = "close"]]
        PROVE  rep'[r].slot = k
    BY <1>0, <2>2 DEF Report
  <2> QED BY <1>2, <2>1, <2>2 DEF ReportClear
<1>3. CASE ReportJoined(r)
  BY <1>0, <1>3 DEF ReportJoined, Report
<1>4. CASE ReportBuilt(r)
  BY <1>0, <1>4 DEF ReportBuilt, Report
<1>5. CASE ReportClose(r)
  BY <1>0, <1>5 DEF ReportClose, Report
<1>6. CASE ReportComplete(r) \/ ReportDone(r)
  BY <1>0, <1>6, NoReportFields DEF ReportComplete, ReportDone, Report
<1> QED BY <1>1, <1>2, <1>3, <1>4, <1>5, <1>6 DEF ReportStep

(* A command, a handler and a stream thread leave the reports alone,       *)
(* except that CreateReport adds one.                                      *)
LEMMA ReportsKept ==
  /\ CommandStep => rep' = rep /\ main.pc = "idle"
  /\ HandlerStep /\ ~CreateReport => rep' = rep
<1>1. CommandStep => rep' = rep /\ main.pc = "idle"
  BY DEF CommandStep, ConfigRefused, Config, Reset, BadList, SendRefused, Send,
         WrongStreams, ReceiveStart, NotStarted, ReceiveStop, Answer, Command
<1>2. HandlerStep /\ ~CreateReport => rep' = rep
  BY DEF HandlerStep, OpenSocket, CreateThread, MarkSending, MainStop,
         MainJoined, StopsDone
<1> QED BY <1>1, <1>2

LEMMA ReportClosing ==
  ASSUME TypeOK, [Next]_vars, NEW q \in Reports, rep'[q].pc = "close"
  PROVE  rep'[q] = rep[q] \/ ReportStep(q)
<1>1. CASE CreateReport
  <2>1. CASE rep' = rep
    BY <2>1
  <2>2. ASSUME NEW r \in Reports,
               rep' = [rep EXCEPT ![r] =
                         [NoReport EXCEPT !.pc = "stop", !.conn = main.conn,
                            !.ids = main.ids, !.todo = main.ids]]
        PROVE  rep'[q] = rep[q]
    BY <2>2 DEF TypeOK, NoReport
  <2> QED BY <1>1, <2>1, <2>2 DEF CreateReport
<1>2. CASE HandlerStep /\ ~CreateReport
  BY <1>2, ReportsKept
<1>3. ASSUME NEW r \in Reports, ReportStep(r), r # q PROVE rep'[q] = rep[q]
  BY <1>3, ReportIds
<1>4. ASSUME NEW t \in Threads, StreamThread(t) PROVE rep'[q] = rep[q]
  BY <1>4, ThreadStep
<1>5. CASE UNCHANGED vars
  BY <1>5 DEF vars
<1>6. CASE CommandStep
  BY <1>6, ReportsKept
<1> QED BY <1>1, <1>2, <1>3, <1>4, <1>5, <1>6 DEF Next

LEMMA ClosesTcpNext ==
  ASSUME Known1, ClosesTcp, [Next]_vars PROVE ClosesTcp'
<1>0. TypeOK /\ PcInv /\ IdsInv /\ OrderInv
  BY DEF Known1, Known0
<1> SUFFICES ASSUME NEW q \in Reports, rep'[q].pc = "close"
             PROVE  /\ rep'[q].slot \in Configured'
                    /\ streams'[rep'[q].slot].tcp
                    /\ streams'[rep'[q].slot].sender
  BY DEF ClosesTcp, TcpSender
<1>1. CASE rep'[q] = rep[q]
  <2>1. rep[q].slot \in Configured /\ TcpSender(rep[q].slot)
    BY <1>1 DEF ClosesTcp
  <2>2. rep[q].slot \in Configured'
    <3>1. CASE SameNames
      BY <2>1, <3>1, NamesConfigured
    <3>2. ASSUME NEW c \in Conns, Config(c) PROVE rep[q].slot \in Configured'
      BY <1>0, <2>1, <3>2 DEF Config, Configured, TypeOK
    <3>3. CASE StopsDone
      <4>1. main.op # "reset"
        BY <1>0, <1>1 DEF OrderInv, HandlerInv
      <4> QED BY <2>1, <3>3, <4>1 DEF StopsDone, Configured
    <3> QED BY <1>0, <3>1, <3>2, <3>3, StepNames
  <2>3. streams'[rep[q].slot].tcp /\ streams'[rep[q].slot].sender
    BY <1>0, <2>1, <2>2, TcpSenderKept
  <2> QED BY <1>1, <2>2, <2>3
<1>2. CASE ReportStep(q)
  <2>1. PICK id \in rep[q].todo : \E k \in get_stream(id) :
          streams[k].tcp /\ rep'[q].slot = k
    BY <1>0, <1>2, ReportToTcp
  <2>2. PICK k \in get_stream(id) : streams[k].tcp /\ rep'[q].slot = k
    BY <2>1
  <2>3. k \in Configured /\ k \in Named(rep[q].ids)
    BY <1>0, <2>1, <2>2 DEF get_stream, Named, PcInv
  <2>4. streams[k].sender
    BY <1>0, <2>3 DEF IdsInv, NamesSenders
  <2>5. SameNames
    BY <1>0, <1>2, ReportNames
  <2> QED BY <2>2, <2>3, <2>4, <2>5, NamesConfigured DEF SameNames, TcpSender
<1> QED BY <1>0, <1>1, <1>2, ReportClosing

(* A command leaves the handler idle, or starts one of its two loops.      *)
LEMMA CommandMain ==
  ASSUME CommandStep
  PROVE  \/ main' = main
         \/ \E d, o, S, all : \E p \in {"open", "stop"} : Begin(d, o, p, S, all)
BY DEF CommandStep, ConfigRefused, Config, Reset, BadList, SendRefused, Send,
       WrongStreams, ReceiveStart, NotStarted, ReceiveStop, Answer

(* What becomes of a stream in a step that creates no thread: if it is     *)
(* started afterwards, it keeps an open socket.                            *)
Milder(s, t) == s.sock = "open" /\ t.started => t.sock = "open"
CalmStep == \A k \in Slots : Milder(streams[k], streams'[k])

LEMMA MilderStreams ==
  ASSUME NEW s \in Stream, NEW b \in BOOLEAN
  PROVE  /\ Milder(s, s)
         /\ Milder(s, [s EXCEPT !.sock = "open"])
         /\ Milder(s, [s EXCEPT !.stop = b])
         /\ Milder(s, [s EXCEPT !.ta_send_in_progress = b])
         /\ Milder(s, Stopped(s))
         /\ Milder(s, Zeroed)
         /\ \A u, v, i : Milder(s, NewStream(u, v, i))
<1>1. Milder(s, s)
  BY DEF Milder
<1>2. Milder(s, [s EXCEPT !.sock = "open"])
  BY DEF Milder, Stream
<1>3. Milder(s, [s EXCEPT !.stop = b])
  BY DEF Milder, Stream
<1>4. Milder(s, [s EXCEPT !.ta_send_in_progress = b])
  BY DEF Milder, Stream
<1>5. Milder(s, Stopped(s))
  BY DEF Milder, Stream, Stopped
<1>6. Milder(s, Zeroed)
  BY DEF Milder, Zeroed
<1>7. ASSUME NEW u, NEW v, NEW i PROVE Milder(s, NewStream(u, v, i))
  BY DEF Milder, NewStream, Zeroed
<1> QED BY <1>1, <1>2, <1>3, <1>4, <1>5, <1>6, <1>7

LEMMA CalmOne ==
  ASSUME TypeOK, NEW j \in Slots, NEW s, Milder(streams[j], s),
         streams' = [streams EXCEPT ![j] = s]
  PROVE  CalmStep
BY MilderStreams DEF TypeOK, CalmStep

LEMMA CalmSame == ASSUME TypeOK, streams' = streams PROVE CalmStep
BY MilderStreams DEF TypeOK, CalmStep

LEMMA CalmCommand ==
  ASSUME TypeOK, CommandStep PROVE CalmStep /\ thr' = thr
<1>0. streams \in [Slots -> Stream] /\ num_streams \in 0..MaxStreams
  BY DEF TypeOK
<1>1. ASSUME NEW c \in Conns, Config(c) \/ ConfigRefused(c)
      PROVE  CalmStep /\ thr' = thr
  <2>1. CASE streams' = streams
    BY <1>1, <2>1, CalmSame DEF Config, ConfigRefused
  <2>2. CASE streams' # streams
    <3>1. PICK u, v, i :
            streams' = [streams EXCEPT ![num_streams + 1] = NewStream(u, v, i)]
      <4>1. CASE Config(c)
        BY <4>1 DEF Config
      <4>2. CASE ConfigRefused(c)
        BY <2>2, <4>2 DEF ConfigRefused
      <4> QED BY <1>1, <4>1, <4>2
    <3>2. ~TableFull
      BY <1>1, <2>2 DEF Config, ConfigRefused
    <3>3. num_streams + 1 \in Slots
      BY <1>0, <3>2, ConstantsAssumption DEF TableFull, Slots
    <3>4. Milder(streams[num_streams + 1], NewStream(u, v, i))
      BY <1>0, <3>3, MilderStreams
    <3>5. CalmStep
      BY <3>1, <3>3, <3>4, CalmOne
    <3> QED BY <1>1, <3>5 DEF Config, ConfigRefused
  <2> QED BY <2>1, <2>2
<1>2. ASSUME NEW c \in Conns, Reset(c) PROVE CalmStep /\ thr' = thr
  <2>1. CASE streams' = streams
    BY <1>2, <2>1, CalmSame DEF Reset
  <2>2. CASE streams' = Cleared
    BY <1>0, <1>2, <2>2, MilderStreams DEF Reset, CalmStep, Cleared
  <2> QED BY <1>2, <2>1, <2>2 DEF Reset
<1>3. ASSUME NEW c \in Conns, NEW S, ReceiveStop(c, S)
      PROVE  CalmStep /\ thr' = thr
  <2>1. \A k \in Slots : streams'[k] = streams[k]
                       \/ streams'[k] = [streams[k] EXCEPT !.stop = TRUE]
    BY <1>0, <1>3 DEF ReceiveStop
  <2> QED BY <1>0, <1>3, <2>1, MilderStreams DEF ReceiveStop, CalmStep
<1>4. ASSUME NEW c \in Conns, NEW S,
             \/ BadList(c, S) \/ SendRefused(c, S) \/ Send(c, S)
             \/ WrongStreams(c, S, TRUE) \/ WrongStreams(c, S, FALSE)
             \/ ReceiveStart(c, S) \/ NotStarted(c, S)
      PROVE  CalmStep /\ thr' = thr
  <2>1. streams' = streams /\ thr' = thr
    BY <1>4 DEF BadList, SendRefused, Send, WrongStreams, ReceiveStart,
                NotStarted, Answer
  <2> QED BY <2>1, CalmSame
<1> QED BY <1>1, <1>2, <1>3, <1>4 DEF CommandStep

(* The threads that use a socket are those that did.                       *)
SameUse == \A t \in Threads : Using(t)' => Using(t) /\ thr'[t].slot = thr[t].slot

LEMMA JoinUse ==
  ASSUME TypeOK, NEW t, JoinReturns(t) PROVE SameUse
<1>1. ASSUME NEW u \in Threads, Using(u)'
      PROVE  thr'[u] = thr[u]
  <2>1. FreeThread.st = "free"
    BY DEF FreeThread
  <2> QED BY <1>1, <2>1 DEF JoinReturns, Using, TypeOK
<1> QED BY <1>1 DEF SameUse, Using

LEMMA CalmHandler ==
  ASSUME TypeOK, ~CanFail, HandlerStep, \A k \in Slots : ~CreateThread(k)
  PROVE  CalmStep /\ SameUse
<1>0. /\ streams \in [Slots -> Stream] /\ main \in Handler
      /\ main.slot \in Slots
  BY HandlerFields, ConstantTypes DEF TypeOK, Handler
<1>1. thr' = thr => SameUse
  BY DEF SameUse, Using
<1>2. ASSUME NEW k \in Slots, OpenSocket(k) PROVE CalmStep /\ SameUse
  <2>1. streams' = [streams EXCEPT ![k] = [streams[k] EXCEPT !.sock = "open"]]
    BY <1>2 DEF OpenSocket
  <2> QED BY <1>0, <1>1, <1>2, <2>1, MilderStreams, CalmOne DEF OpenSocket
<1>3. ASSUME NEW k \in Slots, MarkSending(k) PROVE CalmStep /\ SameUse
  <2>1. streams' = [streams EXCEPT
                      ![k] = [streams[k] EXCEPT !.ta_send_in_progress = TRUE]]
    BY <1>3 DEF MarkSending
  <2> QED BY <1>0, <1>1, <1>3, <2>1, MilderStreams, CalmOne DEF MarkSending
<1>4. ASSUME NEW k \in Slots, MainStop(k) PROVE CalmStep /\ SameUse
  <2>1. PICK b \in BOOLEAN :
          streams' = [streams EXCEPT ![k] = [streams[k] EXCEPT !.stop = b]]
    <3>1. (streams[k].stop \/ main.op = "reset") \in BOOLEAN
      OBVIOUS
    <3> QED BY <1>4, <3>1 DEF MainStop
  <2> QED BY <1>0, <1>1, <1>4, <2>1, MilderStreams, CalmOne DEF MainStop
<1>5. CASE MainJoined
  <2>1. streams' = [streams EXCEPT ![main.slot] = Stopped(streams[main.slot])]
    BY <1>5 DEF MainJoined
  <2> QED BY <1>0, <1>5, <2>1, MilderStreams, CalmOne, JoinUse DEF MainJoined
<1>6. CASE StopsDone
  <2>1. CASE streams' = streams
    BY <1>1, <1>6, <2>1, CalmSame DEF StopsDone
  <2>2. CASE streams' = Cleared
    BY <1>0, <1>1, <1>6, <2>2, MilderStreams DEF StopsDone, CalmStep, Cleared
  <2> QED BY <1>6, <2>1, <2>2 DEF StopsDone
<1>7. CASE CreateReport
  BY <1>1, <1>7, CalmSame DEF CreateReport
<1> QED BY <1>2, <1>3, <1>4, <1>5, <1>6, <1>7 DEF HandlerStep

KeepsSocket(k) == streams[k].sock = "open" => streams'[k].sock = "open"

LEMMA CalmReport ==
  ASSUME TypeOK, NEW r \in Reports, ReportStep(r), ~ReportClose(r)
  PROVE  /\ CalmStep /\ SameUse
         /\ \A k \in Slots : \/ KeepsSocket(k)
                             \/ rep[r].pc = "join" /\ rep[r].slot = k
<1>0. /\ streams \in [Slots -> Stream] /\ rep[r] \in Report
      /\ rep[r].slot \in Slots
  BY ReportFields DEF TypeOK
<1>1. thr' = thr => SameUse
  BY DEF SameUse, Using
<1>2. CASE streams' = streams /\ thr' = thr
  BY <1>1, <1>2, CalmSame DEF KeepsSocket
<1>3. ASSUME NEW id, ReportClear(r, id)
      PROVE  CalmStep /\ SameUse /\ \A k \in Slots : KeepsSocket(k)
  <2>1. CASE streams' # streams
    <3>1. PICK k \in get_stream(id) : streams' =
            [streams EXCEPT ![k] = [streams[k] EXCEPT !.ta_send_in_progress = FALSE]]
      BY <1>3, <2>1 DEF ReportClear
    <3>2. k \in Slots /\ streams[k] \in Stream
      BY <1>0, <3>1, NamedSlots
    <3>3. Milder(streams[k], [streams[k] EXCEPT !.ta_send_in_progress = FALSE])
      BY <3>2, MilderStreams
    <3>4. CalmStep
      BY <3>1, <3>2, <3>3, CalmOne
    <3>5. [streams[k] EXCEPT !.ta_send_in_progress = FALSE].sock = streams[k].sock
      BY <3>2 DEF Stream
    <3>6. \A j \in Slots : KeepsSocket(j)
      BY <1>0, <3>1, <3>2, <3>5 DEF KeepsSocket
    <3> QED BY <1>1, <1>3, <3>4, <3>6 DEF ReportClear
  <2> QED BY <1>1, <1>2, <1>3, <2>1 DEF ReportClear
<1>4. CASE ReportJoined(r)
  <2>1. /\ streams' = [streams EXCEPT ![rep[r].slot] = Stopped(streams[rep[r].slot])]
        /\ rep[r].pc = "join" /\ JoinReturns(rep[r].target)
    BY <1>4 DEF ReportJoined
  <2>2. CalmStep
    BY <1>0, <2>1, MilderStreams, CalmOne
  <2>3. \A k \in Slots : KeepsSocket(k) \/ rep[r].slot = k
    BY <1>0, <2>1 DEF KeepsSocket
  <2> QED BY <2>1, <2>2, <2>3, JoinUse
<1>5. ASSUME \/ \E id \in Ids : ReportStop(r, id)
             \/ ReportBuilt(r) \/ ReportComplete(r) \/ ReportDone(r)
      PROVE  streams' = streams /\ thr' = thr
  BY <1>5 DEF ReportStop, ReportBuilt, ReportComplete, ReportDone
<1> QED BY <1>2, <1>3, <1>4, <1>5 DEF ReportStep

(* A thread is created for a stream that has its socket.                   *)
LEMMA CreatedThread ==
  ASSUME TypeOK, ~CanFail, NEW k \in Slots, CreateThread(k)
  PROVE  \E t \in Threads :
           /\ thr' = [thr EXCEPT ![t] = NewThread(k)]
           /\ streams'[k].started
           /\ \A j \in Slots : /\ streams'[j].sock = streams[j].sock
                               /\ j # k => streams'[j] = streams[j]
<1>1. streams \in [Slots -> Stream] /\ streams[k] \in Stream
  BY DEF TypeOK
<1>2. PICK t \in Threads :
        /\ thr' = [thr EXCEPT ![t] = NewThread(k)]
        /\ streams' = [streams EXCEPT
                         ![k] = [streams[k] EXCEPT !.thr = t, !.started = TRUE]]
  BY DEF CreateThread
<1>3. streams'[k].started /\ streams'[k].sock = streams[k].sock
  BY <1>1, <1>2 DEF Stream
<1> QED BY <1>1, <1>2, <1>3

-----------------------------------------------------------------------------
(* A socket that is in use after a step was opened by it; or it was in use *)
(* before and, unless a report thread closed it on its own, is as it was.  *)
Taken(k) ==
  \E r \in Reports : rep[r].pc = "close" /\ rep[r].slot = k /\ rep'[r].pc = "clear"
Stays(k) ==
  InUse(k)' =>
    \/ streams'[k].sock = "open"
    \/ InUse(k) /\ (streams[k].sock = "open" => Taken(k))

(* A thread that works on a socket keeps it in a step that creates none.   *)
LEMMA UserKeeps ==
  ASSUME KnownInv', CalmStep, SameUse, NEW k \in Slots,
         NEW t \in Threads, Using(t)', thr'[t].slot = k
  PROVE  KeepsSocket(k) /\ InUse(k)
<1>1. streams'[k].started
  BY DEF KnownInv, ThreadsOfStreams, Using, Live
<1> QED BY <1>1 DEF SameUse, InUse, CalmStep, Milder, KeepsSocket

LEMMA StaysCommand ==
  ASSUME Known1, KnownInv', CommandStep, NEW k \in Slots PROVE Stays(k)
<1>0. CalmStep /\ SameUse /\ main.pc = "idle"
  BY CalmCommand, ReportsKept DEF Known1, Known0, SameUse, Using
<1>1. ~Prepared(k)'
  <2>1. CASE main' = main
    BY <1>0, <2>1 DEF Prepared
  <2>2. ASSUME NEW d, NEW o, NEW S, NEW all, NEW p \in {"open", "stop"},
               Begin(d, o, p, S, all)
        PROVE  ~Prepared(k)'
    BY <2>2, BeginFields DEF Prepared
  <2> QED BY <2>1, <2>2, CommandMain
<1> QED BY <1>0, <1>1, UserKeeps DEF Stays, InUse, KeepsSocket

LEMMA StaysHandler ==
  ASSUME Known1, KnownInv', HandlerStep, NEW k \in Slots PROVE Stays(k)
<1>0. /\ TypeOK /\ ~CanFail /\ main \in Handler
      /\ main.all \subseteq Slots /\ main.todo \subseteq main.all
      /\ streams \in [Slots -> Stream] /\ thr \in [Threads -> Thread]
  BY DEF Known1, Known0, TypeOK, OrderInv, HandlerInv, Handler
<1>1. ASSUME NEW j \in Slots, CreateThread(j) PROVE Stays(k)
  <2>0. main.pc = "create" /\ j \in main.todo
    BY <1>1 DEF CreateThread
  <2>1. PICK t \in Threads :
          /\ thr' = [thr EXCEPT ![t] = NewThread(j)]
          /\ \A i \in Slots : streams'[i].sock = streams[i].sock
    BY <1>0, <1>1, CreatedThread
  <2>2. ASSUME Prepared(k)' PROVE Prepared(k)
    <3>1. CASE main' = Idle
      BY <2>2, <3>1, IdleFields DEF Prepared
    <3>2. CASE Loop(j, "report")
      BY <1>0, <2>0, <2>2, <3>2, LoopFields DEF Prepared
    <3> QED BY <1>1, <3>1, <3>2 DEF CreateThread, Return
  <2>3. ASSUME NEW u \in Threads, Using(u)', thr'[u].slot = k PROVE InUse(k)
    <3>1. thr'[t].slot = j /\ (u # t => thr'[u] = thr[u])
      BY <1>0, <2>1 DEF NewThread
    <3> QED BY <2>0, <2>3, <3>1 DEF InUse, Using, Prepared
  <2> QED BY <2>1, <2>2, <2>3 DEF Stays, InUse
<1>2. ASSUME NEW j \in Slots, OpenSocket(j) PROVE Prepared(k)' =>
        streams'[k].sock = "open" \/ (Prepared(k) /\ KeepsSocket(k))
  <2>1. /\ streams' = [streams EXCEPT ![j] = [streams[j] EXCEPT !.sock = "open"]]
        /\ main.pc = "open" /\ j \in main.todo /\ Loop(j, "create")
    BY <1>0, <1>2 DEF OpenSocket
  <2>2. streams'[k].sock = "open" \/ (j # k /\ streams'[k] = streams[k])
    BY <1>0, <2>1 DEF Stream
  <2> QED BY <1>0, <2>1, <2>2, LoopFields DEF Prepared, KeepsSocket
<1>3. CASE \A j \in Slots : ~CreateThread(j)
  <2>1. CalmStep /\ SameUse
    BY <1>0, <1>3, CalmHandler
  <2>2. CASE \E j \in Slots : OpenSocket(j)
    BY <1>2, <2>1, <2>2, UserKeeps DEF Stays, InUse, KeepsSocket
  <2>3. CASE \A j \in Slots : ~OpenSocket(j)
    <3>1. ASSUME NEW j \in Slots, MarkSending(j) PROVE main'.pc \in {"idle", "mark"}
      BY <1>0, <3>1, LoopFields, IdleFields DEF MarkSending
    <3>2. ASSUME NEW j \in Slots, MainStop(j) PROVE main'.pc \in {"stop", "join"}
      BY <1>0, <3>2 DEF MainStop, Handler
    <3>3. ASSUME CreateReport PROVE main'.pc \in {"idle", "mark"}
      <4>1. main' = Idle \/ main' = [main EXCEPT !.pc = "mark"]
        BY <3>3 DEF CreateReport, Return
      <4> QED BY <1>0, <4>1, IdleFields DEF Handler
    <3>4. MainJoined => main'.pc = "stop"
      BY <1>0 DEF MainJoined, Handler
    <3>5. StopsDone => main'.pc = "idle"
      BY IdleFields DEF StopsDone, Return
    <3>6. main'.pc \notin {"open", "create"}
      BY <1>3, <2>3, <3>1, <3>2, <3>3, <3>4, <3>5 DEF HandlerStep
    <3>7. ~Prepared(k)'
      BY <3>6 DEF Prepared
    <3> QED BY <2>1, <3>7, UserKeeps DEF Stays, InUse, KeepsSocket
  <2> QED BY <2>2, <2>3
<1> QED BY <1>1, <1>3

(* A stream that a handler prepares has no thread, and one that has a      *)
(* thread has no other.                                                    *)
LEMMA StaysThread ==
  ASSUME Known1, KnownInv', NEW u \in Threads, StreamThread(u), NEW k \in Slots
  PROVE  Stays(k)
<1>0. /\ TypeOK /\ OrderInv /\ KnownInv /\ ~CanFail
      /\ streams \in [Slots -> Stream] /\ thr \in [Threads -> Thread]
  BY DEF Known1, Known0, TypeOK
<1>1. /\ thr[u].slot \in Slots /\ main' = main /\ Using(u)
      /\ \A t \in Threads : Live(t)' = Live(t) /\ thr'[t].slot = thr[t].slot
  BY <1>0, ThreadStep, ThreadEffects
<1>2. PICK st \in {"run", "held", "exited"} :
        thr' = [thr EXCEPT ![u] = [thr[u] EXCEPT !.st = st]]
  BY <1>0, ThreadStep
<1>3. SameUse
  BY <1>0, <1>1, <1>2 DEF SameUse, Using
<1>4. InUse(k)' => InUse(k)
  BY <1>1, <1>3 DEF InUse, Prepared, SameUse
<1>5. CASE thr[u].slot # k
  <2>1. streams'[k] = streams[k]
    BY <1>0, <1>5, ThreadStep
  <2> QED BY <1>4, <2>1 DEF Stays
<1>6. CASE thr[u].slot = k
  <2>1. streams[k].started
    BY <1>0, <1>1, <1>6 DEF KnownInv, ThreadsOfStreams, Using, Live
  <2>2. ~Prepared(k)'
    BY <1>0, <1>1, <2>1 DEF Prepared, KnownInv, NotYetStarted, OrderInv, HandlerInv
  <2>3. ASSUME NEW t \in Threads, Using(t)', thr'[t].slot = k PROVE Using(u)'
    <3>1. Live(t)' /\ Live(u)' /\ thr'[u].slot = k
      BY <1>1, <1>6, <2>3 DEF Using, Live
    <3>2. streams'[k].thr = t /\ streams'[k].thr = u
      BY <2>3, <3>1 DEF KnownInv, ThreadsOfStreams
    <3> QED BY <2>3, <3>2
  <2>4. ASSUME Using(u)' PROVE streams'[k].sock = "open" \/ streams' = streams
    <3>1. thr'[u].st # "exited"
      BY <2>4 DEF Using
    <3>2. ~SenderEnds(u) /\ ~ReceiverEnds(u) /\ ~HeldEnds(u)
      BY <1>0, <3>1 DEF SenderEnds, ReceiverEnds, HeldEnds, Thread
    <3>3. CASE Hold(u)
      BY <3>3 DEF Hold
    <3>4. CASE Accept(u)
      BY <1>0, <1>1, <1>6, <3>4 DEF Accept, Stream
    <3> QED BY <3>2, <3>3, <3>4 DEF StreamThread
  <2> QED BY <1>4, <2>2, <2>3, <2>4 DEF Stays, InUse
<1> QED BY <1>5, <1>6

LEMMA StaysReport ==
  ASSUME Known1, KnownInv', NEW r \in Reports, ReportStep(r), NEW k \in Slots
  PROVE  Stays(k)
<1>0. /\ TypeOK /\ OrderInv /\ KnownInv /\ main' = main
      /\ streams \in [Slots -> Stream] /\ rep \in [Reports -> Report]
      /\ rep[r].slot \in Slots
  BY ReportIds, ReportFields DEF Known1, Known0, TypeOK
<1>1. CASE ReportClose(r)
  <2>1. rep[r].pc = "close" /\ rep'[r].pc = "clear" /\ thr' = thr
    BY <1>0, <1>1 DEF ReportClose, Report
  <2>2. InUse(k)' => InUse(k)
    BY <1>0, <2>1 DEF InUse, Using, Prepared
  <2>3. rep[r].slot # k => streams'[k] = streams[k]
    BY <1>0, <1>1 DEF ReportClose
  <2> QED BY <2>1, <2>2, <2>3 DEF Stays, Taken
<1>2. CASE ~ReportClose(r)
  <2>1. /\ CalmStep /\ SameUse
        /\ KeepsSocket(k) \/ (rep[r].pc = "join" /\ rep[r].slot = k)
    BY <1>0, <1>2, CalmReport
  <2>2. ASSUME Prepared(k)' PROVE Prepared(k) /\ KeepsSocket(k)
    <3>1. Prepared(k)
      BY <1>0, <2>2 DEF Prepared
    <3>2. ~streams[k].started
      BY <1>0, <3>1 DEF Prepared, KnownInv, NotYetStarted
    <3>3. ~(rep[r].pc = "join" /\ rep[r].slot = k)
      BY <1>0, <3>2 DEF OrderInv, ReportFresh
    <3> QED BY <2>1, <3>1, <3>3
  <2> QED BY <2>1, <2>2, UserKeeps DEF Stays, InUse, KeepsSocket
<1> QED BY <1>1, <1>2

LEMMA StaysNext ==
  ASSUME Known1, KnownInv', [Next]_vars, NEW k \in Slots PROVE Stays(k)
<1>1. CASE UNCHANGED vars
  BY <1>1 DEF vars, Stays, InUse, Prepared, Using
<1> QED BY <1>1, StaysCommand, StaysHandler, StaysThread, StaysReport DEF Next

LEMMA SockNext ==
  ASSUME Known1, Known1', SockInv, [Next]_vars PROVE SockInv'
<1>1. ASSUME NEW k \in Slots, InUse(k)'
      PROVE  streams'[k].sock = "open" \/ TcpSender(k)'
  <2>1. CASE InUse(k) /\ (streams[k].sock = "open" => Taken(k))
    <3>1. TcpSender(k)
      BY <2>1 DEF SockInv, Held, ClosesTcp, Taken
    <3>2. k \in Configured
      BY <2>1, InUseConfigured
    <3>3. k \in Configured'
      <4>1. OrderInv' /\ KnownInv'
        BY DEF Known1, Known0
      <4>2. CASE Prepared(k)'
        BY <4>1, <4>2 DEF Prepared, OrderInv, HandlerInv
      <4>3. ASSUME NEW t \in Threads, Using(t)', thr'[t].slot = k
            PROVE  k \in Configured'
        BY <4>1, <4>3 DEF KnownInv, ThreadsOfStreams, Using, Live
      <4> QED BY <1>1, <4>2, <4>3 DEF InUse
    <3>4. streams'[k].tcp /\ streams'[k].sender
      BY <3>1, <3>2, <3>3, TcpSenderKept DEF Known1, Known0
    <3> QED BY <3>4 DEF TcpSender
  <2> QED BY <1>1, <2>1, StaysNext DEF Stays, Known1
<1>2. Held'
  BY <1>1 DEF Held
<1> QED BY <1>2, ClosesTcpNext DEF SockInv

LEMMA SockInit == Init => SockInv
<1>1. Idle.pc = "idle" /\ NoReport.pc = "none" /\ FreeThread.st = "free"
  BY DEF Idle, NoReport, FreeThread
<1> QED BY <1>1 DEF Init, SockInv, Held, ClosesTcp, InUse, Prepared, Using

LEMMA SockCorrect ==
  Spec => [](Orderly /\ ~CanFail => Known1 /\ SockInv)
<1> DEFINE N == Orderly /\ ~CanFail
<1> DEFINE I == TypeOK /\ PcInv /\ IdsInv /\ (Orderly => OrderInv)
<1> DEFINE K == N => KnownInv
<1> DEFINE L == N => SockInv
<1>1. Init => L
  BY SockInit
<1>2. I /\ I' /\ K /\ K' /\ L /\ [Next]_vars => L'
  <2> SUFFICES ASSUME I, I', K, K', L, [Next]_vars, N PROVE SockInv'
    OBVIOUS
  <2>1. Known1 /\ Known1'
    BY DEF Known1, Known0
  <2> QED BY <2>1, SockNext
<1>3. Spec => []I
  BY OrderCorrect
<1>4. Spec => []K
  <2>1. (PcInv /\ K) => K
    OBVIOUS
  <2> QED BY KnownCorrect, PTL
<1>5. I /\ K /\ L => (N => Known1 /\ SockInv)
  BY DEF Known1, Known0
<1> HIDE DEF I, K, L
<1>6. Spec => [](N => Known1 /\ SockInv)
  BY <1>1, <1>2, <1>3, <1>4, <1>5, PTL DEF Spec
<1> QED BY <1>6

(* When nothing fails and the controller is orderly, on any number of      *)
(* connections, no thread but a TCP sender works on a closed socket.       *)
THEOREM SocketsAreHeld == Spec => []SocketHeld
<1>1. (Orderly /\ ~CanFail => Known1 /\ SockInv) => SocketHeld
  <2> SUFFICES ASSUME Known1, SockInv, NEW t \in Threads, Using(t)
               PROVE  \/ streams[thr[t].slot].sock = "open"
                      \/ TcpSender(thr[t].slot)
    BY DEF SocketHeld
  <2>1. InUse(thr[t].slot) /\ thr[t].slot \in Slots
    BY ThreadFields DEF InUse, Known1, Known0, TypeOK
  <2> QED BY <2>1 DEF SockInv, Held
<1> QED BY <1>1, SockCorrect, PTL

(* When nothing fails and the controller is orderly, the one step that     *)
(* closes a socket in use is a report thread's on a TCP sender.            *)
THEOREM SocketsAreTaken == Spec => SocketTaken
<1> DEFINE M == Orderly /\ ~CanFail => Known1 /\ SockInv
<1> DEFINE A == (Orderly /\ ~CanFail) =>
       \A k \in Slots :
         /\ InUse(k) /\ InUse(k)'
         /\ streams[k].sock = "open" /\ streams'[k].sock # "open"
         => /\ TcpSender(k)
            /\ \E r \in Reports : rep[r].pc = "close" /\ rep[r].slot = k
                                 /\ rep'[r].pc = "clear"
<1>1. M /\ M' /\ [Next]_vars => A
  <2> SUFFICES ASSUME Known1, SockInv, KnownInv', [Next]_vars,
                      NEW k \in Slots, InUse(k), InUse(k)',
                      streams[k].sock = "open", streams'[k].sock # "open"
               PROVE  TcpSender(k) /\ Taken(k)
    BY DEF Taken, Known1
  <2>1. Taken(k)
    BY StaysNext DEF Stays
  <2> QED BY <2>1 DEF Taken, SockInv, ClosesTcp
<1>2. Spec => []M
  BY SockCorrect
<1> HIDE DEF M, A
<1>3. Spec => [][A]_vars
  BY <1>1, <1>2, PTL DEF Spec
<1> QED BY <1>3 DEF SocketTaken, A

=============================================================================
