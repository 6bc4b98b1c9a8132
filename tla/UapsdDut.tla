------------------------------- MODULE UapsdDut -------------------------------
(***************************************************************************)
(* The station's side of a U-APSD test (src/uapsd_stream.c, receive_uapsd  *)
(* and send_uapsd): a receiver thread, which is the stream's thread, and a *)
(* sender thread it creates.  They share the stream's fields without a     *)
(* lock; the only lock is the mutex of the condition variable with which   *)
(* the receiver, told to stop by the console, waits until the sender has   *)
(* sent a STOP of its own.                                                 *)
(*                                                                         *)
(* Sleeping, power save mode, cookies and statistics are left out.         *)
(***************************************************************************)
EXTENDS UapsdLink

CONSTANTS
  MAX_RETRY, MAX_HELLO, MAX_STOP,
  Cycles      \* packets of uapsd_tx_cyclic (3000 in the code)

ASSUME DutAssumption ==
  /\ MAX_RETRY \in Nat /\ MAX_HELLO \in Nat /\ MAX_STOP \in Nat
  /\ Cycles \in Nat \ {0, 1}

VARIABLES
  dut,        \* the fields of the stream
  tx,         \* the sender thread: where it is, the function it runs
  rx,         \* the receiver thread
  stopping    \* the server thread is in stop_stream()

dutVars == <<dut, tx, rx, stopping>>

Dut ==
  [tc : Tests, tx_state : 0..10, rx_state : 0..5,
   tx_hello_cnt : 0..(MAX_HELLO + 1), tx_stop_cnt : 0..(MAX_STOP + 1),
   num_retry : 0..(MAX_RETRY + 1), reset_rx : BOOLEAN, stop : BOOLEAN]

TxPlaces == {"loop", "act", "signal", "count", "done"}
RxPlaces == {"loop", "recv", "start", "lock", "wait", "woken", "join", "done"}

DutTypeOK ==
  /\ dut \in Dut
  /\ tx \in [pc : TxPlaces, f : TxFunctions, sent : 0..Cycles, failed : BOOLEAN]
  /\ rx \in RxPlaces
  /\ stopping \in BOOLEAN

(* sigma_uapsd_init, and the creation of the sender thread.                *)
DutInit ==
  /\ dut = [tc |-> FirstTest, tx_state |-> 0, rx_state |-> 0,
            tx_hello_cnt |-> 0, tx_stop_cnt |-> 0, num_retry |-> 0,
            reset_rx |-> FALSE, stop |-> FALSE]
  /\ tx = [pc |-> "loop", f |-> sta_uapsd_tx_tbl[FirstTest][1],
           sent |-> 0, failed |-> FALSE]
  /\ rx = "loop"
  /\ stopping = FALSE

-----------------------------------------------------------------------------
(* The sender thread: send_uapsd() reads the function of the test and      *)
(* state, then runs it.                                                    *)
TxLoop ==
  /\ tx.pc = "loop"
  /\ tx' = IF dut.stop
           THEN [tx EXCEPT !.pc = "done"]
           ELSE [tx EXCEPT !.pc = "act", !.sent = 0, !.failed = FALSE,
                   !.f = sta_uapsd_tx_tbl[dut.tc][dut.tx_state + 1]]
  /\ UNCHANGED <<dut, rx, up, down>>

Runs(fs) == tx.pc = "act" /\ tx.f.f \in fs

TxNext == tx' = [tx EXCEPT !.pc = "loop"]

(* uapsd_tx_start: go on when the receiver has got a test case, send one   *)
(* more HELLO otherwise, or give up.                                       *)
TestReceived ==
  /\ Runs({"start"})
  /\ dut.rx_state > 0
  /\ dut' = [dut EXCEPT !.tx_state = @ + 1]
  /\ TxNext
  /\ UNCHANGED <<rx, up, down>>

(* Mutation: HELLO packets are not counted.                                *)
TxHello_Uncounted ==
  /\ Runs({"start"})
  /\ dut.rx_state = 0
  /\ dut.tx_hello_cnt <= MAX_HELLO
  /\ up' = Sent(up, <<Msg("HELLO")>>)
  /\ TxNext
  /\ UNCHANGED <<dut, rx, down>>
TxHello ==
  /\ Runs({"start"})
  /\ dut.rx_state = 0
  /\ dut.tx_hello_cnt <= MAX_HELLO
  /\ dut' = [dut EXCEPT !.tx_hello_cnt = @ + 1]
  /\ up' = Sent(up, <<Msg("HELLO")>>)
  /\ TxNext
  /\ UNCHANGED <<rx, down>>

TooManyHellos ==
  /\ Runs({"start"})
  /\ dut.rx_state = 0
  /\ dut.tx_hello_cnt > MAX_HELLO
  /\ dut' = [dut EXCEPT !.stop = TRUE]
  /\ TxNext
  /\ UNCHANGED <<rx, up, down>>

(* uapsd_tx_confirm, uapsd_tx_data: the state stays when send() fails.     *)
TxOnce ==
  /\ Runs({"confirm", "data"})
  /\ up' = Sent(up, <<IF tx.f.f = "data" THEN Data(tx.f.ac) ELSE Msg("CONFIRM")>>)
  /\ dut' = [dut EXCEPT !.tx_state = @ + 1]
  /\ TxNext
  /\ UNCHANGED <<rx, down>>

TxOnceFails ==
  /\ "send" \in Faults
  /\ Runs({"confirm", "data"})
  /\ TxNext
  /\ UNCHANGED <<dut, rx, up, down>>

(* uapsd_tx_data_twice and uapsd_tx_cyclic: one packet at a time; the      *)
(* state stays when any of them could not be sent.                         *)
TxMany ==
  /\ Runs({"twice", "cyclic"})
  /\ tx.sent < (IF tx.f.f = "twice" THEN 2 ELSE Cycles)
  /\ up' = Sent(up, <<Data(tx.f.ac)>>)
  /\ tx' = [tx EXCEPT !.sent = @ + 1]
  /\ UNCHANGED <<dut, rx, down>>

TxManyFails ==
  /\ "send" \in Faults
  /\ Runs({"twice", "cyclic"})
  /\ tx.sent < (IF tx.f.f = "twice" THEN 2 ELSE Cycles)
  /\ tx' = [tx EXCEPT !.sent = @ + 1, !.failed = TRUE]
  /\ UNCHANGED <<dut, rx, up, down>>

TxManyDone ==
  /\ Runs({"twice", "cyclic"})
  /\ tx.sent = (IF tx.f.f = "twice" THEN 2 ELSE Cycles)
  /\ dut' = IF tx.failed THEN dut ELSE [dut EXCEPT !.tx_state = @ + 1]
  /\ TxNext
  /\ UNCHANGED <<rx, up, down>>

(* uapsd_tx_stop: send a STOP, signal the receiver, and count.             *)
TxStop ==
  /\ Runs({"stop"})
  /\ dut' = [dut EXCEPT !.tx_stop_cnt = @ + 1]
  /\ \/ up' = Sent(up, <<Msg("STOP")>>)
     \/ "send" \in Faults /\ UNCHANGED up
  /\ tx' = [tx EXCEPT !.pc = "signal"]
  /\ UNCHANGED <<rx, down>>

TxSignal ==
  /\ tx.pc = "signal"
  /\ rx' = IF rx = "wait" THEN "woken" ELSE rx
  /\ tx' = [tx EXCEPT !.pc = "count"]
  /\ UNCHANGED <<dut, up, down>>

(* Mutation: the sender gives up one STOP too early.                       *)
TxCount_Early ==
  /\ tx.pc = "count"
  /\ dut' = IF dut.tx_stop_cnt >= MAX_STOP
            THEN [dut EXCEPT !.stop = TRUE] ELSE dut
  /\ TxNext
  /\ UNCHANGED <<rx, up, down>>
TxCount ==
  /\ tx.pc = "count"
  /\ dut' = IF dut.tx_stop_cnt > MAX_STOP
            THEN [dut EXCEPT !.stop = TRUE] ELSE dut
  /\ TxNext
  /\ UNCHANGED <<rx, up, down>>

-----------------------------------------------------------------------------
(* The receiver thread.  select() waits 100 ms at a time.                  *)
RxLoop ==
  /\ rx = "loop"
  /\ rx' = IF dut.stop THEN "join" ELSE "recv"
  /\ UNCHANGED <<dut, tx, up, down>>

RxTimeout ==
  /\ rx = "recv" /\ down = <<>>
  /\ rx' = "loop"
  /\ UNCHANGED <<dut, tx, up, down>>

(* sigma_uapsd_reset: too many resets stop the stream, and are followed by *)
(* one more packet all the same.                                           *)
ResetPackets(num_retry, reset_rx) ==
  (IF num_retry > MAX_RETRY THEN <<Msg("RESET_STOP")>> ELSE <<>>)
    \o <<Msg(IF reset_rx THEN "RESET_RESP" ELSE "RESET")>>

(* Mutation: the stream goes on after too many resets.                     *)
DutReset_GoesOn(reset_rx) ==
  /\ dut' = [dut EXCEPT !.num_retry = @ + 1, !.reset_rx = FALSE]
  /\ up' = Sent(up, ResetPackets(dut.num_retry + 1, reset_rx))
  /\ rx' = "loop"
DutReset(reset_rx) ==
  LET n == dut.num_retry + 1
  IN  /\ dut' = [dut EXCEPT !.num_retry = n, !.reset_rx = FALSE,
                   !.stop = @ \/ n > MAX_RETRY]
      /\ up' = Sent(up, ResetPackets(n, reset_rx))
      /\ rx' = "loop"

RxFunction == sta_uapsd_recv_tbl[dut.tc][dut.rx_state + 1]

(* uapsd_rx_start: only a packet that names a test case counts; the test  *)
(* is stored before the state, which the sender looks at without a lock.   *)
RxStart(p) ==
  /\ RxFunction = "start"
  /\ \/ /\ p.msg \in Tests
        /\ dut' = [dut EXCEPT !.tc = p.msg]
        /\ rx' = "start"
     \/ p.msg \notin Tests /\ rx' = "loop" /\ UNCHANGED dut
  /\ UNCHANGED up

RxStarted ==
  /\ rx = "start"
  /\ dut' = [dut EXCEPT !.rx_state = @ + 1]
  /\ rx' = "loop"
  /\ UNCHANGED <<tx, up, down>>

RxData(p) ==
  /\ RxFunction = "data"
  /\ \/ /\ p.msg = "DEFAULT"
        /\ dut' = [dut EXCEPT !.rx_state = @ + 1]
        /\ rx' = "loop"
        /\ UNCHANGED up
     \/ p.msg # "DEFAULT" /\ DutReset(dut.reset_rx)

(* uapsd_rx_stop and uapsd_rx_cyclic_vo: anything but a STOP is ignored.   *)
RxStop(p) ==
  /\ RxFunction \in {"stop", "cyclic_vo"}
  /\ rx' = IF p.msg = "STOP" THEN "lock" ELSE "loop"
  /\ UNCHANGED <<dut, up>>

RxPacket ==
  /\ rx = "recv" /\ down # <<>>
  /\ down' = Tail(down)
  /\ LET p == Head(down)
     IN  \/ p.msg = "RESET" /\ DutReset(TRUE)
         \/ p.msg # "RESET" /\ (RxStart(p) \/ RxData(p) \/ RxStop(p))
  /\ UNCHANGED tx

(* sigma_uapsd_stop: nothing is checked before or after the wait, so a     *)
(* signal sent before it is missed and a spurious wakeup ends it.          *)
RxWait ==
  /\ rx = "lock"
  /\ rx' = "wait"
  /\ UNCHANGED <<dut, tx, up, down>>

RxSpuriousWakeup ==
  /\ "wakeup" \in Faults
  /\ rx = "wait"
  /\ rx' = "woken"
  /\ UNCHANGED <<dut, tx, stopping, up, down>>

RxWoken ==
  /\ rx = "woken"
  /\ rx' = "loop"
  /\ dut' = [dut EXCEPT !.stop = TRUE]
  /\ UNCHANGED <<tx, up, down>>

(* pthread_join of the sender; the socket is closed.                       *)
RxJoin ==
  /\ rx = "join" /\ tx.pc = "done"
  /\ rx' = "done"
  /\ UNCHANGED <<dut, tx, up, down>>

(* stop_stream(): the server thread tells the stream to stop and joins it. *)
StopStream ==
  /\ "stop" \in Faults
  /\ ~stopping /\ rx # "done"
  /\ stopping' = TRUE
  /\ dut' = [dut EXCEPT !.stop = TRUE]
  /\ UNCHANGED <<tx, rx, up, down>>

SendFails == TxOnceFails \/ TxManyFails

TxStep ==
  /\ \/ TxLoop \/ TestReceived \/ TxHello \/ TooManyHellos \/ TxOnce \/ TxMany
     \/ TxManyDone \/ TxStop \/ TxSignal \/ TxCount \/ SendFails
  /\ UNCHANGED stopping

RxStep ==
  /\ \/ RxLoop \/ RxTimeout \/ RxPacket \/ RxStarted
     \/ RxWait \/ RxWoken \/ RxJoin
  /\ UNCHANGED stopping

=============================================================================
