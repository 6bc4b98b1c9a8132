-------------------------------- MODULE Uapsd --------------------------------
(***************************************************************************)
(* A U-APSD test: a station (UapsdDut) and a console (UapsdConsole), both  *)
(* sigma_dut, over a link that may lose and reorder packets (UapsdLink).   *)
(***************************************************************************)
EXTENDS UapsdDut, UapsdConsole

CONSTANTS
  Played,     \* the tests that are played
  Prompt      \* all answers come while the sender sleeps before a packet

ASSUME PlayedAssumption == Played \subseteq Tests /\ Prompt \in BOOLEAN

vars == <<dut, tx, rx, stopping, con, up, down>>

TypeOK ==
  /\ DutTypeOK
  /\ ConsoleTypeOK
  /\ up \in Seq(Packet) /\ Len(up) <= MaxQueue
  /\ down \in Seq(Packet) /\ Len(down) <= MaxQueue

Init == DutInit /\ ConsoleInit(Played) /\ up = <<>> /\ down = <<>>

(* The sender sleeps for a second before most packets.  In that time a     *)
(* prompt console has answered all there is to answer, and the receiver    *)
(* has taken in the answers.                                               *)
Settled ==
  /\ up = <<>> \/ con.stop
  /\ rx \notin {"start", "lock", "woken"}
  /\ rx \in {"loop", "recv"} => down = <<>>

(* 60 seconds are longer than any pause of a station that has not ended.   *)
Expires == ConsoleExpires /\ (Prompt => tx.pc = "done")

Sender == TxStep /\ (Prompt /\ tx.pc = "act" => Settled)

Next ==
  \/ (Sender \/ RxStep \/ RxSpuriousWakeup \/ StopStream) /\ UNCHANGED con
  \/ (ConsolePacket \/ Expires) /\ UNCHANGED dutVars
  \/ (Lose \/ Overtake) /\ UNCHANGED <<dutVars, con>>

Spec == Init /\ [][Next]_vars

(***************************************************************************)
(* The three threads go on.  Nothing is assumed of the link; the console's *)
(* clock runs, so that it expires if nothing comes.                        *)
(***************************************************************************)
Fairness ==
  /\ WF_vars(Sender /\ UNCHANGED con)
  /\ WF_vars(RxStep /\ UNCHANGED con)
  /\ WF_vars((ConsolePacket \/ Expires) /\ UNCHANGED dutVars)

FairSpec == Spec /\ Fairness

-----------------------------------------------------------------------------
StationRow == sta_uapsd_tx_tbl[dut.tc]
StationReceives == sta_uapsd_recv_tbl[dut.tc]
ConsoleFunctions == uapsd_console_state_tbl[con.tc]

(***************************************************************************)
(* With a prompt peer on a good link no packet surprises either side: the  *)
(* three tables agree on every test (sta_uapsd_tx_tbl, sta_uapsd_recv_tbl, *)
(* uapsd_console_state_tbl), so that nobody sends a RESET.                 *)
(***************************************************************************)
NoReset == dut.num_retry = 0 /\ con.num_retry = 0

(***************************************************************************)
(* With a prompt peer on a good link every test comes to its regular end:  *)
(* both sides have gone through their rows of the same test, and stopped   *)
(* because of each other's STOP, not because they had tried often enough   *)
(* or heard nothing for too long.                                          *)
(***************************************************************************)
Complete ==
  /\ rx = "done" /\ con.stop
  /\ dut.tc = con.tc
  /\ dut.tx_state = Len(StationRow) - 1
  /\ dut.rx_state = Len(StationReceives) - 1
  /\ con.state >= Len(ConsoleFunctions) - 1 \/ con.tc = "L_1"
  /\ dut.tx_stop_cnt < MAX_STOP
  /\ ~con.expired

TestCompletes == <>[]Complete

(***************************************************************************)
(* However packets are lost and reordered, the console never runs ahead of *)
(* the station: each function it has been through since the HELLO          *)
(* (uapsd_rx_state) took one packet that the station has sent.  M_U, where *)
(* two packets are one function of the station, is no test of this.        *)
(***************************************************************************)
SentAfterHello == dut.tx_state - 1 + dut.tx_stop_cnt + dut.num_retry

ConsoleFollows == con.state > 1 => con.state - 1 <= SentAfterHello

(***************************************************************************)
(* The receiver thread waits in vain for its sender (sigma_uapsd_stop) in  *)
(* two cases only: a command stops the stream, or the sender had already   *)
(* sent its last STOP and given up.                                        *)
(***************************************************************************)
MissesLastSignalOnly ==
  rx = "wait" /\ tx.pc = "done" => stopping \/ dut.tx_stop_cnt > MAX_STOP

(***************************************************************************)
(* However packets are lost, nobody talks for ever: the station's sender   *)
(* and the console end (MAX_HELLO, MAX_STOP, MAX_RETRY, the console's      *)
(* timer), unless send() fails again and again, which uapsd_tx_data        *)
(* answers by trying again without a bound.                                *)
(***************************************************************************)
TalkersEnd ==
  <>[][~SendFails]_vars => <>(tx.pc = "done") /\ <>con.stop

=============================================================================
