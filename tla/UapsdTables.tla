----------------------------- MODULE UapsdTables -----------------------------
(***************************************************************************)
(* The test cases of the U-APSD traffic of sigma_dut                       *)
(* (src/uapsd_stream.c): for each test, the functions the station's sender *)
(* and receiver run one after the other and the functions the console      *)
(* answers the station's packets with.                                     *)
(*                                                                         *)
(* A packet is its message (the APTS name without the prefix, or a test    *)
(* case) and its access category; the TOS values of one category are not   *)
(* told apart (packet_expected).                                           *)
(* A row ends where the table of the code goes on with NULL functions.     *)
(***************************************************************************)
EXTENDS Integers, Sequences

Categories == {"BE", "BK", "VI", "VO"}
Tests ==
  {"B_D", "B_H", "B_B", "B_M", "M_D", "B_Z", "M_Y", "L_1", "A_Y", "B_W",
   "A_J", "M_V", "M_U", "A_U", "M_L", "B_K", "M_B", "M_K", "M_W"}
Messages ==
  Tests \cup {"HELLO", "CONFIRM", "DEFAULT", "STOP",
              "RESET", "RESET_RESP", "RESET_STOP"}

Packet == [msg : Messages, ac : Categories]

Msg(m) == [msg |-> m, ac |-> "BE"]         \* control packets are best effort
Data(ac) == [msg |-> "DEFAULT", ac |-> ac]

FirstTest == "B_D"                         \* uapsd_sta_tc = 0

-----------------------------------------------------------------------------
(* What the station sends.  Every row is uapsd_tx_start, uapsd_tx_confirm, *)
(* the data, uapsd_tx_stop; a data packet is sent once ("data"), twice in  *)
(* a row ("twice") or many times ("cyclic").                               *)
TxFunctions ==
  [f : {"start", "confirm", "data", "twice", "cyclic", "stop"}, ac : Categories]

tx_data(ac) == [f |-> "data", ac |-> ac]
tx_data_twice(ac) == [f |-> "twice", ac |-> ac]
tx_cyclic(ac) == [f |-> "cyclic", ac |-> ac]

(* Mutation: no CONFIRM is sent.                                           *)
TxRow_NoConfirm(data) ==
  <<[f |-> "start", ac |-> "BE"]>> \o data \o <<[f |-> "stop", ac |-> "BE"]>>
TxRow(data) ==
  <<[f |-> "start", ac |-> "BE"], [f |-> "confirm", ac |-> "BE"]>>
    \o data \o <<[f |-> "stop", ac |-> "BE"]>>

BE == tx_data("BE")
BK == tx_data("BK")
VI == tx_data("VI")
VO == tx_data("VO")

sta_uapsd_tx_tbl ==
  [B_D |-> TxRow(<<VO, VO>>),
   B_H |-> TxRow(<<VO, VO>>),
   B_B |-> TxRow(<<VO, VI, BE, BK>>),
   B_M |-> TxRow(<<VI>>),
   M_D |-> TxRow(<<VI, VI, VI, VI>>),
   B_Z |-> TxRow(<<VO>>),
   M_Y |-> TxRow(<<VI, VO, BE, BE>>),
   L_1 |-> TxRow(<<tx_cyclic("VO")>>),
   A_Y |-> TxRow(<<VI, VO, BE, BE, BE>>),
   B_W |-> TxRow(<<VI, VI, VI>>),
   A_J |-> TxRow(<<VO, VO>>),
   M_V |-> TxRow(<<VI, BE, VI>>),
   M_U |-> TxRow(<<VI, BE, tx_data_twice("VO")>>),
   A_U |-> TxRow(<<VI, BE, BE, BE, VO, VO>>),
   M_L |-> TxRow(<<BE>>),
   B_K |-> TxRow(<<VI, BE, VI>>),
   M_B |-> TxRow(<<VO, VI, BE, BK>>),
   M_K |-> TxRow(<<VI, BE, VI>>),
   M_W |-> TxRow(<<VI, BE, VI>>)]

(* What the station receives: the test case, n data packets, the stop; the *)
(* cyclic test has one function for data and stop.                         *)
RxRow(n) == <<"start">> \o [i \in 1..n |-> "data"] \o <<"stop">>

sta_uapsd_recv_tbl ==
  [B_D |-> RxRow(1), B_H |-> RxRow(2), B_B |-> RxRow(0), B_M |-> RxRow(0),
   M_D |-> RxRow(4), B_Z |-> RxRow(2), M_Y |-> RxRow(3),
   L_1 |-> <<"start", "cyclic_vo">>,
   A_Y |-> RxRow(3), B_W |-> RxRow(4), A_J |-> RxRow(4), M_V |-> RxRow(3),
   M_U |-> RxRow(4), A_U |-> RxRow(3), M_L |-> RxRow(1), B_K |-> RxRow(2),
   M_B |-> RxRow(0), M_K |-> RxRow(2), M_W |-> RxRow(4)]

-----------------------------------------------------------------------------
(* The console's functions.  "answer": when the packet is the one expected *)
(* send the packets of tx and go to the next function, otherwise ignore    *)
(* the packet; "hello" does the same and sends the test case.  The names   *)
(* are those of the code without "console_".                               *)
Answer(packet, tx) == [f |-> "answer", expected |-> packet, tx |-> tx]
Echo(ac, acs) == Answer(Data(ac), [i \in DOMAIN acs |-> Data(acs[i])])
EchoStop(ac, acs) ==
  Answer(Data(ac), [i \in DOMAIN acs |-> Data(acs[i])] \o <<Msg("STOP")>>)

rx_hello == [f |-> "hello", expected |-> Msg("HELLO"), tx |-> <<>>]
rx_confirm == Answer(Msg("CONFIRM"), <<>>)
rx_confirm_tx_vi == Answer(Msg("CONFIRM"), <<Data("VI")>>)
rx_tx_stop == [f |-> "stop", expected |-> Msg("STOP"), tx |-> <<Msg("STOP")>>]
rx_vo_tx_vo == Echo("VO", <<"VO">>)
rx_vo_tx_vo_tx_stop == EchoStop("VO", <<"VO">>)
rx_vo_tx_all_tx_stop == EchoStop("VO", <<"VO", "VI", "BE", "BK">>)
rx_be_tx_be == Echo("BE", <<"BE">>)
rx_be_tx_be_tx_stop == EchoStop("BE", <<"BE">>)
rx_vi_tx_be == Echo("VI", <<"BE">>)
rx_vi_tx_bk == Echo("VI", <<"BK">>)
rx_vo_tx_bcst_tx_stop == EchoStop("VO", <<"BE">>)
rx_vi_tx_bcst == Echo("VI", <<"VI", "BE">>)
rx_be_tx_bcst == Echo("BE", <<"BE", "BE">>)
rx_be_tx_bcst_tx_stop == EchoStop("BE", <<"BE">>)
rx_vi_tx_vi == Echo("VI", <<"VI">>)
rx_vi_tx_vi_tx_stop == EchoStop("VI", <<"VI">>)
rx_vi_tx_vo_tx_stop == EchoStop("VI", <<"VO">>)
rx_vo_tx_stop == EchoStop("VO", <<>>)
rx_vi_tx_stop == EchoStop("VI", <<>>)
rx_bk_tx_stop == EchoStop("BK", <<>>)
(* Mutation: the second packet is forgotten.                               *)
rx_vo_tx_2vo_Once == Echo("VO", <<"VO">>)
rx_vo_tx_2vo == Echo("VO", <<"VO", "VO">>)
rx_be == Echo("BE", <<>>)
rx_vi == Echo("VI", <<>>)
rx_vo == Echo("VO", <<>>)
rx_vo_tx_vo_cyclic ==
  [f |-> "cyclic", expected |-> Data("VO"), tx |-> <<Data("VO")>>]

ConsoleRow(fs) == <<rx_hello, rx_confirm>> \o fs \o <<rx_tx_stop>>

uapsd_console_state_tbl ==
  [B_D |-> ConsoleRow(<<rx_vo_tx_vo, rx_vo_tx_stop, rx_tx_stop>>),
   B_H |-> ConsoleRow(<<rx_vo_tx_2vo, rx_vo_tx_stop, rx_tx_stop>>),
   B_B |-> ConsoleRow(<<rx_vo, rx_vi, rx_be, rx_bk_tx_stop>>),
   B_M |-> ConsoleRow(<<rx_vi_tx_stop>>),
   M_D |-> ConsoleRow(<<rx_vi_tx_be, rx_vi_tx_bk, rx_vi_tx_vi,
                        rx_vi_tx_vo_tx_stop>>),
   B_Z |-> <<rx_hello, rx_confirm_tx_vi, rx_vo_tx_bcst_tx_stop, rx_tx_stop>>,
   M_Y |-> ConsoleRow(<<rx_vi_tx_vi, rx_vo, rx_be_tx_be,
                        rx_be_tx_bcst_tx_stop>>),
   L_1 |-> ConsoleRow(<<rx_vo_tx_vo_cyclic>>),
   A_Y |-> ConsoleRow(<<rx_vi_tx_vi, rx_vo, rx_be_tx_be, rx_be,
                        rx_be_tx_bcst_tx_stop>>),
   B_W |-> ConsoleRow(<<rx_vi_tx_bcst, rx_vi_tx_bcst, rx_vi_tx_stop>>),
   A_J |-> ConsoleRow(<<rx_vo, rx_vo_tx_all_tx_stop>>),
   M_V |-> ConsoleRow(<<rx_vi_tx_vi, rx_be_tx_be, rx_vi_tx_vi_tx_stop>>),
   M_U |-> ConsoleRow(<<rx_vi_tx_vi, rx_be_tx_be, rx_vo_tx_vo,
                        rx_vo_tx_vo_tx_stop>>),
   A_U |-> ConsoleRow(<<rx_vi_tx_vi, rx_be, rx_be_tx_be, rx_be, rx_vo_tx_vo,
                        rx_vo_tx_stop>>),
   M_L |-> ConsoleRow(<<rx_be_tx_be_tx_stop>>),
   B_K |-> ConsoleRow(<<rx_vi_tx_vi, rx_be_tx_be, rx_vi_tx_stop>>),
   M_B |-> ConsoleRow(<<rx_vo, rx_vi, rx_be, rx_bk_tx_stop>>),
   M_K |-> ConsoleRow(<<rx_vi_tx_vi, rx_be_tx_be, rx_vi_tx_stop>>),
   M_W |-> ConsoleRow(<<rx_vi_tx_bcst, rx_be_tx_bcst, rx_vi_tx_stop>>)]

=============================================================================
