--------------------------- MODULE SnifferCommands ---------------------------
(***************************************************************************)
(* The handlers of the sniffer: of src/wlantest.c, which sends a request   *)
(* to the wlantest program on a socket of its own, and of src/sniffer.c,   *)
(* which runs a capture and scripts that read it.  Here a sniffer process  *)
(* that is kept is what its number in dut->sniffer_pid says.               *)
(***************************************************************************)
EXTENDS StaReset

(* wlantest.c 208-261 *)
cmd_wlantest_set_channel ==
  Do(<<If(UNION {Answered, Invalid, Error}), Sets({"mode"}), Success>>)

(* A request opens a socket and closes it when the answer is there.        *)
(* wlantest.c 147-163 *)
run_wlantest_simple ==
  Do(<<If(Answered), Opens, Closes, Error \cup Success>>)

(* wlantest.c 264-269 *)
cmd_wlantest_flush == run_wlantest_simple

(* sniffer.c 76-95 *)
sniffer_close ==
  If(Do(<<If(Defaults({"sniffer_filename"})), Defaults({"sniffer_pid"})>>))

(* sniffer.c 26-73 *)
cmd_sniffer_control_start ==
  Do(<<If(Call(sniffer_close)), If(Answered),
       OnSuccess(cmd_wlantest_set_channel), Sets({"sniffer_filename"}),
       If(Answered \cup Success), Sets({"sniffer_pid"}), Success>>)

(* sniffer.c 174-183 *)
cmd_sniffer_get_info == Answered

(* sniffer.c 342-353 *)
cmd_sniffer_check_p2p_opps_client == Answered

(* sniffer.c 356-367 *)
cmd_sniffer_check_frame_field == Answered

(* wlantest.c 166-205 *)
cmd_wlantest_version ==
  Do(<<If(Answered), Opens, Closes, If(Error), Answered>>)

(* By the mode of the device the frame is sent by the station or the       *)
(* access point instead.                                                   *)
(* wlantest.c 272-392 *)
cmd_wlantest_send_frame ==
  UNION {cmd_sta_send_frame, cmd_ap_send_frame,
         Do(<<If(Invalid \cup Answered), Opens, Closes, Error \cup Success>>)}

(* wlantest.c 395-443 *)
cmd_wlantest_add_passphrase ==
  Do(<<If(Invalid \cup Answered), Opens, Closes, Error \cup Success>>)

(* wlantest.c 446-498 *)
cmd_wlantest_clear_sta_counters ==
  Do(<<If(Invalid \cup Answered), Opens, Closes, Error \cup Success>>)

(* wlantest.c 501-540 *)
cmd_wlantest_clear_bss_counters ==
  Do(<<If(Invalid \cup Answered), Opens, Closes, Error \cup Success>>)

(* wlantest.c 543-609 *)
cmd_wlantest_clear_tdls_counters ==
  Do(<<If(Invalid \cup Answered), Opens, Closes, Error \cup Success>>)

(* wlantest.c 666-739 *)
cmd_wlantest_get_sta_counter ==
  Do(<<If(Invalid \cup Answered), Opens, Closes, Error \cup Answered>>)

(* wlantest.c 756-815 *)
cmd_wlantest_get_bss_counter ==
  Do(<<If(Invalid \cup Answered), Opens, Closes, Error \cup Answered>>)

(* wlantest.c 837-924 *)
cmd_wlantest_get_tdls_counter ==
  Do(<<If(Invalid \cup Answered), Opens, Closes, Error \cup Answered>>)

(* wlantest.c 941-1019 *)
cmd_wlantest_info_sta ==
  Do(<<If(Invalid \cup Answered), Opens, Closes, Error \cup Answered>>)

(* wlantest.c 1037-1102 *)
cmd_wlantest_info_bss ==
  Do(<<If(Invalid \cup Answered), Opens, Closes, Error \cup Answered>>)

(* sniffer.c 98-110 *)
cmd_sniffer_control_stop == Answered \cup Then(sniffer_close, Success)

(* The scripts that read a capture answer with their first line.           *)
(* sniffer.c 113-171 *)
cmd_sniffer_control_field_check ==
  Do(<<If(Invalid \cup Answered), Opens, Closes, Answered>>)

(* sniffer.c 186-242 *)
cmd_sniffer_control_filter_capture ==
  Do(<<If(Invalid \cup Answered), Opens, Closes, Answered>>)

(* sniffer.c 245-290 *)
cmd_sniffer_get_field_value ==
  Do(<<If(Invalid \cup Answered), Opens, Closes, Answered>>)

(* sniffer.c 293-339 *)
cmd_sniffer_check_p2p_noa_duration ==
  Do(<<If(Invalid \cup Answered), Opens, Closes, Answered>>)

===============================================================================
