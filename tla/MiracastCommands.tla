--------------------------- MODULE MiracastCommands --------------------------
(***************************************************************************)
(* The handlers of src/miracast.c: Wi-Fi Display sessions.  The session    *)
(* itself is run by a library that is loaded once; its extensions return   *)
(* what they like, here ERROR_SEND_STATUS or SUCCESS_SEND_STATUS.          *)
(***************************************************************************)
EXTENDS SharedHelpers

(* Only the first call loads; the others succeed whatever came of it.      *)
(* miracast.c 49-70 *)
miracast_load ==
  Do(<<If(Sent), Sets({"miracast_lib"}), Invalid \cup Sent>>)

(* miracast.c 73-92 *)
miracast_unload ==
  Do(<<If(Invalid), Defaults({"miracast_lib"}), Sent \cup Invalid>>)

(* miracast.c 95-132 *)
get_modified_peer_mac_address ==
  Do(<<Defaults({"modified_peer_mac_address"}), If(Sent), Opens, Closes,
       If(Sent), Sets({"modified_peer_mac_address"}), Sent>>)

(* miracast.c 254-341 *)
get_p2p_connection_event ==
  Do(<<If(Invalid), Opens, Closes, If(Invalid),
       If(Call(get_modified_peer_mac_address)), Sent>>)

(* The thread that waits for the group and starts the session.             *)
(* miracast.c 345-432 *)
miracast_rtsp_thread_entry ==
  Do(<<Call(miracast_load), Checked(get_p2p_connection_event, Sent), Sent>>)

(* miracast.c 495-498 *)
miracast_deinit == Call(miracast_unload)

(* miracast.c 600-639 *)
miracast_sta_reset_default ==
  Do(<<Passed(miracast_load, STATUS_SENT, Sent), Sent>>)

(* miracast.c 661-745 *)
miracast_dev_send_frame == UNION {Invalid, Sent, Success, Answered}

(* miracast.c 748-774 *)
miracast_dev_exec_action == UNION {Answered, Error, Success}

(* miracast.c 777-811 *)
miracast_preset_testparameters ==
  Do(<<Call(miracast_load), If(Invalid \cup Answered),
       If(Sets({"mdns_instance_name"}) \cup Defaults({"mdns_instance_name"})),
       Success>>)

(* miracast.c 852-879 *)
miracast_cmd_sta_get_parameter == Answered

(* miracast.c 882-928 *)
miracast_mdns_start_wfd_connection == Invalid \cup Answered

(* A request that wpa_supplicant refuses counts as a success.              *)
(* miracast.c 931-1117 *)
start_wfd_connect ==
  Do(<<If(miracast_mdns_start_wfd_connection), If(Answered),
       Sets({"peer_mac_address"}), If(Answered \cup Success)>>)

(* miracast.c 1118-1204 *)
start_wfd_session ==
  Do(<<Checked(get_p2p_connection_event, Success), If(Invalid), Answered>>)

(* miracast.c 931-1204 *)
cmd_start_wfd_connection == Then(start_wfd_connect, start_wfd_session)

(* miracast.c 1207-1351 *)
cmd_connect_go_start_wfd ==
  Do(<<If(UNION {Answered, Error, Success}),
       Checked(get_p2p_connection_event, Answered), If(Answered \cup Invalid),
       Answered>>)

(* miracast.c 1354-1402 *)
cmd_sta_generate_event == UNION {Answered, Invalid, Success}

(* miracast.c 1405-1548 *)
cmd_reinvoke_wfd_session ==
  LET accept == Then(If(Answered \cup Error), Success)
      invite == Do(<<If(UNION {Invalid, Error, Answered}), Opens, Closes,
                     If(Error), Call(miracast_load), If(Error), Success>>)
  IN  UNION {Answered, accept, invite}

===============================================================================
