---------------------------- MODULE DeviceCommands ---------------------------
(***************************************************************************)
(* The handlers of src/dev.c, which stand before those of the station, the *)
(* access point and the programs; of src/traffic.c, which run ping and     *)
(* iperf in scripts; of src/atheros.c and src/powerswitch.c.               *)
(***************************************************************************)
EXTENDS ServerCommands, DppCommands

(* dev.c 365-385 *)
cmd_dev_configure_ie ==
  Do(<<If(Invalid \cup Answered), Sets({"rsne_override"}),
       Success \cup Error>>)

(* dev.c 388-475 *)
cmd_dev_ble_action ==
  Do(<<If(UNION {Answered, Invalid, Error}),
       If(Sets({"nanservicediscoveryinprogress"})), Success>>)

(* dev.c 616-621 *)
cmd_dev_start_test == dev_start_test_log

(* dev.c 650-747 *)
save_supplicant_log ==
  Do(<<If(Return(-1)), Opens, If(Then(Opens, Closes)), Closes,
       OneOf({0, -1})>>)

(* dev.c 758-841 *)
ftp_send == Do(<<If(Error), Opens, Closes, Error \cup Success>>)

(* A transfer by TFTP is answered with the name of the file, and then a    *)
(* success is returned which is answered as well.                          *)
(* dev.c 844-935 *)
dev_stop_test_log ==
  Do(<<If(Success \cup Error), Defaults({"log_file_fd"}),
       Call(save_supplicant_log), If(Error),
       Answer \cup Passed(ftp_send, SUCCESS_SEND_STATUS, Error),
       Success>>)

(* dev.c 938-943 *)
cmd_dev_stop_test == dev_stop_test_log

(* dev.c 946-951 *)
cmd_dev_upload_log == dev_stop_test_log

(* dev.c 23-57 *)
cmd_dev_send_frame ==
  UNION {miracast_dev_send_frame, cmd_sta_send_frame, cmd_ap_send_frame,
         cmd_wlantest_send_frame}

(* dev.c 60-73 *)
cmd_dev_set_parameter == cmd_sta_set_parameter \cup Invalid

(* Whatever ends it, the answer tells what has become of the certificate.  *)
(* dev.c 76-246 *)
sta_server_cert_trust ==
  LET events == Loop(Do(<<If(Sets({"server_cert_tod"})),
                          If(Sets({"sta_tod_policy"}))>>))
  IN  Invalid \cup Do(<<If(Do(<<Opens, events, Closes>>)), Answered>>)

(* dev.c 249-280 *)
dev_exec_key_rotation == Success \cup Refused

(* dev.c 283-324 *)
wpa3_dev_exec_action == UNION {Error, Answered, dev_exec_key_rotation}

(* dev.c 327-362 *)
cmd_dev_exec_action ==
  UNION {Invalid, miracast_dev_exec_action, dpp_dev_exec_action,
         sta_server_cert_trust, wpa3_dev_exec_action,
         loc_pr_cmd_dev_exec_action, Error}

(* dev.c 954-959 *)
cmd_dev_get_log == Success

(* traffic.c 29-187 *)
cmd_traffic_send_ping ==
  Do(<<If(Answered \cup Invalid), Sets({"next_streamid"}), If(Error), Opens,
       Closes, Error \cup Answered>>)

(* traffic.c 190-278 *)
cmd_traffic_stop_ping ==
  Do(<<If(Invalid \cup Answered), Opens, Closes, If(Error), If(Answered),
       Opens, Closes, Answered>>)

(* The arguments.  One that only the older iperf knows is answered with an *)
(* error and returned as an error that is answered as well.                *)
(* traffic.c 418-582 *)
iperf_arguments ==
  If(UNION {Answered, Error, Then(Answer, Error)})

(* traffic.c 583-734 *)
iperf_run ==
  Do(<<If(UNION {Refused, Error, Invalid, Answered}), Opens, Closes,
       Answered \cup Success>>)

(* traffic.c 418-734 *)
cmd_traffic_start_iperf == Then(iperf_arguments, iperf_run)

(* traffic.c 737-843 *)
iperf_ended ==
  Do(<<If(Error), If(Do(<<Opens, If(Error), Closes,
                          If(Error)>>)),
       If(Answered), Opens, Closes, If(Error), If(Answered)>>)

(* traffic.c 844-965 *)
iperf_report ==
  Do(<<Opens, Closes, UNION {Error, Answered, Refused}>>)

(* traffic.c 737-965 *)
cmd_traffic_stop_iperf == Then(iperf_ended, iperf_report)

(* atheros.c 13-62 *)
cmd_sta_atheros ==
  Do(<<If(Invalid \cup Error), If(Sets({"default_timeout"})),
       Error \cup Answered>>)

(* The success of it is not answered.                                      *)
(* atheros.c 72-113 *)
cmd_atheros_config_scan == UNION {Invalid, Error, Sent}

(* powerswitch.c 12-17 *)
cmd_power_switch_ctrl == Success

(* powerswitch.c 20-36 *)
cmd_power_switch_reset == Success

(* powerswitch.c 39-44 *)
cmd_powerswitch == Success

===============================================================================
