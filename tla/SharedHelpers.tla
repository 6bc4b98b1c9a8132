---------------------------- MODULE SharedHelpers ----------------------------
(***************************************************************************)
(* Functions that the handlers of several command families call: starting  *)
(* and stopping the station and its DHCP client, the log of a test, mDNS   *)
(* for DPP, target wake time and 60 GHz frames; and the handlers of        *)
(* src/basic.c.                                                            *)
(***************************************************************************)
EXTENDS Handlers

(* wpa_helpers.c 1070-1091 *)
stop_sta_mode ==
  Do(<<If(Sent), Defaults({"sta_2g_started", "sta_5g_started"})>>)

(* wpa_helpers.c 947-1067 *)
start_sta_mode ==
  Do(<<If(Return(0)), If(Call(stop_sta_mode)), Sets({"mode"}),
       If(Return(0) \cup Return(-1)), Opens, If(Do(<<Closes, Return(-1)>>)),
       Closes, If(Return(-1)), If(Sets({"sta_2g_started", "sta_5g_started"})),
       Return(0)>>)

(* sta.c 1274-1321 *)
kill_dhcp_client == Defaults({"dhcp_client_running"})

(* sta.c 1357-1404 *)
start_dhcp_client ==
  Do(<<If(Return(0) \cup Return(-1)), Sets({"dhcp_client_running"}),
       Return(0)>>)

(* sta.c 6785-6810 *)
ath_set_width ==
  Do(<<If(Do(<<Answer, Return(-1)>>)), Sets({"chwidth"}), Return(0)>>)

(* sta.c 14270-14361 *)
wil6210_send_addba ==
  Do(<<If(Return(-1)), Opens, If(Do(<<Closes, Return(-1)>>)), Closes,
       If(Return(-1)), Opens, Closes, Return(0)>>)

(* sta.c 14364-14391 *)
send_addba_60g ==
  Do(<<If(Return(-2)), Passed(wil6210_send_addba, 0, Return(-1)), Return(1)>>)

(* dhcp.c 232-244 *)
hlp_thread_cleanup == If(Sets({"hlp_thread"}))

(* dhcp.c 247-270 *)
process_fils_hlp ==
  Do(<<If(Sent), If(Sets({"hlp_thread"}))>>)

(* sigma_dut.c 58-86 *)
wifi_hal_initialize ==
  Do(<<If(Return(0) \cup Return(-1)),
       Sets({"wifi_hal_iface_handle", "wifi_hal_initialized"}), Return(0)>>)

(* dev.c 541-613 *)
dev_start_test_log ==
  Do(<<If(UNION {Invalid, Success, Error}),
       If(Do(<<Opens, If(Sets({"wpa_log_size"})), Closes>>)),
       Sets({"dev_start_test_runtime_id"}), If(Sets({"log_file_fd"})),
       Success>>)

(* dpp.c 339-483 *)
dpp_mdns_lookup ==
  OneOf({0, -1})

(* The service that is found is kept in dut->mdns_discover only while it   *)
(* is read.                                                                *)
(* dpp.c 225-338 *)
dpp_mdns_discover ==
  Restored({"mdns_discover"},
           Do(<<If(Return(-1)), Sets({"mdns_discover"}), dpp_mdns_lookup>>))

(* dpp.c 486-538 *)
dpp_mdns_discover_relay_params ==
  Do(<<Checked(dpp_mdns_discover, Return(-1)),
       Sets({"ap_dpp_conf_addr", "ap_dpp_conf_pkhash"}), OneOf({0, -1})>>)

(* dpp.c 4402-4571 *)
dpp_mdns_start ==
  Do(<<If(Return(-1)), If(Sets({"mdns_service"})), If(Return(-1)),
       Sets({"dpp_mdns"}), Return(0)>>)

(* dpp.c 4574-4591 *)
dpp_mdns_stop == Defaults({"dpp_mdns", "mdns_service"})

(* ap.c 393-414 *)
ath_config_dyn_bw_sig == If(Sets({"ap_dyn_bw_sig"}))

(* basic.c 21-36 *)
cmd_ca_get_version == Answered

(* basic.c 76-217 *)
cmd_device_get_info ==
  Do(<<If(Do(<<Opens, Closes>>)), If(Do(<<Opens, Closes>>)), If(Error),
       Answered>>)

(* basic.c 228-258 *)
cmd_device_list_interfaces ==
  Do(<<If(UNION {Invalid, Error, Refused}), If(Sets({"use_5g"})), Answered>>)

(* sta.c 16017-16070 *)
wil6210_send_frame_60g == OneOf({-1, 1})

(* sta.c 12537-12790 *)
sta_twt_request == OneOf({0, -1})

===============================================================================
