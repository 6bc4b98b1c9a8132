----------------------------- MODULE NanCommands -----------------------------
(***************************************************************************)
(* The handlers of src/nan.c, in a build with ANDROID_NAN: what the CAPI   *)
(* commands for the NAN program do.  Requests go to the Wi-Fi HAL; a       *)
(* helper whose request fails may answer although its caller answers too.  *)
(***************************************************************************)
EXTENDS SharedHelpers

(* nan.c 3193-3214 *)
nan_init == Passed(wifi_hal_initialize, 0, {None})

(* nan.c 334-430 *)
nan_cmd_sta_preset_testparameters ==
  Do(<<If(Sets({"sta_channel"})), If(Sets({"nan_pmk", "nan_pmk_len"})),
       If(Then(Sets({"ndpe"}), If(Answered))), If(Sets({"trans_proto"})),
       If(Answered), Answered>>)

(* nan.c 2327-2372 *)
nan_further_availability_rx == Then(If(Answered), Sent)

(* nan.c 2375-2432 *)
nan_further_availability_tx == Do(<<If(Answered), If(Answer), Sent>>)

(* nan.c 457-643 *)
sigma_nan_enable ==
  Do(<<If(Sets({"ndpe"})),
       If(Then(Call(nan_further_availability_tx)
                 \cup Call(nan_further_availability_rx), Sent)),
       Sent>>)

(* nan.c 661-705 *)
sigma_nan_config_enable == Then(If(Answer), Sent)

(* nan.c 708-976 *)
sigma_nan_subscribe_request ==
  Do(<<If(Then(If(Answer), Sent)), If(Error), If(Sets({"dev_info"})),
       If(Answer), Sent>>)

(* nan.c 979-1000 *)
sigma_ndp_configure_band == Then(If(Answer), Sent)

(* nan.c 1003-1259 *)
sigma_nan_data_request ==
  Do(<<If(Sets({"ndpe"})), If(Answered), Sets({"ndp_enable"}),
       If(Invalid), If(Answered), Sent>>)

(* nan.c 1262-1382 *)
sigma_nan_data_response ==
  Do(<<If(Sent), If(Answer), If(Answer), If(Answered), Sent>>)

(* nan.c 1631-1733 *)
sigma_nan_pairing_setup ==
  LET roles == Sets({"dev_info", "peer_info"})
  IN  Do(<<If(Invalid \cup Then(roles, Sent)), Sets({"peer_info"}),
           If(Invalid), roles, Sent>>)

(* nan.c 1830-1914 *)
sigma_nan_pairing_verification ==
  LET roles == Sets({"dev_info", "peer_info"})
  IN  Do(<<If(Invalid \cup Then(roles, Sent)), If(Sets({"peer_info"})),
           If(Invalid), roles, Sent>>)

(* nan.c 1919-2324 *)
sigma_nan_publish_request ==
  Do(<<If(Then(If(Answer), Sent)), If(Error), If(Sets({"ndpe"})),
       If(Sets({"trans_proto"}) \cup Invalid), If(Answered \cup Invalid),
       If(Sets({"dev_info"})), If(Answer), If(Sets({"ndp_enable"})), Sent>>)

(* nan.c 2435-2528 *)
sigma_nan_transmit_followup == Do(<<If(Invalid), If(Answer), Sent>>)

(* nan.c 2533-2611 *)
sigma_nan_bootstrapping_request ==
  Do(<<If(Invalid \cup Then(Answer, Invalid)),
       Sets({"dev_info", "peer_info"}), Sent>>)

(* nan.c 2614-2708 *)
sigma_nan_bootstrapping_indication_response ==
  Do(<<If(Invalid), If(Sets({"peer_info"})), If(Then(Answer, Invalid)),
       Sets({"peer_info"}), Sent>>)

(* nan.c 2713-2734 *)
sigma_nan_handle_followup_method ==
  UNION {sigma_nan_bootstrapping_request,
         sigma_nan_bootstrapping_indication_response,
         sigma_nan_transmit_followup}

(* nan.c 3217-3283 *)
nan_cmd_sta_reset_default ==
  Do(<<If(Defaults({"nanservicediscoveryinprogress"})), If(Call(nan_init)),
       Defaults({"nan_pmk", "nan_pmk_len", "sta_channel", "data_ch_freq",
                 "ndpe", "trans_proto", "trans_port", "dev_info",
                 "peer_info"})>>)

(* The operation that switches NAN on or off.                              *)
(* nan.c 3318-3410 *)
nan_exec_op ==
  LET on == Do(<<Passed(sigma_nan_enable, 0, Then(Answer, Invalid)), Answer,
                 If(Call(sigma_ndp_configure_band)),
                 If(Sets({"data_ch_freq"}))>>)
  IN  UNION {{None}, on, Answer}

(* The method, once NAN is on: every helper is followed by COMPLETE.       *)
(* nan.c 3412-3476 *)
nan_exec_method ==
  LET helper == UNION {sigma_nan_publish_request, sigma_nan_data_request,
                       sigma_nan_data_response, sigma_nan_config_enable,
                       sigma_nan_subscribe_request,
                       sigma_nan_handle_followup_method}
  IN  UNION {{None}, Answer, Then(Call(helper), Answer)}

(* Without an operation and with NAN off there is no answer at all.        *)
(* nan.c 3286-3554 *)
nan_cmd_sta_exec_action ==
  Do(<<If(Invalid \cup Answered),
       nan_exec_op \cup nan_exec_method,
       If(Sets({"dev_info"})), If(Call(sigma_nan_pairing_setup)),
       If(Call(sigma_nan_pairing_verification)), If(Answered), Sent>>)

(* nan.c 3557-3743 *)
nan_cmd_sta_get_parameter ==
  UNION {Invalid, Answered, Refused}

(* nan.c 3746-3771 *)
nan_cmd_sta_get_events == Sent \cup Answered

===============================================================================
