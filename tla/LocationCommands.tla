--------------------------- MODULE LocationCommands --------------------------
(***************************************************************************)
(* The handlers of src/ftm.c for the location programs (LOC, LOCR2, PR):   *)
(* requests are written to a file that a test program of the platform      *)
(* reads.                                                                  *)
(***************************************************************************)
EXTENDS SharedHelpers

(* ftm.c 70-175 *)
loc_write_xml_file ==
  Do(<<If(Invalid), Opens, Closes, Sent \cup Invalid>>)

(* ftm.c 178-229 *)
pass_request_to_ltest == OneOf({INVALID_SEND_STATUS, STATUS_SENT})

(* ftm.c 232-398 *)
loc_cmd_sta_exec_action ==
  Do(<<If(Invalid \cup Answered), Checked(loc_write_xml_file, Answered),
       Checked(pass_request_to_ltest, Answered), Answered>>)

(* A negative result after an answer gives two status lines.               *)
(* ftm.c 401-510 *)
loc_cmd_sta_send_frame ==
  Do(<<If(UNION {Invalid, Answered, Then(Answer, Invalid)}),
       Checked(pass_request_to_ltest, Answered), Answered>>)

(* ftm.c 613-695 *)
loc_cmd_sta_preset_testparameters ==
  UNION {Answered, Then(Answer, Invalid)}

(* ftm.c 698-729 *)
lowi_cmd_sta_reset_ptksa_cache == Refused \cup Sent

(* What the clearing of the cache has answered is not asked for.           *)
(* ftm.c 732-756 *)
lowi_cmd_sta_reset_default ==
  Do(<<Passed(wifi_hal_initialize, STATUS_SENT, Invalid),
       Defaults({"i2rlmrpolicy", "urnm_mfpr_x20"}),
       Call(lowi_cmd_sta_reset_ptksa_cache),
       InProgram({"PR"}, Defaults({"urnm_mfpr_x20", "rnm_mfp"})),
       Sent>>)

(* ftm.c 759-782 *)
loc_pr_set_11az_config == Do(<<If(Invalid), Opens, Closes, Sent \cup Invalid>>)

(* ftm.c 785-890 *)
loc_pr_write_xml_file ==
  Do(<<If(Invalid), Opens, Closes,
       Invalid \cup Then(Defaults({"i2rlmr_iftmr"}), Sent)>>)

(* The frequency, or 0; a failure may already be answered.                 *)
(* ftm.c 893-953 *)
loc_pr_get_bss_frequency ==
  LET scan == Do(<<Opens, If(Do(<<Answer, Closes, Sent>>)), Closes,
                   If(Answered), Success>>)
  IN  UNION {Answered, Sent, scan}

(* ftm.c 956-1090 *)
loc_exec_action ==
  Do(<<If(Invalid \cup Answered), Sets({"sectype"}),
       Call(loc_pr_get_bss_frequency),
       Checked(loc_pr_write_xml_file, Answered),
       Checked(loc_pr_set_11az_config, Answered),
       Checked(pass_request_to_ltest, Answered), Answered>>)

(* ftm.c 1093-1097 *)
loc_r2_cmd_sta_exec_action == loc_exec_action

(* ftm.c 1100-1104 *)
loc_pr_cmd_dev_exec_action == loc_exec_action

===============================================================================
