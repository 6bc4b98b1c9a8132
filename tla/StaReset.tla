------------------------------- MODULE StaReset ------------------------------
(***************************************************************************)
(* sta_reset_default, sta_get_events and sta_exec_action of src/sta.c.     *)
(* sta_reset_default is what a test begins with: it puts the station back  *)
(* to its defaults, by command and by program.                             *)
(***************************************************************************)
EXTENDS StaFeatures

(* sta.c 11542-11649 *)
sta_reset_program ==
  Do(<<Sets({"program"}), If(Sets({"use_5g"})),
       InProgram({"WFD"}, If(Sets({"default_timeout"}))),
       Defaults({"device_mode"}), Sets({"device_type"}),
       If(Call(dev_start_test_log)),
       InProgram({"TDLS"}, Defaults({"no_tpk_expiration"})),
       InProgram({"WFD", "DISPLAYR2"}, Call(miracast_sta_reset_default)),
       If(Call(sta_reset_default_ath) \cup Call(sta_reset_default_wcn)),
       InProgram({"NAN"}, Call(nan_cmd_sta_reset_default)),
       InProgram({"LOC", "LOCR2", "PR"},
                 Checked(lowi_cmd_sta_reset_default, Error)),
       InProgram({"WPS"},
                 Do(<<Sets({"band"}), If(Defaults({"wps_disable"}))>>)),
       InProgram({"60GHZ"}, Sets({"wps_disable"}))>>)

(* A member whose reset is under the condition that let it be set (the     *)
(* driver, an option of the program) is reset.                             *)
(* sta.c 11650-11799 *)
sta_reset_role ==
  LET sixtyGHz == Then(Answered \cup Sets({"dev_role"}),
                       If(Answered \cup Error))
  IN  Do(<<InProgram({"60GHZ"}, sixtyGHz), InProgram({"WPS"}, If(sixtyGHz)),
           Defaults({"wps_forced_version", "wsc_fragment"}),
           If(Defaults({"force_rsn_ie"})),      \* 60 GHz devices
           Defaults({"tmp_mac_addr"}),
           Call(kill_dhcp_client),
           Defaults({"er_oper_performed", "er_oper_bssid",
                     "sta_roaming_disabled"}),
           InProgram({"MBO", "HE", "EHT"},
                     Defaults({"non_pref_ch_list", "btm_query_cand_list"})),
           Defaults({"rsne_override", "sae_commit_override", "sae_pwe",
                     "sta_associate_wait_connect", "server_cert_hash",
                     "server_cert_tod", "sta_tod_policy", "dpp_conf_id",
                     "dpp_peer_uri", "dpp_local_bootstrap"}),
           Call(dpp_mdns_stop)>>)

(* sta.c 11800-11895 *)
sta_reset_features ==
  Do(<<InProgram({"OCE"}, Do(<<Defaults({"fils_hlp"}),
                               Call(hlp_thread_cleanup)>>)),
       InProgram({"QM"}, Do(<<Defaults({"qm_domain_name", "num_dscp_status",
                                        "reject_dscp_policies"}),
                              Call(stop_dscp_policy_mon_thread),
                              Call(clear_all_dscp_policies)>>)),
       Defaults({"akm_values", "sta_ft_ds"}),
       Defaults({"config_rsnie", "config_random_pmkid"}),
       If(Do(<<Sets({"dev_role"}), sta_cfon_reset_default>>)),
       Defaults({"ocvc", "beacon_prot"}), Call(sta_set_client_privacy),
       Defaults({"saquery_oci_freq", "prev_disable_scs_support",
                 "prev_disable_mscs_support"}),
       IF program = "VHT" THEN Success ELSE sta_p2p_reset_default>>)

(* sta.c 11542-11895 *)
cmd_sta_reset_default ==
  Do(<<sta_reset_program, sta_reset_role, sta_reset_features>>)

(* sta.c 11898-11912 *)
cmd_sta_get_events ==
  UNION {Invalid, Answered, nan_cmd_sta_get_events}

(* sta.c 11915-11978 *)
sta_exec_action_url ==
  Do(<<If(UNION {Return(-1), Answered, Return(1)}), Answered>>)

(* sta.c 11981-12017 *)
cmd_sta_exec_action ==
  LET p2p == Then(Sets({"program"}),
                  usd_cmd_sta_exec_action \cup p2p_cmd_sta_exec_action)
  IN  UNION {Invalid, nan_cmd_sta_exec_action, p2p, loc_cmd_sta_exec_action,
             loc_r2_cmd_sta_exec_action, sta_exec_action_url, Answered}

(* sta.c 20319-20334 *)
cmd_sta_reset_parm == Success

===============================================================================
