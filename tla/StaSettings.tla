----------------------------- MODULE StaSettings -----------------------------
(***************************************************************************)
(* The handlers of src/sta.c that set test parameters and wireless         *)
(* features: sta_preset_testparameters, sta_set_wireless, sta_set_11n,     *)
(* sta_get_parameter, and what they share for 60 GHz and MBO.              *)
(***************************************************************************)
EXTENDS StaNetwork, P2pCommands, LocationCommands, NanCommands,
        MiracastCommands

(* sta.c 6183-6330 *)
ppsmo_file ==
  Do(<<If(Return(-1) \cup Answered), If(Do(<<Opens, Closes>>)),
       If(Answered)>>)

(* sta.c 6331-6358 *)
ppsmo_end == Do(<<If(Answered), Return(1)>>)

(* sta.c 6183-6358 *)
download_ppsmo == Do(<<ppsmo_file, ppsmo_end>>)

(* sta.c 6361-6432 *)
download_cert == Do(<<If(Return(-1) \cup Answered), Return(1)>>)

(* sta.c 6435-6486 *)
cmd_sta_preset_testparameters_60ghz ==
  Do(<<If(Return(-1)), If(Do(<<Sets({"wsc_fragment"}), If(Return(-2))>>)),
       If(Sets({"eap_fragment", "force_rsn_ie", "wps_forced_version"})),
       Return(1)>>)

(* sta.c 6489-6508 *)
cmd_sta_preset_testparameters_hs2_r2 ==
  Do(<<If(UNION {download_ppsmo, download_cert, Answered}), Return(1)>>)

(* sta.c 6511-6583 *)
cmd_sta_preset_testparameters_oce ==
  Do(<<If(Answered \cup Return(-2)), If(Sets({"fils_hlp"})), Return(1)>>)

(* sta.c 6813-6845 *)
wcn_sta_set_sp_stream ==
  Do(<<If(Return(-1) \cup Do(<<Sets({"sta_nss"}), Return(0)>>)),
       Sets({"sta_nss"}), Return(0)>>)

(* sta.c 6893-6914 *)
mbo_set_cellular_data_capa == Do(<<If(Answered \cup Return(1)), Answered>>)

(* sta.c 6917-6953 *)
mbo_set_roaming ==
  Do(<<If(UNION {Return(1), Answered,
                 Do(<<Sets({"sta_roaming_disabled"}), Return(1)>>)}),
       Answered>>)

(* sta.c 6956-6983 *)
mbo_set_assoc_disallow == Do(<<If(Answered \cup Return(1)), Answered>>)

(* sta.c 6986-7012 *)
mbo_set_bss_trans_req == Do(<<If(Answered \cup Return(1)), Answered>>)

(* sta.c 7015-7098 *)
mbo_set_non_pref_ch_list ==
  Do(<<If(Return(1) \cup Answered),
       Sets({"non_pref_ch_list"})
         \cup Do(<<If(Do(<<Sets({"non_pref_ch_list"}), If(Answered)>>)),
                   Sets({"non_pref_ch_list"}),
                   If(Do(<<Answer, Sets({"non_pref_ch_list"}),
                           Return(0)>>))>>),
       If(Answered), Return(1)>>)

(* sta.c 7406-7522 *)
preset_mbo_oce ==
  Do(<<If(Refused), If(Sets({"sta_ft_ds"})),
       If(cmd_sta_preset_testparameters_hs2_r2
            \cup loc_cmd_sta_preset_testparameters),
       If(Sets({"wps_disable"})),
       If(UNION {cmd_sta_preset_testparameters_60ghz,
                 nan_cmd_sta_preset_testparameters,
                 miracast_preset_testparameters}),
       If(Caught(mbo_set_cellular_data_capa, 0, Sent)),
       If(Caught(mbo_set_non_pref_ch_list, 0, Sent)),
       If(Caught(mbo_set_bss_trans_req, 0, Sent)),
       If(Caught(mbo_set_assoc_disallow, 0, Sent)),
       If(Caught(mbo_set_roaming, 0, Sent)),
       If(Success \cup cmd_sta_preset_testparameters_oce)>>)

(* sta.c 7523-7635 *)
preset_mode_rts == Do(<<If(Answered), If(Sets({"device_mode"}))>>)

(* sta.c 7636-7785 *)
preset_tdls == If(UNION {Sent, Error, Invalid, Answered})

(* sta.c 7786-7924 *)
preset_qos ==
  Do(<<If(UNION {Answered, Error, Refused, Invalid}),
       If(Sets({"prev_disable_scs_support"})), If(Invalid \cup Refused),
       If(Sets({"prev_disable_mscs_support"})), If(Invalid \cup Refused),
       If(Sets({"dscp_reject_resp_code", "reject_dscp_policies"}))>>)

(* sta.c 7925-8045 *)
preset_pmkid ==
  Do(<<If(UNION {Invalid, Refused, Error}), If(Sets({"config_random_pmkid"})),
       If(Refused \cup Error)>>)

(* sta.c 8046-8102 *)
preset_rsnxe == Do(<<If(UNION {Invalid, Error, Refused}), Success>>)

(* sta.c 7406-8102 *)
cmd_sta_preset_testparameters ==
  Do(<<preset_mbo_oce, preset_mode_rts, preset_tdls, preset_qos, preset_pmkid,
       preset_rsnxe>>)

(* sta.c 8117-8169 *)
ath_sta_set_txsp_stream == If(Sets({"testbed_flag_txsp"}))

(* sta.c 8172-8224 *)
ath_sta_set_rxsp_stream == If(Sets({"testbed_flag_rxsp"}))

(* sta.c 8257-8315 *)
wcn_sta_set_width ==
  Do(<<If(Return(0) \cup Return(-1)), Sets({"chwidth"}),
       If(Return(0) \cup Return(-1)), If(Sets({"chwidth"})), If(Return(-1)),
       Return(0)>>)

(* sta.c 8469-8601 *)
wireless_aggregation == If(Refused)

(* sta.c 8602-8736 *)
wireless_width ==
  Do(<<If(Checked(wcn_sta_set_width, Refused)
            \cup Checked(ath_set_width, SentError)),
       If(Refused),
       If(Checked(wcn_sta_set_sp_stream, Refused)
            \cup Call(ath_sta_set_txsp_stream)),
       If(Checked(wcn_sta_set_sp_stream, Refused)
            \cup Call(ath_sta_set_rxsp_stream)),
       If(Error), If(Call(ath_config_dyn_bw_sig)), If(Refused)>>)

(* sta.c 8737-8840 *)
wireless_band == Do(<<If(Refused \cup Error), Success>>)

(* sta.c 8469-8840 *)
cmd_sta_set_wireless_common ==
  Do(<<wireless_aggregation, wireless_width, wireless_band>>)

(* sta.c 8873-8932 *)
sta_set_60g_common ==
  Do(<<If(Do(<<Sets({"amsdu_size"}),
               If(Do(<<Sets({"amsdu_size"}), Return(-2)>>)
                    \cup Return(-2))>>)),
       If(Do(<<Sets({"back_rcv_buf"}), If(Return(-2))>>)), If(Return(-2)),
       Return(1)>>)

(* sta.c 8935-9078 *)
sta_pcp_start ==
  Do(<<Sets({"mode"}), If(Return(-2)), OnNonNegative(add_network_common),
       If(Error \cup Invalid),
       If(Do(<<Sets({"ap_key_mgmt"}), If(Error)>>)), If(Error \cup Invalid),
       Success>>)

(* sta.c 9124-9246 *)
sta_set_60g_pcp ==
  Do(<<If(Answered \cup Do(<<Answer, Return(-1)>>)),
       If(Sets({"ap_channel", "ap_channel_1", "ap_ssid"})),
       If(Do(<<Answer, Return(-1)>>)), If(Sets({"ap_bcnint"})),
       If(Do(<<Answer, Return(-1)>>)), If(Sets({"ap_ampdu", "ap_amsdu"})),
       If(Do(<<Answer, Return(-1)>>)),
       Checked(sta_pcp_start, Do(<<Answer, Return(-1)>>)),
       sta_set_60g_common>>)

(* sta.c 9249-9283 *)
sta_set_60g_sta ==
  Do(<<If(Answered), Passed(start_sta_mode, 0, Return(-2)),
       sta_set_60g_common>>)

(* sta.c 9554-9655 *)
sta_get_parameter_60g ==
  Do(<<If(Invalid \cup Error), Answered>>)

(* sta.c 9658-9685 *)
sta_get_parameter_he ==
  Do(<<If(Invalid \cup Error), Answered>>)

(* sta.c 9845-9883 *)
sta_get_parameter_wpa3 ==
  Do(<<If(UNION {Invalid, Refused, Answered}), Refused>>)

(* sta.c 9886-9909 *)
sta_get_pasn_ptk == Do(<<If(Refused), Answered>>)

(* sta.c 9912-9968 *)
sta_get_pmk == Do(<<If(Refused), Answered>>)

(* sta.c 9971-9988 *)
sta_get_p2p_pmk == Do(<<If(Refused), Answered>>)

(* sta.c 9991-10038 *)
cmd_sta_get_parameter ==
  Do(<<If(UNION {Invalid, sta_get_pasn_ptk, sta_get_p2p_pmk, sta_get_pmk,
                 p2p_cmd_sta_get_parameter, sta_get_parameter_60g,
                 sta_get_parameter_he, nan_cmd_sta_get_parameter,
                 miracast_cmd_sta_get_parameter, sta_get_parameter_wpa3}),
       Answered>>)

(* sta.c 10041-10105 *)
sta_reset_default_ath ==
  If(Sets({"sta_nss", "testbed_flag_rxsp", "testbed_flag_txsp"}))

(* sta.c 10700-10751 *)
sta_get_twt_feature_async_supp ==
  Do(<<If(Return(0)), Sets({"sta_async_twt_supp"})>>)

(* sta.c 11133-11384 *)
reset_wcn_type ==
  Do(<<If(Call(sta_get_twt_feature_async_supp)),
       If(Checked(wcn_sta_set_sp_stream, {None})),
       If(Checked(wcn_sta_set_sp_stream, {None}))>>)

(* sta.c 11119-11418 *)
sta_reset_default_wcn == Do(<<reset_wcn_type>>)

(* sta.c 11421-11443 *)
sta_set_client_privacy ==
  Do(<<If(Return(-1)), Sets({"client_privacy"}), Return(0)>>)

(* sta.c 12020-12076 *)
cmd_sta_set_11n == Do(<<If(Answered), cmd_sta_set_wireless_common>>)

(* sta.c 12998-13120 *)
vht_coding ==
  Do(<<If(Refused),
       If(Do(<<Call(ath_sta_set_txsp_stream), Call(ath_sta_set_rxsp_stream)>>)
            \cup Checked(wcn_sta_set_sp_stream, Refused))>>)

(* sta.c 13121-13240 *)
vht_mcs == If(Sets({"chwidth"}))

(* sta.c 13241-13418 *)
vht_nss ==
  Do(<<If(Refused),
       If(Do(<<Checked(wcn_sta_set_sp_stream, {None}), If(Refused)>>))>>)

(* sta.c 13419-13547 *)
vht_sounding ==
  Do(<<If(Refused),
       If(Checked(wcn_sta_set_width, Refused)
            \cup Checked(ath_set_width, Refused)),
       If(Refused)>>)

(* sta.c 13548-13694 *)
vht_twt == If(Refused)

(* sta.c 13695-13826 *)
vht_blockack == Do(<<If(Refused), cmd_sta_set_wireless_common>>)

(* sta.c 12998-13826 *)
cmd_sta_set_wireless_vht ==
  Do(<<vht_coding, vht_mcs, vht_nss, vht_sounding, vht_twt, vht_blockack>>)

(* sta.c 13974-13987 *)
eht_to_vht == cmd_sta_set_wireless_vht

(* sta.c 13829-13987 *)
cmd_sta_set_wireless_eht == Do(<<eht_to_vht>>)

(* sta.c 13990-14009 *)
sta_set_wireless_60g ==
  Do(<<If(UNION {Answered, sta_set_60g_pcp, sta_set_60g_sta}), Answered>>)

(* sta.c 14012-14025 *)
sta_set_wireless_oce ==
  Do(<<If(OnZero(sta_cfon_set_wireless)), cmd_sta_set_wireless_common>>)

(* sta.c 14028-14073 *)
sta_set_wireless_wpa3 ==
  Do(<<If(Sets({"ocvc"})), If(Passed(sta_set_client_privacy, 0, Refused)),
       If(Refused \cup cmd_sta_set_wireless_eht),
       cmd_sta_set_wireless_common>>)

(* sta.c 14076-14115 *)
sta_set_wireless_loc_r2 ==
  Do(<<If(Sets({"i2rlmr_iftmr", "i2rlmrpolicy"})),
       If(Do(<<Sets({"urnm_mfpr_x20"}), If(Refused)>>)), Success>>)

(* sta.c 14118-14127 *)
sta_set_wireless_qm ==
  Do(<<If(cmd_sta_set_wireless_eht), cmd_sta_set_wireless_common>>)

(* sta.c 14130-14167 *)
cmd_sta_set_wireless ==
  Do(<<If(UNION {cmd_sta_set_11n, cmd_sta_set_wireless_vht,
                 sta_set_wireless_60g, sta_set_wireless_oce,
                 sta_set_wireless_wpa3, sta_set_wireless_loc_r2,
                 cmd_sta_set_wireless_eht, sta_set_wireless_qm}),
       Answered>>)

===============================================================================
