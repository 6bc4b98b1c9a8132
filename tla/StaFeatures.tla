----------------------------- MODULE StaFeatures -----------------------------
(***************************************************************************)
(* The handlers of src/sta.c that change features while the station is     *)
(* connected: sta_set_rfeature for every program, sta_set_power_save, the  *)
(* MAC address and the single parameters.                                  *)
(***************************************************************************)
EXTENDS StaFrames

(* sta.c 18148-18168 *)
cmd_sta_set_parameter_hs2 == Do(<<If(Answered), Return(1)>>)

(* sta.c 18171-18189 *)
cmd_sta_set_parameter ==
  Do(<<If(Return(-1) \cup cmd_sta_set_parameter_hs2), Return(-1)>>)

(* sta.c 18192-18234 *)
cmd_sta_set_macaddr ==
  Do(<<If(UNION {Invalid,
                 Do(<<Sets({"tmp_mac_addr"}), If(Invalid \cup Answered),
                      Success>>),
                 Success}),
       Answered>>)

(* sta.c 18237-18256 *)
iwpriv_tdlsoffchnmode == Do(<<If(Return(-1) \cup Answered), Return(1)>>)

(* sta.c 18274-18304 *)
iwpriv_set_offchan == Do(<<If(Return(-1) \cup Answered), Return(1)>>)

(* sta.c 18307-18340 *)
tdls_set_offchannel_offset == Do(<<If(Return(-1) \cup Answered), Return(1)>>)

(* sta.c 18343-18363 *)
tdls_set_offchannel_mode == Do(<<If(Return(-1) \cup Answered), Return(1)>>)

(* sta.c 18484-18586 *)
rfeature_tdls_timers ==
  Do(<<If(Answered), If(Sets({"no_tpk_expiration"})),
       If(Answered \cup Return(1))>>)

(* sta.c 18587-18646 *)
rfeature_tdls_switch ==
  LET offchannel == tdls_set_offchannel_offset \cup iwpriv_set_offchan
      mode == tdls_set_offchannel_mode \cup iwpriv_tdlsoffchnmode
  IN  UNION {Success, Answered, Do(<<OnSuccess(offchannel), mode>>), mode}

(* sta.c 18484-18646 *)
cmd_sta_set_rfeature_tdls ==
  Do(<<rfeature_tdls_timers, rfeature_tdls_switch>>)

(* A rejected rate is reported as if the status had been sent.             *)
(* sta.c 18649-18705 *)
ath_sta_set_rfeature_vht == Sent \cup Success

(* sta.c 18708-18720 *)
cmd_sta_set_rfeature_vht == ath_sta_set_rfeature_vht \cup Answered

(* sta.c 18723-18869 *)
rfeature_nss ==
  Do(<<If(Error), If(Checked(wcn_sta_set_sp_stream, Error)),
       If(Error \cup Refused)>>)

(* sta.c 18870-19005 *)
rfeature_gi_tx == If(Refused)

(* sta.c 19006-19137 *)
rfeature_twt ==
  Do(<<If(Refused), If(Call(mbo_set_bss_trans_req)),
       If(UNION {Invalid, Error, Answered, Refused})>>)

(* sta.c 19138-19284 *)
rfeature_mlo ==
  Do(<<If(Refused \cup Error), If(Caught(mbo_set_non_pref_ch_list, 0, Sent)),
       If(Caught(mbo_set_cellular_data_capa, 0, Sent)),
       If(Invalid \cup Error), Success>>)

(* sta.c 18723-19284 *)
wcn_sta_set_rfeature_he ==
  Do(<<rfeature_nss, rfeature_gi_tx, rfeature_twt, rfeature_mlo>>)

(* sta.c 19409-19422 *)
sta_mac80211_he_ltf == Do(<<Sets({"ar_ltf"}), If(Refused), Success>>)

(* sta.c 19425-19476 *)
sta_mac80211_he_gi ==
  Do(<<If(Invalid), If(Do(<<Sets({"ar_ltf"}), If(Error)>>)), If(Error),
       Success>>)

(* sta.c 19479-19512 *)
mac80211_sta_set_rfeature_he ==
  Do(<<If(OnSuccess(sta_mac80211_he_ltf)), If(OnSuccess(sta_mac80211_he_gi)),
       If(Refused), If(Caught(mbo_set_non_pref_ch_list, 0, Sent)), Success>>)

(* sta.c 19515-19529 *)
cmd_sta_set_rfeature_he ==
  UNION {mac80211_sta_set_rfeature_he, wcn_sta_set_rfeature_he, Refused}

(* sta.c 19532-19599 *)
cmd_sta_set_power_save_wcn ==
  Do(<<If(UNION {Return(-1), Refused, Return(0), Return(1)}), Answered>>)

(* sta.c 19602-19695 *)
btm_query_candidate_list ==
  Do(<<If(Answered),
       If(Do(<<Sets({"btm_query_cand_list"}), If(Answered)>>)),
       Sets({"btm_query_cand_list"}),
       If(Do(<<Answer, Sets({"btm_query_cand_list"}), Return(0)>>)),
       Return(1)>>)

(* sta.c 19751-19766 *)
sta_set_60g_ese == OneOf({-1, 1})

(* sta.c 19769-19799 *)
cmd_sta_set_rfeature_60g ==
  UNION {Invalid, sta_set_60g_ese, Success, Answered}

(* sta.c 19920-20028 *)
cmd_sta_set_rfeature_wpa3 == Do(<<If(Refused \cup Success), Refused>>)

(* sta.c 20031-20093 *)
cmd_sta_set_rfeature_qm ==
  Do(<<If(UNION {Error, Do(<<Sets({"qm_domain_name"}), Success>>), Invalid,
                 Refused,
                 Do(<<Sets({"dscp_status.status"}),
                      If(Sets({"dscp_status.id", "num_dscp_status"})),
                      Success>>),
                 Success}),
       Refused>>)

(* sta.c 20096-20124 *)
cmd_sta_set_rfeature_loc_r2 ==
  Do(<<If(Sets({"rnm_mfp"})),
       If(Do(<<Sets({"urnm_mfpr_x20"}), If(Refused)>>)), Success>>)

(* sta.c 20127-20182 *)
cmd_sta_set_rfeature ==
  Do(<<If(Invalid), If(Caught(btm_query_candidate_list, 0, Sent)),
       If(UNION {cmd_sta_set_rfeature_tdls, cmd_sta_set_rfeature_vht,
                 cmd_sta_set_rfeature_he,
                 Do(<<If(Caught(mbo_set_cellular_data_capa, 0, Sent)),
                      If(Caught(mbo_set_non_pref_ch_list, 0, Sent)),
                      Success>>),
                 cmd_sta_set_rfeature_60g, cmd_sta_set_rfeature_wpa3,
                 cmd_sta_set_rfeature_qm, cmd_sta_set_rfeature_loc_r2}),
       Answered>>)

(* sta.c 20185-20210 *)
cmd_sta_set_radio == Do(<<If(Invalid \cup Answered), Success>>)

(* sta.c 20213-20262 *)
cmd_sta_set_pwrsave ==
  Do(<<If(UNION {Invalid, cmd_sta_set_power_save_wcn, Answered}), Success>>)

===============================================================================
