------------------------------ MODULE ApCommands -----------------------------
(***************************************************************************)
(* The handlers of the access point commands, src/ap.c.  The lines that    *)
(* write hostapd.conf and the vendor tools' parameters are not followed,   *)
(* only where they give up.                                                *)
(***************************************************************************)
EXTENDS SharedHelpers

(* ap.c 164-171 *)
cmd_ap_ca_version == Answered

(* ap.c 363-390 *)
wcn_config_dyn_bw_sig == Do(<<If(Return(0)), Sets({"ap_dyn_bw_sig"})>>)

(* ap.c 463-507 *)
mac80211_config_rts_force == Do(<<If(Return(0)), If(Sets({"ap_sig_rts"}))>>)

(* ap.c 510-538 *)
ath_config_rts_force == If(Sets({"ap_sig_rts"}))

(* ap.c 699-753 *)
set_vht_mcsmap_nss == Sets({"ap_vhtmcs_map"})

(* ap.c 756-839 *)
set_eht_mcsmap_nss == Sets({"ap_ehtmcs_map"})

(* ap.c 887-911 *)
ap_set_wireless_pr ==
  If(Sets({"ap_pasn_unauth", "i2rlmrpolicy", "rnm_mfp",
           "secure_ltf_supported", "urnm_mfpr_x20"}))

(* ap.c 1049-1188 *)
ap_wireless_channel ==
  Do(<<If(Sets({"program"})), If(Call(ap_set_wireless_pr)), If(Answered),
       If(Sets({"ap_interface_2g", "ap_interface_5g", "ap_is_dual"})),
       If(Invalid), If(Sets({"ap_countrycode", "ap_regulatory_mode"})),
       If(Invalid),
       If(Sets({"ap_band_6g", "ap_center_freq", "ap_channel", "ap_channel_1",
                "ap_ssid", "ap_tag_channel", "ap_tag_ssid"}))>>)

(* ap.c 1189-1316 *)
ap_wireless_mode ==
  Do(<<If(Sets({"ap_dfs_mode"})), If(Invalid),
       Do(<<Sets({"ap_mode"}), If(Sets({"ap_is_dual"})), If(Answered),
            If(Sets({"ap_chwidth"})),
            If(Do(<<Sets({"ap_mode_1"}), If(Answered), Sets({"ap_is_dual"}),
                    If(Sets({"ap_chwidth_1"}))>>))>>)
         \cup If(Sets({"ap_mode"})),
       If(Sets({"ap_bcnint", "ap_channel", "ap_frgmnt", "ap_mode", "ap_rts",
                "ap_wme", "ap_wmmps", "use_5g"}))>>)

(* ap.c 8965-9136 *)
commit_conf_open ==
  Do(<<If(Error), Opens, If(Do(<<Closes, Invalid>>)),
       If(Sets({"ap_tx_stbc"}))>>)

(* Both ways out leave the configuration file open.                        *)
(* ap.c 9137-9272 *)
commit_mld ==
  If(Refused \cup Error)

(* ap.c 9273-9350 *)
commit_wep ==
  If(Do(<<Closes, Error>>))

(* ap.c 9351-9562 *)
commit_akm == If(Do(<<Closes, Error>>))

(* ap.c 9563-9709 *)
commit_ciphers ==
  If(Do(<<Closes, Error>>))

(* ap.c 9710-9838 *)
commit_hs2 ==
  If(Do(<<Closes, Error>>))

(* ap.c 8694-8721 *)
find_ap_ampdu_exp_and_max_mpdu_len ==
  If(Sets({"ap_ampdu_exp", "ap_max_mpdu_len"}))

(* ap.c 9890-10026 *)
commit_vht ==
  Do(<<If(Do(<<Answer, Closes, Sent>>)),
       If(Do(<<If(Sets({"ap_vht_chwidth"})),
               Call(find_ap_ampdu_exp_and_max_mpdu_len)>>))>>)

(* ap.c 10027-10142 *)
commit_owe ==
  Do(<<If(Do(<<If(Do(<<Opens, Closes>>)), If(Do(<<Closes, Error>>))>>)),
       If(Do(<<If(Do(<<Closes, Error>>)), If(Do(<<Opens, Closes>>))>>)),
       Closes>>)

(* ap.c 7805-7928 *)
ath_commit_start == If(Return(-2) \cup Answered)

(* ap.c 7929-8076 *)
ath_commit_security == If(Return(-2) \cup Answered)

(* ap.c 6236-6270 *)
ath_ap_append_hostapd_conf ==
  Do(<<If(Return(-2)), Opens, If(Do(<<Closes, Return(-2)>>)), Closes,
       Return(0)>>)

(* ap.c 7016-7161 *)
ath_params_wmm ==
  Do(<<If(Return(0)), If(Do(<<Opens, Closes, If(Return(0)), Opens, Closes>>)),
       If(Return(0)), If(Do(<<Opens, Closes, If(Return(0)), Opens, Closes>>)),
       If(Return(0)),
       If(Do(<<Opens, Closes, If(Return(0)), Opens, Closes>>))>>)

(* ap.c 7162-7310 *)
ath_params_loc == If(Sets({"hostapd_running"}))

(* ap.c 7311-7391 *)
ath_params_coding == If(Sets({"ap_bcc"}))

(* ap.c 7516-7662 *)
ath_params_he == If(Call(set_eht_mcsmap_nss))

(* ap.c 6746-7802 *)
ath_ap_set_params ==
  Do(<<ath_params_wmm, ath_params_loc, ath_params_coding, ath_params_he>>)

(* A domain name list, a NAI or an icon that cannot be copied returns 0,   *)
(* which says that the status has been sent.                               *)
(* ap.c 8077-8224 *)
ath_commit_hs2 ==
  Do(<<If(UNION {Return(0), Return(-2), Answered}),
       If(Do(<<OnNonNegative(ath_ap_append_hostapd_conf), If(Answered)>>)),
       Call(ath_ap_set_params)>>)

(* ap.c 6286-6477 *)
cmd_ath_ap_anqpserver_start ==
  Do(<<If(Return(-1)), Opens, If(Do(<<Closes, Return(0) \cup Return(-1)>>)),
       Closes, Return(1)>>)

(* ap.c 8225-8235 *)
ath_commit_4 ==
  cmd_ath_ap_anqpserver_start \cup Return(1)

(* ap.c 7805-8235 *)
cmd_ath_ap_config_commit ==
  Do(<<ath_commit_start, ath_commit_security, ath_commit_hs2, ath_commit_4>>)

(* After ten attempts it returns the 1 of the comparison of stat().        *)
(* ap.c 5557-5753 *)
cmd_wcn_ap_config_commit == Return(1) \cup Return(-1)

(* ap.c 4192-4382 *)
owrt_vap_tags ==
  Loop(Do(<<If(Sets({"ap_tag_ssid"})), If(Return(-1))>>))

(* The socket that reads the address for FILS HLP is closed only when the  *)
(* address cannot be read.                                                 *)
(* ap.c 4383-4530 *)
owrt_vap_oce ==
  Do(<<If(Return(-1)),
       If(Do(<<If(Return(-1)), Opens, If(Do(<<Closes, Return(-1)>>))>>))>>)

(* The results of owrt_ap_config_vap_hs2 are those of strdup.              *)
(* ap.c 4727-4797 *)
owrt_vap_hs2 == If(UNION {Return(1), Return(-1)})

(* ap.c 4991-5151 *)
owrt_vap_ft ==
  Do(<<If(Return(-1)), If(Sets({"ap_mu_txBF", "ap_txBF"})), Return(1)>>)

(* ap.c 4192-5151 *)
owrt_ap_config_vap ==
  Do(<<Loop(Do(<<owrt_vap_tags, owrt_vap_oce>>)), owrt_vap_hs2, owrt_vap_ft>>)

(* ap.c 5202-5232 *)
owrt_ap_post_config_commit ==
  Do(<<If(Answered), If(Call(ath_ap_set_params)), Return(1)>>)

(* ap.c 5235-5281 *)
cmd_owrt_ap_config_commit ==
  Do(<<If(Return(-2)), Checked(owrt_ap_config_vap, Return(-2)),
       owrt_ap_post_config_commit>>)

(* ap.c 8899-8964 *)
commit_dispatch ==
  Do(<<If(Refused), If(Call(stop_sta_mode)), Sets({"mode"}),
       If(Call(dpp_mdns_discover_relay_params)),
       If(UNION {cmd_ath_ap_config_commit, cmd_wcn_ap_config_commit,
                 cmd_owrt_ap_config_commit})>>)

(* ap.c 10143-10318 *)
commit_start ==
  Do(<<Sets({"hostapd_running"}), If(Do(<<Opens, Closes>>)),
       If(UNION {Answered, Refused, Invalid, Error})>>)

(* ap.c 10319-10442 *)
commit_after ==
  Do(<<If(UNION {Error, Answered, Do(<<Answer, Error>>), Invalid}),
       Sets({"hostapd_running"}), Success>>)

(* A dual radio access point writes two configuration files.               *)
(* ap.c 8899-8925, 10135-10142 *)
cmd_ap_config_commit ==
  LET write_conf ==
        Do(<<commit_conf_open, commit_mld, commit_wep, commit_akm,
             commit_ciphers, commit_hs2, commit_vht, commit_owe>>)
  IN Do(<<commit_dispatch, write_conf, If(write_conf), commit_start,
          commit_after>>)

(* ap.c 1317-1464 *)
ap_wireless_radio ==
  Do(<<If(Answered),
       If(Passed(cmd_ap_config_commit, SUCCESS_SEND_STATUS, Sent)),
       If(Sets({"ap_addba_reject", "ap_ampdu", "ap_ampdu_exp", "ap_amsdu",
                "ap_chwidth_offset", "ap_fixed_rate", "ap_mcs", "ap_noack",
                "ap_p2p_mgmt", "ap_rx_streams", "ap_tx_streams",
                "ap_vhtmcs_map"})),
       If(Answered), If(Sets({"wnm_bss_max_feature"}))>>)

(* ap.c 1465-1601 *)
ap_wireless_width ==
  Do(<<If(Answered), If(Sets({"wnm_bss_max_protection"})), If(Answered),
       If(Sets({"ap_proxy_arp", "wnm_bss_max_idle_time"})),
       If(Invalid \cup Answered),
       If(Do(<<Sets({"he_mcsnssmap", "he_ul_mcs"}),
               If(Call(set_eht_mcsmap_nss))>>)
            \cup Call(set_vht_mcsmap_nss)),
       If(Sets({"ap_tx_stbc"})), If(Answered),
       Sets({"ap_allow_vht_tkip", "ap_allow_vht_wep", "ap_disable_protection",
             "ap_fake_pkhash", "ap_tdls_prohibit",
             "ap_tdls_prohibit_chswitch"}),
       If(Sets({"ap_80plus80", "ap_chwidth", "ap_hs2",
                "ap_p2p_cross_connect"}))>>)

(* ap.c 1602-1739 *)
ap_wireless_vht ==
  Do(<<If(Answered),
       If(Call(ath_config_dyn_bw_sig) \cup Call(wcn_config_dyn_bw_sig)),
       If(Answered), If(Sets({"ap_sgi80"})), If(Answered),
       If(Sets({"ap_ldpc"})), If(Answered), If(Sets({"ap_sig_rts"})),
       If(Answered),
       If(Call(ath_config_rts_force) \cup Call(mac80211_config_rts_force)),
       If(Answered), If(Sets({"ap_txBF", "he_set_sta_1x1", "he_sounding"}))>>)

(* ap.c 1740-1877 *)
ap_wireless_location ==
  Do(<<If(Sets({"ap_mu_txBF", "ap_txBF", "ap_wpsnfc", "he_sounding"})),
       If(Answered),
       If(Sets({"ap_gas_cb_delay", "ap_interworking", "ap_ndpa_frame"})),
       If(Invalid), If(Sets({"ap_lci", "ap_val_lci"})), If(Invalid),
       If(Sets({"ap_infoz"})), If(Invalid),
       If(Sets({"ap_lcr", "ap_val_lcr"})),
       If(Do(<<Sets({"ap_val_neighap"}), If(Answered), Sets({"ap_neighap"}),
               If(Sets({"ap_scan"}))>>)),
       If(Sets({"ap_opchannel", "ap_val_opchannel"})), If(Answered),
       If(Sets({"ap_fqdn_held", "ap_fqdn_supl"}))>>)

(* ap.c 1878-2022 *)
ap_wireless_roaming ==
  Do(<<If(Answered), If(Sets({"ap_name", "ap_reg_domain"})), If(Answered),
       If(Sets({"ap_ft_oa"})), If(Refused),
       If(Sets({"ap_cell_cap_pref", "ap_ft_ds"})), If(Answered),
       If(Sets({"ap_mobility_domain"})), If(Invalid),
       If(Sets({"ft_bss_mac_cnt", "ft_bss_mac_list"})), If(Answered),
       If(Sets({"ap_fils_dscv_int", "ap_filsdscv", "ap_oce"})), If(Answered),
       If(Sets({"ap_broadcast_ssid"})), If(Answered),
       If(Sets({"ap_filsdscv"}))>>)

(* ap.c 2023-2149 *)
ap_wireless_oce ==
  Do(<<If(Answered), If(Sets({"ap_filshlp"})),
       If(Do(<<Sets({"ap_nairealm_int"}), If(Invalid),
               Sets({"ap_nairealm"})>>)),
       If(Answered),
       If(Sets({"ap_airtimefract", "ap_ble_admit_cap", "ap_blechanutil",
                "ap_datappdudura", "ap_rnr"})),
       If(Invalid), If(Sets({"ap_dhcp_stop", "ap_dhcpserv_ipaddr"})),
       If(Answered), If(Sets({"ap_bawinsize", "ap_blestacnt", "ap_esp"})),
       If(Refused),
       If(Sets({"ap_he_ppdu", "eap_fragment", "wps_forced_version",
                "wsc_fragment"}))>>)

(* ap.c 2150-2292 *)
ap_wireless_he ==
  Do(<<If(Do(<<Sets({"amsdu_size"}),
               If(Do(<<Sets({"amsdu_size"}), Error>>) \cup Error)>>)),
       If(Do(<<Sets({"back_rcv_buf"}), If(Error)>>)), If(Answered),
       If(Sets({"ap_num_ese_allocs"})), If(Answered \cup Refused),
       If(Sets({"ap_he_dlofdma", "ap_he_ulofdma", "ap_numsounddim"})),
       If(Refused), If(Sets({"ap_bcc", "ap_ldpc"})), If(Refused),
       If(Sets({"ap_he_frag"})), If(Refused), If(Sets({"ap_ba_bufsize"}))>>)

(* ap.c 2293-2438 *)
ap_wireless_he_ba ==
  Do(<<If(Refused), If(Sets({"ap_ba_bufsize"})), If(Refused),
       If(Sets({"ap_mu_edca"})), If(Refused),
       If(Sets({"ap_he_mimo", "he_sounding"})), If(Refused),
       If(Sets({"ap_he_rtsthrshld"})), If(Refused), If(Sets({"ap_mbssid"})),
       If(Refused),
       If(Sets({"ap_ocvc", "ap_twtresp", "he_mmss", "he_srctrl_allow"})),
       If(Refused),
       If(Sets({"ap_cad_unsolicited_proberesp", "ap_unsolicited_proberesp"})),
       If(Refused), If(Sets({"ap_activeind_proberesp"})), If(Refused),
       If(Sets({"ap_6g_legacy_security"})), If(Refused),
       If(Sets({"ap_fullbw_ulmumimo"}))>>)

(* ap.c 2439-2546 *)
ap_wireless_eht ==
  Do(<<If(Refused), If(Sets({"ap_twtinfoframerx"})), If(Refused),
       If(Sets({"ap_ulmudata_disablerx"})), If(Refused),
       If(Sets({"ap_btwt", "ap_mu_txBF", "ap_txBF", "nontrigger_txbf"})),
       If(Refused),
       If(Sets({"ap_addba_amsdu", "ap_fixed_rate", "ap_preamblepunct",
                "eht_omctrl", "eht_txemlomn", "eht_txmcs"})),
       If(Do(<<Sets({"ap_punct_bitmap"}), If(Refused)>>)), Success>>)

(* ap.c 1049-2546 *)
cmd_ap_set_wireless ==
  Do(<<ap_wireless_channel, ap_wireless_mode, ap_wireless_radio,
       ap_wireless_width, ap_wireless_vht, ap_wireless_location,
       ap_wireless_roaming, ap_wireless_oce, ap_wireless_he,
       ap_wireless_he_ba, ap_wireless_eht>>)

(* ap.c 2725-2765 *)
cmd_ap_send_addba_req ==
  UNION {Success, send_addba_60g, Answered}

(* ap.c 2784-2862 *)
ap_security_tagged ==
  If(UNION {Invalid, Answered,
            Do(<<If(Sets({"ap_tag_key_mgmt"})), If(Invalid),
                 If(Sets({"ap_tag_passphrase"})), Success>>)})

(* ap.c 2863-3012 *)
ap_security_keymgmt ==
  Do(<<If(Answered),
       If(Sets({"ap_cipher", "ap_group_cipher", "ap_group_mgmt_cipher",
                "ap_key_mgmt", "ap_pasn", "ap_pmf", "ap_sae_commit_status",
                "ap_sae_groups", "ap_sae_passwords", "ap_sae_pk_omit",
                "sae_anti_clogging_threshold", "sae_commit_override",
                "sae_confirm_immediate", "sae_reflection"})),
       If(Refused), If(Sets({"ap_sae_pk", "sae_pwe"}))>>)

(* ap.c 3013-3161 *)
ap_security_ciphers ==
  Do(<<If(Do(<<Sets({"ap_sae_pk_keypair"}), If(Refused)>>)),
       If(Do(<<Sets({"ap_sae_pk_keypair_sig"}), If(Refused)>>)),
       If(Sets({"ap_sae_pk_modifier"})), If(Refused),
       If(Sets({"rsnxe_override_eapol"})), If(Answered),
       If(Sets({"ap_cipher"})), If(Answered), If(Sets({"ap_cipher"})),
       If(Answered), If(Sets({"ap_group_cipher"})), If(Answered),
       If(Sets({"ap_group_mgmt_cipher"})), If(Answered),
       If(Sets({"ap_wepkey"}))>>)

(* ap.c 3162-3301 *)
ap_security_keys ==
  Do(<<If(Invalid), If(Sets({"ap_passphrase"})), If(Invalid),
       If(Sets({"ap_pmf", "ap_psk"})), If(Answered), Sets({"ap_add_sha256"}),
       If(Sets({"ap_pmf"})), If(Answered), If(Sets({"ap_add_sha256"})),
       If(Answered), If(Sets({"ap_rsn_preauth"})),
       If(Do(<<Sets({"ap_akm_values"}),
               Loop(Do(<<If(Answered), Sets({"ap_akm_values"})>>)),
               Sets({"ap_akm"}), If(Sets({"ap_add_sha384"}))>>)),
       If(Sets({"ap_hs2", "ap_pmf"})),
       If(Do(<<Sets({"ap_pmksa"}), If(Answered),
               Sets({"ap_pmksa_caching"})>>)),
       If(Sets({"ap_beacon_prot", "ap_pmf", "ap_transition_disable"})),
       Success>>)

(* ap.c 2784-3301 *)
cmd_ap_set_security ==
  Do(<<ap_security_tagged, ap_security_keymgmt, ap_security_ciphers,
       ap_security_keys>>)

(* ap.c 3304-3316 *)
sta_cfon_set_wireless ==
  Do(<<OnSuccess(cmd_ap_set_wireless), OnSuccess(cmd_ap_set_security),
       cmd_ap_config_commit>>)

(* ap.c 3319-3371 *)
cmd_ap_set_radius ==
  Do(<<If(Answered), If(Sets({"ap2_radius_port", "ap_radius_port"})),
       If(Invalid), Success>>)

(* ap.c 5284-5358 *)
cmd_owrt_ap_hs2_reset == If(Defaults({"ap_hessid"}))

(* ap.c 10445-10502 *)
parse_qos_params(qos) ==
  Do(<<If(Answered), If(Sets({qos})), If(Answered), If(Sets({qos})),
       Return(1)>>)

(* ap.c 10505-10537 *)
cmd_ap_set_apqos ==
  LET ac == Passed(parse_qos_params("ap_qos"), 1, Sent)
  IN Do(<<ac, ac, ac, ac, Success>>)

(* ap.c 10540-10571 *)
cmd_ap_set_staqos ==
  LET ac == Passed(parse_qos_params("ap_sta_qos"), 1, Sent)
  IN Do(<<ac, ac, ac, ac, Success>>)

(* ap.c 10574-10635 *)
cmd_ath_ap_hs2_reset == If(Defaults({"ap_hessid"}))

(* ap.c 10934-10945 *)
get_wiphy_capabilities ==
  Do(<<Sets({"hw_modes"}), If(Sets({"hw_modes.valid"}))>>)

(* What the reset puts back in every program.  Tags of further networks,   *)
(* rates of the stations, RADIUS ports, WEP keys and some more are in none *)
(* of the lists.                                                           *)
(* ap.c 10950-11066 *)
ap_reset_basic ==
  Do(<<Defaults({"ap_tag_ssid", "ap_tag_key_mgmt", "ap_tag_passphrase",
                 "ap_tag_channel"}), Sets({"program", "device_type"}),
       Defaults({"ap_rts", "ap_frgmnt", "ap_bcnint", "ap_key_mgmt", "ap_ssid",
                 "ap_fake_pkhash", "ap_qos", "ap_sta_qos", "ap_addba_reject",
                 "ap_noack", "ap_is_dual", "ap_mode", "ap_mode_1",
                 "ap_channel_1", "ap_allow_vht_wep", "ap_allow_vht_tkip",
                 "ap_disable_protection", "ap_countrycode", "ap_dyn_bw_sig",
                 "ap_ldpc", "ap_sig_rts", "ap_rx_amsdu", "ap_txBF",
                 "ap_mu_txBF", "ap_chwidth", "ap_ampdu_exp",
                 "ap_max_mpdu_len", "ap_band_6g", "ap_punct_bitmap",
                 "ap_center_freq", "ap_rsn_preauth", "ap_wpsnfc",
                 "ap_bss_load", "ap_p2p_cross_connect", "ap_regulatory_mode",
                 "ap_dfs_mode", "ap_chwidth_offset", "mbo_pref_ap_cnt",
                 "ft_bss_mac_cnt", "ap_interface_5g", "ap_interface_2g",
                 "ap_pmf", "wsc_fragment", "eap_fragment",
                 "wps_forced_version", "secure_ltf_supported",
                 "ap_pasn_unauth", "ap_pasn", "ap_wme", "ap_wmmps",
                 "ap_venue_url", "ap_advice_of_charge",
                 "ap_oper_icon_metadata", "ap_tnc_file_name",
                 "ap_tnc_time_stamp", "ap_akm_values", "ap_sae_passwords",
                 "ap_sae_pk", "ap_sae_pk_modifier", "ap_sae_pk_keypair",
                 "ap_sae_pk_keypair_sig", "ap_ocvc"})>>)

(* Hotspot 2.0 and VHT.                                                    *)
(* ap.c 11068-11186 *)
ap_reset_hs2 ==
  LET osu == {"HS2_R2", "HS2_R3", "HS2_R4", "HS2_2022", "IOTLP"}
  IN  Do(<<InProgram({"HS2"} \cup osu,
             Do(<<If(Call(cmd_ath_ap_hs2_reset)
                       \cup Call(cmd_owrt_ap_hs2_reset)),
                  Defaults({"ap_interworking", "ap_access_net_type",
                            "ap_internet", "ap_venue_group", "ap_venue_type",
                            "ap_domain_name_list", "ap_hs2",
                            "ap_roaming_cons", "ap_l2tif", "ap_proxy_arp",
                            "ap_dgaf_disable", "ap_p2p_cross_connect",
                            "ap_gas_cb_delay", "ap_nai_realm_list",
                            "ap_oper_name", "ap_venue_name", "ap_plmn_mcc",
                            "ap_plmn_mnc", "ap_wan_metrics", "ap_conn_capab",
                            "ap_ip_addr_type_avail", "ap_net_auth_type",
                            "ap_oper_class", "ap_pmf", "ap_add_sha256"})>>)),
           InProgram(osu,
             Defaults({"ap_hessid", "ap_osu_ssid", "ap_pmf",
                       "ap_osu_provider_list", "ap_osu_provider_nai_list",
                       "ap_osu_server_uri", "ap_osu_method", "ap_qos_map_set",
                       "ap_tag_key_mgmt", "ap2_proxy_arp", "ap2_osu",
                       "ap_osu_icon_tag"})),
           InProgram({"VHT"},
             Defaults({"use_5g", "ap_mode", "ap_channel", "ap_ampdu",
                       "ap_ndpa_frame", "ap_amsdu", "ap_ldpc", "ap_rx_amsdu",
                       "ap_sgi80", "ap_fixed_rate", "ap_rx_streams",
                       "ap_tx_streams", "ap_vhtmcs_map", "ap_chwidth",
                       "ap_tx_stbc", "ap_dyn_bw_sig", "ap_dfs_mode"}))>>)

(* Location, fast transition, MBO and OCE.                                 *)
(* ap.c 11188-11291 *)
ap_reset_program ==
  Do(<<Defaults({"wnm_bss_max_feature", "wnm_bss_max_idle_time",
                 "wnm_bss_max_protection"}),
       InProgram({"IOTLP"}, Defaults({"ap_proxy_arp"})),
       InProgram({"LOC"},
         Defaults({"ap_rrm", "ap_rtt", "ap_lci", "ap_val_lci", "ap_infoz",
                   "ap_lcr", "ap_val_lcr", "ap_neighap", "ap_opchannel",
                   "ap_scan", "ap_fqdn_held", "ap_fqdn_supl",
                   "ap_interworking", "ap_gas_cb_delay", "ap_msnt_type"})),
       InProgram({"PR"},
         Defaults({"i2rlmrpolicy", "urnm_mfpr_x20", "rnm_mfp",
                   "secure_ltf_supported"})),
       Defaults({"ap_ft_oa", "ap_ft_ds", "ap_reg_domain",
                 "ap_mobility_domain"}),
       InProgram({"MBO"},
         Defaults({"ap_mbo", "ap_interworking", "ap_ne_class", "ap_ne_op_ch",
                   "ap_set_bssidpref", "ap_btmreq_disassoc_imnt",
                   "ap_btmreq_term_bit", "ap_disassoc_timer",
                   "ap_btmreq_bss_term_dur", "ap_channel", "ap_chwidth",
                   "ap_cell_cap_pref", "ap_gas_cb_delay",
                   "mbo_self_ap_tuple", "ap_btmreq_bss_term_tsf",
                   "ap_assoc_delay"})),
       InProgram({"OCE"},
         Defaults({"ap_dhcp_stop", "ap_oce", "ap_broadcast_ssid",
                   "ap_fils_dscv_int", "ap_filsdscv", "ap_filshlp", "ap_rnr",
                   "ap_nairealm", "ap_nairealm_int", "ap_blechanutil",
                   "ap_ble_admit_cap", "ap_esp", "ap_datappdudura",
                   "ap_airtimefract", "ap_blestacnt", "ap_ul_availcap",
                   "ap_dl_availcap", "ap_akm", "ap_add_sha256",
                   "ap_add_sha384", "ap_80plus80"}))>>)

(* HE and EHT, for a test bed device not ap_ba_bufsize of the former test; *)
(* security.                                                               *)
(* ap.c 11293-11416 *)
ap_reset_he ==
  Do(<<Defaults({"ap_he_ppdu", "ap_he_ulofdma", "ap_numsounddim", "ap_bcc",
                 "ap_mu_edca", "ap_he_mimo", "ap_he_rtsthrshld", "ap_mbssid",
                 "ap_ampdu", "he_mcsnssmap", "ap_fixed_rate", "he_mmss",
                 "he_set_sta_1x1", "he_srctrl_allow", "ap_he_dlofdma",
                 "ap_he_frag", "ap_twtresp", "he_ul_mcs"}),
       If(Defaults({"ap_ba_bufsize"})),
       InProgram({"HE", "EHT"},
         Do(<<Defaults({"ap_txBF", "ap_mu_txBF", "he_sounding"}),
              If(Defaults({"ap_ldpc", "ap_ba_bufsize", "ap_amsdu"})),
              If(Defaults({"ap_dfs_mode"}))>>)),
       Defaults({"ap_oper_chn", "ap_pmksa", "ap_pmksa_caching",
                 "rsne_override", "rsnxe_override_eapol",
                 "sae_commit_override", "ap_sae_groups",
                 "sae_anti_clogging_threshold", "sae_reflection",
                 "ap_sae_commit_status", "ap_sae_pk_omit",
                 "sae_confirm_immediate", "sae_pwe", "ap_cipher",
                 "ap_group_cipher", "ap_group_mgmt_cipher", "ap_passphrase",
                 "ap_psk", "ap_beacon_prot", "ap_transition_disable",
                 "dpp_conf_id", "ap_dpp_conf_addr", "ap_dpp_conf_pkhash",
                 "dpp_local_bootstrap", "ap_start_disabled"}),
       Call(dpp_mdns_stop),
       Defaults({"ap_cad_unsolicited_proberesp", "ap_unsolicited_proberesp",
                 "ap_activeind_proberesp", "ap_6g_legacy_security",
                 "ap_fullbw_ulmumimo", "ap_twtinfoframerx",
                 "ap_ulmudata_disablerx", "ap_btwt", "ltf_trig",
                 "nontrigger_txbf", "ap_preamblepunct", "eht_txmcs",
                 "ap_addba_amsdu", "eht_omctrl", "eht_txemlomn",
                 "ap_ehtmcs_map"})>>)

(* 60 GHz, and the end of a hostapd that runs.                             *)
(* ap.c 11418-11497 *)
ap_reset_hostapd ==
  Do(<<If(Do(<<Defaults({"ap_mode", "ap_channel", "wps_disable", "ap_pmf",
                         "ap_num_ese_allocs", "ap_fixed_rate", "dev_role"}),
               If(Error)>>)),
       InProgram({"WPS"},
         If(Then(If(Error),
                 Defaults({"ap_key_mgmt", "ap_cipher", "ap_passphrase"})))),
       Defaults({"hostapd_running"}), Success>>)

(* ap.c 10950-11497 *)
cmd_ap_reset_default ==
  Do(<<ap_reset_basic, ap_reset_hs2, ap_reset_program, ap_reset_he,
       ap_reset_hostapd>>)

(* ap.c 11500-11504 *)
sta_cfon_reset_default == cmd_ap_reset_default

(* ap.c 11507-11628 *)
cmd_ap_get_info ==
  Do(<<If(Do(<<Opens, Closes>>)), Answered>>)

(* Mutation: a failure that has been answered is returned as an error.     *)
cmd_ap_deauth_sta_AnswersAgain ==
  Do(<<If(UNION {Then(Answer, Error), Invalid, Error}), Success>>)

(* ap.c 11631-11660 *)
cmd_ap_deauth_sta == Do(<<If(UNION {Answered, Invalid, Error}), Success>>)

(* ap.c 11676-11825 *)
ap_inject_frame_prepare ==
  Do(<<If(Return(-1)), Opens, If(Do(<<Closes, Return(-1)>>)), Closes,
       If(Return(-2) \cup Return(-1))>>)

(* ap.c 11826-11855 *)
ap_inject_frame_send ==
  Do(<<If(Answered), Opens, If(Do(<<Closes, Answered>>)), Closes, Success>>)

(* ap.c 11676-11855 *)
ap_inject_frame == Then(ap_inject_frame_prepare, ap_inject_frame_send)

(* ap.c 11858-11891 *)
ap_send_frame_hs2 ==
  Do(<<If(Return(-1)), If(Sets({"ap_qos_map_set"})), If(Return(-1)),
       Return(1)>>)

(* ap.c 11894-11966 *)
ath_ap_send_frame_vht == Do(<<If(Answered), Return(1)>>)

(* ap.c 11969-12018 *)
ath_ap_send_frame_loc ==
  Do(<<If(Do(<<If(Sets({"ap_msnt_type"})), If(Return(-1)),
               Do(<<Sets({"ap_msnt_type"}), If(Return(-1)),
                    If(Do(<<Opens, Closes, Sets({"ap_msnt_type"})>>))>>)
                 \cup If(Do(<<Opens, Closes>>))>>)),
       Return(1)>>)

(* ap.c 12458-12479 *)
ap_send_frame_vht == ath_ap_send_frame_vht \cup Answered

(* ap.c 12482-12502 *)
ap_send_frame_loc == ath_ap_send_frame_loc \cup Answered

(* ap.c 12433-12455 *)
ath_ap_send_frame_mbo ==
  Return(-1) \cup Return(1)

(* ap.c 12505-12525 *)
ap_send_frame_mbo ==
  ath_ap_send_frame_mbo \cup Answered

(* ap.c 12528-12542 *)
ap_send_frame_60g ==
  wil6210_send_frame_60g \cup Answered

(* ap.c 12545-12655 *)
cmd_ap_send_frame ==
  Do(<<If(UNION {ap_send_frame_hs2, ap_send_frame_vht, ap_send_frame_loc,
                 ap_send_frame_mbo, ap_send_frame_60g, Invalid, Answered,
                 Refused, ap_inject_frame, Error}),
       Success>>)

(* Mutation: a failing ioctl() returns with the socket open.               *)
cmd_ap_get_mac_address_SocketStays ==
  Do(<<If(Answered \cup Invalid), Opens, If(Answered), Closes, Answered>>)

(* ap.c 12658-12731 *)
cmd_ap_get_mac_address ==
  Do(<<If(Answered \cup Invalid), Opens, If(Do(<<Closes, Answered>>)), Closes,
       Answered>>)

(* ap.c 12734-12738 *)
sta_cfon_get_mac_address == cmd_ap_get_mac_address

(* ap.c 12754-12903 *)
ap_hs2_basic ==
  Do(<<If(UNION {Success, Answered,
                 Do(<<If(Sets({"ap2_osu", "ap2_proxy_arp"})), Success>>)}),
       If(Sets({"ap_qos_map_set"})), If(Invalid), Sets({"ap_interworking"}),
       If(Sets({"ap_dgaf_disable"})),
       If(Do(<<Sets({"ap_hs2", "ap_interworking"}), Success>>)),
       If(Sets({"ap_access_net_type", "ap_internet", "ap_venue_group",
                "ap_venue_type"})),
       If(Answered), If(Sets({"ap_hessid"})), If(Answered),
       If(Sets({"ap_roaming_cons"}))>>)

(* ap.c 12904-13027 *)
ap_hs2_anqp ==
  Do(<<If(Sets({"ap_anqpserver_on", "ap_nai_realm_list"})), If(Answered),
       If(Sets({"ap_domain_name_list", "ap_gas_cb_delay", "ap_oper_name",
                "ap_venue_name"})),
       If(Answered), If(Sets({"ap_l2tif"})), If(Answered),
       If(Do(<<Loop(Do(<<If(Answered), Sets({"ap_plmn_mcc"}), If(Error)>>)),
               If(Answered), Sets({"ap_plmn_mcc"}), If(Error)>>))>>)

(* ap.c 13028-13176 *)
ap_hs2_osu ==
  Do(<<If(Answered),
       If(Do(<<Loop(Do(<<If(Answered), Sets({"ap_plmn_mnc"}), If(Error)>>)),
               If(Answered), Sets({"ap_plmn_mnc"}), If(Error)>>)),
       If(Sets({"ap_conn_capab", "ap_ip_addr_type_avail", "ap_net_auth_type",
                "ap_oper_class", "ap_osu_provider_list",
                "ap_osu_provider_nai_list", "ap_osu_server_uri",
                "ap_proxy_arp", "ap_wan_metrics"})),
       If(Loop(Do(<<If(Error), If(Sets({"ap_osu_method"}))>>))),
       If(Sets({"ap_osu_ssid"}))>>)

(* ap.c 13177-13216 *)
ap_hs2_icons ==
  Do(<<If(Sets({"ap_advice_of_charge", "ap_bss_load", "ap_oper_icon_metadata",
                "ap_osu_icon_tag", "ap_qos_map_set", "ap_tnc_file_name",
                "ap_tnc_time_stamp", "ap_venue_url"})),
       Success>>)

(* ap.c 12754-13216 *)
cmd_ap_set_hs2 == Do(<<ap_hs2_basic, ap_hs2_anqp, ap_hs2_osu, ap_hs2_icons>>)

(* ap.c 13252-13274 *)
ap_nfc_write_config_token == Do(<<If(Answered), Return(1)>>)

(* ap.c 13277-13299 *)
ap_nfc_wps_read_passwd == Do(<<If(Answered), Return(1)>>)

(* ap.c 13302-13330 *)
ap_nfc_write_password_token == Do(<<If(Answered), Return(1)>>)

(* ap.c 13333-13361 *)
ap_nfc_wps_connection_handover == Do(<<If(Answered), Return(1)>>)

(* ap.c 13364-13386 *)
cmd_ap_nfc_action ==
  Do(<<If(UNION {Invalid, ap_nfc_write_config_token,
                 ap_nfc_write_password_token, ap_nfc_wps_read_passwd,
                 ap_nfc_wps_connection_handover}),
       Answered>>)

(* ap.c 13389-13400 *)
cmd_ap_wps_read_pin == Answered

(* ap.c 13403-13423 *)
cmd_ap_wps_enter_pin ==
  Do(<<If(Invalid), Sets({"wps_method", "wps_pin"}), Success>>)

(* ap.c 13426-13436 *)
cmd_ap_wps_set_pbc == Do(<<Sets({"wps_method"}), Success>>)

(* ap.c 13439-13473 *)
ap_wps_registration ==
  Do(<<If(Sets({"wps_method"})), If(Answered), Return(1)>>)

(* ap.c 13476-13537 *)
ap_get_tk == Do(<<If(Invalid \cup Refused), Answered>>)

(* ap.c 13540-13595 *)
cmd_ap_get_parameter ==
  Do(<<If(UNION {Answered, Error, Invalid, Refused, ap_get_tk}), Answered>>)

(* ap.c 13798-13833 *)
mbo_add_nebor_entry ==
  Do(<<If(Return(0)),
       If(Sets({"mbo_pref_ap_cnt", "mbo_pref_aps", "mbo_self_ap_tuple"}))>>)

(* ap.c 13836-13875 *)
ath_set_nebor_bssid ==
  Do(<<If(Return(-1)), Call(mbo_add_nebor_entry), Return(0)>>)

(* ap.c 13878-13901 *)
he_ltf == Do(<<If(Refused), Success>>)

(* ap.c 13904-13929 *)
he_shortgi == Do(<<If(Refused), Success>>)

(* ap.c 13932-13971 *)
he_ar_gi_ltf_mask == Do(<<If(Refused), Success>>)

(* ap.c 13974-14047 *)
eht_ar_gi_ltf_mask == Do(<<If(Refused), Success>>)

(* ap.c 14050-14134 *)
he_rualloctones ==
  Do(<<If(Invalid), If(Refused), Success>>)

(* ap.c 14225-14367 *)
ath_rf_basic ==
  Do(<<If(Error), If(Call(ath_config_rts_force)),
       If(Call(ath_config_dyn_bw_sig)), If(Error),
       If(Checked(ath_set_width, Error)), Call(ath_set_nebor_bssid),
       If(Sets({"ap_assoc_delay", "ap_btmreq_bss_term_dur",
                "ap_btmreq_bss_term_tsf", "ap_btmreq_disassoc_imnt",
                "ap_btmreq_term_bit", "ap_disassoc_timer", "ap_dl_availcap",
                "ap_ul_availcap"})),
       If(OnSuccess(he_ltf) \cup Do(<<Sets({"ar_ltf"}), If(Error)>>))>>)

(* ap.c 14368-14510 *)
ath_rf_ru ==
  Do(<<If(UNION {OnSuccess(he_shortgi), OnSuccess(eht_ar_gi_ltf_mask),
                 OnSuccess(he_ar_gi_ltf_mask)}),
       If(OnSuccess(he_rualloctones)), If(Refused),
       If(OnSuccess(he_rualloctones)), If(Refused)>>)

(* ap.c 14511-14623 *)
ath_rf_ltf ==
  Do(<<If(Refused),
       If(Do(<<Call(he_ltf), Call(he_shortgi)>>)
            \cup Do(<<Sets({"ltf_trig"}), OnSuccess(eht_ar_gi_ltf_mask)>>)),
       If(Error)>>)

(* ap.c 14624-14773 *)
ath_rf_nss == If(Error \cup Refused)

(* ap.c 14774-14922 *)
ath_rf_omctrl == If(Refused)

(* ap.c 14923-15071 *)
ath_rf_edca == If(Refused)

(* ap.c 15072-15073 *)
ath_rf_7 == Success

(* ap.c 14225-15073 *)
ath_ap_set_rfeature ==
  Do(<<ath_rf_basic, ath_rf_ru, ath_rf_ltf, ath_rf_nss, ath_rf_omctrl,
       ath_rf_edca, ath_rf_7>>)

(* ap.c 15197-15320 *)
wcn_rf_width ==
  Do(<<If(Error \cup Refused),
       If(Do(<<Sets({"ap_chwidth"}),
               If(Passed(cmd_ap_config_commit, 1, SentError))>>)),
       If(Refused)>>)

(* ap.c 15321-15426 *)
wcn_rf_gi ==
  Do(<<If(Refused \cup Answered), If(Sets({"ap_bcc", "ap_ldpc"})), If(Error),
       If(Do(<<Sets({"ap_punct_bitmap"}),
               If(Do(<<Answer, Error>>) \cup Error)>>)),
       Success>>)

(* ap.c 15197-15426 *)
wcn_ap_set_rfeature == Do(<<wcn_rf_width, wcn_rf_gi>>)

(* ap.c 15475-15519 *)
mac80211_he_tx_bandwidth ==
  Do(<<If(Refused \cup Error), Success>>)

(* ap.c 15537-15550 *)
mac80211_he_ltf == Do(<<Sets({"ar_ltf"}), If(Refused), Success>>)

(* ap.c 15553-15592 *)
mac80211_he_gi ==
  Do(<<If(Do(<<Sets({"ar_ltf"}), If(Error)>>)), If(Error), Success>>)

(* ap.c 15634-15712 *)
mac80211_ap_set_rfeature ==
  Do(<<If(Call(mac80211_config_rts_force)), If(Invalid),
       If(OnSuccess(mac80211_he_tx_bandwidth)),
       If(OnSuccess(mac80211_he_ltf)), If(OnSuccess(mac80211_he_gi)),
       If(Refused), Success>>)

(* ap.c 15716-15737 *)
wil6210_ap_set_rfeature == Do(<<If(Return(-1) \cup Return(1)), Answered>>)

(* ap.c 15741-15852 *)
cmd_ap_set_rfeature ==
  Do(<<If(UNION {Refused, Success, Answered,
                 Do(<<Sets({"ap_transition_disable"}), If(Refused),
                      Success>>)}),
       UNION {ath_ap_set_rfeature, Answered, wcn_ap_set_rfeature,
              mac80211_ap_set_rfeature, wil6210_ap_set_rfeature}>>)

(* ap.c 15864-15893 *)
cmd_ap_preset_testparameters ==
  Do(<<If(Sets({"ap_channel", "ap_dpp_conf_addr", "ap_dpp_conf_pkhash",
                "ap_oper_chn"})),
       If(Call(dpp_mdns_discover_relay_params)), Success>>)

(* ap.c 5361-5380 *)
cmd_ap_reboot == Success

(* What it would set is set by ap_set_security.                            *)
(* ap.c 12741-12751 *)
cmd_ap_set_pmf == Success

(* ap.c 15855-15861 *)
cmd_accesspoint == Success

===============================================================================
