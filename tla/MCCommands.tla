------------------------------ MODULE MCCommands -----------------------------
(***************************************************************************)
(* Commands with every program, every command, and as followed members     *)
(* those that a command for an access point, a station or a P2P device may *)
(* set: each with one of the commands that set it and with the reset of    *)
(* its role.                                                               *)
(***************************************************************************)
EXTENDS Commands

MCPrograms ==
  {"60GHZ", "DISPLAYR2", "EHT", "HE", "HS2", "HS2_R2", "HS2_R3", "HS2_R4",
   "HS2_2022", "IOTLP", "LOC", "LOCR2", "MBO", "NAN", "OCE", "PR", "QM",
   "TDLS", "VHT", "WFD", "WPS", "UNKNOWN"}

AllCommands ==
  {"AccessPoint", "PowerSwitch", "ap_ca_version", "ap_config_commit",
   "ap_deauth_sta", "ap_get_info", "ap_get_mac_address", "ap_get_parameter",
   "ap_nfc_action", "ap_preset_testparameters", "ap_reboot",
   "ap_reset_default", "ap_send_addba_req", "ap_send_frame", "ap_set_11d",
   "ap_set_11h", "ap_set_11n", "ap_set_11n_wireless", "ap_set_apqos",
   "ap_set_hs2", "ap_set_pmf", "ap_set_radius", "ap_set_rfeature",
   "ap_set_security", "ap_set_staqos", "ap_set_wireless", "ap_wps_enter_pin",
   "ap_wps_read_pin", "ap_wps_set_pbc", "atheros_config_scan",
   "ca_get_version", "connect_go_start_wfd", "dev_ble_action",
   "dev_configure_ie", "dev_exec_action", "dev_get_log", "dev_send_frame",
   "dev_set_parameter", "dev_start_test", "dev_stop_test", "dev_upload_log",
   "device_get_info", "device_list_interfaces", "power_switch_ctrl",
   "power_switch_reset", "reinvoke_wfd_session", "server_ca_get_version",
   "server_get_info", "server_request_status", "server_reset_default",
   "server_set_parameter", "sniffer_check_frame_field",
   "sniffer_check_p2p_NoA_duration", "sniffer_check_p2p_opps_client",
   "sniffer_control_field_check", "sniffer_control_filter_capture",
   "sniffer_control_start", "sniffer_control_stop", "sniffer_get_field_value",
   "sniffer_get_info", "sta_accept_p2p_invitation_req",
   "sta_add_arp_table_entry", "sta_add_credential", "sta_associate",
   "sta_atheros", "sta_block_icmp_response", "sta_bssid_pool",
   "sta_disconnect", "sta_er_config", "sta_exec_action", "sta_generate_event",
   "sta_get_bssid", "sta_get_events", "sta_get_info", "sta_get_ip_config",
   "sta_get_key", "sta_get_mac_address", "sta_get_p2p_dev_address",
   "sta_get_p2p_ip_config", "sta_get_parameter", "sta_get_psk",
   "sta_hs2_associate", "sta_hs2_venue_info", "sta_is_connected",
   "sta_nfc_action", "sta_osu", "sta_p2p_connect", "sta_p2p_dissolve",
   "sta_p2p_reset", "sta_p2p_start_group_formation", "sta_policy_update",
   "sta_preset_testparameters", "sta_reassoc", "sta_reassociate",
   "sta_reset_default", "sta_reset_parm", "sta_scan", "sta_scan_bss",
   "sta_send_addba", "sta_send_frame", "sta_send_p2p_invitation_req",
   "sta_send_p2p_presence_req", "sta_send_p2p_provision_dis_req",
   "sta_send_service_discovery_req", "sta_set_11n", "sta_set_eapaka",
   "sta_set_eapakaprime", "sta_set_eapfast", "sta_set_eapsim",
   "sta_set_eaptls", "sta_set_eapttls", "sta_set_encryption",
   "sta_set_ip_config", "sta_set_macaddr", "sta_set_opportunistic_ps",
   "sta_set_p2p", "sta_set_peap", "sta_set_power_save", "sta_set_psk",
   "sta_set_pwrsave", "sta_set_radio", "sta_set_rfeature", "sta_set_security",
   "sta_set_sleep", "sta_set_systime", "sta_set_uapsd", "sta_set_wireless",
   "sta_set_wmm", "sta_set_wps_pbc", "sta_start_autonomous_go",
   "sta_verify_ip_connection", "sta_wps_connect_pw_token",
   "sta_wps_enter_pin", "sta_wps_read_label", "sta_wps_read_pin",
   "start_wfd_connection", "start_wps_registration", "traffic_send_ping",
   "traffic_start_iperf", "traffic_stop_iperf", "traffic_stop_ping",
   "wfa_sniffer_control_filter_capture", "wlantest_add_passphrase",
   "wlantest_clear_bss_counters", "wlantest_clear_sta_counters",
   "wlantest_clear_tdls_counters", "wlantest_flush",
   "wlantest_get_bss_counter", "wlantest_get_sta_counter",
   "wlantest_get_tdls_counter", "wlantest_info_bss", "wlantest_info_sta",
   "wlantest_send_frame", "wlantest_set_channel", "wlantest_version"}

(* Which members a command is to set, by the reset that has to undo it.    *)
ApSets ==
  [ap_set_wireless |->
     {"amsdu_size", "ap_6g_legacy_security", "ap_80plus80",
      "ap_activeind_proberesp", "ap_addba_amsdu", "ap_addba_reject",
      "ap_airtimefract", "ap_allow_vht_tkip", "ap_allow_vht_wep", "ap_ampdu",
      "ap_amsdu", "ap_ba_bufsize", "ap_band_6g", "ap_bawinsize", "ap_bcnint",
      "ap_ble_admit_cap", "ap_blechanutil", "ap_blestacnt",
      "ap_broadcast_ssid", "ap_btwt", "ap_cad_unsolicited_proberesp",
      "ap_cell_cap_pref", "ap_center_freq", "ap_channel_1", "ap_chwidth_1",
      "ap_chwidth_offset", "ap_countrycode", "ap_datappdudura", "ap_dfs_mode",
      "ap_dhcp_stop", "ap_dhcpserv_ipaddr", "ap_disable_protection", "ap_esp",
      "ap_fake_pkhash", "ap_fils_dscv_int", "ap_filsdscv", "ap_filshlp",
      "ap_fixed_rate", "ap_fqdn_held", "ap_fqdn_supl", "ap_frgmnt",
      "ap_ft_ds", "ap_ft_oa", "ap_fullbw_ulmumimo", "ap_he_dlofdma",
      "ap_he_frag", "ap_he_mimo", "ap_he_ppdu", "ap_he_rtsthrshld",
      "ap_he_ulofdma", "ap_infoz", "ap_interface_2g", "ap_interface_5g",
      "ap_is_dual", "ap_lci", "ap_lcr", "ap_mbssid", "ap_mcs",
      "ap_mobility_domain", "ap_mode", "ap_mode_1", "ap_mu_edca",
      "ap_nairealm", "ap_nairealm_int", "ap_name", "ap_ndpa_frame",
      "ap_neighap", "ap_noack", "ap_num_ese_allocs", "ap_numsounddim",
      "ap_oce", "ap_ocvc", "ap_opchannel", "ap_p2p_cross_connect",
      "ap_p2p_mgmt", "ap_pasn_unauth", "ap_preamblepunct", "ap_reg_domain",
      "ap_regulatory_mode", "ap_rnr", "ap_rts", "ap_rx_streams", "ap_scan",
      "ap_sgi80", "ap_ssid", "ap_tag_channel", "ap_tdls_prohibit",
      "ap_tdls_prohibit_chswitch", "ap_twtinfoframerx", "ap_twtresp",
      "ap_tx_streams", "ap_ulmudata_disablerx", "ap_unsolicited_proberesp",
      "ap_val_lci", "ap_val_lcr", "ap_val_neighap", "ap_val_opchannel",
      "ap_vhtmcs_map", "ap_wme", "ap_wmmps", "ap_wpsnfc", "back_rcv_buf",
      "eap_fragment", "eht_omctrl", "eht_txemlomn", "eht_txmcs",
      "ft_bss_mac_cnt", "ft_bss_mac_list", "he_mcsnssmap", "he_mmss",
      "he_set_sta_1x1", "he_sounding", "he_srctrl_allow", "he_ul_mcs",
      "i2rlmrpolicy", "nontrigger_txbf", "rnm_mfp", "secure_ltf_supported",
      "urnm_mfpr_x20", "use_5g", "wnm_bss_max_feature",
      "wnm_bss_max_idle_time", "wnm_bss_max_protection", "wps_forced_version",
      "wsc_fragment"},
   ap_set_hs2 |->
     {"ap2_osu", "ap2_proxy_arp", "ap_access_net_type", "ap_advice_of_charge",
      "ap_anqpserver_on", "ap_bss_load", "ap_conn_capab", "ap_dgaf_disable",
      "ap_domain_name_list", "ap_gas_cb_delay", "ap_hessid", "ap_hs2",
      "ap_internet", "ap_interworking", "ap_ip_addr_type_avail", "ap_l2tif",
      "ap_nai_realm_list", "ap_net_auth_type", "ap_oper_class",
      "ap_oper_icon_metadata", "ap_oper_name", "ap_osu_icon_tag",
      "ap_osu_method", "ap_osu_provider_list", "ap_osu_provider_nai_list",
      "ap_osu_server_uri", "ap_osu_ssid", "ap_plmn_mcc", "ap_plmn_mnc",
      "ap_proxy_arp", "ap_qos_map_set", "ap_roaming_cons", "ap_tnc_file_name",
      "ap_tnc_time_stamp", "ap_venue_group", "ap_venue_name", "ap_venue_type",
      "ap_venue_url", "ap_wan_metrics"},
   ap_set_radius |->
     {"ap2_radius_port", "ap_radius_port"},
   ap_set_security |->
     {"ap_add_sha256", "ap_add_sha384", "ap_akm", "ap_akm_values",
      "ap_beacon_prot", "ap_cipher", "ap_group_cipher",
      "ap_group_mgmt_cipher", "ap_key_mgmt", "ap_pasn", "ap_passphrase",
      "ap_pmf", "ap_pmksa", "ap_pmksa_caching", "ap_psk", "ap_rsn_preauth",
      "ap_sae_commit_status", "ap_sae_groups", "ap_sae_passwords",
      "ap_sae_pk", "ap_sae_pk_keypair", "ap_sae_pk_keypair_sig",
      "ap_sae_pk_modifier", "ap_sae_pk_omit", "ap_tag_key_mgmt",
      "ap_tag_passphrase", "ap_wepkey", "rsnxe_override_eapol",
      "sae_anti_clogging_threshold", "sae_commit_override",
      "sae_confirm_immediate", "sae_pwe", "sae_reflection"},
   ap_set_rfeature |->
     {"ap_ampdu_exp", "ap_assoc_delay", "ap_bcc", "ap_btmreq_bss_term_dur",
      "ap_btmreq_bss_term_tsf", "ap_btmreq_disassoc_imnt",
      "ap_btmreq_term_bit", "ap_chwidth", "ap_disassoc_timer",
      "ap_dl_availcap", "ap_dpp_conf_addr", "ap_dpp_conf_pkhash",
      "ap_dyn_bw_sig", "ap_ehtmcs_map", "ap_ldpc", "ap_max_mpdu_len",
      "ap_mu_txBF", "ap_punct_bitmap", "ap_sig_rts", "ap_tag_ssid",
      "ap_transition_disable", "ap_txBF", "ap_tx_stbc", "ap_ul_availcap",
      "ap_vht_chwidth", "ar_ltf", "chwidth", "hostapd_running", "ltf_trig",
      "mbo_pref_ap_cnt", "mbo_pref_aps", "mbo_self_ap_tuple", "mdns_discover",
      "mode"},
   ap_preset_testparameters |->
     {"ap_channel", "ap_oper_chn"},
   ap_send_frame |->
     {"ap_msnt_type"},
   ap_wps_enter_pin |->
     {"wps_method", "wps_pin"}]

StaSets ==
  [sta_set_psk |->
     {"akm_values", "beacon_prot", "infra_network_id", "infra_ssid", "mode",
      "ocvc", "sae_commit_override", "sae_pwe", "sta_2g_started",
      "sta_5g_started", "sta_pmf"},
   sta_set_11n |->
     {"ap_dyn_bw_sig", "chwidth"},
   sta_set_rfeature |->
     {"ar_ltf", "dscp_status.id", "dscp_status.status", "no_tpk_expiration",
      "num_dscp_status", "qm_domain_name", "rnm_mfp", "urnm_mfpr_x20"},
   sta_send_frame |->
     {"btm_query_cand_list", "dscp_policy_table", "saquery_oci_freq"},
   sta_set_uapsd |->
     {"client_uapsd"},
   sta_preset_testparameters |->
     {"config_random_pmkid", "dscp_reject_resp_code", "eap_fragment",
      "fils_hlp", "force_rsn_ie", "mdns_instance_name", "nan_pmk",
      "nan_pmk_len", "ndpe", "non_pref_ch_list", "prev_disable_mscs_support",
      "prev_disable_scs_support", "reject_dscp_policies", "sta_channel",
      "sta_ft_ds", "sta_roaming_disabled", "trans_proto",
      "wps_forced_version", "wsc_fragment"},
   sta_reassoc |->
     {"config_rsnie"},
   sta_exec_action |->
     {"data_ch_freq", "dev_info", "ndp_enable", "p2p_connect_info",
      "p2p_event_mon_thread", "peer_info", "sectype"},
   sta_set_ip_config |->
     {"dhcp_client_running", "last_set_ip_config_ipv6"},
   sta_set_wmm |->
     {"dialog_token", "tid_to_handle"},
   sta_associate |->
     {"dscp_policy_mon_thread", "server_cert_hash", "server_cert_tod"},
   sta_er_config |->
     {"er_oper_bssid", "er_oper_performed"},
   sta_set_wireless |->
     {"i2rlmr_iftmr"},
   sta_set_eaptls |->
     {"sta_associate_wait_connect", "sta_tod_policy"},
   sta_bssid_pool |->
     {"sta_bssid_pool"},
   sta_set_macaddr |->
     {"tmp_mac_addr"}]

P2pSets ==
  [sta_add_arp_table_entry |->
     {"arp_ifname", "arp_ipaddr"},
   sta_start_autonomous_go |->
     {"go", "groups", "p2p_client", "twt_param.bcast_twt_id",
      "twt_param.is_bcast_twt", "twt_param.unavailability_mode",
      "twt_param.wake_interval_mantissa"},
   sta_set_p2p |->
     {"intra_bss", "is_p2p_twt_power_mgmt_enabled", "listen_chn", "noa_count",
      "noa_duration", "noa_interval", "p2p_mode", "p2p_r2_capable",
      "pasn_type", "persistent", "twt_param.is_user_config", "usd_enabled"},
   sta_wps_enter_pin |->
     {"wps_method", "wps_pin"}]

MembersOf(s) == UNION {s[c] : c \in DOMAIN s}
Asks(f, s, reset) ==
  IF f \in MembersOf(s)
  THEN {reset} \cup {c \in DOMAIN s : f \in s[c]}
  ELSE {}

MCFields == {"none", "default_timeout"} \cup MembersOf(ApSets)
              \cup MembersOf(StaSets) \cup MembersOf(P2pSets)
MCAsked ==
  [f \in MCFields |->
     IF f \in {"none", "default_timeout"} THEN AllCommands
     ELSE UNION {Asks(f, ApSets, "ap_reset_default"),
                 Asks(f, StaSets, "sta_reset_default"),
                 Asks(f, P2pSets, "sta_p2p_reset")}]
===============================================================================
