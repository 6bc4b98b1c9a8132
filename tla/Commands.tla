------------------------------- MODULE Commands ------------------------------
(***************************************************************************)
(* The commands of sigma_dut, one after the other: process_cmd() of        *)
(* src/sigma_dut.c takes a command from the console, finds its handler in  *)
(* the table that the *_register_cmds() functions have filled, runs it and *)
(* sends the final status that the handler's result leaves to it.          *)
(*                                                                         *)
(* Between two commands only struct sigma_dut, the open descriptors and    *)
(* the attached monitors remain.  `value' is what the commands have made   *)
(* of the member `field' of the structure, `end' what the command in hand  *)
(* has ended with.  The commands of the traffic agent are TrafficAgent's:  *)
(* their answers come from threads.                                        *)
(***************************************************************************)
EXTENDS DeviceCommands

CONSTANTS
  Fields,      \* the members that are followed, each in a behaviour
  Programs,    \* enum sigma_program, and no other text is understood
  Asked        \* the commands the console uses, for each of Fields

VARIABLES
  value,       \* "default", or "set" by a command
  pc,          \* "idle", "asked", "answered"
  request,     \* the command in hand
  end          \* [answers, left, res], once it is answered

commandVars == <<field, program, value, pc, request, end>>

NotEnded == [answers |-> 0, left |-> 0, res |-> GoesOn]
Requests == UNION {Asked[f] : f \in Fields} \cup {"none"}

CommandsInit ==
  /\ field \in Fields
  /\ program \in Programs
  /\ value = "default"
  /\ pc = "idle"
  /\ request = "none"
  /\ end = NotEnded

(* The commands that may carry the name of the test program, which their   *)
(* handlers store before they do anything that depends on it.              *)
CarryProgram ==
  {"ap_set_wireless", "ap_set_11n_wireless", "ap_set_11n", "ap_set_11d",
   "ap_set_11h", "ap_reset_default", "sta_reset_default", "sta_p2p_reset",
   "sta_exec_action"}

(* A command has been read from a connection.                              *)
(* sigma_dut.c 385-447 *)
Arrive ==
  /\ pc = "idle"
  /\ request' \in Asked[field]
  /\ program' \in IF request' \in CarryProgram THEN Programs ELSE {program}
  /\ pc' = "asked"
  /\ UNCHANGED <<field, value, end>>

(* The status lines that process_cmd() itself sends for a result.          *)
(* sigma_dut.c 473-491 *)
StatusSentFor(res) ==
  IF res \in {STATUS_SENT, STATUS_SENT_ERROR, GoesOn} THEN 0 ELSE 1

Ends(answers, left, res) ==
  /\ end' = [answers |-> answers, left |-> left, res |-> res]
  /\ pc' = "answered"
  /\ UNCHANGED <<field, program, request>>

(* A parameter without a value, too many of them, or the validate() of the *)
(* command: its handler is not run.                                        *)
(* sigma_dut.c 424-468 *)
Reject ==
  /\ pc = "asked"
  /\ Ends(1, 0, INVALID_SEND_STATUS)
  /\ UNCHANGED value

(* The handler is run to its end; E is what it may come to.                *)
(* sigma_dut.c 469-498 *)
Serve(c, E) ==
  /\ pc = "asked"
  /\ request = c
  /\ \E e \in E :
       /\ Ends(e.ans + StatusSentFor(e.res), e.left, e.res)
       /\ value' = IF e.val = "kept" THEN value ELSE e.val

(* sigma_dut.c 499-515 *)
Finish ==
  /\ pc = "answered"
  /\ pc' = "idle"
  /\ request' = "none"
  /\ end' = NotEnded
  /\ UNCHANGED <<field, program, value>>

(* The table of the commands, by the file that registers them.             *)
(* basic.c 263-265 *)
basic_register_cmds ==
  \/ Serve("ca_get_version", cmd_ca_get_version)
  \/ Serve("device_get_info", cmd_device_get_info)
  \/ Serve("device_list_interfaces", cmd_device_list_interfaces)

(* sta.c 21713-21781 *)
sta_register_cmds ==
  \/ Serve("sta_get_ip_config", cmd_sta_get_ip_config)
  \/ Serve("sta_set_ip_config", cmd_sta_set_ip_config)
  \/ Serve("sta_get_info", cmd_sta_get_info)
  \/ Serve("sta_get_mac_address", cmd_sta_get_mac_address)
  \/ Serve("sta_is_connected", cmd_sta_is_connected)
  \/ Serve("sta_verify_ip_connection", cmd_sta_verify_ip_connection)
  \/ Serve("sta_get_bssid", cmd_sta_get_bssid)
  \/ Serve("sta_set_encryption", cmd_sta_set_encryption)
  \/ Serve("sta_set_psk", cmd_sta_set_psk)
  \/ Serve("sta_set_eaptls", cmd_sta_set_eaptls)
  \/ Serve("sta_set_eapttls", cmd_sta_set_eapttls)
  \/ Serve("sta_set_eapsim", cmd_sta_set_eapsim)
  \/ Serve("sta_set_peap", cmd_sta_set_peap)
  \/ Serve("sta_set_eapfast", cmd_sta_set_eapfast)
  \/ Serve("sta_set_eapaka", cmd_sta_set_eapaka)
  \/ Serve("sta_set_eapakaprime", cmd_sta_set_eapakaprime)
  \/ Serve("sta_set_security", cmd_sta_set_security)
  \/ Serve("sta_set_uapsd", cmd_sta_set_uapsd)
  \/ Serve("sta_set_wmm", cmd_sta_set_wmm)
  \/ Serve("sta_associate", cmd_sta_associate)
  \/ Serve("sta_preset_testparameters", cmd_sta_preset_testparameters)
  \/ Serve("sta_set_11n", cmd_sta_set_11n)
  \/ Serve("sta_set_wireless", cmd_sta_set_wireless)
  \/ Serve("sta_send_addba", cmd_sta_send_addba)
  \/ Serve("sta_disconnect", cmd_sta_disconnect)
  \/ Serve("sta_reassoc", cmd_sta_reassoc)
  \/ Serve("sta_reassociate", cmd_sta_reassoc)
  \/ Serve("sta_reset_default", cmd_sta_reset_default)
  \/ Serve("sta_send_frame", cmd_sta_send_frame)
  \/ Serve("sta_set_macaddr", cmd_sta_set_macaddr)
  \/ Serve("sta_set_rfeature", cmd_sta_set_rfeature)
  \/ Serve("sta_set_radio", cmd_sta_set_radio)
  \/ Serve("sta_set_pwrsave", cmd_sta_set_pwrsave)
  \/ Serve("sta_set_power_save", cmd_sta_set_pwrsave)
  \/ Serve("sta_bssid_pool", cmd_sta_bssid_pool)
  \/ Serve("sta_reset_parm", cmd_sta_reset_parm)
  \/ Serve("sta_get_key", cmd_sta_get_key)
  \/ Serve("sta_hs2_associate", cmd_sta_hs2_associate)
  \/ Serve("sta_hs2_venue_info", cmd_sta_hs2_venue_info)
  \/ Serve("sta_add_credential", cmd_sta_add_credential)
  \/ Serve("sta_scan", cmd_sta_scan)
  \/ Serve("sta_scan_bss", cmd_sta_scan_bss)
  \/ Serve("sta_set_systime", cmd_sta_set_systime)
  \/ Serve("sta_osu", cmd_sta_osu)
  \/ Serve("sta_policy_update", cmd_sta_policy_update)
  \/ Serve("sta_er_config", cmd_sta_er_config)
  \/ Serve("sta_wps_connect_pw_token", cmd_sta_wps_connect_pw_token)
  \/ Serve("sta_exec_action", cmd_sta_exec_action)
  \/ Serve("sta_get_events", cmd_sta_get_events)
  \/ Serve("sta_get_parameter", cmd_sta_get_parameter)
  \/ Serve("start_wps_registration", cmd_start_wps_registration)

(* traffic.c 970-973 *)
traffic_register_cmds ==
  \/ Serve("traffic_send_ping", cmd_traffic_send_ping)
  \/ Serve("traffic_stop_ping", cmd_traffic_stop_ping)
  \/ Serve("traffic_start_iperf", cmd_traffic_start_iperf)
  \/ Serve("traffic_stop_iperf", cmd_traffic_stop_iperf)

(* p2p.c 4248-4284 *)
p2p_register_cmds ==
  \/ Serve("sta_get_p2p_dev_address", cmd_sta_get_p2p_dev_address)
  \/ Serve("sta_set_p2p", cmd_sta_set_p2p)
  \/ Serve("sta_start_autonomous_go", cmd_sta_start_autonomous_go)
  \/ Serve("sta_p2p_connect", cmd_sta_p2p_connect)
  \/ Serve("sta_p2p_start_group_formation", cmd_sta_p2p_start_group_formation)
  \/ Serve("sta_p2p_dissolve", cmd_sta_p2p_dissolve)
  \/ Serve("sta_send_p2p_invitation_req", cmd_sta_send_p2p_invitation_req)
  \/ Serve("sta_accept_p2p_invitation_req", cmd_sta_accept_p2p_invitation_req)
  \/ Serve("sta_send_p2p_provision_dis_req",
           cmd_sta_send_p2p_provision_dis_req)
  \/ Serve("sta_set_wps_pbc", cmd_sta_set_wps_pbc)
  \/ Serve("sta_wps_read_pin", cmd_sta_wps_read_pin)
  \/ Serve("sta_wps_read_label", cmd_sta_wps_read_label)
  \/ Serve("sta_wps_enter_pin", cmd_sta_wps_enter_pin)
  \/ Serve("sta_get_psk", cmd_sta_get_psk)
  \/ Serve("sta_p2p_reset", cmd_sta_p2p_reset)
  \/ Serve("sta_get_p2p_ip_config", cmd_sta_get_p2p_ip_config)
  \/ Serve("sta_send_p2p_presence_req", cmd_sta_send_p2p_presence_req)
  \/ Serve("sta_set_sleep", cmd_sta_set_sleep)
  \/ Serve("sta_set_opportunistic_ps", cmd_sta_set_opportunistic_ps)
  \/ Serve("sta_send_service_discovery_req",
           cmd_sta_send_service_discovery_req)
  \/ Serve("sta_add_arp_table_entry", cmd_sta_add_arp_table_entry)
  \/ Serve("sta_block_icmp_response", cmd_sta_block_icmp_response)
  \/ Serve("sta_nfc_action", cmd_sta_nfc_action)

(* ap.c 15898-15925 *)
ap_register_cmds ==
  \/ Serve("ap_ca_version", cmd_ap_ca_version)
  \/ Serve("ap_set_wireless", cmd_ap_set_wireless)
  \/ Serve("ap_send_addba_req", cmd_ap_send_addba_req)
  \/ Serve("ap_set_11n_wireless", cmd_ap_set_wireless)
  \/ Serve("ap_set_11n", cmd_ap_set_wireless)
  \/ Serve("ap_set_11d", cmd_ap_set_wireless)
  \/ Serve("ap_set_11h", cmd_ap_set_wireless)
  \/ Serve("ap_set_security", cmd_ap_set_security)
  \/ Serve("ap_set_apqos", cmd_ap_set_apqos)
  \/ Serve("ap_set_staqos", cmd_ap_set_staqos)
  \/ Serve("ap_set_radius", cmd_ap_set_radius)
  \/ Serve("ap_reboot", cmd_ap_reboot)
  \/ Serve("ap_config_commit", cmd_ap_config_commit)
  \/ Serve("ap_reset_default", cmd_ap_reset_default)
  \/ Serve("ap_get_info", cmd_ap_get_info)
  \/ Serve("ap_deauth_sta", cmd_ap_deauth_sta)
  \/ Serve("ap_send_frame", cmd_ap_send_frame)
  \/ Serve("ap_get_mac_address", cmd_ap_get_mac_address)
  \/ Serve("ap_set_pmf", cmd_ap_set_pmf)
  \/ Serve("ap_set_hs2", cmd_ap_set_hs2)
  \/ Serve("ap_set_rfeature", cmd_ap_set_rfeature)
  \/ Serve("ap_nfc_action", cmd_ap_nfc_action)
  \/ Serve("ap_wps_read_pin", cmd_ap_wps_read_pin)
  \/ Serve("ap_wps_enter_pin", cmd_ap_wps_enter_pin)
  \/ Serve("ap_wps_set_pbc", cmd_ap_wps_set_pbc)
  \/ Serve("ap_get_parameter", cmd_ap_get_parameter)
  \/ Serve("AccessPoint", cmd_accesspoint)
  \/ Serve("ap_preset_testparameters", cmd_ap_preset_testparameters)

(* powerswitch.c 49-51 *)
powerswitch_register_cmds ==
  \/ Serve("power_switch_ctrl", cmd_power_switch_ctrl)
  \/ Serve("power_switch_reset", cmd_power_switch_reset)
  \/ Serve("PowerSwitch", cmd_powerswitch)

(* atheros.c 119-121 *)
atheros_register_cmds ==
  \/ Serve("sta_atheros", cmd_sta_atheros)
  \/ Serve("atheros_config_scan", cmd_atheros_config_scan)

(* wlantest.c 1107-1128 *)
wlantest_register_cmds ==
  \/ Serve("wlantest_version", cmd_wlantest_version)
  \/ Serve("wlantest_set_channel", cmd_wlantest_set_channel)
  \/ Serve("wlantest_flush", cmd_wlantest_flush)
  \/ Serve("wlantest_send_frame", cmd_wlantest_send_frame)
  \/ Serve("wlantest_add_passphrase", cmd_wlantest_add_passphrase)
  \/ Serve("wlantest_clear_sta_counters", cmd_wlantest_clear_sta_counters)
  \/ Serve("wlantest_clear_bss_counters", cmd_wlantest_clear_bss_counters)
  \/ Serve("wlantest_clear_tdls_counters", cmd_wlantest_clear_tdls_counters)
  \/ Serve("wlantest_get_sta_counter", cmd_wlantest_get_sta_counter)
  \/ Serve("wlantest_get_bss_counter", cmd_wlantest_get_bss_counter)
  \/ Serve("wlantest_get_tdls_counter", cmd_wlantest_get_tdls_counter)
  \/ Serve("wlantest_info_sta", cmd_wlantest_info_sta)
  \/ Serve("wlantest_info_bss", cmd_wlantest_info_bss)

(* dev.c 998-1008 *)
dev_register_cmds ==
  \/ Serve("dev_send_frame", cmd_dev_send_frame)
  \/ Serve("dev_set_parameter", cmd_dev_set_parameter)
  \/ Serve("dev_exec_action", cmd_dev_exec_action)
  \/ Serve("dev_configure_ie", cmd_dev_configure_ie)
  \/ Serve("dev_start_test", cmd_dev_start_test)
  \/ Serve("dev_stop_test", cmd_dev_stop_test)
  \/ Serve("dev_upload_log", cmd_dev_upload_log)
  \/ Serve("dev_get_log", cmd_dev_get_log)
  \/ Serve("dev_ble_action", cmd_dev_ble_action)

(* sniffer.c 372-389 *)
sniffer_register_cmds ==
  \/ Serve("sniffer_control_start", cmd_sniffer_control_start)
  \/ Serve("sniffer_control_stop", cmd_sniffer_control_stop)
  \/ Serve("sniffer_control_field_check", cmd_sniffer_control_field_check)
  \/ Serve("sniffer_get_info", cmd_sniffer_get_info)
  \/ Serve("sniffer_control_filter_capture",
           cmd_sniffer_control_filter_capture)
  \/ Serve("wfa_sniffer_control_filter_capture",
           cmd_sniffer_control_filter_capture)
  \/ Serve("sniffer_get_field_value", cmd_sniffer_get_field_value)
  \/ Serve("sniffer_check_p2p_NoA_duration",
           cmd_sniffer_check_p2p_noa_duration)
  \/ Serve("sniffer_check_p2p_opps_client", cmd_sniffer_check_p2p_opps_client)
  \/ Serve("sniffer_check_frame_field", cmd_sniffer_check_frame_field)

(* server.c 1240-1248 *)
server_register_cmds ==
  \/ Serve("server_ca_get_version", cmd_server_ca_get_version)
  \/ Serve("server_get_info", cmd_server_get_info)
  \/ Serve("server_reset_default", cmd_server_reset_default)
  \/ Serve("server_request_status", cmd_server_request_status)
  \/ Serve("server_set_parameter", cmd_server_set_parameter)

(* miracast.c 1594-1600 *)
miracast_register_cmds ==
  \/ Serve("start_wfd_connection", cmd_start_wfd_connection)
  \/ Serve("connect_go_start_wfd", cmd_connect_go_start_wfd)
  \/ Serve("sta_generate_event", cmd_sta_generate_event)
  \/ Serve("reinvoke_wfd_session", cmd_reinvoke_wfd_session)

(* sigma_dut.c 385-515 *)
process_cmd ==
  \/ basic_register_cmds \/ sta_register_cmds \/ traffic_register_cmds
  \/ p2p_register_cmds \/ ap_register_cmds \/ powerswitch_register_cmds
  \/ atheros_register_cmds \/ wlantest_register_cmds \/ dev_register_cmds
  \/ sniffer_register_cmds \/ server_register_cmds \/ miracast_register_cmds

CommandsNext == Arrive \/ Reject \/ process_cmd \/ Finish

CommandsSpec == CommandsInit /\ [][CommandsNext]_commandVars
-------------------------------------------------------------------------------
(* PROPERTIES                                                              *)

CommandsTypeOK ==
  /\ field \in Fields /\ program \in Programs
  /\ value \in {"default", "set"}
  /\ pc \in {"idle", "asked", "answered"}
  /\ request \in Requests
  /\ end.answers \in Nat /\ end.left \in Int
  /\ end.res \in IF pc = "answered" THEN Result ELSE {GoesOn}

(* The commands whose handler may send a final status and go on to a       *)
(* second one, mostly by returning an error after having answered, and     *)
(* those that may end with STATUS_SENT although nothing has been sent.     *)
AnswerAgain ==
  {"ap_config_commit", "ap_set_rfeature", "dev_exec_action",
   "dev_send_frame", "dev_stop_test", "dev_upload_log", "sta_exec_action",
   "sta_preset_testparameters", "sta_reset_default", "sta_send_frame",
   "sta_set_eapaka", "sta_set_eapakaprime", "sta_set_eapfast",
   "sta_set_eapsim", "sta_set_eaptls", "sta_set_eapttls", "sta_set_peap",
   "sta_set_psk", "sta_set_rfeature", "sta_set_security",
   "sta_set_wireless", "traffic_start_iperf", "wlantest_send_frame"}
StaySilent ==
  {"ap_config_commit", "ap_set_11d", "ap_set_11h", "ap_set_11n",
   "ap_set_11n_wireless", "ap_set_rfeature", "ap_set_wireless",
   "atheros_config_scan", "dev_send_frame", "sta_exec_action",
   "sta_get_events", "sta_preset_testparameters", "sta_set_power_save",
   "sta_set_pwrsave", "sta_set_rfeature"}

(* Every command has exactly one final status: a handler that has sent one *)
(* returns STATUS_SENT or STATUS_SENT_ERROR on every path, one that has    *)
(* not leaves it to process_cmd() (src/sigma_dut.h:185, the error of       *)
(* src/sigma_dut.c:493).  The commands of AnswerAgain and StaySilent are   *)
(* those that fail to, the first never below one status and the second     *)
(* never above unless they are in both.                                    *)
AnsweredOnce ==
  pc = "answered" =>
    /\ end.answers > 1 => request \in AnswerAgain
    /\ end.answers < 1 => request \in StaySilent

(* The commands that may leave a descriptor or a monitor behind when one   *)
(* of their steps fails: a file of ap_config_commit, the monitor of        *)
(* sta_reassoc, the directory that looks for iperf.                        *)
LeaveOpen ==
  {"ap_config_commit", "ap_set_11d", "ap_set_11h", "ap_set_11n",
   "ap_set_11n_wireless", "ap_set_rfeature", "ap_set_wireless",
   "dev_exec_action", "sta_exec_action", "sta_hs2_venue_info",
   "sta_reassoc", "sta_reassociate", "sta_set_wireless",
   "traffic_stop_iperf"}

(* Whatever path a handler takes, early returns included, it closes each   *)
(* of the files, sockets and monitors that it has opened, once.            *)
NothingLeftOpen ==
  pc = "answered" =>
    /\ end.left >= 0
    /\ end.left > 0 => request \in LeaveOpen

(* The members that tests set and that a reset brings back in no program,  *)
(* or only on some devices and in some roles of the device: the arrays     *)
(* whose number of elements is reset, what is set before each use, and     *)
(* what stays as the last test has left it.                                *)
Survives ==
  [ap_reset_default |->
     {"amsdu_size", "ap2_radius_port", "ap_anqpserver_on", "ap_ba_bufsize",
      "ap_bawinsize", "ap_chwidth_1", "ap_dhcpserv_ipaddr", "ap_mcs",
      "ap_name", "ap_num_ese_allocs", "ap_p2p_mgmt", "ap_radius_port",
      "ap_tdls_prohibit", "ap_tdls_prohibit_chswitch", "ap_val_neighap",
      "ap_val_opchannel", "ap_vht_chwidth", "ap_wepkey", "ar_ltf",
      "back_rcv_buf", "chwidth", "ft_bss_mac_list", "mbo_pref_aps",
      "mdns_discover", "mode", "wps_method", "wps_pin"},
   sta_reset_default |->
     {"ap_dyn_bw_sig", "ar_ltf", "beacon_prot", "chwidth", "client_uapsd",
      "dialog_token", "dscp_reject_resp_code", "dscp_status.id",
      "dscp_status.status", "eap_fragment", "force_rsn_ie", "i2rlmr_iftmr",
      "infra_network_id", "infra_ssid", "last_set_ip_config_ipv6",
      "mdns_instance_name", "mode", "ndp_enable", "ocvc", "p2p_connect_info",
      "p2p_event_mon_thread", "prev_disable_mscs_support",
      "prev_disable_scs_support", "saquery_oci_freq", "sectype",
      "sta_2g_started", "sta_5g_started", "sta_bssid_pool", "sta_pmf",
      "tid_to_handle"},
   sta_p2p_reset |->
     {"arp_ifname", "intra_bss", "noa_count", "noa_duration", "noa_interval",
      "p2p_r2_capable", "persistent", "twt_param.bcast_twt_id",
      "twt_param.wake_interval_mantissa", "usd_enabled", "wps_pin"}]

(* The members of a program: its reset brings them back, the reset of      *)
(* another program may leave them.                                         *)
HotspotPrograms ==
  {"HS2", "HS2_R2", "HS2_R3", "HS2_R4", "HS2_2022", "IOTLP"}
ProgramOnly ==
  [ap_reset_default |->
     {[programs |-> HotspotPrograms \ {"HS2"},
       members |-> {"ap2_osu", "ap2_proxy_arp", "ap_hessid",
                    "ap_osu_icon_tag", "ap_osu_method",
                    "ap_osu_provider_list", "ap_osu_provider_nai_list",
                    "ap_osu_server_uri", "ap_osu_ssid", "ap_qos_map_set"}],
      [programs |-> {"OCE"},
       members |-> {"ap_80plus80", "ap_add_sha384", "ap_airtimefract",
                    "ap_akm", "ap_ble_admit_cap", "ap_blechanutil",
                    "ap_blestacnt", "ap_broadcast_ssid", "ap_datappdudura",
                    "ap_dhcp_stop", "ap_dl_availcap", "ap_esp",
                    "ap_fils_dscv_int", "ap_filsdscv", "ap_filshlp",
                    "ap_nairealm", "ap_nairealm_int", "ap_oce", "ap_rnr",
                    "ap_ul_availcap"}],
      [programs |-> HotspotPrograms,
       members |-> {"ap_access_net_type", "ap_conn_capab", "ap_dgaf_disable",
                    "ap_domain_name_list", "ap_hs2", "ap_internet",
                    "ap_ip_addr_type_avail", "ap_l2tif", "ap_nai_realm_list",
                    "ap_net_auth_type", "ap_oper_class", "ap_oper_name",
                    "ap_plmn_mcc", "ap_plmn_mnc", "ap_proxy_arp",
                    "ap_roaming_cons", "ap_venue_group", "ap_venue_name",
                    "ap_venue_type", "ap_wan_metrics"}],
      [programs |-> HotspotPrograms \cup {"OCE"},
       members |-> {"ap_add_sha256"}],
      [programs |-> {"VHT"},
       members |-> {"ap_amsdu", "ap_ndpa_frame", "ap_rx_streams", "ap_sgi80",
                    "ap_tx_stbc", "ap_tx_streams", "ap_vhtmcs_map",
                    "use_5g"}],
      [programs |-> {"MBO"},
       members |-> {"ap_assoc_delay", "ap_btmreq_bss_term_dur",
                    "ap_btmreq_bss_term_tsf", "ap_btmreq_disassoc_imnt",
                    "ap_btmreq_term_bit", "ap_cell_cap_pref",
                    "ap_disassoc_timer", "mbo_self_ap_tuple"}],
      [programs |-> {"MBO", "VHT"},
       members |-> {"ap_channel"}],
      [programs |-> {"LOC"},
       members |-> {"ap_fqdn_held", "ap_fqdn_supl", "ap_infoz", "ap_lci",
                    "ap_lcr", "ap_msnt_type", "ap_neighap", "ap_opchannel",
                    "ap_scan", "ap_val_lci", "ap_val_lcr"}],
      [programs |-> HotspotPrograms \cup {"LOC", "MBO"},
       members |-> {"ap_gas_cb_delay", "ap_interworking"}],
      [programs |-> {"EHT", "HE"},
       members |-> {"he_sounding"}],
      [programs |-> {"PR"},
       members |-> {"i2rlmrpolicy", "rnm_mfp", "urnm_mfpr_x20"}]},
   sta_reset_default |->
     {[programs |-> Programs \ {"60GHZ", "WPS"},
       members |-> {"akm_values", "config_random_pmkid", "config_rsnie",
                    "dhcp_client_running", "er_oper_bssid",
                    "er_oper_performed", "sae_commit_override", "sae_pwe",
                    "server_cert_hash", "server_cert_tod",
                    "sta_associate_wait_connect", "sta_ft_ds",
                    "sta_roaming_disabled", "sta_tod_policy", "tmp_mac_addr",
                    "wps_forced_version", "wsc_fragment"}],
      [programs |-> {"EHT", "HE", "MBO"},
       members |-> {"btm_query_cand_list", "non_pref_ch_list"}],
      [programs |-> {"NAN"},
       members |-> {"data_ch_freq", "dev_info", "nan_pmk", "nan_pmk_len",
                    "ndpe", "peer_info", "sta_channel", "trans_proto"}],
      [programs |-> {"QM"},
       members |-> {"dscp_policy_mon_thread", "dscp_policy_table",
                    "num_dscp_status", "qm_domain_name",
                    "reject_dscp_policies"}],
      [programs |-> {"OCE"},
       members |-> {"fils_hlp"}],
      [programs |-> {"TDLS"},
       members |-> {"no_tpk_expiration"}],
      [programs |-> {"PR"},
       members |-> {"rnm_mfp"}],
      [programs |-> {"LOC", "LOCR2", "PR"},
       members |-> {"urnm_mfpr_x20"}]},
   sta_p2p_reset |-> {}]

(* A test begins with a reset, and is to find the device as if there had   *)
(* been no test before: what any command has set in the role that is       *)
(* reset, in any order and under any program, is gone.                     *)
ResetForgets ==
  (/\ pc = "answered"
   /\ request \in DOMAIN Survives
   /\ end.res \in {STATUS_SENT, SUCCESS_SEND_STATUS}
   /\ field \notin Survives[request] \cup {"default_timeout"}
   /\ \A g \in ProgramOnly[request] :
        field \in g.members => program \in g.programs)
    => value # "set"

(* The time that commands may take is an option of the program.  A handler *)
(* that needs another one for itself puts the former back before it        *)
(* returns; it is changed for good by sta_atheros and by the resets of the *)
(* WFD program, and by a DPP action that gives up early (src/dpp.c:3783).  *)
TimeoutKept ==
  [][field = "default_timeout" /\ value' # value
       => \/ request \in {"sta_atheros", "dev_exec_action"}
          \/ request = "sta_reset_default" /\ program = "WFD"]_commandVars
===============================================================================
