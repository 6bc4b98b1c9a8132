----------------------------- MODULE P2pCommands -----------------------------
(***************************************************************************)
(* The handlers of the Wi-Fi Direct commands, src/p2p.c, and of the        *)
(* unsynchronized service discovery under it, src/p2p_usd.c.  `go' and     *)
(* `p2p_client' say which role the device has had, `groups' is the list of *)
(* its groups.                                                             *)
(***************************************************************************)
EXTENDS SharedHelpers, MiracastCommands

(* p2p.c 353-378 *)
p2p_group_add ==
  Do(<<Sets({"go"}) \cup Sets({"p2p_client"}), If(Invalid),
       Sets({"groups"}), Sent>>)

(* p2p.c 381-400 *)
p2p_group_remove == Then(Sets({"groups"}), Sent) \cup Invalid

(* A group that wpa_supplicant knows and the list does not is added to it. *)
(* p2p.c 403-486 *)
p2p_group_get == If(Call(p2p_group_add))

(* The thread that starts and stops DHCP as groups come and go.            *)
(* p2p.c 230-341 *)
wpa_event_recv == Do(<<If(Sent), Opens, Closes, Sent>>)

(* p2p.c 643-671 *)
disconnect_station == Defaults({"infra_ssid"})

(* p2p.c 674-690 *)
cmd_sta_get_p2p_dev_address == Do(<<If(Answered), Answered>>)

(* p2p.c 693-753: sends a vendor command. *)
p2p_set_noa_nl80211 == Return(-1) \cup Return(0)

(* p2p.c 756-896 *)
set_p2p_discovery ==
  Do(<<If(Do(<<Sets({"listen_chn"}), If(Error)>>)),
       If(Do(<<If(Invalid), If(Error)>>)),
       If(Do(<<If(Error), Sets({"p2p_mode"})>>) \cup Invalid),
       If(Sets({"persistent"})),
       If(Do(<<If(Invalid), Sets({"intra_bss"})>>)),
       IF program = "60GHZ" THEN {None}
       ELSE Do(<<If(Sets({"noa_duration"})), If(Sets({"noa_interval"})),
                 If(Sets({"noa_count"})),
                 If(Do(<<Call(p2p_set_noa_nl80211), If(Answered)>>))>>)>>)

(* p2p.c 896-1080 *)
cmd_sta_set_p2p ==
  Do(<<set_p2p_discovery, If(Error), If(Error),
       If(Do(<<If(Sets({"pasn_type"})), If(Error)>>)),
       If(Error),                         \* cross connection
       If(If(Answered)),                  \* P2P managed bit
       If(Error),                         \* GO APSD
       If(Sets({"usd_enabled"})),
       If(Do(<<Sets({"p2p_r2_capable", "persistent"}), If(Error)>>)
            \cup Sets({"p2p_r2_capable"})),
       If(Do(<<If(Error), Sets({"is_p2p_twt_power_mgmt_enabled"})>>)),
       If(Sets({"twt_param.unavailability_mode"})),
       If(Sets({"twt_param.wake_interval_mantissa"})),
       If(Sets({"twt_param.is_bcast_twt", "twt_param.is_user_config",
                "twt_param.bcast_twt_id"})),
       Success>>)

(* p2p.c 1084-1149 *)
set_p2p_twt_unavailability_mode == Return(-1) \cup Return(0)

(* p2p.c 1153-1190 *)
set_p2p_twt_params ==
  Do(<<If(Sets({"twt_param.is_bcast_twt", "twt_param.unavailability_mode",
                "twt_param.wake_interval_mantissa",
                "twt_param.bcast_twt_id"})),
       Checked(sta_twt_request, Return(-1)),
       If(Checked(set_p2p_twt_unavailability_mode, Return(-1))),
       Return(0)>>)

(* p2p.c 1194-1355.  What can be missing in P2P-GROUP-STARTED is one case. *)
cmd_sta_start_autonomous_go ==
  Do(<<If(Invalid), If(Error),
       If(Error), Opens,
       If(Do(<<Closes, Error>>)),
       Closes,
       If(Answered),
       If(Error), Call(p2p_group_add),
       If(Checked(set_p2p_twt_params, Error)),
       Answered>>)

(* p2p.c 1361-1453 *)
sta_p2p_client_connect ==
  Do(<<If(Invalid), If(Refused), If(Error),
       If(Error), Opens,
       If(Do(<<Closes, Error>>)),
       Closes,
       If(Refused),
       If(If(Refused)),                   \* the DHCP client
       Answered>>)

(* p2p.c 1457-1575 *)
cmd_sta_p2p_connect ==
  Do(<<If(Invalid),
       If(sta_p2p_client_connect \cup Answered),
       If(Answered),
       If(Error), Opens,
       If(Do(<<Answer, Closes, Sent>>)),
       Closes,
       If(Answered),
       If(Error), Call(p2p_group_add), Success>>)

(* p2p.c 1701-1833: called with an open monitor. *)
p2p_group_formation_event ==
  Do(<<Closes, If(Answered), If(Answered), If(Error),
       Call(p2p_group_add), Answered>>)

(* p2p.c 1584-1698: only the side that starts the negotiation waits. *)
cmd_sta_p2p_start_group_formation ==
  Do(<<If(Invalid), If(Answered), If(Error),
       Do(<<If(Error), Opens, If(Do(<<Answer, Closes, Sent>>)),
            p2p_group_formation_event>>)
         \cup Do(<<If(Answered), Success>>)>>)

(* p2p.c 1836-1878: called with an open monitor. *)
wps_connection_event(p2p_resp) ==
  Do(<<Closes, If(Answered), If(Answered),
       IF p2p_resp THEN Answered ELSE Success>>)

(* p2p.c 1882-1914 *)
cmd_sta_p2p_dissolve ==
  Do(<<If(Invalid), p2p_group_get, If(Answered),
       Defaults({"go"}) \cup Defaults({"p2p_client"}),
       Call(p2p_group_remove), Success>>)

(* p2p.c 1918-2009 *)
cmd_sta_send_p2p_invitation_req ==
  Do(<<If(Invalid),
       Do(<<If(Invalid), If(Error), If(Answered)>>)
         \cup Then(p2p_group_get, If(Answered)),
       If(Answered),
       If(Error), Opens,
       If(Do(<<Closes, Error>>)),
       Closes,
       If(Error), Success>>)

(* p2p.c 2014-2055 *)
cmd_sta_accept_p2p_invitation_req ==
  Do(<<If(Invalid), If(Success), If(Answered), If(Error), Success>>)

(* p2p.c 2059-2101 *)
cmd_sta_send_p2p_provision_dis_req ==
  Do(<<If(Invalid), If(Answered), If(Error), Success>>)

(* p2p.c 2105-2124 *)
cmd_sta_set_wps_pbc ==
  Do(<<p2p_group_get, If(Success), Sets({"wps_method"}), Success>>)

(* p2p.c 2128-2164 *)
cmd_sta_wps_read_pin ==
  Do(<<p2p_group_get, If(Invalid \cup Answered),
       Sets({"wps_pin", "wps_method"}), Answered>>)

(* p2p.c 2168-2195 *)
cmd_sta_wps_read_label ==
  Do(<<p2p_group_get, If(Success), Sets({"wps_pin", "wps_method"}), Answered>>)

(* p2p.c 2199-2227 *)
cmd_sta_wps_enter_pin ==
  Do(<<If(Invalid), p2p_group_get, If(Success),
       Sets({"wps_pin", "wps_method"}), Success>>)

(* p2p.c 2231-2266 *)
cmd_sta_get_psk ==
  Do(<<If(Invalid), p2p_group_get, If(Answered), If(Error), Answered>>)

(* p2p.c 2270-2278 *)
stop_p2p_event_mon_thread == Defaults({"p2p_event_mon_thread"})

(* Mutation: the former test's kind of PASN is not reset.                  *)
p2p_reset_KeepsPasn ==
  Do(<<Defaults({"go", "p2p_client", "wps_method",
                 "is_p2p_twt_power_mgmt_enabled", "twt_param.is_user_config",
                 "twt_param.is_bcast_twt", "twt_param.unavailability_mode",
                 "groups"}),
       stop_p2p_event_mon_thread,
       Defaults({"listen_chn", "arp_ipaddr", "p2p_mode", "client_uapsd"}),
       disconnect_station, Success>>)

(* All groups are removed, and what a test may have set is set back.       *)
(* p2p.c 2294-2368 *)
p2p_reset ==
  Do(<<Defaults({"go", "p2p_client", "wps_method", "pasn_type",
                 "is_p2p_twt_power_mgmt_enabled", "twt_param.is_user_config",
                 "twt_param.is_bcast_twt", "twt_param.unavailability_mode",
                 "groups"}),
       stop_p2p_event_mon_thread,
       Defaults({"listen_chn", "arp_ipaddr", "p2p_mode", "client_uapsd"}),
       disconnect_station, Success>>)

(* p2p.c 2281-2293 *)
sta_p2p_reset_default ==
  Do(<<InProgram({"WFD", "DISPLAYR2"}, Call(miracast_sta_reset_default)),
       p2p_reset>>)

(* The log of the test is started if there is a Runtime_ID; whether it     *)
(* could be is not asked.                                                  *)
(* p2p.c 2371-2381 *)
cmd_sta_p2p_reset ==
  Do(<<Sets({"program"}), If(Call(dev_start_test_log)), p2p_reset>>)

(* p2p.c 2384-2495 *)
cmd_sta_get_p2p_ip_config ==
  Do(<<If(Do(<<If(Invalid), p2p_group_get, If(Refused)>>)), If(Error),
       If(Invalid) \cup Do(<<If(Refused), If(Refused)>>), Answered>>)

(* Mutation: the end of the handler is reached without a return.           *)
cmd_sta_send_p2p_presence_req_NoReturn == Do(<<If(Invalid), If(Error)>>)

(* p2p.c 2499-2520 *)
cmd_sta_send_p2p_presence_req == Do(<<If(Invalid), If(Error), Success>>)

(* p2p.c 2524-2577 *)
cmd_sta_set_sleep ==
  Do(<<InProgram({"60GHZ"}, Answered), p2p_group_get, If(Answered),
       Do(<<If(Do(<<If(Answered), Success>>)), If(Error)>>) \cup If(Answered),
       Success>>)

(* p2p.c 2581-2622 *)
cmd_sta_set_opportunistic_ps ==
  Do(<<If(Invalid), p2p_group_get, If(Answered),
       If(Then(If(Refused), Success)), If(Answered), Success>>)

(* p2p.c 2626-2645 *)
cmd_sta_send_service_discovery_req ==
  Do(<<If(Invalid), If(Answered), Success>>)

(* p2p.c 2649-2685 *)
cmd_sta_add_arp_table_entry ==
  Do(<<If(Invalid), p2p_group_get, If(Answered),
       Sets({"arp_ipaddr", "arp_ifname"}), Success>>)

(* p2p.c 2689-2719 *)
cmd_sta_block_icmp_response ==
  Do(<<If(Invalid), p2p_group_get, If(Answered), Success>>)

(* p2p.c 2746-2789 *)
nfc_write_p2p_select ==
  Do(<<If(Answered), If(Answered), If(Answered), If(Answered), Answered>>)

(* p2p.c 2793-2839 *)
nfc_write_config_token == Do(<<If(If(Answered)), If(Answered), Answered>>)

(* p2p.c 2843-2867 *)
nfc_write_password_token == Do(<<If(Answered), Answered>>)

(* The NFC script, which may fail with the monitor still open.             *)
(* p2p.c 2905-2913, 2955-2962, 3223-3230 *)
nfc_script == If(Do(<<Answer, Closes, Sent>>))

(* p2p.c 2871-2927 *)
nfc_read_tag ==
  Do(<<If(Error), Opens, nfc_script, If(wps_connection_event(TRUE)),
       If(Do(<<Closes, Answered>>)), p2p_group_formation_event>>)

(* p2p.c 2931-2964 *)
nfc_wps_read_tag ==
  Do(<<If(Error), Opens, nfc_script, wps_connection_event(TRUE)>>)

(* p2p.c 3001-3061: every failure has been answered. *)
er_start ==
  Do(<<If(Answered), If(Answered), If(Answered), If(Answered), Success>>)

(* p2p.c 3065-3195 *)
nfc_wps_read_passwd ==
  Do(<<If(Answered), If(Answered), If(Answered), If(Answered),
       If(If(Answered)),
       If(Error), Opens,
       Do(<<Passed(er_start, SUCCESS_SEND_STATUS, Do(<<Closes, Sent>>)),
            If(Do(<<Closes, Answered>>)), Closes, Answered>>)
         \cup Do(<<If(Do(<<Closes, Answered>>)), If(Do(<<Closes, Answered>>)),
                   If(Do(<<Closes, Answered>>)),
                   wps_connection_event(TRUE)>>)>>)

(* p2p.c 3199-3232 *)
nfc_wps_read_config ==
  Do(<<If(Error), Opens, nfc_script, wps_connection_event(TRUE)>>)

(* p2p.c 3236-3319 *)
nfc_wps_connection_handover ==
  Do(<<If(Error), Opens,
       If(Passed(er_start, SUCCESS_SEND_STATUS, Do(<<Closes, Sent>>))),
       If(Do(<<Closes, Answered>>)), If(Do(<<Closes, Answered>>)),
       If(wps_connection_event(TRUE)),
       Closes, Answered>>)

(* p2p.c 3323-3395 *)
nfc_p2p_connection_handover ==
  Do(<<If(Error), Opens,
       If(Do(<<Closes, Answered>>)), If(Do(<<Closes, Answered>>)),
       If(Do(<<Closes, Answered>>)),
       p2p_group_formation_event>>)

(* p2p.c 3399-3463 *)
cmd_sta_nfc_action ==
  Do(<<If(Invalid), If(Error), If(Do(<<If(Answered), If(Answered)>>)),
       UNION {nfc_write_p2p_select, nfc_write_config_token,
              nfc_write_password_token, nfc_read_tag, nfc_wps_read_tag,
              nfc_wps_read_passwd, nfc_wps_read_config,
              nfc_p2p_connection_handover, nfc_wps_connection_handover,
              Answered}>>)

(* p2p.c 3467-3483 *)
p2p_cmd_sta_get_parameter ==
  Do(<<If(Invalid), If(Answered), Answered>>)

(* p2p.c 3534-3672: the monitor is not closed when P2P_CONNECT fails. *)
p2p_pasn_initiator_connect ==
  Do(<<If(Error), Opens,
       If(Error),
       Closes,
       If(Refused),
       If(Error), Sets({"p2p_connect_info"}), Call(p2p_group_add),
       Answered>>)

(* p2p.c 3878-3991 *)
p2p_pasn_pairing_setup ==
  Do(<<If(Invalid), If(Do(<<If(Refused), If(Refused)>>)),
       Sets({"p2p_connect_info"}), If(Refused), If(Invalid),
       If(p2p_pasn_initiator_connect),
       If(Refused), Sets({"p2p_event_mon_thread"}), Answered>>)

(* p2p.c 3994-4075 *)
p2p_pasn_join ==
  Do(<<If(Invalid), If(Do(<<If(Refused), If(Refused)>>)),
       Sets({"p2p_connect_info"}), If(Invalid),
       If(Do(<<If(Refused), p2p_pasn_initiator_connect>>)),
       Sets({"p2p_event_mon_thread"}), Answered>>)

(* p2p.c 4078-4208: the monitor is not closed when P2P_INVITE fails, and   *)
(* an event whose parts are not understood returns STATUS_SENT_ERROR with  *)
(* nothing sent.                                                           *)
p2p_pasn_pairing_verification ==
  Do(<<If(Invalid), If(Error), If(Refused), If(Refused),
       If(Error), Opens,
       If(Refused),
       Closes,
       If(Refused),
       If(SentError), Answered>>)

(* p2p.c 4211-4233 *)
p2p_cmd_sta_exec_action ==
  Do(<<If(Error),
       UNION {p2p_pasn_pairing_setup, p2p_pasn_pairing_verification,
              p2p_pasn_join, Answered}>>)

(* p2p_usd.c 14-94 *)
sigma_usd_publish == UNION {Error, Refused, Success}

(* p2p_usd.c 97-215 *)
sigma_usd_subscribe == UNION {Error, Refused, Success}

(* p2p_usd.c 218-290 *)
usd_cmd_sta_exec_action ==
  UNION {Answered, Error, Refused,
         Then(OnSuccess(sigma_usd_publish \cup sigma_usd_subscribe), Answered)}
===============================================================================
