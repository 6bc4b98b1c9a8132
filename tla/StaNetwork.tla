------------------------------ MODULE StaNetwork -----------------------------
(***************************************************************************)
(* The handlers of src/sta.c that configure the addresses and the network  *)
(* of the station: sta_set_ip_config, sta_set_security and the commands    *)
(* for single methods, sta_set_uapsd, sta_set_wmm, and the queries.        *)
(***************************************************************************)
EXTENDS ApCommands

(* sta.c 922-958 *)
send_trans_mgmt_query ==
  Do(<<If(Sets({"btm_query_cand_list"})), If(Return(-1)), Return(0)>>)

(* sta.c 1192-1271 *)
cmd_sta_get_ip_config ==
  Do(<<If(Invalid \cup Error), Answered>>)

(* sta.c 1492-1638 *)
ip_config_address ==
  Do(<<If(Invalid \cup Answered), Sets({"last_set_ip_config_ipv6"}),
       If(UNION {Do(<<Sets({"last_set_ip_config_ipv6"}), Success>>),
                 Do(<<If(Do(<<Call(kill_dhcp_client),
                              Checked(start_dhcp_client, Error)>>)),
                      Success>>),
                 Answered, Invalid}),
       Call(kill_dhcp_client), If(Answered)>>)

(* sta.c 1639-1703 *)
ip_config_routes == Do(<<If(UNION {Answered, Error, Refused}), Success>>)

(* sta.c 1492-1703 *)
cmd_sta_set_ip_config == Do(<<ip_config_address, ip_config_routes>>)

(* sta.c 1706-1714 *)
cmd_sta_get_info == Answered

(* sta.c 1717-1743 *)
cmd_sta_get_mac_address ==
  Do(<<If(sta_cfon_get_mac_address), Call(start_sta_mode), If(Error),
       Answered>>)

(* sta.c 1746-1771 *)
cmd_sta_is_connected == Do(<<If(Error), Answered>>)

(* sta.c 1774-1808 *)
cmd_sta_verify_ip_connection == Do(<<If(Invalid \cup Error), Answered>>)

(* sta.c 1811-1825 *)
cmd_sta_get_bssid == Answered

(* A network number, which the callers take for any result that is not     *)
(* negative.                                                               *)
(* sta.c 1840-1895 *)
add_network_common ==
  Do(<<If(Invalid), Call(start_sta_mode), If(Error),
       Sets({"infra_network_id", "infra_ssid"}), NetworkId>>)

(* sta.c 1898-1951 *)
cmd_sta_set_encryption ==
  Do(<<If(Invalid), OnNonNegative(add_network_common), If(Error \cup Invalid),
       Success>>)

(* sta.c 1954-2043 *)
set_akm_suites ==
  Do(<<Sets({"akm_values"}), If(Return(-1)), OneOf({0, -1})>>)

(* An unknown value is answered and 0 returned, which the callers take for *)
(* a network number: they go on and answer again.                          *)
(* sta.c 2046-2124 *)
wpa_common_proto ==
  Do(<<OnNonNegative(add_network_common), If(Error \cup Answered)>>)

(* sta.c 3678-3715 *)
get_pairwise_ciphers_capa ==
  Do(<<If(Return(0) \cup Return(-1)), If(Sets({"pairwise_ciphers_capa"})),
       Return(0)>>)

(* sta.c 3718-3753 *)
get_group_ciphers_capa ==
  Do(<<If(Return(0) \cup Return(-1)), If(Sets({"group_ciphers_capa"})),
       Return(0)>>)

(* sta.c 2125-2271 *)
wpa_common_pairwise ==
  Do(<<If(Return(-2) \cup Answered),
       If(Do(<<Checked(get_pairwise_ciphers_capa, Return(-2)),
               If(Return(-2))>>)),
       If(Answered \cup Return(-2)),
       If(Do(<<Checked(get_group_ciphers_capa, Return(-2)),
               If(Return(-2))>>))>>)

(* sta.c 3756-3798 *)
get_group_mgmt_ciphers_capa ==
  Do(<<If(Return(0) \cup Return(-1)), If(Sets({"group_mgmt_ciphers_capa"})),
       Return(0)>>)

(* sta.c 2272-2402 *)
wpa_common_akm_pmf ==
  Do(<<If(Answered),
       If(Do(<<Checked(get_group_mgmt_ciphers_capa, Error),
               If(Error \cup Refused)>>)),
       If(Checked(set_akm_suites, Error)), Sets({"sta_pmf"}), If(Error),
       If(Sets({"beacon_prot"})), If(Answered),
       If(Do(<<Sets({"sta_pmf"}), If(Sets({"beacon_prot", "ocvc"})),
               If(Error)>>)),
       If(Error), NetworkId>>)

(* sta.c 2046-2402 *)
set_wpa_common ==
  Do(<<wpa_common_proto, wpa_common_pairwise, wpa_common_akm_pmf>>)

(* sta.c 2607-2756 *)
set_psk_passphrase ==
  Do(<<If(Invalid), OnNonNegative(set_wpa_common), If(Error),
       If(Do(<<Sets({"sta_pmf"}), If(Error)>>)),
       If(Invalid \cup Error), If(Sets({"sae_commit_override"}))>>)

(* sta.c 2757-2834 *)
set_psk_sae ==
  Do(<<If(Refused), If(Sets({"sae_pwe"})), If(Refused \cup Error), Success>>)

(* sta.c 2607-2834 *)
cmd_sta_set_psk == Do(<<set_psk_passphrase, set_psk_sae>>)

(* sta.c 2837-2871 *)
set_trust_root_system == Do(<<If(UNION {Error, Success, Refused}), Success>>)

(* sta.c 2874-2917 *)
set_trust_root ==
  Do(<<If(UNION {set_trust_root_system, Refused, Error}), Success>>)

(* sta.c 3618-3675 *)
get_key_mgmt_capa ==
  Do(<<If(Return(0) \cup Return(-1)), If(Sets({"key_mgmt_capa"})),
       Return(0)>>)

(* sta.c 2920-3068 *)
eap_common_trust ==
  Do(<<OnNonNegative(set_wpa_common), If(Error),
       If(Checked(get_key_mgmt_capa, {None})), If(Error \cup Refused),
       If(OnSuccess(set_trust_root)), If(Do(<<Opens, Closes>>)),
       If(Refused \cup Error), If(Sets({"sta_tod_policy"}))>>)

(* sta.c 3069-3128 *)
eap_common_identity ==
  Do(<<If(Error \cup Refused), Sets({"sta_associate_wait_connect"}),
       NetworkId>>)

(* sta.c 2920-3128 *)
set_eap_common == Do(<<eap_common_trust, eap_common_identity>>)

(* sta.c 3158-3301 *)
cmd_sta_set_eaptls ==
  Do(<<If(Invalid), OnNonNegative(set_eap_common),
       If(UNION {Error, Invalid, Success, Refused}), Success>>)

(* sta.c 3304-3337 *)
cmd_sta_set_eapttls ==
  Do(<<If(Invalid), OnNonNegative(set_eap_common), If(Answered), Success>>)

(* sta.c 3340-3364 *)
cmd_sta_set_eapsim ==
  Do(<<If(Invalid), OnNonNegative(set_eap_common), If(Error), Success>>)

(* sta.c 3367-3416 *)
cmd_sta_set_peap ==
  Do(<<If(Invalid), OnNonNegative(set_eap_common), If(Error \cup Invalid),
       Success>>)

(* sta.c 3419-3476 *)
cmd_sta_set_eapfast ==
  Do(<<If(Invalid), OnNonNegative(set_eap_common), If(Error \cup Invalid),
       Success>>)

(* sta.c 3479-3511 *)
cmd_sta_set_eapaka ==
  Do(<<If(Invalid), OnNonNegative(set_eap_common), If(Error), Success>>)

(* sta.c 3514-3538 *)
cmd_sta_set_eapakaprime ==
  Do(<<If(Invalid), OnNonNegative(set_eap_common), If(Error), Success>>)

(* sta.c 3541-3567 *)
sta_set_open ==
  Do(<<OnNonNegative(add_network_common), If(Return(-2)), Return(1)>>)

(* sta.c 3570-3615 *)
sta_set_owe ==
  Do(<<If(Invalid), OnNonNegative(set_wpa_common), If(Error), Success>>)

(* sta.c 3801-3949 *)
wpa3_transition_capa ==
  Do(<<If(Invalid), Checked(get_key_mgmt_capa, Error),
       Checked(get_pairwise_ciphers_capa, Error),
       Checked(get_group_ciphers_capa, Error),
       Checked(get_group_mgmt_ciphers_capa, Error), If(Error),
       OnNonNegative(add_network_common), If(Error)>>)

(* sta.c 3950-3999 *)
wpa3_transition_network == Do(<<If(Error), Success>>)

(* sta.c 3801-3999 *)
sta_set_wpa3_transition ==
  Do(<<wpa3_transition_capa, wpa3_transition_network>>)

(* sta.c 4002-4048 *)
cmd_sta_set_security ==
  Do(<<If(UNION {sta_set_wpa3_transition, Answered, sta_set_open, sta_set_owe,
                 cmd_sta_set_psk, cmd_sta_set_eaptls, cmd_sta_set_eapttls,
                 cmd_sta_set_peap, cmd_sta_set_eapsim, cmd_sta_set_eapfast,
                 cmd_sta_set_eapaka, cmd_sta_set_eapakaprime,
                 cmd_sta_set_encryption}),
       Answered>>)

(* sta.c 4112-4171 *)
cmd_sta_set_uapsd ==
  Do(<<If(Invalid), Sets({"client_uapsd"}), If(Error \cup Answered),
       Success>>)

(* sta.c 4342-4381 *)
wmm_params == If(Invalid)

(* sta.c 4382-4609 *)
wmm_addts_delts ==
  Do(<<If(UNION {Invalid, Answered,
                 Do(<<Sets({"tid_to_handle"}), Success>>)}),
       Do(<<Sets({"dialog_token"}),
            If(UNION {Error, Do(<<Sets({"tid_to_handle"}), Success>>),
                      Answered}),
            Sets({"tid_to_handle"})>>)
         \cup Sets({"tid_to_handle"})>>)

(* sta.c 4610-4611 *)
wmm_end == Success

(* sta.c 4342-4611 *)
cmd_sta_set_wmm == Do(<<wmm_params, wmm_addts_delts, wmm_end>>)

(* sta.c 4614-4633 *)
find_network ==
  Do(<<If(Return(-1)), Sets({"infra_network_id", "infra_ssid"}), Sent>>)

===============================================================================
