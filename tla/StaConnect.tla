------------------------------ MODULE StaConnect -----------------------------
(***************************************************************************)
(* The handlers of src/sta.c that scan, associate and leave a network, by  *)
(* WPS and Hotspot 2.0 as well.  What the DSCP policies do is in module    *)
(* DscpPolicy; here are their members of struct sigma_dut.                 *)
(***************************************************************************)
EXTENDS StaSettings

(* sta.c 4889-4898 *)
free_dscp_policy_table == Defaults({"dscp_policy_table"})

(* sta.c 5135-5166 *)
remove_dscp_policy ==
  Do(<<If(Return(0) \cup Return(-1)), If(Sets({"dscp_policy_table"})),
       Return(0)>>)

(* sta.c 5433-5454 *)
clear_all_dscp_policies == Call(free_dscp_policy_table)

(* sta.c 5794-5805 *)
stop_dscp_policy_mon_thread == Defaults({"dscp_policy_mon_thread"})

(* sta.c 5808-5890 *)
associate_params ==
  Do(<<If(Invalid), Sets({"server_cert_tod"}), If(Sets({"config_rsnie"})),
       If(Answered), If(Call(process_fils_hlp))>>)

(* The monitor connection is there for the programs that wait for the      *)
(* result of the connection.                                               *)
(* sta.c 5891-5989 *)
associate_select ==
  Do(<<If(Error \cup Answered), If(Checked(find_network, Answered)),
       If(UNION {Refused, Answered, Error}),
       Success \cup Do(<<Opens, If(Do(<<Closes, Error>>))>>)>>)

(* Twenty events at the most; after them the status is that of success.    *)
(* sta.c 5990-6140 *)
associate_wait ==
  Do(<<If(Sets({"server_cert_hash", "server_cert_tod"})),
       UNION {Then(Answer, Do(<<Closes, SentError>>)),
              Do(<<If(Do(<<Call(kill_dhcp_client),
                           Checked(start_dhcp_client,
                                   Do(<<Answer, Closes, SentError>>))>>)),
                   If(Sets({"sta_tod_policy"})),
                   If(Do(<<Closes, Error>>)),
                   If(Sets({"dscp_policy_mon_thread"})),
                   If(Do(<<Closes, Error>>))>>),
              {None}}>>)

(* sta.c 6141-6147 *)
associate_end == Do(<<Closes, Success>>)

(* sta.c 5808-6147 *)
cmd_sta_associate ==
  Do(<<associate_params, associate_select, associate_wait, associate_end>>)

(* sta.c 9286-9313 *)
cmd_sta_disconnect == Do(<<If(Success), Call(disconnect_station), Success>>)

(* A rejected command to turn roaming on is answered, and the monitor      *)
(* connection is left open.                                                *)
(* sta.c 9316-9391 *)
reassoc_start ==
  Do(<<If(Refused \cup Error), Opens, If(Do(<<Closes, Error>>)),
       If(Sets({"config_rsnie"})), If(Answered)>>)

(* sta.c 9392-9519 *)
reassoc_wait ==
  UNION {Do(<<Closes, Success>>), Do(<<Closes, Error>>),
         Do(<<Answer, Closes, SentError>>)}

(* sta.c 9316-9519 *)
cmd_sta_reassoc == Do(<<reassoc_start, reassoc_wait>>)

(* sta.c 20265-20316 *)
cmd_sta_bssid_pool ==
  Do(<<If(UNION {Invalid,
                 Do(<<Sets({"sta_bssid_pool"}), If(Answered), Success>>),
                 Answered}),
       Sets({"sta_bssid_pool"}), If(Refused), Success>>)

(* sta.c 20336-20364 *)
cmd_sta_get_key == Do(<<If(Invalid \cup Answered), Answered>>)

(* Once more after the first failure.                                      *)
(* sta.c 20388-20506 *)
cmd_sta_hs2_associate ==
  Do(<<Call(start_sta_mode), If(Answered),
       Loop(Do(<<If(Error), Opens, If(Do(<<Answer, Closes, Sent>>)), Closes,
                 If(Answered)>>)),
       Answered>>)

(* Mutation: the timeout of the wait for the venue is left behind.         *)
cmd_sta_hs2_venue_info_TimeoutStays ==
  Do(<<If(Answered \cup Error), Opens, If(Do(<<Closes, Answered>>)),
       Sets({"default_timeout"}), If(Invalid), Answer, Closes, Sent>>)

(* sta.c 20509-20599 *)
cmd_sta_hs2_venue_info ==
  Do(<<If(Answered \cup Error), Opens, If(Do(<<Closes, Answered>>)),
       Restored({"default_timeout"}, Sets({"default_timeout"})), If(Invalid),
       Answer, Closes, Sent>>)

(* sta.c 20602-20668 *)
sta_add_credential_uname_pwd ==
  Do(<<If(Return(-2) \cup Answered), Return(1)>>)

(* sta.c 20711-20816 *)
sta_add_credential_sim ==
  Do(<<If(UNION {Return(-2), Answered, Return(-1)}), Return(1)>>)

(* sta.c 20819-20904 *)
sta_add_credential_cert == Do(<<If(Return(-2) \cup Answered), Return(1)>>)

(* sta.c 20907-20932 *)
cmd_sta_add_credential ==
  Do(<<Call(start_sta_mode),
       If(UNION {Invalid, sta_add_credential_uname_pwd,
                 sta_add_credential_sim, sta_add_credential_cert}),
       Answered>>)

(* sta.c 20951-21080 *)
scan_params ==
  Do(<<Call(start_sta_mode), If(UNION {Error, Answered, Invalid, Refused})>>)

(* With a monitor connection it waits for the results of the scan.         *)
(* sta.c 21081-21143 *)
scan_run ==
  UNION {Refused, Success,
         Do(<<Opens, If(Do(<<Answer, Closes, SentError>>)), Closes, Success>>)}

(* sta.c 20951-21143 *)
cmd_sta_scan == Do(<<scan_params, scan_run>>)

(* sta.c 21146-21223 *)
cmd_sta_scan_bss ==
  Do(<<If(Answered \cup Invalid), Opens, If(Do(<<Answer, Closes, Sent>>)),
       Closes, If(Answered), Answered>>)

(* sta.c 21226-21293 *)
cmd_sta_set_systime == Do(<<If(Answered), Success>>)

(* sta.c 21296-21392 *)
cmd_sta_osu ==
  Do(<<Call(kill_dhcp_client), Checked(start_dhcp_client, Error),
       If(Do(<<If(Then(Opens, Closes)), Answered>>)),
       If(Do(<<If(Invalid), Opens, Closes, If(Answered)>>)), Answered>>)

(* sta.c 21395-21424 *)
cmd_sta_policy_update == Do(<<If(Success \cup Answered), Answered>>)

(* sta.c 21427-21517 *)
cmd_sta_er_config ==
  Do(<<If(Answered \cup Error), Opens, If(Then(Closes, Answered)),
       Sets({"er_oper_bssid", "er_oper_performed"}),
       wps_connection_event(FALSE)>>)

(* sta.c 21520-21553 *)
cmd_sta_wps_connect_pw_token ==
  Do(<<If(Answered \cup Error), Opens, If(Then(Closes, Answered)),
       wps_connection_event(FALSE)>>)

(* sta.c 21556-21702 *)
cmd_start_wps_registration ==
  ap_wps_registration
    \cup Do(<<If(Sets({"wps_method"})), If(Answered),
              Defaults({"wps_disable"}), If(Error), Opens, Answer, Closes,
              Sent>>)

===============================================================================
