----------------------------- MODULE DppCommands -----------------------------
(***************************************************************************)
(* The handlers of src/dpp.c: dev_exec_action of the DPP program.          *)
(* dpp_automatic_dpp, of some 1800 lines, is cut where the protocol moves  *)
(* on.  From the moment its monitor connection is open, every way out is   *)
(* the label `out', which closes it and returns STATUS_SENT: the answer is *)
(* given before.                                                           *)
(***************************************************************************)
EXTENDS ApCommands

(* An access point that does not run yet is configured for DPP and started *)
(* without a connection to answer on.                                      *)
(* dpp.c 549-574 *)
dpp_hostapd_run ==
  Do(<<If(Sent), If(Checked(dpp_mdns_discover_relay_params, Invalid)),
       Sets({"ap_ssid", "ap_is_dual", "ap_mode", "ap_key_mgmt", "ap_cipher"}),
       If(Sets({"ap_channel"})), If(Sets({"ap_start_disabled"})),
       Passed(Silent(cmd_ap_config_commit), SUCCESS_SEND_STATUS, Invalid),
       Sent>>)

(* dpp.c 577-593 *)
dpp_hostapd_beacon ==
  Do(<<If(Sent \cup Invalid), Defaults({"ap_start_disabled"}), Sent>>)

(* dpp.c 617-824 *)
dpp_get_local_bootstrap(send_result) ==
  Do(<<If(Refused \cup Error), If(Checked(dpp_hostapd_run, Refused)),
       If(Error), Sets({"dpp_local_bootstrap"}), If(Error),
       If(Call(dpp_mdns_start)), IF send_result THEN Answer ELSE {None},
       Sent>>)

(* dpp.c 827-843 *)
stop_stunnel == If(Then(Opens, Closes))

(* dpp.c 846-959 *)
dpp_post_uri ==
  LET file == Do(<<If(Refused), Opens, Closes>>)
  IN  Do(<<file, Checked(dpp_mdns_discover, Refused),
           If(Do(<<file, file, If(Refused)>>)),
           If(If(stop_stunnel) \cup Refused), Opens, Closes, stop_stunnel,
           Refused \cup Answered>>)

(* dpp.c 962-990 *)
dpp_set_peer_bootstrap ==
  Do(<<If(UNION {Refused, Error, dpp_post_uri}), Sets({"dpp_peer_uri"}),
       Success>>)

(* 0 is a failure that has been answered.                                  *)
(* dpp.c 993-1266 *)
dpp_hostapd_conf_update ==
  Do(<<If(UNION {Answered, Error}),
       If(Answered), Defaults({"ap_start_disabled"}),
       Restored({"default_timeout"}, Sets({"default_timeout"})),
       If(Answered), Success>>)

(* dpp.c 1455-1479 *)
dpp_wait_rx ==
  Restored({"default_timeout"},
           Then(If(Sets({"default_timeout"})), Invalid \cup Sent))

(* dpp.c 1482-1506 *)
dpp_wait_rx_conf_req ==
  Restored({"default_timeout"},
           Then(If(Sets({"default_timeout"})), Invalid \cup Sent))

(* dpp.c 1509-1642 *)
dpp_scan_peer_qrcode ==
  Do(<<If(Invalid), Opens, Closes, If(Invalid), Sets({"dpp_peer_uri"}),
       Sent>>)

(* dpp.c 1705-1778 *)
dpp_process_auth_response == Then(Answer, Invalid) \cup Sent

(* dpp.c 1921-1948 *)
dpp_peer_uri_available ==
  Do(<<If(Success \cup Sent), Opens, Closes, If(Sent),
       Sets({"dpp_peer_uri"}), Success \cup Sent>>)

(* The label `out', and a failure that is answered on the way to it.       *)
(* dpp.c 3735-3748 *)
automatic_out == Then(Closes, Sent)

(* dpp.c 3745-3747 *)
automatic_failed == Then(Answer, automatic_out)

(* dpp.c 2026-2227 *)
automatic_roles ==
  Do(<<If(Refused), If(Error), If(Checked(dpp_hostapd_run, Refused)),
       If(Refused), If(Sets({"dpp_conf_id"})), If(Refused),
       If(Checked(dpp_mdns_discover, Refused))>>)

(* dpp.c 2228-2300 *)
automatic_open ==
  Do(<<If(Sets({"ap_channel"})), If(Refused), If(Error), Opens,
       If(Sets({"default_timeout"}))>>)

(* dpp.c 2302-2545 *)
automatic_conf_object ==
  Do(<<If(automatic_failed),
       If(Do(<<Opens, Closes, If(automatic_failed)>>)),
       If(automatic_failed)>>)

(* A configurator for itself needs no peer.                                *)
(* dpp.c 2547-2569 *)
automatic_self_conf == If(automatic_failed)

(* dpp.c 2570-2744 *)
automatic_nfc == If(automatic_failed)

(* dpp.c 2745-3013 *)
automatic_initiator ==
  Do(<<If(automatic_failed),
       If(Do(<<Caught(dpp_peer_uri_available, STATUS_SENT, automatic_failed),
               If(automatic_failed), Defaults({"dpp_peer_uri"})>>)),
       If(automatic_failed)>>)

(* dpp.c 3014-3249 *)
automatic_responder ==
  Do(<<If(automatic_failed), If(Call(dpp_hostapd_beacon)),
       If(Checked(dpp_hostapd_beacon, automatic_failed)),
       If(automatic_failed),
       If(Checked(dpp_scan_peer_qrcode, automatic_failed)),
       If(automatic_failed)>>)

(* A test of a step ends when the frame has, or has not, been seen.        *)
(* dpp.c 3252-3388 *)
automatic_step ==
  LET response == Checked(dpp_process_auth_response, automatic_out)
  IN  If(Do(<<If(UNION {Call(dpp_wait_rx), automatic_failed, response}),
              automatic_failed>>))

(* dpp.c 3389-3555 *)
automatic_auth ==
  Do(<<If(automatic_failed),
       Checked(dpp_process_auth_response, automatic_out),
       If(Then(If(Call(dpp_wait_rx_conf_req)), automatic_failed))>>)

(* dpp.c 3556-3613 *)
automatic_update ==
  LET answered == {u \in dpp_hostapd_conf_update : u.res = STATUS_SENT}
      others == dpp_hostapd_conf_update \ answered
  IN  Do(<<If(automatic_failed), If(Sets({"dpp_conf_id"})),
           If(Tested(others, {ERROR_SEND_STATUS}, automatic_failed)
                \cup Then(Call(answered), automatic_out))>>)

(* The last answer is the result of the connection.                        *)
(* dpp.c 3615-3748 *)
automatic_connect ==
  Do(<<If(Do(<<If(automatic_failed), Sets({"dpp_network_id"})>>)),
       automatic_failed>>)

(* The waiting time is put back on every way out.  One that is for the NFC *)
(* peer alone is noted in the variable of the first: only dpp_manual_dpp   *)
(* gets there, which keeps its own.                                        *)
(* dpp.c 1951-2025 *)
dpp_automatic_dpp ==
  LET peer == UNION {automatic_nfc, automatic_initiator, automatic_responder}
      protocol == Do(<<peer, automatic_step, automatic_auth,
                       automatic_update, automatic_connect>>)
      alone == Do(<<automatic_self_conf, automatic_update, automatic_connect>>)
  IN  Restored({"default_timeout"},
               Do(<<automatic_roles, automatic_open, automatic_conf_object,
                    protocol \cup alone>>))

(* A command without DPPAuthRole leaves the waiting time changed.          *)
(* dpp.c 3751-3820 *)
dpp_manual_dpp ==
  LET local == dpp_get_local_bootstrap(FALSE)
      found == Call({l \in local : l.res = STATUS_SENT})
      timeout == If(Sets({"default_timeout"}))
      scanned == Checked(dpp_scan_peer_qrcode, Refused)
      roles == UNION {Refused, Then(If(scanned), dpp_automatic_dpp)}
  IN  Restored({"default_timeout"},
               Do(<<timeout,
                    dpp_automatic_dpp \cup Then(OnZero(local), roles)>>))
        \cup Do(<<timeout, found, Refused>>)

(* dpp.c 3824-4230 *)
dpp_reconfigure_configurator ==
  LET out == Then(Closes, Answered)
  IN  Restored({"default_timeout"},
               Do(<<If(Error), If(Answered), If(Do(<<Opens, Closes>>)),
                    If(Answered), If(Error), Opens,
                    If(Sets({"default_timeout"})), If(out), out>>))

(* dpp.c 4233-4378 *)
dpp_reconfigure ==
  dpp_reconfigure_configurator
    \cup Do(<<If(Error), Opens, If(Then(Closes, Answered)),
              Sets({"dpp_network_id"}), Closes, Answered>>)

(* dpp.c 4594-4649 *)
dpp_set_mdns_advertise ==
  Do(<<If(Checked(dpp_hostapd_run, Refused)), If(Error),
       If(Sets({"dpp_local_bootstrap"})), Call(dpp_mdns_start),
       Error \cup Success>>)

(* dpp.c 4652-4668 *)
dpp_check_mdns_discovery_result ==
  Do(<<If(Invalid), If(Checked(dpp_mdns_discover_relay_params, Invalid)),
       Sent>>)

(* A role that is refused with an answer ends as an error without one.     *)
(* dpp.c 4671-4692 *)
dpp_set_parameter ==
  LET advertise == Checked(dpp_set_mdns_advertise, Error)
      failed == {a \in advertise : a.res = ERROR_SEND_STATUS}
      enabled == If(Checked(dpp_check_mdns_discovery_result, Refused))
  IN  Do(<<If(advertise \ failed), enabled, Success>>)
        \cup Do(<<Call(failed), enabled, Error>>)

(* dpp.c 4695-4725 *)
dpp_get_peer_bootstrap ==
  Do(<<If(Refused), Opens, Closes, Refused \cup Answered>>)

(* dpp.c 4728-4766 *)
dpp_dev_exec_action ==
  UNION {Refused, dpp_reconfigure, dpp_set_parameter, dpp_get_peer_bootstrap,
         dpp_get_local_bootstrap(TRUE), dpp_set_peer_bootstrap,
         dpp_manual_dpp, dpp_automatic_dpp}

===============================================================================
