------------------------------ MODULE StaFrames ------------------------------
(***************************************************************************)
(* The handlers of src/sta.c that send single frames: sta_send_frame for   *)
(* every program, and sta_send_addba.                                      *)
(***************************************************************************)
EXTENDS StaConnect

(* sta.c 14396-14473 *)
wcn_sta_send_addba == Do(<<If(Answered \cup Return(1)), Return(1)>>)

(* sta.c 14232-14265 *)
ath_sta_send_addba == Success

(* sta.c 14476-14497 *)
cmd_sta_send_addba ==
  UNION {ath_sta_send_addba, wcn_sta_send_addba, send_addba_60g, Success}

(* sta.c 14702-14798 *)
sta_inject_type == If(Answered)

(* sta.c 14799-14974 *)
sta_inject_fields == If(Return(-1))

(* sta.c 14975-15029 *)
sta_inject_send ==
  Do(<<If(Answered),
       If(Do(<<Opens, If(Do(<<Answer, Closes, Sent>>)), Closes>>)), Success>>)

(* sta.c 14702-15029 *)
sta_inject_frame ==
  Do(<<sta_inject_type, sta_inject_fields, sta_inject_send>>)

(* sta.c 15032-15148 *)
cmd_sta_send_frame_tdls ==
  Do(<<If(UNION {Return(-1), Answered, Return(1)}), Answered>>)

(* sta.c 15220-15235 *)
cmd_sta_send_frame_neighadv == Do(<<If(Answered), Return(1)>>)

(* sta.c 15261-15282 *)
cmd_sta_send_frame_arpprobe == Do(<<If(Answered), Return(1)>>)

(* sta.c 15326-15390 *)
cmd_sta_send_frame_arpreply ==
  Do(<<If(Error \cup Answered), Opens, If(Do(<<Answer, Closes, Sent>>)),
       Closes, Success>>)

(* sta.c 15393-15419 *)
cmd_sta_send_frame_hs2_dls_req == Do(<<If(Return(-2)), sta_inject_frame>>)

(* sta.c 15238-15258 *)
cmd_sta_send_frame_neighsolreq == Success

(* sta.c 15285-15323 *)
cmd_sta_send_frame_arpannounce == OneOf({-2, 1})

(* sta.c 15422-15568 *)
frame_hs2_names ==
  If(UNION {Return(-1), cmd_sta_send_frame_neighadv,
            cmd_sta_send_frame_neighsolreq, cmd_sta_send_frame_arpprobe,
            cmd_sta_send_frame_arpannounce, cmd_sta_send_frame_arpreply,
            cmd_sta_send_frame_hs2_dls_req, Answered})

(* sta.c 15569-15646 *)
frame_hs2_anqp == Do(<<If(Answered), Return(1)>>)

(* sta.c 15422-15646 *)
cmd_sta_send_frame_hs2 == Do(<<frame_hs2_names, frame_hs2_anqp>>)

(* sta.c 15649-15719 *)
ath_sta_send_frame_vht == Success

(* sta.c 15737-15749 *)
cmd_sta_send_frame_vht == ath_sta_send_frame_vht \cup Answered

(* sta.c 15765-15826 *)
wcn_sta_send_frame_he ==
  Do(<<If(UNION {Invalid, Refused, Answered}), Success>>)

(* sta.c 15829-15841 *)
cmd_sta_send_frame_he == wcn_sta_send_frame_he \cup Answered

(* sta.c 16075-16089 *)
cmd_sta_send_frame_60g == wil6210_send_frame_60g \cup Answered

(* sta.c 16092-16141 *)
mbo_send_anqp_query == Do(<<If(Answered), Return(1)>>)

(* sta.c 16144-16155 *)
mbo_cmd_sta_send_frame == mbo_send_anqp_query \cup {None}

(* sta.c 16158-16229 *)
cmd_sta_send_frame_wpa3 ==
  Do(<<If(UNION {Invalid, Refused,
                 Do(<<Sets({"saquery_oci_freq"}), If(Refused),
                      sta_inject_frame>>),
                 sta_inject_frame, Error, Success}),
       Refused>>)

(* sta.c 16444-16593 *)
scs_descriptors == If(UNION {Invalid, Error})

(* sta.c 16594-16738 *)
scs_send == Do(<<If(Error), If(Refused), Success>>)

(* sta.c 16444-16738 *)
cmd_sta_send_frame_scs == Do(<<scs_descriptors, scs_send>>)

(* sta.c 16741-16869 *)
cmd_sta_send_frame_mscs ==
  Do(<<If(UNION {Invalid, Refused, Success, Error}), Success>>)

(* sta.c 16872-16918 *)
cmd_sta_send_frame_dscp_query ==
  Do(<<If(UNION {Error, Invalid, Refused}), Success>>)

(* sta.c 16921-16998 *)
cmd_sta_send_frame_dscp_response ==
  Do(<<If(Error \cup Invalid),
       Loop(Do(<<If(Refused \cup Error), If(Call(remove_dscp_policy))>>)),
       If(Refused), Success>>)

(* sta.c 17039-17188 *)
dar_request_attributes == If(Error \cup Invalid)

(* sta.c 17189-17502 *)
cmd_sta_send_frame_dar_request ==
  Do(<<dar_request_attributes, OneOf({1, -2})>>)

(* sta.c 17505-17585 *)
cmd_sta_send_frame_dar_response == OneOf({1, -1, -2})

(* sta.c 17588-17619 *)
cmd_sta_send_frame_qm ==
  UNION {cmd_sta_send_frame_mscs, cmd_sta_send_frame_scs,
         cmd_sta_send_frame_dscp_query, cmd_sta_send_frame_dscp_response,
         cmd_sta_send_frame_dar_request, cmd_sta_send_frame_dar_response,
         Invalid}

(* sta.c 17622-17719 *)
sta_chan_switch_request == Do(<<If(Error \cup Refused), Success>>)

(* sta.c 17722-17748 *)
cmd_sta_send_frame_p2p_cur ==
  Do(<<If(UNION {sta_chan_switch_request, Refused, Success}), Invalid>>)

(* sta.c 17751-17767 *)
cmd_sta_send_frame_p2p ==
  Do(<<If(sta_chan_switch_request \cup cmd_sta_send_frame_p2p_cur), Invalid>>)

(* sta.c 17770-17898 *)
cmd_sta_send_frame_reconf ==
  Do(<<If(UNION {Error, Invalid, Refused}), Success>>)

(* sta.c 17901-17940 *)
cmd_sta_send_frame_eht ==
  UNION {cmd_sta_send_frame_reconf, cmd_sta_send_frame_arpprobe,
         cmd_sta_send_frame_arpannounce, cmd_sta_send_frame_arpreply,
         cmd_sta_send_frame_neighsolreq, cmd_sta_send_frame_neighadv,
         cmd_sta_send_frame_scs, Invalid}

(* sta.c 17943-18052 *)
frame_by_program ==
  If(UNION {Invalid, cmd_sta_send_frame_eht, cmd_sta_send_frame_tdls,
            cmd_sta_send_frame_hs2, cmd_sta_send_frame_vht,
            cmd_sta_send_frame_he, loc_cmd_sta_send_frame,
            cmd_sta_send_frame_60g, mbo_cmd_sta_send_frame,
            cmd_sta_send_frame_wpa3, cmd_sta_send_frame_qm,
            cmd_sta_send_frame_p2p, Answered, Success})

(* sta.c 18053-18145 *)
frame_by_name ==
  Do(<<If(UNION {Invalid, Answered, Success,
                 Do(<<Passed(send_trans_mgmt_query, 0, Answered), Success>>),
                 cmd_sta_send_frame_scs, Error}),
       sta_inject_frame>>)

(* sta.c 17943-18145 *)
cmd_sta_send_frame == Do(<<frame_by_program, frame_by_name>>)

===============================================================================
