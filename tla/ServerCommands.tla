---------------------------- MODULE ServerCommands ---------------------------
(***************************************************************************)
(* The handlers of src/server.c: the data base of the Hotspot 2.0 server.  *)
(* Every function opens the data base itself and closes it.                *)
(***************************************************************************)
EXTENDS SnifferCommands

(* server.c 25-31 *)
cmd_server_ca_get_version == Answered

(* server.c 34-45 *)
cmd_server_get_info == Answered

(* server.c 48-163 *)
server_reset_user ==
  Do(<<If(Return(-1)), Opens, Closes, OneOf({0, -1})>>)

(* server.c 166-231 *)
server_reset_serial ==
  Do(<<If(Return(-1)), Opens, Closes, OneOf({0, -1})>>)

(* server.c 234-273 *)
server_reset_cert_enroll ==
  Do(<<If(Return(-1)), Opens, Closes, OneOf({0, -1})>>)

(* server.c 276-310 *)
server_reset_imsi ==
  Do(<<If(Return(-1)), Opens, Closes, OneOf({0, -1})>>)

(* server.c 313-363 *)
cmd_server_reset_default ==
  Do(<<If(Answered), If(Checked(server_reset_user, Answered)),
       If(Checked(server_reset_serial, Answered)),
       If(Checked(server_reset_cert_enroll, Answered)),
       If(Checked(server_reset_imsi, Answered)), Success>>)

(* server.c 405-470 *)
aaa_auth_status ==
  Do(<<If(Invalid), Opens, Closes, Error \cup Answered>>)

(* server.c 516-556 *)
osu_cert_enroll_status == Do(<<If(Invalid), Opens, Closes, Answered>>)

(* server.c 658-742 *)
osu_remediation_status ==
  Do(<<If(Invalid \cup Error), Opens, Closes, Answered>>)

(* server.c 745-829 *)
osu_polupd_status == Do(<<If(Invalid \cup Error), Opens, Closes, Answered>>)

(* server.c 832-867 *)
osu_sim_policy_provisioning_status ==
  Do(<<If(Invalid), Opens, Closes, Answered>>)

(* server.c 870-955 *)
cmd_server_request_status ==
  UNION {Answered, osu_remediation_status, osu_polupd_status, aaa_auth_status,
         osu_cert_enroll_status, osu_sim_policy_provisioning_status, Success}

(* server.c 958-995 *)
osu_set_cert_reenroll ==
  Do(<<If(Return(-1)), Opens, Closes, OneOf({0, -1})>>)

(* server.c 998-1071 *)
server_set_reenroll ==
  Then(If(Answered), If(Checked(osu_set_cert_reenroll, Answered)))

(* server.c 1073-1235 *)
server_set_cert == If(Answered \cup Error)

(* server.c 998-1235 *)
cmd_server_set_parameter ==
  Do(<<server_set_reenroll, server_set_cert, Success>>)

===============================================================================
