------------------------------- MODULE MCUapsd -------------------------------
(***************************************************************************)
(* Small instances of Uapsd for TLC.  FewTests has one test of each kind:  *)
(* data that are answered, broadcast after a packet of the console's own,  *)
(* and the test whose data repeat.                                         *)
(***************************************************************************)
EXTENDS Uapsd

FewTests == {"M_L", "B_Z", "L_1"}

=============================================================================
