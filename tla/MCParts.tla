------------------------------- MODULE MCParts -------------------------------
(* The parts that deal with what is outside of the program, each on its    *)
(* own: a behaviour exercises one of them, the others stay as they begin.  *)
EXTENDS DscpPolicy, ConnBuffer, CtrlIface, EventWait, HelperProcesses, TLC

VARIABLE part

Parts == {"policies", "buffer", "control", "wait", "helpers"}

(* What policies may be: of both versions and, in one of them, of two      *)
(* scores for all traffic; and two with a domain name, the one that asks   *)
(* for more of a name that is the end of the other's.                      *)
AnyStream == [c \in Conditions |-> {}]
Kind(score, ver, name, asks) ==
  [score |-> score, ver |-> ver, name |-> name, asks |-> asks]
Asks(c, v) == [AnyStream EXCEPT ![c] = {v}]
MCKinds ==
  {Kind(1, 4, <<>>, Asks("ip_version", 4)),
   Kind(2, 4, <<>>, [Asks("ip_version", 4) EXCEPT !["dst_port"] = {1}]),
   Kind(1, 6, <<>>, Asks("ip_version", 6)),
   Kind(2, 4, <<1>>, Asks("dst_port", 1)),
   Kind(1, 4, <<2, 1>>, AnyStream)}

(* Streams whose name ends with both names, to a port a policy asks for    *)
(* and to another, and one that has the shorter name twice.                *)
StreamTo(name, port) ==
  [name |-> name,
   has |-> [c \in Conditions |-> IF c = "ip_version" THEN 4 ELSE port]]
MCStreams ==
  {StreamTo(<<2, 2, 1>>, 1), StreamTo(<<2, 2, 1>>, 2), StreamTo(<<1, 2, 1>>, 1)}

partsVars ==
  <<part, dscpVars, bufferVars, ctrlVars, waitVars, helperVars>>

PartsInit ==
  /\ part \in Parts
  /\ DscpInit /\ BufferInit /\ CtrlInit /\ WaitInit /\ HelperInit
  /\ part # "control" => \A p \in Paths : file[p] = Nobody

PartsNext ==
  /\ UNCHANGED part
  /\ \/ /\ part = "policies" /\ DscpNext
        /\ UNCHANGED <<bufferVars, ctrlVars, waitVars, helperVars>>
     \/ /\ part = "buffer" /\ BufferNext
        /\ UNCHANGED <<dscpVars, ctrlVars, waitVars, helperVars>>
     \/ /\ part = "control" /\ CtrlNext
        /\ UNCHANGED <<dscpVars, bufferVars, waitVars, helperVars>>
     \/ /\ part = "wait" /\ WaitNext
        /\ UNCHANGED <<dscpVars, bufferVars, ctrlVars, helperVars>>
     \/ /\ part = "helpers" /\ HelperNext
        /\ UNCHANGED <<dscpVars, bufferVars, ctrlVars, waitVars>>

PartsSpec == PartsInit /\ [][PartsNext]_partsVars

(* What nobody reads any more: the list of a monitor that has ended, the   *)
(* policy that the server thread removed last, whether the last request    *)
(* named any policy, and where the program was to go on from the end of    *)
(* the model.                                                              *)
ButForTheForgotten ==
  <<part, dscp_policy_table, rules,
    [m \in Mons |-> IF mon[m].pc = "ended" THEN <<>> ELSE mon[m]],
    IF alone
      THEN <<queue, dscp_policy_mon_thread, reject_dscp_policies, server.pc,
             server.n, IF server.pc = "unlink" THEN server.id ELSE 0,
             ap.up, ap.items, ap.n, ap.open /\ ap.empty, ap.open>>
      ELSE <<>>,
    bufferVars, ctrlVars, waitVars, helperVars>>

Symmetry == Permutations(Mons) \cup Permutations(Callers)
=============================================================================
