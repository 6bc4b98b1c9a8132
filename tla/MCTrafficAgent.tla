---------------------------- MODULE MCTrafficAgent ----------------------------
(***************************************************************************)
(* Small instances of TrafficAgent for TLC.  Threads, report threads and   *)
(* connections are interchangeable.                                        *)
(***************************************************************************)
EXTENDS TrafficAgent, TLC

Symmetry == 
  Permutations(Threads) \cup Permutations(Reports) \cup Permutations(Conns)

(* What a final status says is read by no property of the run that uses    *)
(* this; a command waits until there is one, and, when the connection was  *)
(* closed before it came, until its slot is released.                      *)
Heard(c) ==
  IF status[c] = "RUNNING" \/ (status[c] = "closed" /\ waiting_completion[c])
    THEN status[c] ELSE "idle"
ButForTheAnswers ==
  <<streams, num_streams, stream_id, thr, rep, main, waiting_completion,
    [c \in Conns |-> Heard(c)]>>

=============================================================================
