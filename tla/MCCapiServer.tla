----------------------------- MODULE MCCapiServer -----------------------------
(* CapiServer with the constants that its configurations give it. *)
EXTENDS CapiServer, TLC

(* Clients and report threads are interchangeable in the safety runs.      *)
Symmetry == Permutations(Clients) \cup Permutations(Reports)

(* States that differ only in the count of status lines, which nothing but *)
(* the log reads, are the same in the safety run.                          *)
ButForTheCount ==
  <<conn, client, queue, asked, taken, inbox, main,
    [r \in Reports |-> [rep[r] EXCEPT !.seen = 0]], stop_loop, crossed>>

=============================================================================
