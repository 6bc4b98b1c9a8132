----------------------------- MODULE CapiPromise ------------------------------
(***************************************************************************)
(* What sigma_dut promises a controller, whatever happens inside: every    *)
(* status line a client reads belongs to a command of its own, a command   *)
(* that is carried out is answered RUNNING and then once with a final      *)
(* status, one that is refused is answered once, with a final status, and  *)
(* commands are taken in the order in which they were sent.                *)
(***************************************************************************)
EXTENDS Integers, Sequences

CONSTANTS
  Clients,   \* control connections
  MaxCmds    \* bound on the commands of one client

VARIABLES
  asked,     \* asked[c]: the kinds of the commands client c has sent
  inbox      \* inbox[c]: the status lines client c was sent

promise == <<asked, inbox>>

(* Refused before it is run, answered by its handler, or answered later by *)
(* a thread that the handler leaves behind.                                *)
Kinds == {"bad", "plain", "deferred"}
Line == [of : Clients, cmd : 1..MaxCmds, st : {"RUNNING", "final"}]

Seen(c, n, st) == \E j \in 1..Len(inbox[c]) :
                    inbox[c][j] = [of |-> c, cmd |-> n, st |-> st]

Init == asked = [c \in Clients |-> <<>>] /\ inbox = [c \in Clients |-> <<>>]

Ask(c) ==
  /\ Len(asked[c]) < MaxCmds
  /\ \E k \in Kinds : asked' = [asked EXCEPT ![c] = Append(@, k)]
  /\ UNCHANGED inbox

(* Command m of c has been dealt with, or left to a thread.                *)
PutBy(c, m) ==
  Seen(c, m, IF asked[c][m] = "deferred" THEN "RUNNING" ELSE "final")

Reply(c, n, st) ==
  /\ \A m \in 1..n - 1 : PutBy(c, m)
  /\ ~Seen(c, n, "final")
  /\ IF st = "RUNNING"
       THEN asked[c][n] # "bad" /\ ~Seen(c, n, "RUNNING")
       ELSE asked[c][n] = "bad" \/ Seen(c, n, "RUNNING")
  /\ inbox' = [inbox EXCEPT ![c] = Append(@, [of |-> c, cmd |-> n, st |-> st])]
  /\ UNCHANGED asked

(* No part of the promise: client d reads the final status of a command of *)
(* another client, which never had one.                                    *)
Stray(d, c, n) ==
  /\ d # c
  /\ ~Seen(c, n, "final")
  /\ inbox' = [inbox EXCEPT
                 ![d] = Append(@, [of |-> c, cmd |-> n, st |-> "final"])]
  /\ UNCHANGED asked

Next ==
  \E c \in Clients :
    \/ Ask(c)
    \/ \E n \in 1..Len(asked[c]), st \in {"RUNNING", "final"} : Reply(c, n, st)

Spec == Init /\ [][Next]_promise

=============================================================================
