------------------------------ MODULE UapsdLink ------------------------------
(***************************************************************************)
(* The two directions of UDP traffic between a U-APSD station and its      *)
(* console, and what Wi-Fi may do to them: lose a packet, or let one       *)
(* overtake another (access categories have queues of their own, and an    *)
(* access point keeps packets for a station that sleeps).  A packet that   *)
(* finds MaxQueue others before it is lost.                                *)
(***************************************************************************)
EXTENDS UapsdTables, SequencesExt

CONSTANTS
  Faults,     \* what may go wrong: a subset of FaultKinds
  MaxQueue    \* packets under way in one direction

FaultKinds == {"loss", "overtake", "send", "wakeup", "stop"}

ASSUME LinkAssumption == Faults \subseteq FaultKinds /\ MaxQueue \in Nat \ {0}

VARIABLES
  up,         \* to the console
  down        \* to the station

(* The packets ps are sent after those of q.                               *)
Sent(q, ps) ==
  LET all == q \o ps
  IN  SubSeq(all, 1, IF Len(all) < MaxQueue THEN Len(all) ELSE MaxQueue)

Lost(q, new) == \E i \in DOMAIN q : new = RemoveAt(q, i)
Overtaken(q, new) ==
  \E i \in 1..(Len(q) - 1) :
    new = [q EXCEPT ![i] = q[i + 1], ![i + 1] = q[i]]

Lose ==
  /\ "loss" \in Faults
  /\ \/ Lost(up, up') /\ UNCHANGED down
     \/ Lost(down, down') /\ UNCHANGED up

Overtake ==
  /\ "overtake" \in Faults
  /\ \/ Overtaken(up, up') /\ UNCHANGED down
     \/ Overtaken(down, down') /\ UNCHANGED up

=============================================================================
