------------------------------ MODULE EventWait ------------------------------
(***************************************************************************)
(* How long a handler waits for an event, and which one it gets:           *)
(* get_wpa_cli_events_timeout() of src/wpa_helpers.c.  The deadline is     *)
(* kept in whole seconds, from two readings of time(), and select() is     *)
(* given what is left of it, anew after each event that is not one of the  *)
(* wanted.                                                                 *)
(*                                                                         *)
(* The clock of the model counts half seconds, so that a wait may begin in *)
(* the middle of a second of time().  The thread runs as soon as it can:   *)
(* what is measured is the deadline of the code, not the load of the       *)
(* machine.                                                                *)
(***************************************************************************)
EXTENDS Naturals, Sequences

CONSTANTS
  Timeouts,   \* values of timeout, in seconds; 0 is no timeout
  MaxClock,   \* bound of the model on the clock
  MaxEvents   \* bound of the model on the events

ASSUME WaitAssumption == Timeouts \subseteq Nat

VARIABLES
  clock,    \* in half seconds
  waiting,  \* the call: "no", "loop", "select", "found", "expired",
            \* "failed"
  timeout,  \* its parameter
  began,    \* when it was called
  until,    \* when select() will give up, 0 for never
  arrived,  \* all events: whether one of the wanted, and when it came
  read      \* how many of them have been read

waitVars == <<clock, waiting, timeout, began, until, arrived, read>>

WaitInit ==
  /\ clock = 0 /\ waiting = "no" /\ timeout = 0 /\ began = 0 /\ until = 0
  /\ arrived = <<>> /\ read = 0

time(t) == t \div 2
Elapsed == time(clock) - time(began)

(* Something to do for the thread.                                         *)
Ready == \/ waiting = "loop"
         \/ /\ waiting = "select"
            /\ read < Len(arrived) \/ (until > 0 /\ clock >= until)

Tick ==
  /\ ~Ready /\ clock < MaxClock
  /\ clock' = clock + 1
  /\ UNCHANGED <<waiting, timeout, began, until, arrived, read>>

(* The monitor is attached before the call: events may wait for it.        *)
Arrive ==
  /\ Len(arrived) < MaxEvents /\ waiting \in {"no", "loop", "select"}
  /\ \E wanted \in BOOLEAN :
       arrived' = Append(arrived, [wanted |-> wanted, at |-> clock])
  /\ UNCHANGED <<clock, waiting, timeout, began, until, read>>

Call ==
  /\ waiting = "no"
  /\ \E t \in Timeouts : timeout' = t
  /\ began' = clock
  /\ waiting' = "loop"
  /\ UNCHANGED <<clock, until, arrived, read>>

(* Mutation: the second that the truncation may have taken is not given    *)
(* back.                                                                   *)
Remaining_Exact == IF Elapsed >= timeout THEN 1 ELSE timeout - Elapsed
Remaining == IF Elapsed >= timeout THEN 1 ELSE timeout - Elapsed + 1

Select ==
  /\ waiting = "loop"
  /\ until' = IF timeout = 0 THEN 0 ELSE clock + 2 * Remaining
  /\ waiting' = "select"
  /\ UNCHANGED <<clock, timeout, began, arrived, read>>

Expire ==
  /\ waiting = "select" /\ read = Len(arrived)
  /\ until > 0 /\ clock >= until
  /\ waiting' = "expired"
  /\ UNCHANGED <<clock, timeout, began, until, arrived, read>>

(* select() or recv() fails, of a signal for example.                      *)
Fail ==
  /\ waiting = "select"
  /\ waiting' = "failed"
  /\ UNCHANGED <<clock, timeout, began, until, arrived, read>>

Read ==
  /\ waiting = "select" /\ read < Len(arrived)
  /\ read' = read + 1
  /\ IF arrived[read + 1].wanted
       THEN waiting' = "found"
       ELSE waiting' = IF timeout > 0 /\ Elapsed > timeout
                         THEN "expired" ELSE "loop"
  /\ UNCHANGED <<clock, timeout, began, until, arrived>>

WaitNext == Tick \/ Arrive \/ Call \/ Select \/ Expire \/ Fail \/ Read

WaitSpec == WaitInit /\ [][WaitNext]_waitVars
-----------------------------------------------------------------------------
(* PROPERTIES                                                              *)

(* A wait with a timeout lasts at least that long before it is given up,   *)
(* and less than two seconds longer, however many other events come in     *)
(* between; and it is not given up if an event that was wanted came within *)
(* the timeout, or before the wait.                                        *)
GivesUpInTime ==
  timeout > 0 =>
    /\ waiting = "select" => clock < began + 2 * timeout + 4
    /\ waiting = "expired" =>
         /\ clock >= began + 2 * timeout
         /\ \A k \in DOMAIN arrived :
              arrived[k].wanted => arrived[k].at > began + 2 * timeout
=============================================================================
