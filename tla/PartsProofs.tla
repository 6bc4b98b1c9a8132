----------------------------- MODULE PartsProofs -----------------------------
(* The deadline of a wait for an event, GivesUpInTime of EventWait, for    *)
(* every timeout, however long the clock runs and many events come; and    *)
(* that no helper process is left behind, OnlyCaptureStays of              *)
(* HelperProcesses, for any number of processes started.                   *)
EXTENDS EventWait, HelperProcesses, Integers, TLAPS
-----------------------------------------------------------------------------
(* WAITING FOR AN EVENT                                                    *)

Event == [wanted : BOOLEAN, at : Nat]

WaitTypeOK ==
  /\ clock \in Nat /\ timeout \in Nat /\ began \in Nat /\ until \in Nat
  /\ waiting \in {"no", "loop", "select", "found", "expired", "failed"}
  /\ arrived \in Seq(Event) /\ read \in Nat /\ read <= Len(arrived)

(* The wait is under way.                                                  *)
UnderWay == waiting \in {"loop", "select"}

(* select() is begun in time, and given what is left: between one and      *)
(* three half seconds too much.                                            *)
DeadlineInv ==
  /\ waiting = "no" => timeout = 0
  /\ UnderWay => began <= clock
  /\ timeout > 0 =>
       /\ waiting = "loop" => clock <= began + 2 * timeout + 1
       /\ waiting = "select" =>
            /\ clock <= until
            /\ began + 2 * timeout + 1 <= until
            /\ until <= began + 2 * timeout + 3
       /\ waiting = "expired" => began + 2 * timeout + 1 <= clock

(* An event is read when it comes; only those from before the wait are     *)
(* older, and read before the clock goes on.                               *)
EventsInv ==
  /\ \A k \in 1..read : arrived[k].wanted => waiting = "found"
  /\ UnderWay => \/ clock = began
                 \/ \A k \in (read + 1)..Len(arrived) : arrived[k].at = clock
  /\ waiting = "expired" =>
       \A k \in 1..Len(arrived) :
         arrived[k].wanted => arrived[k].at > began + 2 * timeout

WaitInv == WaitTypeOK /\ DeadlineInv /\ EventsInv
-----------------------------------------------------------------------------
(* time() is behind by half a second at most.                              *)
LEMMA Halves ==
  ASSUME NEW t \in Nat
  PROVE  time(t) \in Nat /\ 2 * time(t) <= t /\ t <= 2 * time(t) + 1
BY DEF time

LEMMA TypeStep == WaitTypeOK /\ [WaitNext]_waitVars => WaitTypeOK'
<1> SUFFICES ASSUME WaitTypeOK, [WaitNext]_waitVars PROVE WaitTypeOK'
  OBVIOUS
<1>1. CASE Tick
  BY <1>1 DEF Tick, WaitTypeOK
<1>2. CASE Arrive
  <2>1. PICK w \in BOOLEAN :
          arrived' = Append(arrived, [wanted |-> w, at |-> clock])
    BY <1>2 DEF Arrive
  <2>2. [wanted |-> w, at |-> clock] \in Event
    BY DEF Event, WaitTypeOK
  <2>3. arrived' \in Seq(Event) /\ Len(arrived') = Len(arrived) + 1
    BY <2>1, <2>2 DEF WaitTypeOK
  <2> QED BY <1>2, <2>3 DEF Arrive, WaitTypeOK
<1>3. CASE Call
  BY <1>3, WaitAssumption DEF Call, WaitTypeOK
<1>4. CASE Select
  <2>1. Remaining \in Nat
    <3>1. time(clock) \in Nat /\ time(began) \in Nat
      BY Halves DEF WaitTypeOK
    <3> QED BY <3>1 DEF Remaining, Elapsed, WaitTypeOK
  <2>2. until' \in Nat
    BY <1>4, <2>1 DEF Select, WaitTypeOK
  <2> QED BY <1>4, <2>2 DEF Select, WaitTypeOK
<1>5. CASE Expire
  BY <1>5 DEF Expire, WaitTypeOK
<1>6. CASE Fail
  BY <1>6 DEF Fail, WaitTypeOK
<1>7. CASE Read
  BY <1>7 DEF Read, WaitTypeOK
<1>8. CASE UNCHANGED waitVars
  BY <1>8 DEF waitVars, WaitTypeOK
<1> QED BY <1>1, <1>2, <1>3, <1>4, <1>5, <1>6, <1>7, <1>8 DEF WaitNext

LEMMA DeadlineStep ==
  WaitTypeOK /\ DeadlineInv /\ [WaitNext]_waitVars => DeadlineInv'
<1> SUFFICES ASSUME WaitTypeOK, DeadlineInv, [WaitNext]_waitVars
             PROVE  DeadlineInv'
  OBVIOUS
<1>1. CASE Tick
  BY <1>1 DEF Tick, Ready, WaitTypeOK, DeadlineInv, UnderWay
<1>2. CASE Arrive
  BY <1>2 DEF Arrive, DeadlineInv, UnderWay
<1>3. CASE Call
  BY <1>3, WaitAssumption DEF Call, WaitTypeOK, DeadlineInv, UnderWay
<1>4. CASE Select
  <2>1. /\ waiting = "loop" /\ waiting' = "select"
        /\ until' = IF timeout = 0 THEN 0 ELSE clock + 2 * Remaining
        /\ UNCHANGED <<clock, timeout, began>>
    BY <1>4 DEF Select
  <2>2. ASSUME timeout > 0
        PROVE  /\ clock <= until'
               /\ began + 2 * timeout + 1 <= until'
               /\ until' <= began + 2 * timeout + 3
    <3> DEFINE tc == time(clock)
               tb == time(began)
    <3>1. /\ tc \in Nat /\ 2 * tc <= clock /\ clock <= 2 * tc + 1
          /\ tb \in Nat /\ 2 * tb <= began /\ began <= 2 * tb + 1
      BY Halves DEF WaitTypeOK
    <3>2. /\ clock \in Nat /\ began \in Nat /\ timeout \in Nat
          /\ began <= clock /\ clock <= began + 2 * timeout + 1
      BY <2>1, <2>2 DEF WaitTypeOK, DeadlineInv, UnderWay
    <3>3. until' = IF tc - tb >= timeout THEN clock + 2
                   ELSE clock + 2 * (timeout - (tc - tb) + 1)
      BY <2>1, <2>2, <3>2 DEF Remaining, Elapsed
    <3> HIDE DEF tc, tb
    <3>4. CASE tc - tb >= timeout
      BY <3>1, <3>2, <3>3, <3>4
    <3>5. CASE tc - tb < timeout
      BY <3>1, <3>2, <3>3, <3>5
    <3> QED BY <3>1, <3>2, <3>4, <3>5
  <2> QED BY <2>1, <2>2 DEF DeadlineInv, UnderWay
<1>5. CASE Expire
  BY <1>5 DEF Expire, WaitTypeOK, DeadlineInv, UnderWay
<1>6. CASE Fail
  BY <1>6 DEF Fail, DeadlineInv, UnderWay
<1>7. CASE Read
  <2> DEFINE tc == time(clock)
             tb == time(began)
  <2>1. /\ tc \in Nat /\ 2 * tc <= clock /\ clock <= 2 * tc + 1
        /\ tb \in Nat /\ 2 * tb <= began /\ began <= 2 * tb + 1
    BY Halves DEF WaitTypeOK
  <2>2. /\ clock \in Nat /\ began \in Nat /\ timeout \in Nat
        /\ began <= clock /\ waiting = "select"
    BY <1>7 DEF WaitTypeOK, DeadlineInv, UnderWay, Read
  <2>3. \/ waiting' = "found"
        \/ waiting' = "expired" /\ timeout > 0 /\ tc - tb > timeout
        \/ waiting' = "loop" /\ (timeout > 0 => ~(tc - tb > timeout))
    BY <1>7 DEF Read, Elapsed
  <2>4. UNCHANGED <<clock, timeout, began, until>>
    BY <1>7 DEF Read
  <2> HIDE DEF tc, tb
  <2>5. CASE waiting' = "found"
    BY <2>4, <2>5 DEF DeadlineInv, UnderWay
  <2>6. CASE waiting' = "expired" /\ timeout > 0 /\ tc - tb > timeout
    <3>1. began + 2 * timeout + 1 <= clock
      BY <2>1, <2>2, <2>6
    <3> QED BY <2>4, <2>6, <3>1 DEF DeadlineInv, UnderWay
  <2>7. CASE waiting' = "loop" /\ (timeout > 0 => ~(tc - tb > timeout))
    <3>1. timeout > 0 => clock <= began + 2 * timeout + 1
      BY <2>1, <2>2, <2>7
    <3> QED BY <2>2, <2>4, <2>7, <3>1 DEF DeadlineInv, UnderWay
  <2> QED BY <2>3, <2>5, <2>6, <2>7
<1>8. CASE UNCHANGED waitVars
  BY <1>8 DEF waitVars, DeadlineInv, UnderWay
<1> QED BY <1>1, <1>2, <1>3, <1>4, <1>5, <1>6, <1>7, <1>8 DEF WaitNext

LEMMA EventsStep == WaitInv /\ [WaitNext]_waitVars => EventsInv'
<1> SUFFICES ASSUME WaitInv, [WaitNext]_waitVars PROVE EventsInv'
  OBVIOUS
<1>0. WaitTypeOK /\ DeadlineInv /\ EventsInv /\ WaitTypeOK' /\ DeadlineInv'
  BY TypeStep, DeadlineStep DEF WaitInv
<1>1. CASE Tick
  <2>1. UnderWay => read = Len(arrived)
    BY <1>0, <1>1 DEF Tick, Ready, UnderWay, WaitTypeOK
  <2> QED BY <1>0, <1>1, <2>1 DEF Tick, EventsInv, WaitTypeOK, UnderWay
<1>2. CASE Arrive
  <2>1. PICK w \in BOOLEAN :
          arrived' = Append(arrived, [wanted |-> w, at |-> clock])
    BY <1>2 DEF Arrive
  <2>2. /\ Len(arrived') = Len(arrived) + 1
        /\ \A k \in 1..Len(arrived) : arrived'[k] = arrived[k]
        /\ arrived'[Len(arrived) + 1].at = clock
        /\ UNCHANGED <<clock, waiting, timeout, began, read>>
        /\ waiting # "expired" /\ Len(arrived) \in Nat
    BY <1>0, <1>2, <2>1 DEF Arrive, WaitTypeOK
  <2> QED BY <1>0, <2>2 DEF EventsInv, WaitTypeOK, UnderWay
<1>3. CASE Call
  BY <1>0, <1>3 DEF Call, EventsInv, UnderWay
<1>4. CASE Select
  BY <1>0, <1>4 DEF Select, EventsInv, UnderWay
<1>5. CASE Expire
  <2>1. /\ read = Len(arrived) /\ waiting = "select" /\ waiting' = "expired"
        /\ UNCHANGED <<clock, timeout, began, arrived, read>>
    BY <1>5 DEF Expire
  <2> QED BY <1>0, <2>1 DEF EventsInv, UnderWay
<1>6. CASE Fail
  <2>1. /\ waiting = "select" /\ waiting' = "failed"
        /\ UNCHANGED <<clock, timeout, began, arrived, read>>
    BY <1>6 DEF Fail
  <2> QED BY <1>0, <2>1 DEF EventsInv, UnderWay
<1>7. CASE Read
  <2>1. /\ waiting = "select" /\ read < Len(arrived) /\ read' = read + 1
        /\ UNCHANGED <<clock, timeout, began, arrived>>
        /\ \/ arrived[read + 1].wanted /\ waiting' = "found"
           \/ ~arrived[read + 1].wanted /\ waiting' \in {"expired", "loop"}
    BY <1>7 DEF Read
  <2>2. read \in Nat /\ Len(arrived) \in Nat
    BY <1>0 DEF WaitTypeOK
  <2>3. \A k \in 1..read' : arrived'[k].wanted => waiting' = "found"
    <3>1. \A k \in 1..read : ~arrived[k].wanted
      BY <1>0, <2>1 DEF EventsInv
    <3>2. \A k \in 1..read' : k \in 1..read \/ k = read + 1
      BY <2>1, <2>2
    <3> QED BY <2>1, <3>1, <3>2
  <2>4. UnderWay' =>
          \/ clock' = began'
          \/ \A k \in (read' + 1)..Len(arrived') : arrived'[k].at = clock'
    <3>1. \A k \in (read' + 1)..Len(arrived') : k \in (read + 1)..Len(arrived)
      BY <2>1, <2>2
    <3> QED BY <1>0, <2>1, <3>1 DEF EventsInv, UnderWay
  <2>5. ASSUME waiting' = "expired", NEW k \in 1..Len(arrived'),
               arrived'[k].wanted
        PROVE  arrived'[k].at > began' + 2 * timeout'
    <3>1. k \in (read + 1)..Len(arrived)
      BY <2>1, <2>2, <2>3, <2>5
    <3>2. /\ clock' = clock /\ began' = began /\ timeout' = timeout
          /\ clock \in Nat /\ began \in Nat /\ timeout \in Nat
      BY <1>0, <2>1 DEF WaitTypeOK
    <3>3. timeout > 0
      BY <1>7, <2>5 DEF Read
    <3>4. began + 2 * timeout + 1 <= clock
      BY <1>0, <2>5, <3>2, <3>3 DEF DeadlineInv
    <3>5. arrived[k].at = clock
      BY <1>0, <2>1, <3>1, <3>2, <3>4 DEF EventsInv, UnderWay
    <3> QED BY <2>1, <3>2, <3>4, <3>5
  <2> QED BY <2>3, <2>4, <2>5 DEF EventsInv
<1>8. CASE UNCHANGED waitVars
  BY <1>0, <1>8 DEF waitVars, EventsInv, UnderWay
<1> QED BY <1>1, <1>2, <1>3, <1>4, <1>5, <1>6, <1>7, <1>8 DEF WaitNext
(* For every timeout, a wait that is given up has lasted that long and     *)
(* less than two seconds more, and has missed no event that came in time   *)
(* (get_wpa_cli_events_timeout()).                                         *)
THEOREM DeadlineCorrect == WaitSpec => []GivesUpInTime
<1>1. WaitInit => WaitInv
  BY DEF WaitInit, WaitInv, WaitTypeOK, DeadlineInv, EventsInv, UnderWay
<1>2. WaitInv /\ [WaitNext]_waitVars => WaitInv'
  BY TypeStep, DeadlineStep, EventsStep DEF WaitInv
<1>3. WaitInv => GivesUpInTime
  <2> SUFFICES ASSUME WaitInv PROVE GivesUpInTime
    OBVIOUS
  <2>1. ASSUME timeout > 0, waiting = "select"
        PROVE  clock < began + 2 * timeout + 4
    BY <2>1 DEF WaitInv, WaitTypeOK, DeadlineInv
  <2>2. ASSUME timeout > 0, waiting = "expired"
        PROVE  clock >= began + 2 * timeout
    BY <2>2 DEF WaitInv, WaitTypeOK, DeadlineInv
  <2>3. DOMAIN arrived = 1..Len(arrived)
    BY DEF WaitInv, WaitTypeOK
  <2> QED BY <2>1, <2>2, <2>3 DEF WaitInv, EventsInv, GivesUpInTime
<1> QED BY <1>1, <1>2, <1>3, PTL DEF WaitSpec
-----------------------------------------------------------------------------
(* HELPER PROCESSES                                                        *)

ChildStates == {"none", "forked", "runs", "told", "ended", "reaped"}
LeftBehind == {p \in Pids : child[p] \notin {"none", "reaped"}}
Capture == {sniffer_pid} \ {0}

HelperTypeOK ==
  /\ sniffer_pid \in Pids \cup {0}
  /\ child \in [Pids -> ChildStates]
  /\ hand \in [pc : {"idle", "start", "exit", "nfc", "scan", "waitpid"},
               pid : Pids \cup {0}, then : {"idle", "start", "exit"}]

(* What the server thread has to do with the processes that are left.      *)
HandInv ==
  /\ hand.pc = "idle" => LeftBehind = Capture
  /\ hand.pc \in {"start", "exit"} => LeftBehind = {} /\ sniffer_pid = 0
  /\ hand.pc \in {"nfc", "scan"} =>
       /\ hand.pid # 0 /\ LeftBehind = {hand.pid} \cup Capture
       /\ hand.pid \notin Capture
  /\ hand.pc = "waitpid" =>
       /\ hand.pid # 0 /\ LeftBehind = {hand.pid} \cup Capture
       /\ hand.then \in {"start", "exit"} => hand.pid = sniffer_pid

HelperInv == HelperTypeOK /\ HandInv
-----------------------------------------------------------------------------
LEMMA NewPidFree ==
  ASSUME Free # {}
  PROVE  NewPid \in Pids /\ child[NewPid] = "none"
<1>1. NewPid \in Free
  BY DEF NewPid
<1> QED BY <1>1 DEF Free

(* A process that is told to end stays one that is waited for.             *)
LEMMA KilledLeft ==
  ASSUME HelperTypeOK, NEW p \in Pids, child' = Killed(p)
  PROVE  child' \in [Pids -> ChildStates] /\ LeftBehind' = LeftBehind
BY DEF Killed, HelperTypeOK, LeftBehind, ChildStates

(* sniffer_close() up to waitpid().                                        *)
LEMMA CloseGood ==
  ASSUME HelperInv, hand.pc = "idle", UNCHANGED sniffer_pid,
         NEW pc \in {"idle", "start", "exit"}, CloseThen(pc)
  PROVE  HelperInv'
<1>1. LeftBehind = Capture /\ HelperTypeOK
  BY DEF HelperInv, HandInv
<1>2. CASE sniffer_pid = 0
  <2>1. hand' = [pc |-> pc, pid |-> 0, then |-> "idle"] /\ child' = child
    BY <1>2 DEF CloseThen, AtPc
  <2>2. HelperTypeOK' /\ hand'.pc = pc
    BY <1>1, <2>1 DEF HelperTypeOK
  <2>3. LeftBehind' = {} /\ Capture' = {} /\ sniffer_pid' = 0
    BY <1>1, <1>2, <2>1 DEF LeftBehind, Capture
  <2> QED BY <2>2, <2>3 DEF HelperInv, HandInv
<1>3. CASE sniffer_pid # 0
  <2>1. /\ child' = Killed(sniffer_pid) /\ sniffer_pid \in Pids
        /\ hand' = [pc |-> "waitpid", pid |-> sniffer_pid, then |-> pc]
    BY <1>1, <1>3 DEF CloseThen, Waits, HelperTypeOK
  <2>2. child' \in [Pids -> ChildStates] /\ LeftBehind' = LeftBehind
    BY <1>1, <2>1, KilledLeft
  <2>3. /\ HelperTypeOK' /\ hand'.pc = "waitpid" /\ hand'.pid = sniffer_pid
        /\ hand'.then = pc
    BY <1>1, <2>1, <2>2 DEF HelperTypeOK
  <2>4. LeftBehind' = {sniffer_pid} /\ Capture' = {sniffer_pid}
    BY <1>1, <1>3, <2>2 DEF Capture
  <2> QED BY <1>3, <2>3, <2>4 DEF HelperInv, HandInv
<1> QED BY <1>2, <1>3

(* A tool is started, and the server thread stays with it.                 *)
LEMMA ForkGood ==
  ASSUME HelperInv, Forks, NEW pc \in {"nfc", "scan", "waitpid"},
         hand' = [pc |-> pc, pid |-> NewPid, then |-> "idle"]
  PROVE  HelperInv'
<1>1. LeftBehind = Capture /\ HelperTypeOK
  BY DEF HelperInv, HandInv, Forks
<1>2. /\ NewPid \in Pids /\ child[NewPid] = "none"
      /\ child' = [child EXCEPT ![NewPid] = "forked"]
      /\ sniffer_pid' = sniffer_pid
  BY NewPidFree DEF Forks
<1>3. PICK n : n = NewPid
  OBVIOUS
<1>4. n # 0
  BY <1>2, <1>3, HelperAssumption DEF Pids
<1>5. LeftBehind' = LeftBehind \cup {n}
  BY <1>1, <1>2, <1>3 DEF LeftBehind, HelperTypeOK
<1>6. HelperTypeOK' /\ hand'.pc = pc /\ hand'.pid = n /\ hand'.then = "idle"
  BY <1>1, <1>2, <1>3 DEF HelperTypeOK, ChildStates
<1>7. Capture' = Capture
  BY <1>2 DEF Capture
<1>8. n \notin Capture
  BY <1>1, <1>2, <1>3 DEF LeftBehind
<1> QED BY <1>1, <1>4, <1>5, <1>6, <1>7, <1>8 DEF HelperInv, HandInv

(* A tool is told to end.                                                  *)
LEMMA StopGood ==
  ASSUME HelperInv, hand.pc \in {"nfc", "scan"}, child' = Killed(hand.pid),
         hand' = [pc |-> "waitpid", pid |-> hand.pid, then |-> "idle"],
         UNCHANGED sniffer_pid
  PROVE  HelperInv'
<1>1. /\ HelperTypeOK /\ hand.pid # 0 /\ LeftBehind = {hand.pid} \cup Capture
  BY DEF HelperInv, HandInv
<1>2. hand.pid \in Pids
  BY <1>1 DEF HelperTypeOK
<1>3. child' \in [Pids -> ChildStates] /\ LeftBehind' = LeftBehind
  BY <1>1, <1>2, KilledLeft
<1>4. /\ HelperTypeOK' /\ hand'.pc = "waitpid" /\ hand'.pid = hand.pid
      /\ hand'.then = "idle"
  BY <1>1, <1>2, <1>3 DEF HelperTypeOK
<1>5. Capture' = Capture
  BY DEF Capture
<1> QED BY <1>1, <1>3, <1>4, <1>5 DEF HelperInv, HandInv

LEMMA HelperStep == HelperInv /\ [HelperNext]_helperVars => HelperInv'
<1> SUFFICES ASSUME HelperInv, [HelperNext]_helperVars PROVE HelperInv'
  OBVIOUS
<1>0. HelperTypeOK
  BY DEF HelperInv
<1>1. CASE ControlStart \/ ControlStop \/ Leave
  BY <1>1, CloseGood DEF ControlStart, ControlStop, Leave
<1>2. CASE ControlStarted
  <2>1. /\ hand.pc = "start" /\ LeftBehind = {} /\ sniffer_pid = 0
        /\ hand' = [pc |-> "idle", pid |-> 0, then |-> "idle"]
    BY <1>2 DEF ControlStarted, AtPc, HelperInv, HandInv
  <2>2. CASE UNCHANGED <<sniffer_pid, child>>
    <3>1. HelperTypeOK' /\ hand'.pc = "idle"
      BY <1>0, <2>1, <2>2 DEF HelperTypeOK
    <3>2. LeftBehind' = {} /\ Capture' = {}
      BY <2>1, <2>2 DEF LeftBehind, Capture
    <3> QED BY <3>1, <3>2 DEF HelperInv, HandInv
  <2>3. CASE /\ Free # {} /\ child' = [child EXCEPT ![NewPid] = "forked"]
             /\ sniffer_pid' = NewPid
    <3>1. PICK n : n = NewPid
      OBVIOUS
    <3>2. n \in Pids /\ child[n] = "none" /\ n # 0
      BY <2>3, <3>1, NewPidFree, HelperAssumption DEF Pids
    <3>3. HelperTypeOK' /\ hand'.pc = "idle"
      BY <1>0, <2>1, <2>3, <3>1, <3>2 DEF HelperTypeOK, ChildStates
    <3>4. LeftBehind' = {n} /\ Capture' = {n}
      BY <1>0, <2>1, <2>3, <3>1, <3>2 DEF LeftBehind, Capture, HelperTypeOK
    <3> QED BY <3>3, <3>4 DEF HelperInv, HandInv
  <2> QED BY <1>2, <2>2, <2>3 DEF ControlStarted
<1>3. CASE NfcStart \/ ScanStart \/ PrintStart
  BY <1>3, ForkGood DEF NfcStart, ScanStart, PrintStart, StaysAt, Waits
<1>4. CASE NfcStop \/ ScanStop
  BY <1>4, StopGood DEF NfcStop, ScanStop, Waits
<1>5. CASE NfcPoll \/ Reap
  <2>1. /\ hand.pc \in {"nfc", "waitpid"} /\ hand.pid # 0
        /\ LeftBehind = {hand.pid} \cup Capture
        /\ child' = [child EXCEPT ![hand.pid] = "reaped"]
    BY <1>5 DEF NfcPoll, Reap, HelperInv, HandInv
  <2>2. hand.pid \in Pids
    BY <1>0, <2>1 DEF HelperTypeOK
  <2>3. LeftBehind' = LeftBehind \ {hand.pid}
    BY <1>0, <2>1, <2>2 DEF LeftBehind, HelperTypeOK
  <2>4. child' \in [Pids -> ChildStates]
    BY <1>0, <2>1, <2>2 DEF HelperTypeOK, ChildStates
  <2>5. CASE NfcPoll
    <3>1. /\ hand' = [pc |-> "idle", pid |-> 0, then |-> "idle"]
          /\ sniffer_pid' = sniffer_pid
          /\ hand.pc = "nfc"
      BY <2>5 DEF NfcPoll, AtPc
    <3>2. HelperTypeOK' /\ hand'.pc = "idle"
      BY <1>0, <2>4, <3>1 DEF HelperTypeOK
    <3>3. Capture' = Capture
      BY <3>1 DEF Capture
    <3>4. hand.pid \notin Capture
      BY <3>1 DEF HelperInv, HandInv
    <3> QED BY <2>1, <2>3, <3>2, <3>3, <3>4 DEF HelperInv, HandInv
  <2>6. CASE Reap
    <3>1. PICK then : then = hand.then
      OBVIOUS
    <3>2. /\ hand' = [pc |-> then, pid |-> 0, then |-> "idle"]
          /\ sniffer_pid' = IF hand.pid = sniffer_pid THEN 0 ELSE sniffer_pid
          /\ hand.pc = "waitpid" /\ then \in {"idle", "start", "exit"}
      BY <1>0, <2>6, <3>1 DEF Reap, AtPc, HelperTypeOK
    <3>3. HelperTypeOK' /\ hand'.pc = then
      BY <1>0, <2>4, <3>2 DEF HelperTypeOK
    <3>4. then \in {"start", "exit"} => hand.pid = sniffer_pid
      BY <3>1, <3>2 DEF HelperInv, HandInv
    <3>5. LeftBehind' = Capture'
      BY <2>1, <2>3, <3>2 DEF Capture
    <3>6. then \in {"start", "exit"} => LeftBehind' = {} /\ sniffer_pid' = 0
      BY <2>1, <3>2, <3>4, <3>5 DEF Capture
    <3> QED BY <3>2, <3>3, <3>5, <3>6 DEF HelperInv, HandInv
  <2> QED BY <1>5, <2>5, <2>6
<1>6. CASE \E p \in Pids : ChildRuns(p) \/ ChildEnds(p)
  <2>1. PICK p \in Pids : ChildRuns(p) \/ ChildEnds(p)
    BY <1>6
  <2>2. UNCHANGED <<sniffer_pid, hand>>
    BY <2>1 DEF ChildRuns, ChildEnds
  <2>3. PICK s \in {"runs", "ended"} : child' = [child EXCEPT ![p] = s]
    BY <2>1 DEF ChildRuns, ChildEnds
  <2>4. child[p] \in {"forked", "runs", "told"}
    BY <2>1 DEF ChildRuns, ChildEnds
  <2>5. LeftBehind' = LeftBehind
    BY <1>0, <2>3, <2>4 DEF LeftBehind, HelperTypeOK
  <2>6. HelperTypeOK'
    BY <1>0, <2>2, <2>3 DEF HelperTypeOK, ChildStates
  <2> QED BY <2>2, <2>5, <2>6 DEF HelperInv, HandInv, Capture
<1>7. CASE UNCHANGED helperVars
  BY <1>7 DEF helperVars, HelperInv, HelperTypeOK, HandInv, LeftBehind, Capture
<1> QED
  BY <1>1, <1>2, <1>3, <1>4, <1>5, <1>6, <1>7 DEF HelperNext

LEMMA HelperStart == HelperInit => HelperInv
<1> SUFFICES ASSUME HelperInit PROVE HelperInv
  OBVIOUS
<1>1. HelperTypeOK /\ hand.pc = "idle"
  BY DEF HelperInit, HelperTypeOK, ChildStates
<1>2. LeftBehind = {} /\ Capture = {}
  BY DEF HelperInit, LeftBehind, Capture
<1> QED BY <1>1, <1>2 DEF HelperInv, HandInv
-----------------------------------------------------------------------------
(* Between commands only the capture is left to be waited for, and nothing *)
(* after the end of main(): sniffer_close() stands before everything that  *)
(* would lose the process id.                                              *)
THEOREM HelpersCorrect == HelperSpec => []OnlyCaptureStays
<1>1. HelperInv => OnlyCaptureStays
  BY DEF HelperInv, HandInv, OnlyCaptureStays, LeftBehind, Capture
<1> QED BY <1>1, HelperStart, HelperStep, PTL DEF HelperSpec
=============================================================================
