--------------------------- MODULE HelperProcesses ---------------------------
(***************************************************************************)
(* The processes that command handlers start and wait for: the capture of  *)
(* src/sniffer.c, which runs on between commands, and the tools of         *)
(* src/dpp.c, which a command ends with: the NFC script, the QR Code       *)
(* scanner (both may be stopped) and the QR Code printer.                  *)
(***************************************************************************)
EXTENDS Naturals

CONSTANT MaxForks   \* bound of the model on the processes started

ASSUME HelperAssumption == MaxForks \in Nat

VARIABLES
  sniffer_pid,   \* dut->sniffer_pid
  child,         \* what has become of each process
  hand           \* where the server thread is, and the process it waits for

helperVars == <<sniffer_pid, child, hand>>

Pids == 1..MaxForks

(* "forked": before execve(); "told": SIGTERM has been sent.               *)
HelperInit ==
  /\ sniffer_pid = 0
  /\ child = [p \in Pids |-> "none"]
  /\ hand = [pc |-> "idle", pid |-> 0, then |-> "idle"]

Free == {p \in Pids : child[p] = "none"}
NewPid == CHOOSE p \in Free : TRUE
Waits(pid, then) == hand' = [pc |-> "waitpid", pid |-> pid, then |-> then]
AtPc(pc) == hand' = [pc |-> pc, pid |-> 0, then |-> "idle"]

(* Until execve() a process has the handler of its parent: SIGTERM sets    *)
(* the stop_loop of the copy, and nothing is left of it afterwards.        *)
Killed(p) == [child EXCEPT ![p] = IF @ = "runs" THEN "told" ELSE @]

(* sniffer_close() up to waitpid(), and what follows it.  Its path for a   *)
(* kill() that fails, which forgets the process, is not here: a child that *)
(* has not been waited for is there to be signalled, and dumpcap does not  *)
(* change its user.                                                        *)
CloseThen(pc) ==
  IF sniffer_pid = 0 THEN AtPc(pc) /\ UNCHANGED child
  ELSE child' = Killed(sniffer_pid) /\ Waits(sniffer_pid, pc)

(* Mutation: a capture that runs is not closed before the next.            *)
ControlStart_NoClose ==
  /\ hand.pc = "idle"
  /\ AtPc("start")
  /\ UNCHANGED <<sniffer_pid, child>>
ControlStart ==
  /\ hand.pc = "idle"
  /\ CloseThen("start")
  /\ UNCHANGED sniffer_pid

(* The name is refused, the channel is, or fork() fails; or it starts.     *)
ControlStarted ==
  /\ hand.pc = "start"
  /\ AtPc("idle")
  /\ \/ UNCHANGED <<sniffer_pid, child>>
     \/ /\ Free # {}
        /\ child' = [child EXCEPT ![NewPid] = "forked"]
        /\ sniffer_pid' = NewPid

ControlStop ==
  /\ hand.pc = "idle" /\ sniffer_pid # 0
  /\ CloseThen("idle")
  /\ UNCHANGED sniffer_pid

(* main() after the server loop has ended.                                 *)
Leave ==
  /\ hand.pc = "idle"
  /\ CloseThen("exit")
  /\ UNCHANGED sniffer_pid

Forks ==
  /\ hand.pc = "idle" /\ Free # {}
  /\ child' = [child EXCEPT ![NewPid] = "forked"]
  /\ UNCHANGED sniffer_pid
StaysAt(pc) == hand' = [pc |-> pc, pid |-> NewPid, then |-> "idle"]

(* dpp-nfc.py is asked for its end every two seconds, without waiting; it  *)
(* is stopped when the exchange has begun, or the time is over.            *)
NfcStart == Forks /\ StaysAt("nfc")

NfcPoll ==
  /\ hand.pc = "nfc" /\ child[hand.pid] = "ended"
  /\ child' = [child EXCEPT ![hand.pid] = "reaped"]
  /\ AtPc("idle")
  /\ UNCHANGED sniffer_pid

NfcStop ==
  /\ hand.pc = "nfc" /\ child[hand.pid] # "ended"
  /\ child' = Killed(hand.pid)
  /\ Waits(hand.pid, "idle")
  /\ UNCHANGED sniffer_pid

(* zbarcam is stopped in any case: it does not end after one QR Code.      *)
ScanStart == Forks /\ StaysAt("scan")

ScanStop ==
  /\ hand.pc = "scan"
  /\ child' = Killed(hand.pid)
  /\ Waits(hand.pid, "idle")
  /\ UNCHANGED sniffer_pid

(* qr prints the own QR Code and ends.                                     *)
PrintStart == Forks /\ Waits(NewPid, "idle")

(* waitpid() returns; nothing else stores 0 in sniffer_pid.                *)
Reap ==
  /\ hand.pc = "waitpid" /\ child[hand.pid] = "ended"
  /\ child' = [child EXCEPT ![hand.pid] = "reaped"]
  /\ sniffer_pid' = IF hand.pid = sniffer_pid THEN 0 ELSE sniffer_pid
  /\ AtPc(hand.then)

(* The processes: an execve() that fails ends them, and so they do when    *)
(* told to, or of themselves.                                              *)
ChildRuns(p) ==
  /\ child[p] = "forked"
  /\ \E s \in {"runs", "ended"} : child' = [child EXCEPT ![p] = s]
  /\ UNCHANGED <<sniffer_pid, hand>>
ChildEnds(p) ==
  /\ child[p] \in {"runs", "told"}
  /\ child' = [child EXCEPT ![p] = "ended"]
  /\ UNCHANGED <<sniffer_pid, hand>>

HelperNext ==
  \/ ControlStart \/ ControlStarted \/ ControlStop \/ Leave
  \/ NfcStart \/ NfcPoll \/ NfcStop \/ ScanStart \/ ScanStop \/ PrintStart
  \/ Reap
  \/ \E p \in Pids : ChildRuns(p) \/ ChildEnds(p)

HelperSpec == HelperInit /\ [][HelperNext]_helperVars
-----------------------------------------------------------------------------
(* PROPERTIES                                                              *)

(* Between commands the capture that dut->sniffer_pid names is the only    *)
(* process that has not been waited for, after the server has ended there  *)
(* is none, and whoever is in waitpid() waits for a process that is there: *)
(* no restart, refusal or failed fork() leaves a capture running that      *)
(* nothing can stop any more.                                              *)
OnlyCaptureStays ==
  LET left == {p \in Pids : child[p] \notin {"none", "reaped"}} IN
    /\ hand.pc = "idle" => left = {sniffer_pid} \ {0}
    /\ hand.pc = "exit" => left = {}
    /\ hand.pc = "waitpid" => hand.pid \in left
=============================================================================
