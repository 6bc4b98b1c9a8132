------------------------------- MODULE Handlers -------------------------------
(***************************************************************************)
(* What the handlers of the CAPI commands are made of.  A handler is a C   *)
(* function of some hundred lines with many early returns.  What is kept   *)
(* of it is the control that its callers and the next commands depend on:  *)
(*                                                                         *)
(*   - which value it returns, and how many final status lines it has sent *)
(*     by then (enum sigma_cmd_result and the comment on process in        *)
(*     src/sigma_dut.h);                                                   *)
(*   - how many of the connections, files, sockets and processes it opened *)
(*     it leaves open;                                                     *)
(*   - which members of struct sigma_dut it sets ("set": to a value that   *)
(*     its parameters or the devices choose), or brings back to a value    *)
(*     that no earlier command has a part in ("default").                  *)
(*                                                                         *)
(* A run of a piece of code is an effect, a piece of code the set of the   *)
(* effects it may have.  Parameters of commands, answers of wpa_supplicant *)
(* and results of system calls are what makes it more than one.  Of the    *)
(* members, one is followed at a time: `field`, any of them.               *)
(***************************************************************************)
EXTENDS Integers, Sequences, SequencesExt

VARIABLES
  field,    \* the member of struct sigma_dut that is followed
  program   \* dut->program

(* enum sigma_cmd_result, and GoesOn for code that has not returned.       *)
STATUS_SENT_ERROR == -3
ERROR_SEND_STATUS == -2
INVALID_SEND_STATUS == -1
STATUS_SENT == 0
SUCCESS_SEND_STATUS == 1
GoesOn == 2
Result == STATUS_SENT_ERROR..SUCCESS_SEND_STATUS

Effect == [res : Result \cup {GoesOn}, ans : Nat, left : Int,
           val : {"kept", "set", "default"}]

None == [res |-> GoesOn, ans |-> 0, left |-> 0, val |-> "kept"]

(* One effect after the other.  Nothing comes after a return.              *)
After(a, b) ==
  IF a.res # GoesOn THEN a
  ELSE [res |-> b.res, ans |-> a.ans + b.ans, left |-> a.left + b.left,
        val |-> IF b.val = "kept" THEN a.val ELSE b.val]
Then(A, B) == {After(a, b) : a \in A, b \in B}
Do(pieces) == FoldLeft(Then, {None}, pieces)

(* Code under a condition that the model does not follow, and a loop.      *)
If(E) == {None} \cup E
Loop(E) == {None} \cup E \cup Then(E, E)
InProgram(P, E) == IF program \in P THEN E ELSE {None}

Return(r) == {[None EXCEPT !.res = r]}
OneOf(R) == UNION {Return(r) : r \in R}
Error == Return(ERROR_SEND_STATUS)
Invalid == Return(INVALID_SEND_STATUS)
Success == Return(SUCCESS_SEND_STATUS)
Sent == Return(STATUS_SENT)
SentError == Return(STATUS_SENT_ERROR)

(* send_resp() of a final status, alone and with the return that follows.  *)
Answer == {[None EXCEPT !.ans = 1]}
Answered == Then(Answer, Sent)
Refused == Then(Answer, SentError)

Opens == {[None EXCEPT !.left = 1]}
Closes == {[None EXCEPT !.left = -1]}

Sets(F) == {[None EXCEPT !.val = IF field \in F THEN "set" ELSE @]}
Defaults(F) == {[None EXCEPT !.val = IF field \in F THEN "default" ELSE @]}

(* What E does to F is undone by the end of it.                            *)
Restored(F, E) ==
  {IF field \in F THEN [e EXCEPT !.val = "kept"] ELSE e : e \in E}
(* A call without a connection: send_resp() sends nothing.                 *)
Silent(E) == {[e EXCEPT !.ans = 0] : e \in E}

(* A call whose result is dropped; one whose results in R lead to E; and    *)
(* the tests of a result that the handlers use: a negative one leads to E, *)
(* one other than `good' leads to E, `bad' leads to E; the result is       *)
(* returned unless it is a success, zero, not negative.                    *)
Call(F) == {[f EXCEPT !.res = GoesOn] : f \in F}
Tested(F, R, E) ==
  UNION {IF f.res \in R THEN Then(Call({f}), E) ELSE Call({f}) : f \in F}
Checked(F, E) == Tested(F, {STATUS_SENT_ERROR, ERROR_SEND_STATUS,
                            INVALID_SEND_STATUS}, E)
Passed(F, good, E) == Tested(F, Result \ {good}, E)
Caught(F, bad, E) == Tested(F, {bad}, E)
Kept(F, R) == {IF f.res \in R THEN [f EXCEPT !.res = GoesOn] ELSE f : f \in F}
OnSuccess(F) == Kept(F, {SUCCESS_SEND_STATUS})
OnZero(F) == Kept(F, {STATUS_SENT})
OnNonNegative(F) == Kept(F, {STATUS_SENT, SUCCESS_SEND_STATUS})
(* The number of a network in wpa_supplicant, 0 or more.                   *)
NetworkId == OneOf({STATUS_SENT, SUCCESS_SEND_STATUS})
=============================================================================
