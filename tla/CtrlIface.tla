------------------------------ MODULE CtrlIface ------------------------------
(***************************************************************************)
(* The control interface of wpa_supplicant and hostapd as a handler uses   *)
(* it: src/wpa_ctrl.c and src/wpa_helpers.c.  A request and its reply are  *)
(* datagrams; the daemon answers to the path of the socket that asked, as  *)
(* late as it likes, and reports events to every path that is attached.    *)
(*                                                                         *)
(* A session is what a handler does: one command; or a monitor that is     *)
(* attached before the command is sent, over a connection of its own, and  *)
(* waits for the event that the command leads to; or the scan of           *)
(* get_wpa_ssid_bssid(), which asks for the BSS table on the connection of *)
(* its monitor in the end.                                                 *)
(***************************************************************************)
EXTENDS Naturals, Sequences

CONSTANTS
  Callers,    \* threads that have sessions
  MaxOpens,   \* bound of the model on the connections that are opened
  LeftFiles   \* paths at which an earlier run may have left a file

Paths == 1..MaxOpens

ASSUME CtrlAssumption == MaxOpens \in Nat /\ LeftFiles \subseteq Paths

VARIABLES
  counter,   \* the static counter of wpa_ctrl_open2()
  caller,    \* where each thread is in its session
  file,      \* the socket that each path leads to
  daemon,    \* requests not yet handled
  attached,  \* the paths that are attached
  due,       \* the commands whose event is still to come
  inbox,     \* what waits in each socket
  apart      \* no two threads were in wpa_ctrl_open2() at a time

ctrlVars ==
  <<counter, caller, file, daemon, attached, due, inbox, apart>>

SessionKinds == {"command", "monitor", "scan"}
Requests == {"ATTACH", "COMMAND", "DETACH", "BSS"}
Steps == Requests \cup {"open mon", "open cmd", "close cmd", "await",
                        "close mon", "done"}
Sides == {"mon", "cmd"}
Sockets == Callers \X Sides

(* A request is known by its thread, the number of the session, and what   *)
(* it asks; an event by the command that has led to it.                    *)
Tags == Callers \X Nat \X Requests
Message == [event : BOOLEAN, of : Tags]

(* A file that an earlier run has left leads to no socket.                 *)
Nobody == <<"nobody", "none">>
Left == <<"nobody", "left">>

(* pc: "next", between two calls; "bind" and "again" in wpa_ctrl_open2();  *)
(* "wait" for a reply; "taken", with one in hand.  path: of the            *)
(* connections of the session, 0 for one that is not open.  n: the number  *)
(* of the session.  ok: nothing has failed.  late: its DETACH has had no   *)
(* answer.                                                                 *)
Caller ==
  [pc : {"next", "bind", "again", "wait", "taken"}, kind : SessionKinds,
   step : Steps, path : [Sides -> Paths \cup {0}], n : Nat, ok : BOOLEAN,
   late : BOOLEAN, got : Tags \cup {<<>>}]

CtrlTypeOK ==
  /\ counter \in 0..MaxOpens
  /\ caller \in [Callers -> Caller]
  /\ file \in [Paths -> Sockets \cup {Nobody, Left}]
  /\ daemon \subseteq [path : Paths, of : Tags]
  /\ attached \subseteq Paths
  /\ due \subseteq Tags
  /\ inbox \in [Sockets -> Seq(Message)]
  /\ apart \in BOOLEAN

CtrlInit ==
  /\ counter = 0
  /\ caller = [c \in Callers |->
       [pc |-> "next", kind |-> "command", step |-> "done",
        path |-> [e \in Sides |-> 0], n |-> 0, ok |-> TRUE, late |-> FALSE,
        got |-> <<>>]]
  /\ \E old \in SUBSET LeftFiles :
       file = [p \in Paths |-> IF p \in old THEN Left ELSE Nobody]
  /\ daemon = {} /\ attached = {} /\ due = {}
  /\ inbox = [s \in Sockets |-> <<>>]
  /\ apart = TRUE

(* Mutation: the command goes out over the connection of the monitor.      *)
Side_OneConnection(k) ==
  IF \/ k.step \in {"open cmd", "close cmd"}
     \/ k.step = "COMMAND" /\ k.kind = "command" THEN "cmd" ELSE "mon"
(* The connection that a call is about.                                    *)
Side(k) ==
  IF k.step \in {"open cmd", "COMMAND", "close cmd"} THEN "cmd" ELSE "mon"
Socket(c) == <<c, Side(caller[c])>>
Tag(c) == <<c, caller[c].n, caller[c].step>>

(* What follows a call, and what follows one that has failed: what is open *)
(* is closed, the monitor after a DETACH if it was attached.  Nobody looks *)
(* at what a DETACH was answered.                                          *)
After(k) ==
  CASE k.step = "open mon" -> "ATTACH"
    [] k.step = "ATTACH" -> "open cmd"
    [] k.step = "open cmd" -> "COMMAND"
    [] k.step = "COMMAND" -> "close cmd"
    [] k.step = "close cmd" -> IF k.kind = "command" THEN "done"
                               ELSE IF k.ok THEN "await" ELSE "DETACH"
    [] k.step = "await" -> "DETACH"
    [] k.step = "DETACH" -> IF k.kind = "scan" /\ k.ok THEN "BSS"
                                                       ELSE "close mon"
    [] k.step = "BSS" -> "close mon"
    [] k.step \in {"close mon", "done"} -> "done"
AfterFailure(k) ==
  CASE k.step = "open mon" -> "done"
    [] k.step = "ATTACH" -> "close mon"
    [] k.step = "open cmd" -> IF k.kind = "command" THEN "done" ELSE "DETACH"
    [] OTHER -> After(k)

Onward(k) == [k EXCEPT !.pc = "next", !.step = After(k), !.got = <<>>]
GivesUp(k) ==
  [k EXCEPT !.pc = "next", !.step = AfterFailure(k), !.got = <<>>,
            !.ok = IF k.step = "DETACH" THEN k.ok ELSE FALSE]
Leads(k, p) == [Onward(k) EXCEPT !.path[Side(k)] = p]

AtCall(c, steps) == caller[c].pc = "next" /\ caller[c].step \in steps
Inside(c) == caller[c].pc \in {"bind", "again"}

Begins(k, kind) ==
  [k EXCEPT !.kind = kind, !.n = @ + 1, !.ok = TRUE, !.late = FALSE,
            !.step = IF kind = "command" THEN "open cmd" ELSE "open mon"]
Begin(c) ==
  /\ AtCall(c, {"done"})
  /\ \E kind \in SessionKinds :
       caller' = [caller EXCEPT ![c] = Begins(@, kind)]
  /\ UNCHANGED <<counter, file, daemon, attached, due, inbox, apart>>

-----------------------------------------------------------------------------
(* wpa_ctrl_open2() *)
(* Mutation: counter is only moved away from 0.                            *)
OpenEnter_SamePath(c) ==
  /\ AtCall(c, {"open mon", "open cmd"}) /\ counter < MaxOpens
  /\ counter' = 1
  /\ caller' = [caller EXCEPT ![c].pc = "bind"]
  /\ apart' = (apart /\ \A d \in Callers : ~Inside(d))
  /\ UNCHANGED <<file, daemon, attached, due, inbox>>
OpenEnter(c) ==
  /\ AtCall(c, {"open mon", "open cmd"}) /\ counter < MaxOpens
  /\ counter' = counter + 1
  /\ caller' = [caller EXCEPT ![c].pc = "bind"]
  /\ apart' = (apart /\ \A d \in Callers : ~Inside(d))
  /\ UNCHANGED <<file, daemon, attached, due, inbox>>

OpenBind(c) ==
  /\ Inside(c) /\ file[counter] = Nobody
  /\ file' = [file EXCEPT ![counter] = Socket(c)]
  /\ inbox' = [inbox EXCEPT ![Socket(c)] = <<>>]
  /\ caller' = [caller EXCEPT ![c] = Leads(@, counter)]
  /\ UNCHANGED <<counter, daemon, attached, due, apart>>

(* socket(), bind() or connect() fails; what was bound is removed.         *)
OpenFails(c) ==
  /\ Inside(c)
  /\ caller' = [caller EXCEPT ![c] = GivesUp(@)]
  /\ UNCHANGED <<counter, file, daemon, attached, due, inbox, apart>>

(* The path is in use: the file is removed, and the next try is the last.  *)
OpenUnlink(c) ==
  /\ caller[c].pc = "bind" /\ file[counter] # Nobody
  /\ file' = [file EXCEPT ![counter] = Nobody]
  /\ caller' = [caller EXCEPT ![c].pc = "again"]
  /\ UNCHANGED <<counter, daemon, attached, due, inbox, apart>>

-----------------------------------------------------------------------------
(* wpa_ctrl_request(), wpa_ctrl_attach_helper() *)
Request(c) ==
  /\ AtCall(c, Requests)
  /\ daemon' = daemon \cup {[path |-> caller[c].path[Side(caller[c])],
                             of |-> Tag(c)]}
  /\ caller' = [caller EXCEPT ![c].pc = "wait"]
  /\ UNCHANGED <<counter, file, attached, due, inbox, apart>>

SendFails(c) ==
  /\ AtCall(c, Requests)
  /\ caller' = [caller EXCEPT ![c] = GivesUp(@)]
  /\ UNCHANGED <<counter, file, daemon, attached, due, inbox, apart>>

(* An event that comes in front of the reply is thrown away.               *)
Receive(c) ==
  /\ caller[c].pc = "wait" /\ inbox[Socket(c)] # <<>>
  /\ LET msg == Head(inbox[Socket(c)]) IN
       caller' = IF msg.event THEN caller
                 ELSE [caller EXCEPT ![c].pc = "taken", ![c].got = msg.of]
  /\ inbox' = [inbox EXCEPT ![Socket(c)] = Tail(@)]
  /\ UNCHANGED <<counter, file, daemon, attached, due, apart>>

(* The reply may say that the request has failed.                          *)
Reads(c) ==
  /\ caller[c].pc = "taken"
  /\ \/ caller' = [caller EXCEPT ![c] = Onward(@)]
     \/ caller' = [caller EXCEPT ![c] = GivesUp(@)]
  /\ UNCHANGED <<counter, file, daemon, attached, due, inbox, apart>>

(* Ten seconds without a message.                                          *)
TimesOut(c) ==
  /\ caller[c].pc = "wait" /\ inbox[Socket(c)] = <<>>
  /\ caller' = [caller EXCEPT ![c] =
       [GivesUp(@) EXCEPT !.late = caller[c].step = "DETACH"]]
  /\ UNCHANGED <<counter, file, daemon, attached, due, inbox, apart>>

(* get_wpa_cli_event(): the event of the own command is the one that is    *)
(* waited for; see EventWait for the timeout.                              *)
AwaitReads(c) ==
  /\ AtCall(c, {"await"}) /\ inbox[Socket(c)] # <<>>
  /\ LET msg == Head(inbox[Socket(c)]) IN
       caller' = IF msg.event /\ msg.of = <<c, caller[c].n, "COMMAND">>
                   THEN [caller EXCEPT ![c] = Onward(@)] ELSE caller
  /\ inbox' = [inbox EXCEPT ![Socket(c)] = Tail(@)]
  /\ UNCHANGED <<counter, file, daemon, attached, due, apart>>

AwaitGivesUp(c) ==
  /\ AtCall(c, {"await"}) /\ inbox[Socket(c)] = <<>>
  /\ caller' = [caller EXCEPT ![c] = GivesUp(@)]
  /\ UNCHANGED <<counter, file, daemon, attached, due, inbox, apart>>

(* wpa_ctrl_close().                                                       *)
Close(c) ==
  LET side == Side(caller[c]) IN
    /\ AtCall(c, {"close mon", "close cmd"})
    /\ file' = [file EXCEPT ![caller[c].path[side]] = Nobody]
    /\ caller' = [caller EXCEPT ![c] = Leads(@, 0)]
    /\ inbox' = [inbox EXCEPT ![<<c, side>>] = <<>>]
    /\ UNCHANGED <<counter, daemon, attached, due, apart>>

-----------------------------------------------------------------------------
(* The daemon.  What is sent to a path that leads to no socket is lost.    *)
Answered(boxes, r) ==
  [s \in Sockets |-> IF file[r.path] = s
                       THEN Append(boxes[s], [event |-> FALSE, of |-> r.of])
                       ELSE boxes[s]]
Reported(boxes, of) ==
  [s \in Sockets |-> IF \E p \in attached : file[p] = s
                       THEN Append(boxes[s], [event |-> TRUE, of |-> of])
                       ELSE boxes[s]]

Handle(r) ==
  /\ daemon' = daemon \ {r}
  /\ inbox' = Answered(inbox, r)
  /\ attached' = CASE r.of[3] = "ATTACH" -> attached \cup {r.path}
                   [] r.of[3] = "DETACH" -> attached \ {r.path}
                   [] OTHER -> attached
  /\ due' = IF r.of[3] = "COMMAND" THEN due \cup {r.of} ELSE due
  /\ UNCHANGED <<counter, caller, file, apart>>

(* The event that a command leads to may come before its reply.            *)
HandleAtOnce(r) ==
  /\ r.of[3] = "COMMAND"
  /\ daemon' = daemon \ {r}
  /\ inbox' = Answered(Reported(inbox, r.of), r)
  /\ UNCHANGED <<counter, caller, file, attached, due, apart>>

Happens(of) ==
  /\ due' = due \ {of}
  /\ inbox' = Reported(inbox, of)
  /\ UNCHANGED <<counter, caller, file, daemon, attached, apart>>

CallerStep(c) ==
  \/ Begin(c) \/ OpenEnter(c) \/ OpenBind(c) \/ OpenFails(c)
  \/ OpenUnlink(c) \/ Request(c) \/ SendFails(c) \/ Receive(c) \/ Reads(c)
  \/ TimesOut(c) \/ AwaitReads(c) \/ AwaitGivesUp(c) \/ Close(c)
DaemonStep ==
  \/ \E r \in daemon : Handle(r) \/ HandleAtOnce(r)
  \/ \E of \in due : Happens(of)

(* Two threads in wpa_ctrl_open2() race for the counter: the model ends.   *)
CtrlNext == apart /\ ((\E c \in Callers : CallerStep(c)) \/ DaemonStep)

CtrlSpec == CtrlInit /\ [][CtrlNext]_ctrlVars
-----------------------------------------------------------------------------
(* PROPERTIES                                                              *)

(* A reply that a thread takes for the answer to its request is the answer *)
(* to it, even though requests time out and are answered later: a path is  *)
(* never used twice.  The exception is the BSS request of                  *)
(* get_wpa_ssid_bssid() over a connection on which a DETACH has had no     *)
(* answer.                                                                 *)
RepliesAreOwn ==
  apart => \A c \in Callers :
    caller[c].pc = "taken" =>
      \/ caller[c].got = Tag(c)
      \/ caller[c].late /\ caller[c].step = "BSS"

(* A handler that comes to wait for the event of its command finds it, or  *)
(* the event is still to come: none was thrown away with what came in      *)
(* front of a reply.                                                       *)
NoEventLost ==
  apart => \A c \in Callers :
    LET own == <<c, caller[c].n, "COMMAND">> IN
      AtCall(c, {"await"}) =>
        \/ own \in due
        \/ \E k \in DOMAIN inbox[Socket(c)] :
             inbox[Socket(c)][k] = [event |-> TRUE, of |-> own]
=============================================================================
