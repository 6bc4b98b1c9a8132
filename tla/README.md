# A TLA+ model of sigma_dut

sigma_dut (`src/`) is the control agent of a Wi-Fi device under test. A test
controller connects to it over TCP, sends one-line commands ("CAPI"), and reads
status lines: `status,RUNNING`, then one final `COMPLETE`, `ERROR` or
`INVALID`. Behind the commands are threads that send and receive test traffic,
monitors of wpa_supplicant events, helper processes, and a large amount of code
that turns a command into wpa_supplicant, hostapd or driver commands.

This directory models the part of the program whose correctness depends on the
order in which things happen. It says what is modelled, what TLC checked on
small instances, and what TLAPS proved for all instances.

## 1. Inventory

| Component | Source | State it keeps | Operations | What is hard | Modelled |
|---|---|---|---|---|---|
| Control server | `sigma_dut.c` (`run_loop`, `process_conn`, `process_cmd`, `send_resp`, `handle_term`) | up to `MAX_CONNECTIONS` slots (socket, buffer, `waiting_completion`), `response_sent`, `stop_loop` | accept, receive, dispatch, answer, terminate | slots shared with report threads; commands in the same segment; signals; framing | partly |
| Command registry | `cmds_reg.c`, `sigma_dut.c`, `basic.c` | linked list, filled before the loop runs | register, look up | every one of some 150 handlers must leave one answer and nothing else behind | yes |
| Traffic agent | `traffic_agent.c` | table of streams, identifier counter, a thread per started stream, a report thread per send command | config, send, receive_start, receive_stop, reset | every thread reads and writes the table without a lock | partly |
| U-APSD streams | `uapsd_stream.c` | state machine indices, retry counters, condition variable | hello, test states, stop, reset | lossy datagrams, lost wakeups, retries | partly |
| DSCP policies | `sta.c` 4880-5805, `traffic.c` | policy table, kernel rules, monitor thread | request start/add/remove/reject/end, clear, stop, lookup | table shared by two threads, rules kept in the order of the table, cancellation | partly |
| Station | `sta.c` | configuration between commands | sta_* commands | early returns; what survives a reset | partly |
| Access point | `ap.c` | configuration between set and commit | ap_* commands | the same; files half written | partly |
| P2P | `p2p.c`, `p2p_usd.c` | group and role, event thread, pairing monitor thread | p2p_* and wps commands | the same; thread handles set and cleared by different threads | partly |
| DPP | `dpp.c` | bootstrapping, peer data | automatic exchange | sequence of events under one deadline, helper processes | partly |
| wpa_supplicant control | `wpa_helpers.c`, `wpa_ctrl.c` | a datagram socket per request or monitor, a counter | request, attach, wait for an event | events between request and reply, late replies, deadlines | partly |
| FILS HLP thread | `dhcp.c` | capture handle, thread handle | start, clean up | both written by two threads | partly |
| Sniffer, wlantest | `sniffer.c`, `wlantest.c` | capture process id, file name | start, stop, query | one process at a time, reaped | partly |
| Traffic by scripts | `traffic.c` | pid files | ping, iperf | the lookup of a stream's DSCP | yes |
| Miracast | `miracast.c` | session thread, library | start, connect, reinvoke, stop | a library outside the repository | partly |
| NAN | `nan.c` | discovery and data path state | nan actions, events | answers from helpers and callers, callbacks | partly |
| Server role | `server.c` | none (a database) | requests and resets of it | the database is external | yes |
| FTM, 60 GHz, power switch, device commands | `ftm.c`, `dev.c`, `powerswitch.c`, `atheros.c`, `dnssd.c` | little | one command, one external call | | partly |
| Helpers | `utils.c`, `e_loop.c` | none | | | no |
| Vendored headers | `nl80211_copy.h`, `qca-vendor_copy.h`, ... | none | | | no |

"Partly" says that some operation of the part, or what a thread of it does
inside, is left out; section 6 says which.

How they interact. The server thread (`main`) runs the server loop and every
command handler, one at a time. Everything else that runs is started by a
handler: sender, receiver and report threads of the traffic agent, the DSCP
monitor, the FILS HLP thread, the P2P threads, the Miracast thread, and helper
processes. They share `struct sigma_dut` with the server thread without locks.
Report threads are the only ones that answer on a control connection; for them
`conn->waiting_completion` keeps the slot from being given to another client.
Between two commands only `struct sigma_dut`, open descriptors, attached
monitors, threads and processes remain, so these are what the models of the
commands keep.

What makes each correct:

* control server: every command is answered, the answers a client reads are its
  own and in order, an accepted connection has a slot, a termination request is
  honoured;
* traffic agent: identifiers never come back, a thread is joined exactly once,
  nobody acts on a stream that changed meanwhile, a send command is answered
  after its senders ended and not twice at a time, sockets belong to the thread
  that uses them, handlers return;
* U-APSD: both sides agree on the test state, retries are bounded, both stop;
* DSCP: the table and the kernel rules agree, a request is answered with one
  status per policy, the server thread never follows a freed entry;
* control interface: a reply belongs to its request, a wait ends by its deadline
  and loses no event;
* handlers: one final status on every path, every descriptor closed once, what a
  test has set gone after the reset of its role, the time limit put back;
* helper processes: only the capture outlives its command, and it can always be
  stopped;
* monitor threads: one at a time, and one whenever it is wanted.

`PROJECT.json` lists the hazards, each at its line, with the properties that
would catch it.

## 2. Modules

| Module | Models | Kind |
|---|---|---|
| `TrafficAgent` | `traffic_agent.c` | detailed specification |
| `MCTrafficAgent` + `TrafficAgent*.cfg` | instances for TLC | |
| `TrafficAgentProofs` | type correctness | proofs |
| `TrafficAgentSafety` | identifiers, joins, slots, threads | proofs |
| `CapiPromise` | what a controller may rely on | abstract specification |
| `CapiServer` | `run_loop` and what it calls, the end of the report threads | detailed specification, refines `CapiPromise` |
| `MCCapiServer` + `Capi*.cfg` | instances for TLC | |
| `CapiServerProofs` | type correctness, slots, the refinement of `CapiPromise` | proofs |
| `UapsdTables` | the test tables of `uapsd_stream.c` | pure definitions |
| `UapsdLink` | the link between station and console | environment |
| `UapsdDut` | the station's receiver and sender threads | component |
| `UapsdConsole` | the console's thread | component |
| `Uapsd` | both over the link | composition |
| `MCUapsd` + `Uapsd*.cfg` | instances for TLC | |
| `UapsdProofs` | type correctness, the missed signal, the console's lead, the tests without a reset | proofs |
| `Handlers` | what a handler is made of: effects and how they combine | pure definitions |
| `SharedHelpers` | functions that several families call, `basic.c` | handlers |
| `ApCommands` | `ap.c` | handlers |
| `StaNetwork`, `StaSettings`, `StaConnect`, `StaFrames`, `StaFeatures`, `StaReset` | `sta.c`, by what the commands are about | handlers |
| `P2pCommands` | `p2p.c`, `p2p_usd.c` | handlers |
| `DppCommands`, `LocationCommands`, `MiracastCommands`, `NanCommands`, `ServerCommands`, `SnifferCommands` | `dpp.c`, `ftm.c`, `miracast.c`, `nan.c`, `server.c`, `sniffer.c` with `wlantest.c` | handlers |
| `DeviceCommands` | `dev.c`, `traffic.c`, `atheros.c`, `powerswitch.c` | handlers |
| `Commands` | the table of the commands, `process_cmd`, and what remains between commands | composition of the handlers |
| `MCCommands` + `Commands.cfg` | instance for TLC: which command is to set which member | |
| `DscpPolicy` | DSCP monitor, server thread, kernel rules, access point | detailed specification |
| `DscpPolicyProofs` | type correctness, identifiers, responses, order of the rules, lookup | proofs |
| `ConnBuffer` | the framing in `process_conn` | component |
| `ConnBufferProofs` | room, commands | proofs |
| `CtrlIface` | `wpa_ctrl.c` and its callers in `wpa_helpers.c`, with the daemon | component and environment |
| `CtrlIfaceProofs` | types, replies, events | proofs |
| `EventWait` | `get_wpa_cli_events_timeout` and its clock | component |
| `HelperProcesses` | the processes of `sniffer.c` and `dpp.c` | component |
| `PartsProofs` | the deadline of `EventWait`, who `HelperProcesses` leaves running | proofs |
| `MCParts` + `Parts.cfg` | the last five components for TLC, each on its own | |

### TrafficAgent

`streams`, `num_streams` and `stream_id` are the fields of `struct sigma_dut`.
A stream keeps the fields that control depends on (`stream_id`, `sender`,
whether it uses TCP, `started`, `stop`, `sock`, `thr`, `ta_send_in_progress`);
a socket is "none" (-1), "open", or "zero", the value 0 that `memset` leaves.
`thr` are the sender and receiver threads by their `pthread_t`, `rep` the report
threads, `main` the place of the server thread in a handler.

A command handler is a sequence of steps wherever another thread could tell the
difference: `Send` (the checks), `OpenSocket` and `CreateThread` (one stream
each), `CreateReport`, `MarkSending` (one stream each); `ReceiveStop` or `Reset`
and then `MainStop` and `MainJoined` per stream and `StopsDone`.
`send_report_thread` is `ReportStop`, `ReportJoined`, `ReportBuilt`,
`ReportClear`, `ReportClose`, `ReportComplete` and `ReportDone`, in the order of
the code; in particular the flag is cleared before the socket is closed, and the
answer is sent before `waiting_completion` is cleared. `pthread_join` on a
thread that is joined already or twice at a time is undefined in POSIX: the
model lets it return at once (`JoinReturns`).

A stream thread runs (`st = "run"`) until `SenderEnds` or `ReceiverEnds`, or is
*held* (`Hold`): in `send_burst`, whose inner loop tries a packet again for as
long as `send()` fails, also after it has set `stop` itself (`traffic_agent.c`
710-735), and which begins the next burst without a look at the time when the
last took too long; or, with profile U-APSD, in the `pthread_cond_wait` of
`sigma_uapsd_stop`, which has no predicate (`uapsd_stream.c` 1376-1383). Any
thread at work may be held, and a held one need not end (`HeldEnds`).

Abstractions: a list of identifiers is a set, so the loops over it run in any
order; payloads, counters, statistics and the contents of packets are left out;
the packet loops are a thread's start, hold and end;
`ConfigRefused` covers every parameter that is refused after the slot was
cleared.

`Orderly` says what the controller refrains from (the code checks none of it):
a second command before the final status of the first on a connection,
`receive_start` of a started stream, `receive_stop` of a sender, `reset` while a
send command is not answered. Properties that need this say so in their text.

### CapiServer

`conn` are the slots, `main` the place of the server thread (`top` of the loop,
`select`, `accept`, `scan` over the ready connections, `cmd`, `run`, `handler`,
`check`), `rep` the report threads from the end of their work on, `queue` the
connections `accept()` has not returned yet. `crossed` is a history variable: the
report threads that had to share their slot with another command still to be
completed. A client is one TCP connection; it may send commands before it is
accepted and leave at any time. `taken[c]` counts the commands given to
`process_cmd`; `Recv` brings any number of waiting commands at once, and all of
them are run before the next connection is looked at. A command is "bad" (answered before it is run), "plain" (answered by its
handler) or "deferred" (answered by a report thread). `response_sent++` of a
report thread is a load and a store.

Commands are whole lines here: the framing of the byte stream is `ConnBuffer`.

### CapiPromise

Two variables: the commands each client sent and the status lines it was sent.
`Reply` allows one line at a time, of the client's own command, RUNNING first
and at most once unless the command is refused, and one final status; and the
commands of a client are taken in the order in which they were sent (`PutBy`).
`CapiServer` refines it with `Promise == INSTANCE CapiPromise`; the mapping is
the identity on `asked` and `inbox`. One step is excepted by name (`Stray`):
`waiting_completion` is one flag for all report threads of a slot, and the first
of them to end clears it (`traffic_agent.c` 1104). A controller that leaves with
two send commands under way therefore may lose its slot to another one before
the second has answered, and the other one reads that answer. The threads this
can happen to are those of `crossed`; for all others the promise is kept.

### Uapsd

A U-APSD test is played by two sigma_dut: a station (`receive_uapsd` and the
thread `send_uapsd` it creates) and a console (`send_uapsd_console`). The code
drives both by tables of function pointers; `UapsdTables` has a row per test
with, for each function, what it sends or expects, so that a row of the model is
a row of the table and `Call` and `TxLoop` are the indirect calls.

`dut` are the stream's fields at the station, `tx` the sender thread (the
function it is in and how far), `rx` the place of the receiver thread; `con` are
the stream's fields at the console. `TxLoop` reads the shared test case once and
the state that only the sender changes, so it is one step. `uapsd_tx_stop` is
three: the packet and its count, the signal, and the look at the count after it.
`sigma_uapsd_stop` is `RxWait`, a wakeup (by `TxSignal` or a spurious one) and
`RxWoken`; between the packet that led there and `RxWait` a signal is missed, as
`pthread_cond_wait` is called without a predicate. What the console does with a
packet is one function of its fields, `Handled`: nobody else touches them.

`UapsdLink` is the network: `Lose` and `Overtake` happen only when `Faults`
allows, which also has failing `send()`, spurious wakeups, and a command that
stops the stream. With `Prompt` the sender's sleep before a packet (a second in
most functions) lasts until the peer has answered all it was sent; the code
counts on that and nothing else makes a test succeed.

Left out: cookies, frame counts, power save mode, durations, the different TOS
values of one access category (`packet_expected` does not tell them apart), and
the rows of the WMM-AC tests.

### Handlers, the command modules, Commands

A handler of `ap.c` or `sta.c` is some hundred lines of text formatting with
many early returns. What its callers and the next commands can tell of it is
its *effect*: the value it returns, the number of final status lines it has
sent by then, how many descriptors or monitors it leaves open, and what it has
done to the members of `struct sigma_dut`. `Handlers` defines effects and how
they combine. A piece of code is the set of the effects it may have: `Do` is one
piece after the other (nothing comes after a return), `If` a condition the model
does not follow, `Checked`, `Tested`, `Passed`, `Call` are the ways in which the
code looks at a result or drops it, `Silent` is a call without a connection,
`InProgram` the conditions on `dut->program`, which are followed.

Each of the command modules has an operator per function of its file, under the
function's name, composed of the operators of the functions it calls; so a
helper whose error is dropped, or whose answer is sent a second time by its
caller, shows in every command above it. Parameters, replies of wpa_supplicant
and results of system calls choose among the effects.

Some 700 members are not a state TLC could keep. One of them, `field`, is
followed in a behaviour, any of them: `Sets` and `Defaults` have an effect only
when they name it. "set" is a value that parameters or devices choose, "default"
one that no earlier command has a part in.

`Commands` is the server thread seen from there: `Arrive`, then `Reject` (before
the handler is run) or a disjunct of `process_cmd` (the table, file by file, in
the order of the code), then `Finish`. `value` is what the commands have made of
the member so far, `end` the end of the command in hand. The commands of the
traffic agent are `TrafficAgent`'s, as threads answer for them.

The code breaks the rules that the properties state in a number of places. The
properties name them, so that they hold and a new place would be noticed:

* `AnswerAgain`: two final answers on some path (for example `set_wpa_common`,
  `sta.c` 2097-2382; `ap.c` 15411-15414; `dpp.c` 4679-4684; `nan.c` 1306;
  `dev_stop_test_log`, `dev.c` 844-935).
* `StaySilent`: none on some path (`ap.c` 6319 and 8102, `atheros.c` 112, `sta.c`
  7640, 18649-18705 and 19582, `miracast.c` 678-683, `ap.c` 1326 and 15234, which
  drop the result of a commit).
* `LeaveOpen`: a file, socket or monitor is left open (`ap.c` 9204-9208 and
  9228-9231, `ap.c` 4467, `traffic.c` 778 and 795, `sta.c` 9385-9389 and 20580,
  the two PASN exchanges of `p2p.c`).
* `Survives` and `ProgramOnly`: what a reset does not bring back, never or not
  under another program. That is often meant (the value is set before each use,
  or counted by a member that is reset), and sometimes not: the lists of a
  program survive a reset for another program, `ap_ba_bufsize` is kept for
  testbed devices outside HE and EHT.
* `TimeoutKept` excepts `dev_exec_action`: `dpp_manual_dpp` without
  `DPPAuthRole` leaves `default_timeout` changed (`dpp.c` 3783).

### DscpPolicy

`dscp_policy_table` is the list, `rules` the mangle chain of each IP version as
the kernel has it, `mon` the monitor threads with their place in the code, the
request in hand and `status_list`, `queue` the events of wpa_supplicant that a
monitor has not read, `server` the server thread, `ap` the access point that
asks. An add is the steps of the code: remove the policy that has the
identifier (delete its rule, unlink it), compute the number of the new rule and
add it, then place the policy in the list; a step that runs `system()` may fail.
A policy with a domain name has no rule. A thread is cancelled where it is. The
status "code" stands for `dscp_reject_resp_code`, which the tester may set to any
number, 0 (success) included.

Two threads in the list at a time is a data race, and what the program does from
there on is undefined; `alone` records whether it has happened, and the model
ends there. `RulesFollowTable`, `AnswersTruthful` and `IdsUnique` are about the
behaviours up to that point.

`get_dscp_from_policy_table` is the search of `traffic.c` for a stream's policy:
`AtTheEnd` is the test of the domain name with `strstr` and two lengths,
`Accepts` the five conditions, `Chosen` the comparison with the best so far. A
domain name is a sequence of characters, a condition the set of values it
accepts. `LookupFindsBest` compares the result with a definition that knows
nothing of `strstr`: a policy covers a stream whose name ends with the policy's
(`Covers`). It has to except the policies that are `Hidden`: `strstr` returns the
first place, so that `com` is passed over for `www.community.com`, although the
comment (`traffic.c` 346-349) means to discard only names that are not at the
end.

### ConnBuffer

`buf`, `pos` and `res` are the variables of `process_conn`. `BufferRecv` brings
any bytes that fit, `ScanCommand` gives one command away and moves the rest to
the front, `ScanIncomplete` keeps an incomplete one or, when the buffer is full,
drops it. CR and LF are one byte: the code does not tell them apart. The
reference cuts the whole input at its line ends: `RestTo` is what is left of the
line that ends at a place. Of a line longer than the buffer that is the rest
after the last drop, which is given to `process_cmd` as if it were a command.
`CommandsAreLines` says that the ends of the lines that have a rest and the
commands that are not empty match one to one, in order.

### CtrlIface

A thread has sessions: open, request, close; or attach a monitor, command, wait
for the command's event, detach. `wpa_ctrl_open2` takes a number from a static
counter for the path of its socket, and binds the path again after removing a
file that is in the way (`LeftFiles`). The daemon answers and reports events
whenever it likes; a request gives up after ten seconds, and its reply comes
later, to the path it was asked from. While a request waits for its reply it
throws away whatever else it reads.

`apart` is false once two threads were in `wpa_ctrl_open2` at a time: they race
for the counter, and the comment at `wpa_ctrl.c` 150 that getpid() makes the path
unique does not hold for two threads. The model ends there. `RepliesAreOwn`
excepts the BSS request of `get_wpa_ssid_bssid`, which is sent over the
connection of a monitor whose DETACH may have had no answer.

### EventWait

The deadline of `get_wpa_cli_events_timeout` is computed from two readings of
`time()`, in whole seconds. The clock of the model counts half seconds, so that
a wait may begin in the middle of one; it runs only while the thread has nothing
to do, as the property is about the deadline of the code and not the load of the
machine.

### HelperProcesses

`sniffer_pid` is the member, `child` what has become of each process, `hand`
where the server thread is and for whom it waits. A handler that is in
`waitpid()` stays there until the process has ended; SIGTERM ends a process that
has executed its program. A signal that comes between `fork()` and `execve()` is
taken by the handler that the child has inherited from sigma_dut, and lost: then
`sniffer_close` waits until the capture ends by itself. Left out is the path of
`sniffer_close` on which `kill()` fails and the process is forgotten
(`sniffer.c` 81-85): a child that was not waited for can be signalled, unless it
has changed its user, which dumpcap does not.

## 3. What is checked

| Run | Instance | Shows |
|---|---|---|
| `agent_orderly` | 2 connections, 2 streams, 2 sender/receiver threads, 2 report threads, TCP and UDP, an orderly controller, no failures | `StreamIdsUnique`, `StopStreamFresh`, `NoDoubleJoin`, `ThreadsKnown`, `CompleteAfterSend`, `SocketHeld`, `SocketTaken` |
| `agent_any` | 1 connection, 1 stream, 2 identifiers, 3 threads, 2 report threads, any controller, all failures, without TCP | `TypeOK`, `ReportNamesSenders`, `WaitingHasReport` |
| `agent_live` | `FairSpec`, 1 connection, 2 streams, 2 threads, 2 report threads, TCP and UDP, an orderly controller, no failures, threads that may be held | `HandlerReturns`, `ReportsEnd` |
| `server_slots` | 1 slot, 2 clients, 2 report threads, 2 commands each, all of which may be deferred, pipelined, failures | `TypeOK`, `RoomForNewConnection`, `SlotHeld`, `KeepsPromise` |
| `server_live` | `FairSpec`, 1 slot, 2 clients, 2 commands each, termination | `EveryCommandAnswered` |
| `uapsd_prompt` | `FairSpec`, all 19 tests, no faults, prompt peer | `NoReset`, `TestCompletes` |
| `uapsd_lossy` | `FairSpec`, 3 tests, loss, reordering, failing `send()`, spurious wakeups, stop by command, up to 2 packets under way | `TypeOK`, `ConsoleFollows`, `MissesLastSignalOnly`, `TalkersEnd` |
| `commands` | 22 programs, every command for the members "none" and "default_timeout"; each of the other members followed with the commands that are to set it and the reset of its role | `CommandsTypeOK`, `AnsweredOnce`, `NothingLeftOpen`, `ResetForgets`, `TimeoutKept` |
| `parts` | the five parts below, one in a behaviour | |
| - DSCP | 2 identifiers, 5 kinds of policies (3 with rules, of both IP versions, and 2 with a domain name), 3 streams looked up, 2 monitors, `StatusListSize` 2, 3 policies in 2 requests, 1 unread event, 1 command of the server thread, failing `system()` | `DscpTypeOK`, `RulesFollowTable`, `AnswersTruthful`, `IdsUnique`, `LookupFindsBest` |
| - buffer | 2 letters, room for 3 bytes, 6 bytes of a client, 2 clients | `CommandsAreLines`, `RoomToReceive` |
| - control | 2 threads, 3 connections opened, a leftover file in the way of the second | `RepliesAreOwn`, `NoEventLost` |
| - wait | timeouts of 0 to 2 s, 9 half seconds, 3 events | `GivesUpInTime` |
| - helpers | 3 processes started | `OnlyCaptureStays` |
| `agent_stuck`, `agent_twice`, `server_term` | | violations, see below |

Each property of a passing run has a mutant in `PROJECT.json`: the definition
of the model that a plausible bug would change, for which TLC finds the
property violated in the same run.

### Bounds

Two streams are the least for which a report or a handler has something
left to do while another thread acts on the first; with one slot and two
clients the slot is fought for; with two commands per client a second command
meets the end of the first; two report threads can meet on a slot. `MaxStreamId`
bounds the identifiers given out in a run (in `agent_any` more than there are
slots, so that a slot is configured anew after a reset; with two slots and two
identifiers the first is), `MaxCmds` the commands of a client, `MaxDeferred` how
many of them a report thread answers: both of them in `server_slots`, so that two
threads meet on a slot and the first to end clears the flag of the other
(`traffic_agent.c` 1104).

In `agent_orderly` states that differ only in what the final statuses said are
taken for one (`ButForTheAnswers`), and in `server_slots` those that differ only
in `response_sent` and in what a report thread has read of it
(`ButForTheCount`): nothing but the log reads that count.

U-APSD: in the run with faults `MAX_HELLO` is 0 and `MAX_RETRY` and `MAX_STOP`
are 1 (every counter still runs over its limit), `Cycles` stands for the 3000
packets of `uapsd_tx_cyclic`, `MaxQueue` bounds the packets under way in a
direction; in `uapsd_prompt`, where no packet may be lost, it is larger than any
answer. `ConsoleFollows` is checked for tests whose functions send one packet
each.

Commands: an effect does not depend on the commands before it except through
`program`, so two commands, a setting one and a reset, under any two programs
decide `ResetForgets`; the run has all sequences of them. A loop is run none,
once or twice.

DSCP: two identifiers make a removal, a replacement and an order of two rules
possible, within an IP version and beside the other one; one of the streams has
the domain name of a policy twice, one only at its end, and they differ in the
conditions; `StatusListSize` 2 is less than the policies of a request. Buffer:
Room 3 lets a line be shorter than, as long as, and longer than the buffer, in
every cut. Control: three connections are two of a session with a monitor and
one of another thread, or two sessions one after the other. Wait: a timeout of 2
s and 3 events have an unrelated event before and after the whole second. The
parts do not interact, so that running them in one state space loses nothing.
States that differ only in what is not read any more (`ButForTheForgotten`: the
list of a monitor that has ended, where the program stood when the model ended)
are taken for one.

Deadlock is checked in the runs of `TrafficAgent`, where a controller may always
send another command or a thread has something to do, and in `commands`. It is
not checked in `CapiServer`, which rests when no client has anything to say,
`Uapsd`, whose tests end, and `parts`, which end at their bounds. Symmetry is
used for clients, connections, threads, monitors and report threads in runs
without liveness properties.

### Fairness

`TrafficAgent`: the server thread and the report threads go on. A sender ends, or
is held; a receiver that was told to stop ends (it looks every 300 ms), or is
held. Nothing that is held has to end, no peer has to connect and no command has
to come: `HandlerReturns` and `ReportsEnd` therefore except whoever is for ever
joining a thread in `accept()` or a held one, and say that nothing else keeps a
handler or a report thread. `CapiServer`: the server thread
and the report threads go on; clients owe nothing. `Uapsd`: the station's two
threads and the console go on, and the console's clock runs when no packet
waits; the link owes nothing. All weak: each is a thread the system schedules,
and none of their steps is disabled again and again by the others. The other
specifications state safety only: what they wait for is the peer's to send.

### Disagreements found

* `RefusedOnlyWhileSending` (`agent_stuck`): `ta_send_in_progress` is set after
  the report thread that clears it was created; when that thread ends first, the
  stream refuses every later send.
* `NoConcurrentSends` (`agent_twice`): when a thread of a send command cannot be
  created, the senders already running are neither marked nor joined, and the
  next send command starts a second one on the same stream and socket.
* `TermEnds` (`server_term`): a signal between the loop's condition and
  `select()` is noticed only when some client sends or connects.

Besides the exceptions listed under Commands, DscpPolicy and CtrlIface, reading
the code for the models showed, without a run of its own: `dut.go` and
`dut.p2p_client` are cleared when any one group is dissolved (`p2p.c`
1882-1915); a request that fills `status_list` is refused even when its policy
is known (`sta.c` 20058); a CR LF cut between two `recv()` makes an empty
command, which is answered INVALID; `ReportClose` (`traffic_agent.c` 1091) finds
nothing to close, as `stop_stream()` has closed the socket, or closes that of the
next send; `send_burst` (700-736) may retry for ever; one `waiting_completion`
serves all report threads of a slot (1104), so that a slot may be given away and
a final status go to another client; a policy whose domain name is also found
further ahead in the stream's is passed over (`traffic.c` 350). The properties
that name these (`SocketTaken`, `HandlerReturns`, `SlotHeld`, `KeepsPromise`,
`LookupFindsBest`) hold for all else. Children forked in `dev.c` 456, `nan.c` 3233
and `sta.c` 20579 are never waited for.

## 4. What is proved

TLAPS proves, for every value of the constants allowed by the assumptions of
the modules:

| Theorem | Statement | Argument |
|---|---|---|
| `TypeCorrect` | `Spec => []TypeOK` of `TrafficAgent` | inductive as it stands |
| `IdsCorrect`, `ReportNamesCorrect` | `Spec => []StreamIdsUnique`, `Spec => []ReportNamesSenders` | `IdsInv`: configured identifiers are at most `stream_id`, which only grows, and a report's identifiers were senders' |
| `NoSlotWithheld` | `Spec => []WaitingHasReport` | the flag is set in the step that makes the thread, and cleared by it or by the failing handler |
| `StopsAreFresh`, `JoinsAreSingle` | `Spec => []StopStreamFresh`, `Spec => []NoDoubleJoin` | `OrderInv` below |
| `ThreadsAreKnown`, `AnswersAreFinal` | `Spec => []ThreadsKnown`, `Spec => []CompleteAfterSend` | `KnownInv` below |
| `SocketsAreHeld`, `SocketsAreTaken` | `Spec => []SocketHeld`, `Spec => SocketTaken` | `SockInv` below |
| `ServerTypeCorrect` | `Spec => [](TypeOK /\ ServeInv)` of `CapiServer` | `ServeInv`: ready descriptors are open connections, a command in hand was received |
| `RoomCorrect` | `Spec => []RoomForNewConnection` | `RoomInv`, which holds from `select` on: report threads only add free slots |
| `SlotsAreHeld` | `Spec => []SlotHeld` | `HeldInv` below |
| `PromiseKept` | `Spec => KeepsPromise`: `CapiServer` implements `CapiPromise`, but for the stray final statuses of crossed threads | `HeldInv`, `AnswerInv` and `OrderInv` of `CapiServerProofs` below |
| `RoomCorrect`, `CommandsCorrect` of `ConnBufferProofs` | `BufferSpec => []RoomToReceive`, `BufferSpec => []CommandsAreLines` | `RoomInv`, `FrameInv` below |
| `UapsdTypeCorrect`, `SignalsMissed` | `Spec => []TypeOK`, `Spec => []MissesLastSignalOnly` of `Uapsd` | `IInv` of `UapsdProofs` below |
| `ConsoleNeverAhead` | `Spec => [](con.tc # "M_U" => ConsoleFollows)` | `FollowInv` below |
| `NobodyResets` | `GoodLink => (Spec => []NoReset)` | `PromptInv` below |
| `CtrlTypeCorrect`, `RepliesCorrect` | `CtrlSpec => []CtrlTypeOK`, `CtrlSpec => []RepliesAreOwn` | `IInv` of `CtrlIfaceProofs` below |
| `EventsCorrect` | `CtrlSpec => []NoEventLost` | `EventInv` and `AllInv` below |
| `DeadlineCorrect` | `WaitSpec => []GivesUpInTime` | `DeadlineInv`, `EventsInv` below |
| `HelpersCorrect` | `HelperSpec => []OnlyCaptureStays` | `HandInv`: the processes not waited for are the capture and the one the server thread has in hand, and it waits for one that was started |
| `DscpTypeCorrect`, `IdsCorrect` | `DscpSpec => []DscpTypeOK`, `DscpSpec => []IdsUnique` | `DInv` below |
| `AnswersCorrect` | `DscpSpec => []AnswersTruthful` | `DInv` and `AnswerInv` of `DscpPolicyProofs` below |
| `RulesCorrect` | `DscpSpec => []RulesFollowTable` | `OrderInv` of `DscpPolicyProofs` below, with the other two |
| `LookupCorrect` | `DscpSpec => []LookupFindsBest` | `AtTheEndOnce`: what `strstr()` and the lengths find is a suffix that occurs once; `BestOf`: after each policy of the pass, what is chosen is the best of those seen |

`OrderInv` is the strengthening for the joins. A stream is *claimed* by a send
command from the marking of its flag, or by the handler that still has to mark
it, to the end of its report thread's work; the invariant says that claims are
disjoint (`ClaimsDisjoint`), that a claimed stream is marked or about to be
(`ClaimsRaised`, `ClaimsNew`), that a started stream has a live thread of its
own (`StartedInv`), and that whoever is joining holds the claim (`ReportFresh`,
`MainFresh`). Neither property is inductive without it: that a report's target
is still the stream's thread depends on no handler restarting the stream, which
depends on the flag.

`KnownInv` adds, when no call fails, what the threads need. A live thread's stream
is started and knows it (`ThreadsOfStreams`, the converse of `StartedInv`). A
handler starts only streams that are not started (`NotYetStarted`): receivers by
the controller's order, senders because a started sender is marked or in the
hands of the handler that will mark it (`SendersRaised`) and a send command
refuses marked streams. A report thread has stopped the claimed streams it has
gone past (`ReportsStop`), so that nothing it clears or answers for is running,
and a reset the configured ones (`ResetStops`), so that the table it zeroes has no
thread left. With failing calls the two properties are false: see
`agent_twice` in section 3.

`SockInv` is what `SocketHeld` and `SocketTaken` need, for any number of
connections. A stream is *in use* from the opening of its socket by the handler
that will create its thread to the end of that thread; it has an open socket, or
is a TCP sender's (`Held`). A report thread that is about to close a socket is
at a TCP sender's stream (`ClosesTcp`), and that cannot have become another
stream in between: a reset waits for the answers. No other step closes the
socket of a stream in use: `stop_stream()` has joined the thread, with
`OrderInv` and `KnownInv` the only one of the stream, and a handler opens and
closes only those it still has to start.

`HeldInv` is the strengthening for the slots: a live report thread's command was
dispatched and is not the one whose handler is running (`Dispatched`); if the
thread is not crossed, its slot is flagged and belongs to its client or nobody;
and two live threads of one slot are both crossed (`Held`). The last is needed
because two other steps clear a flag: the end of another report thread, and a
handler that could not create one.

`AnswerInv` carries the refinement of `CapiPromise`, whose variables are the
server's own `asked` and `inbox`. No status line is sent for a command before it
is run (`Untouched`); a command that the handler or a report thread has to
complete (`Owed`) was not refused, has no final status yet and, if its client
stays, has its RUNNING (`Pending`); no two report threads complete the same.
Then every step that sends is a `Reply` (`ReplyStep`) or, when the client left
or the slot is closed, sends to nobody, and what it sends touches no other
command (`OtherLines`). `HeldInv` is needed for the sends of the report threads:
their slot still is their client's, unless they are crossed, and then the step is
a `Reply` or a `Stray`. `OrderInv` of that module is what the order of the
promise needs: of a client that is still there, each command taken was put by or
is the one in hand. All other steps but a client's `Ask` leave the two variables
alone.

`FrameInv` of `ConnBufferProofs`: the buffer holds the last bytes received, and
no end of line among those that waited for this segment; the bytes that are gone
end with a line, or with as many whole buffers of the present one that were
dropped (`CutAt`); the lines that ended among them match the commands given
(`Matches`). Where a line begins and how much of it was dropped then follow from
the received bytes alone, which is how `RestTo` has them. `RoomInv` is the
arithmetic of `pos` and `res`. `BufferAssumption` says that the buffer has room
for a byte.

`IInv` of `UapsdProofs` has four parts for the station and one each for the
console and the link. `RowsInv`: both indices are inside the rows of the test,
the function the sender runs is the one its index names, and the sender is past
its first function only when the receiver is past its own; so the test does not
change under the sender, although it reads the test without a lock. `CountInv`:
whoever has gone over a limit has stopped and counts no further. `StopInv`: when
the stream is stopped while the receiver is on its way to wait, a command or the
sender's last STOP did it. `ConGood`: the console's index is inside its row and
its counter over the limit only when it has stopped; a RESET packet in `L_1`
counts twice, hence at most two beyond it. The lemmas about the tables
(`TxTableGood`, `RxTableGood`, `ConsoleTableGood`) go through the 19 rows: a
row's length, its first function, and that only the last has none after it.

`FollowInv` of `UapsdProofs` bounds not only the functions the console has been
through, but these and the packets under way on which it may still advance
(`Weight`), by what the station has sent (`AheadOf`). Losing, reordering and
taking a packet can only lower that sum, the station raises both sides together.
Three things make it more than a count. A HELLO starts the console over with old
packets still under way. A RESET makes the console count a reset and advance at
once, and the station answers a RESET_RESP with another packet that counts; but a
console that has asked for a reset has used up a packet without advancing, so
that there is one to spare. And the RESET_STOP before a last RESET, on which the
console advances too, is not a packet of its own in `SentAfterHello`; the console
stops with it, and the RESET that follows it counts, or was lost and has left one
to spare. `TestInv` says that both sides run the same row, `ConfirmInv` that
nothing is confirmed before the test is known, `ResetInv` that the station's
RESET_RESP answers a reset of the console's. The theorem excepts `M_U`, where the
property is false: the console goes through a function for each of two packets
that are one function of the station's, and sent anew when the second fails.

`PromptInv` of `UapsdProofs` follows what is under way. Until the station knows
the test it is a HELLO or its answer (`GreetInv`). After that the data packets
under way to the station are those that the console's functions have sent and the
receiver has not taken in, and a STOP comes after the last that the receiver
expects (`OrderInv`); so whatever the receiver's function finds is what it wants,
and once the receiver has come to its last function it is content with anything.
The station's packets come one at a time, and the next only when the answer to the
last has been taken in (`TurnInv`), which is what the second of sleep before a
packet is for; so the sums of the console's table are compared with the length of
the receiver's row only between two answers. `TablesAgree` makes that comparison
for the 18 tests whose data are counted: `Answered` says how many packets the first
functions of a row have sent, and each function sends as many as lie between its
two numbers, with a STOP only when these are all. In `L_1` the receiver takes what
comes, and the console wants VO or STOP and nothing else reaches it
(`CyclicSender`); this and that a console at its third function has been sent a
CONFIRM are where `FollowInv` is needed. `GoodLink` names what is assumed: the
`Prompt` timing, no loss and no overtaking, and a queue with room for the five
packets of `rx_vo_tx_all_tx_stop`. It allows more than the run `uapsd_prompt`:
all limits and numbers of cycles, and `send()` that fails, spurious wakeups and a
command that stops the stream. TLC finds the property violated with a loss, with
an overtaking, with a peer that is not prompt and with room for three packets
only: the resets are there for lost and late packets.

`IInv` of `CtrlIfaceProofs`: paths are never used twice, since the counter only
grows and `apart` excludes a race for it; hence whatever is under way to or from
a path belongs to the session that holds the path; a request that is due, in the
daemon or answered in a socket is one that was made, and is in one of these
places only. A reply in a thread's socket that is not to its present request
would be to an earlier one on the same connection, which only a session whose
DETACH went unanswered has. `EventInv` and `AllInv` add, for `NoEventLost`, that
a session that has had the reply to its ATTACH stays attached until its DETACH,
and that the event of a command that was handled is still due or waits in the
monitor's socket, which no request reads between ATTACH and the wait: the
command goes over a connection of its own. That is the reason for the second
connection, and the property fails when the command is sent on the monitor's.

`DeadlineInv` relates the end of `select()` to the beginning of the call: what
remains is computed from whole seconds, so that it is one to three half seconds
too much and never too little. `EventsInv`: no event read so far was wanted,
and those not yet read have come at this moment or before the wait began.

`DInv` of `DscpPolicyProofs`: while `alone` there is one live monitor at most,
and when it is about to add a policy none with its identifier is left in the
table. That the number computed for a rule is a position of the chain is proved
from the type invariant alone, by counting. A lemma on least elements of sets of
numbers (`Least`) replaces the recursive searches of the list. The assumption
`DscpAssumption` says that there are identifiers and kinds and what kinds are.

`AnswerInv` of `DscpPolicyProofs` adds what `AnswersTruthful` needs between the
steps of a removal and an addition. A live monitor is the one whose handle the
server thread keeps, or has been cancelled and has nothing in hand once the reset
is over (`OwnerInv`). The set of rules of a version is the set of the table's
policies without a domain name of that version (`Sync`), but for the policy that
the monitor or the server thread has *in hand*: its rule is taken away before it
leaves the table and put in before it enters it (`HandRule`). The last successful
status of a policy in a list is so of the table (`Honest`), but for the policy
being replaced, whose next status is about to be noted; a reset's removals need no
exception because the threads they pass by are cancelled, and those of a frame
command mark the statuses as no longer the monitor's.

`OrderInv` adds the order that `AnswerInv` leaves out: the table and each chain
are sorted by granularity, and policies that are in both come in the same order.
Between the step that puts a rule into its chain and the one that puts the policy
into the table, the chain is in the order of the table as it will be (`Linked`).
That the code's two counts agree is the point: the policy goes after the last
one that is not finer, and the rule after the rules of the policies before it.
`RulesOfFirst` shows that these rules are the first of the chain, `Thinned` that
taking a policy or a rule away keeps the order. With `Sync`, by which chain and
table have the same policies between two events, they are the same sequence.

The lookup is a recursive function over the positions of the table; what it has
chosen after each is proved from a least position at which it fails, as the
induction theorems of the library cannot be used. `AtTheEndOnce` is about any two
names: the rest of the stream's from the first place of the policy's is as long as
the policy's if and only if the policy's is its end and is not found before.

The invariants were checked by TLC before they were proved.

Left to TLC: liveness under fairness, which the prover does not reach; and the
properties of `Commands`, which are about finitely many handlers, programs and
members: for these the run is complete but for the choice of the setting commands.

## 5. Plan

Done: the traffic agent, the control server with its promise and framing, the
U-APSD tests, the commands as effects, the DSCP policies, the control interface
with its waits, the helper processes, and their proofs.

Left, the most consequential first:

1. composition of `CapiServer` with `TrafficAgent` (the handler and the report
   threads of the second in the place of the first's), and of `DscpPolicy` with
   `CtrlIface` (the monitor's connection);
2. `HlpThread`, `P2pPairing`: the handles of the two threads that are written by
   their creator and by themselves; `PROJECT.json` lists what can go wrong;
3. the packet loops of the traffic agent and their ends;
4. the rows of the WMM-AC tests.

## 6. Not modelled

* The FILS HLP thread beyond its start and stop, the P2P event and pairing
  threads, the Miracast session thread: a thread each around a library or a
  socket outside the program. A reset that is followed by a new pairing within a
  second can leave two pairing monitors; the handle of an HLP thread that ends at
  once is stored after it was cleared.
* The packet loops of `traffic_agent.c`: what they do to the rest of the program
  is their end, or that they do not come to it (`Hold`). Which errors of `send()`
  hold `send_burst`, and what would let it go on, is left open.
* The WMM-AC tests of `uapsd_stream.c`, which are not built by default.
* How `process_cmd` splits a line into parameters, local commands of `main()` and
  its options: text processing without state.
* The text of what is written to wpa_supplicant, hostapd, drivers and files, in
  all handlers; the nft variant of the DSCP rules; policies equal in all they
  filter on.
* Vendor libraries and their callbacks (Miracast, NAN, location), the database of
  the server role, vendored headers (constants only), `e_loop.c`, a separate
  polling program, `utils.c`, helpers on strings, addresses and files.
* Leaks of thread resources (report threads are never joined) and of memory.
