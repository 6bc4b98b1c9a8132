------------------------------ MODULE DscpPolicy ------------------------------
(***************************************************************************)
(* The DSCP policies of the station (QM program), src/sta.c: a monitor     *)
(* thread, mon_dscp_policies(), takes the requests of the access point as  *)
(* wpa_supplicant reports them, keeps dut->dscp_policy_table and the       *)
(* packet filter rules of the kernel in step, and answers each request;    *)
(* the server thread starts it on every association, and cancels it,       *)
(* clears the table, or removes a policy, in commands of its own.  Nothing *)
(* locks the table.                                                        *)
(*                                                                         *)
(* The rules are those of iptables, where the order counts and a rule is   *)
(* put at a position computed from the table.                              *)
(***************************************************************************)
EXTENDS Naturals, Sequences, FiniteSets, SequencesExt

CONSTANTS
  Ids,             \* policy identifiers
  Kinds,           \* what an add may ask for, see Policy
  Streams,         \* the streams a policy is looked up for, see Stream
  Mons,            \* monitor threads; each is started at most once
  NoMon,           \* the 0 in dut->dscp_policy_mon_thread
  StatusListSize,  \* ARRAY_SIZE(status_list)
  MaxItems,        \* bound of the model on the policies of all requests
  MaxRequests,     \* bound of the model on the requests
  MaxQueue,        \* bound of the model on the events a monitor has unread
  MaxServer,       \* bound of the model on the commands that change the table
  RulesCanFail     \* system() may fail

VARIABLES
  dscp_policy_table,       \* dut->dscp_policy_table
  rules,                   \* the mangle chain of each IP version
  mon,                     \* the monitor threads
  queue,                   \* events not yet read, by monitor
  dscp_policy_mon_thread,  \* dut->dscp_policy_mon_thread
  reject_dscp_policies,    \* dut->reject_dscp_policies
  server,                  \* where the server thread is
  ap,                      \* what the access point is asking
  alone                    \* no thread has met another one in the table

dscpVars == <<dscp_policy_table, rules, mon, queue, dscp_policy_mon_thread,
              reject_dscp_policies, server, ap, alone>>

(* What a policy may ask of a stream that its domain name is looked up for *)
(* in traffic.c: its IP version, its ports and its source address.         *)
Conditions == {"ip_version", "port_range", "dst_port", "src_port", "src_ip"}

(* score: granularity_score; ver: the chain of the policy, that of version *)
(* 4 unless ip_version is 6; name: domain_name, a sequence of characters;  *)
(* asks: what each condition accepts, nothing for one that is not stated   *)
(* (0 or an empty string in the code).                                     *)
Versions == {4, 6}
Policy == [id : Ids, score : Nat, ver : Versions, name : Seq(Nat),
           asks : [Conditions -> SUBSET Nat]]

(* A stream of traffic.c: its domain name, and what it has where a         *)
(* condition looks.                                                        *)
Stream == [name : Seq(Nat), has : [Conditions -> Nat]]

ASSUME DscpAssumption ==
  /\ Ids # {} /\ Kinds # {}
  /\ Kinds \subseteq [score : Nat, ver : Versions, name : Seq(Nat),
                     asks : [Conditions -> SUBSET Nat]]
  /\ Streams \subseteq Stream
  /\ StatusListSize \in Nat

Event ==
  [op : {"start", "clear", "end", "disconnected", "add", "remove", "reject"},
   id : Ids, kind : Kinds, good : BOOLEAN]

(* The events that name a policy.  Only an add has parameters, and what    *)
(* they are does not matter when they are not good.                        *)
AnyId == CHOOSE i \in Ids : TRUE
AnyKind == CHOOSE k \in Kinds : TRUE
Item ==
  [op : {"add"}, id : Ids, kind : Kinds, good : {TRUE}]
    \cup [op : {"add", "remove", "reject"}, id : Ids, kind : {AnyKind},
          good : {FALSE}]
Signal(op) == [op |-> op, id |-> AnyId, kind |-> AnyKind, good |-> FALSE]

(* "code" is dscp_reject_resp_code, which the tester sets to any number,   *)
(* that of a success included (DSCPPolicyResp_StatusCode).                 *)
Status == [id : Ids, op : {"add", "remove", "none"},
           status : {"success", "reject", "code"}]

DscpTypeOK ==
  /\ dscp_policy_table \in Seq(Policy)
  /\ rules \in [Versions -> Seq(Policy)]
  /\ DOMAIN mon = Mons
  /\ \A m \in Mons :
       /\ mon[m].pc \in {"none", "open", "wait", "clear", "flush", "remove",
                         "unlink", "add", "link", "answer", "free", "ended"}
       /\ mon[m].ev \in Event
       /\ mon[m].list \in Seq(Status)
       /\ Len(mon[m].list) <= StatusListSize
       /\ mon[m].pc \in {"remove", "unlink", "add", "link"}
            => /\ mon[m].ev.op \in {"add", "remove"}
               /\ Len(mon[m].list) < StatusListSize
       /\ mon[m].cancelled \in BOOLEAN
  /\ queue \in [Mons -> Seq(Event)]
  /\ dscp_policy_mon_thread \in Mons \cup {NoMon}
  /\ reject_dscp_policies \in BOOLEAN
  /\ alone \in BOOLEAN

DscpInit ==
  /\ dscp_policy_table = <<>>
  /\ rules = [v \in Versions |-> <<>>]
  /\ mon = [m \in Mons |-> [pc |-> "none", ev |-> Signal("end"), list |-> <<>>,
                            cancelled |-> FALSE]]
  /\ queue = [m \in Mons |-> <<>>]
  /\ dscp_policy_mon_thread = NoMon
  /\ reject_dscp_policies = FALSE
  /\ server = [pc |-> "idle", id |-> AnyId, n |-> 0]
  /\ ap = [up |-> FALSE, open |-> FALSE, empty |-> TRUE, items |-> 0,
            n |-> 0]
  /\ alone = TRUE

(* The first with an identifier, in the table or in a chain.               *)
At(s, id) ==
  CHOOSE k \in DOMAIN s : /\ s[k].id = id
                          /\ \A j \in 1..(k - 1) : s[j].id # id
Without(s, id) ==
  IF \E k \in DOMAIN s : s[k].id = id THEN RemoveAt(s, At(s, id)) ELSE s
Has(id) == \E k \in DOMAIN dscp_policy_table : dscp_policy_table[k].id = id
Entry(id) == dscp_policy_table[At(dscp_policy_table, id)]
HasRule(id) ==
  \E v \in Versions : \E k \in DOMAIN rules[v] : rules[v][k].id = id

(* A monitor in the table while the server thread is in the middle of it.  *)
Meets == alone' = (alone /\ server.pc = "idle")

Live(m) == mon[m].pc \notin {"none", "ended"}
Attached(m) == Live(m) /\ mon[m].pc # "open"

-----------------------------------------------------------------------------
(* The access point, as wpa_supplicant reports it to every monitor that is *)
(* attached at that time.                                                  *)
Report(e) ==
  /\ \A m \in Mons : Attached(m) => Len(queue[m]) < MaxQueue
  /\ queue' = [m \in Mons |-> IF Attached(m) THEN Append(queue[m], e)
                                         ELSE queue[m]]

ApRequest(op) ==
  /\ ap.up /\ ~ap.open /\ ap.n < MaxRequests
  /\ ap' = [ap EXCEPT !.open = TRUE, !.empty = TRUE, !.n = @ + 1]
  /\ Report(Signal(op))
  /\ UNCHANGED <<dscp_policy_table, rules, mon, dscp_policy_mon_thread,
                 reject_dscp_policies, server, alone>>

ApItem(e) ==
  /\ ap.open /\ ap.items < MaxItems
  /\ ap' = [ap EXCEPT !.empty = FALSE, !.items = @ + 1]
  /\ Report(e)
  /\ UNCHANGED <<dscp_policy_table, rules, mon, dscp_policy_mon_thread,
                 reject_dscp_policies, server, alone>>

ApEnd ==
  /\ ap.open /\ ~ap.empty
  /\ ap' = [ap EXCEPT !.open = FALSE]
  /\ Report(Signal("end"))
  /\ UNCHANGED <<dscp_policy_table, rules, mon, dscp_policy_mon_thread,
                 reject_dscp_policies, server, alone>>

ApLeaves ==
  /\ ap.up
  /\ ap' = [ap EXCEPT !.up = FALSE, !.open = FALSE]
  /\ Report(Signal("disconnected"))
  /\ UNCHANGED <<dscp_policy_table, rules, mon, dscp_policy_mon_thread,
                 reject_dscp_policies, server, alone>>

-----------------------------------------------------------------------------
(* The monitor thread. *)
(* The event read last is of no use to a thread that waits for another.    *)
Goes(m, pc) ==
  mon' = [mon EXCEPT ![m].pc = pc,
                     ![m].ev = IF pc \in {"wait", "ended"}
                                 THEN Signal("end") ELSE @]
Notes(m, op, st) ==
  mon' = [mon EXCEPT
            ![m].pc = "wait", ![m].ev = Signal("end"),
            ![m].list = Append(@, [id |-> mon[m].ev.id, op |-> op,
                                   status |-> st])]

(* Where an add stands once the policy it replaces is gone: the parameters *)
(* are read only now, and a policy with a domain name has no rule.         *)
Replaced(m) ==
  LET e == mon[m].ev IN
    IF e.op = "remove" THEN Notes(m, "remove", "success")
    ELSE IF ~e.good THEN Notes(m, "none", "reject")
    ELSE Goes(m, IF e.kind.name # <<>> THEN "link" ELSE "add")

MonOpen(m) ==
  /\ mon[m].pc = "open"
  /\ \/ Goes(m, "wait")
     \/ RulesCanFail /\ Goes(m, "ended")
  /\ UNCHANGED <<dscp_policy_table, rules, queue, dscp_policy_mon_thread,
                 reject_dscp_policies, server, ap, alone>>

(* Mutation: num_status is not reset by request_start.                     *)
StatusAtStart_Kept(list) == list
StatusAtStart(list) == <<>>

(* The status of a policy that is not looked at.                           *)
Refused(id) ==
  [id |-> id, op |-> "none",
   status |-> IF reject_dscp_policies THEN "code" ELSE "reject"]

(* Mutation: the room in status_list is not asked for.                     *)
Taken_NoRoom(m, e) ==
  LET in == mon[m] IN
    mon' = [mon EXCEPT ![m] =
      IF e.op \in {"start", "clear"}
        THEN [in EXCEPT !.list = StatusAtStart(@),
                        !.pc = IF e.op = "clear" THEN "clear" ELSE "wait"]
      ELSE IF e.op = "end" THEN [in EXCEPT !.pc = "answer"]
      ELSE IF e.op = "disconnected" THEN [in EXCEPT !.ev = e, !.pc = "clear"]
      ELSE IF reject_dscp_policies \/ e.op = "reject"
        THEN [in EXCEPT !.list = Append(@, Refused(e.id))]
      ELSE [in EXCEPT !.ev = e, !.pc = "remove"]]
(* What get_wpa_cli_events_timeout() returned, up to the first use of the  *)
(* table or the rules.                                                     *)
Taken(m, e) ==
  LET in == mon[m] IN
    mon' = [mon EXCEPT ![m] =
      IF e.op \in {"start", "clear"}
        THEN [in EXCEPT !.list = StatusAtStart(@),
                        !.pc = IF e.op = "clear" THEN "clear" ELSE "wait"]
      ELSE IF e.op = "end" THEN [in EXCEPT !.pc = "answer"]
      ELSE IF e.op = "disconnected" THEN [in EXCEPT !.ev = e, !.pc = "clear"]
      ELSE IF Len(in.list) >= StatusListSize THEN in
      ELSE IF reject_dscp_policies \/ e.op = "reject"
        THEN [in EXCEPT !.list = Append(@, Refused(e.id))]
      ELSE [in EXCEPT !.ev = e, !.pc = "remove"]]

MonTake(m) ==
  /\ mon[m].pc = "wait" /\ ~mon[m].cancelled /\ queue[m] # <<>>
  /\ queue' = [queue EXCEPT ![m] = Tail(@)]
  /\ Taken(m, Head(queue[m]))
  /\ UNCHANGED <<dscp_policy_table, rules, dscp_policy_mon_thread,
                 reject_dscp_policies, server, ap, alone>>

(* clear_all_dscp_policies(): the table, then the chains.                  *)
MonClear(m) ==
  /\ mon[m].pc = "clear"
  /\ Meets
  /\ dscp_policy_table' = <<>>
  /\ Goes(m, "flush")
  /\ UNCHANGED <<rules, queue, dscp_policy_mon_thread, reject_dscp_policies,
                 server, ap>>

(* A flush that fails is printed and forgotten.                            *)
Flush ==
  \/ rules' = [v \in Versions |-> <<>>] /\ Meets
  \/ RulesCanFail /\ UNCHANGED rules /\ alone' = FALSE

MonFlush(m) ==
  /\ mon[m].pc = "flush"
  /\ Flush
  /\ Goes(m, IF mon[m].ev.op = "disconnected" THEN "free" ELSE "wait")
  /\ UNCHANGED <<dscp_policy_table, queue, dscp_policy_mon_thread,
                 reject_dscp_policies, server, ap>>

(* The end of the thread; the handle stays.                                *)
MonFree(m) ==
  /\ mon[m].pc = "free"
  /\ Meets
  /\ dscp_policy_table' = <<>>
  /\ Goes(m, "ended")
  /\ queue' = [queue EXCEPT ![m] = <<>>]
  /\ UNCHANGED <<rules, dscp_policy_mon_thread, reject_dscp_policies, server,
                 ap>>

(* Mutation: a policy that has no rule is not taken out of the table.      *)
MonRemove_DomainStays(m) ==
  LET id == mon[m].ev.id IN
    /\ mon[m].pc = "remove"
    /\ Meets
    /\ \/ /\ ~Has(id)
          /\ Replaced(m)
          /\ UNCHANGED <<dscp_policy_table, rules>>
       \/ /\ Has(id) /\ Entry(id).name # <<>>
          /\ Replaced(m)
          /\ UNCHANGED <<dscp_policy_table, rules>>
       \/ /\ Has(id) /\ Entry(id).name = <<>>
          /\ rules' = [rules EXCEPT ![Entry(id).ver] = Without(@, id)]
          /\ Goes(m, "unlink")
          /\ UNCHANGED dscp_policy_table
       \/ /\ RulesCanFail /\ Has(id) /\ Entry(id).name = <<>>
          /\ Notes(m, "none", "reject")
          /\ UNCHANGED <<dscp_policy_table, rules>>
    /\ UNCHANGED <<queue, dscp_policy_mon_thread, reject_dscp_policies,
                   server, ap>>

(* remove_dscp_policy() up to the end of the command that takes the rule   *)
(* away.                                                                   *)
MonRemove(m) ==
  LET id == mon[m].ev.id IN
    /\ mon[m].pc = "remove"
    /\ Meets
    /\ \/ /\ ~Has(id)
          /\ Replaced(m)
          /\ UNCHANGED <<dscp_policy_table, rules>>
       \/ /\ Has(id) /\ Entry(id).name # <<>>
          /\ dscp_policy_table' = Without(dscp_policy_table, id)
          /\ Replaced(m)
          /\ UNCHANGED rules
       \/ /\ Has(id) /\ Entry(id).name = <<>>
          /\ rules' = [rules EXCEPT ![Entry(id).ver] = Without(@, id)]
          /\ Goes(m, "unlink")
          /\ UNCHANGED dscp_policy_table
       \/ /\ RulesCanFail /\ Has(id) /\ Entry(id).name = <<>>
          /\ Notes(m, "none", "reject")
          /\ UNCHANGED <<dscp_policy_table, rules>>
    /\ UNCHANGED <<queue, dscp_policy_mon_thread, reject_dscp_policies,
                   server, ap>>

(* Mutation: the policy that is replaced stays in the table.               *)
MonUnlink_Keeps(m) ==
  /\ mon[m].pc = "unlink"
  /\ Meets
  /\ Replaced(m)
  /\ UNCHANGED <<dscp_policy_table, rules, queue, dscp_policy_mon_thread,
                 reject_dscp_policies, server, ap>>
MonUnlink(m) ==
  /\ mon[m].pc = "unlink"
  /\ Meets
  /\ dscp_policy_table' = Without(dscp_policy_table, mon[m].ev.id)
  /\ Replaced(m)
  /\ UNCHANGED <<rules, queue, dscp_policy_mon_thread, reject_dscp_policies,
                 server, ap>>

NewPolicy(e) ==
  [id |-> e.id, score |-> e.kind.score, ver |-> e.kind.ver,
   name |-> e.kind.name, asks |-> e.kind.asks]

(* The policies of the table that come before one of this score.           *)
Coarser(score) ==
  IF \E k \in DOMAIN dscp_policy_table : dscp_policy_table[k].score > score
    THEN SubSeq(dscp_policy_table, 1,
                (CHOOSE k \in DOMAIN dscp_policy_table :
                   /\ dscp_policy_table[k].score > score
                   /\ \A j \in 1..(k - 1) :
                        dscp_policy_table[j].score <= score) - 1)
    ELSE dscp_policy_table

(* add_iptable_rule(): rules of the other version and domain policies are  *)
(* not counted.  iptables refuses a position beyond the end of the chain.  *)
RuleNum(p) ==
  LET before == Coarser(p.score) IN
    Cardinality({k \in DOMAIN before :
                   before[k].name = <<>> /\ before[k].ver = p.ver}) + 1

MonAdd(m) ==
  LET p == NewPolicy(mon[m].ev) IN
    /\ mon[m].pc = "add"
    /\ Meets
    /\ \/ /\ RuleNum(p) <= Len(rules[p.ver]) + 1
          /\ rules' = [rules EXCEPT ![p.ver] = InsertAt(@, RuleNum(p), p)]
          /\ Goes(m, "link")
       \/ /\ RulesCanFail \/ RuleNum(p) > Len(rules[p.ver]) + 1
          /\ Notes(m, "none", "reject")
          /\ UNCHANGED rules
    /\ UNCHANGED <<dscp_policy_table, queue, dscp_policy_mon_thread,
                   reject_dscp_policies, server, ap>>

MonLink(m) ==
  LET p == NewPolicy(mon[m].ev)
      n == Len(Coarser(p.score)) IN
    /\ mon[m].pc = "link"
    /\ Meets
    /\ dscp_policy_table' = InsertAt(dscp_policy_table, n + 1, p)
    /\ Notes(m, "add", "success")
    /\ UNCHANGED <<rules, queue, dscp_policy_mon_thread,
                   reject_dscp_policies, server, ap>>

(* send_dscp_response(): whether it can be sent or not, the thread goes on *)
(* with the next event.                                                    *)
MonAnswer(m) ==
  /\ mon[m].pc = "answer"
  /\ Goes(m, "wait")
  /\ UNCHANGED <<dscp_policy_table, rules, queue, dscp_policy_mon_thread,
                 reject_dscp_policies, server, ap, alone>>

(* pthread_cancel() takes effect at the next call that may block or print, *)
(* and nothing is undone: the monitor stays attached in wpa_supplicant.    *)
MonCancelled(m) ==
  /\ Live(m) /\ mon[m].cancelled
  /\ Goes(m, "ended")
  /\ queue' = [queue EXCEPT ![m] = <<>>]
  /\ UNCHANGED <<dscp_policy_table, rules, dscp_policy_mon_thread,
                 reject_dscp_policies, server, ap, alone>>

-----------------------------------------------------------------------------
(* The server thread. *)
Touches == alone' = (alone /\ \A m \in Mons : Live(m) => mon[m].pc = "wait")

(* start_dscp_policy_mon_thread(), when sta_associate sees the connection: *)
(* nothing asks whether a monitor is running.                              *)
Associate(m) ==
  /\ server.pc = "idle" /\ ~ap.up /\ mon[m].pc = "none"
  /\ Goes(m, "open")
  /\ dscp_policy_mon_thread' = m
  /\ ap' = [ap EXCEPT !.up = TRUE]
  /\ alone' = (alone /\ \A n \in Mons : ~Live(n))
  /\ UNCHANGED <<dscp_policy_table, rules, queue, reject_dscp_policies,
                 server>>

(* sta_reset_default: stop_dscp_policy_mon_thread(), then                  *)
(* clear_all_dscp_policies() in two steps.                                 *)
ResetStop ==
  /\ server.pc = "idle" /\ server.n < MaxServer
  /\ reject_dscp_policies' = FALSE
  /\ mon' = [m \in Mons |->
               IF m = dscp_policy_mon_thread
                 THEN [mon[m] EXCEPT !.cancelled = TRUE] ELSE mon[m]]
  /\ dscp_policy_mon_thread' = NoMon
  /\ server' = [server EXCEPT !.pc = "clear", !.n = @ + 1]
  /\ UNCHANGED <<dscp_policy_table, rules, queue, ap, alone>>

ResetClear ==
  /\ server.pc = "clear"
  /\ dscp_policy_table' = <<>>
  /\ Touches
  /\ server' = [server EXCEPT !.pc = "flush"]
  /\ UNCHANGED <<rules, mon, queue, dscp_policy_mon_thread,
                 reject_dscp_policies, ap>>

ResetFlush ==
  /\ server.pc = "flush"
  /\ \/ rules' = [v \in Versions |-> <<>>] /\ Touches
     \/ RulesCanFail /\ UNCHANGED rules /\ alone' = FALSE
  /\ server' = [server EXCEPT !.pc = "idle"]
  /\ UNCHANGED <<dscp_policy_table, mon, queue, dscp_policy_mon_thread,
                 reject_dscp_policies, ap>>

(* The policies a monitor has answered for no longer are what it did.      *)
Disown(id) ==
  mon' = [m \in Mons |->
            [mon[m] EXCEPT !.list =
               [k \in DOMAIN mon[m].list |->
                  IF mon[m].list[k].id = id
                    THEN [mon[m].list[k] EXCEPT !.op = "none"]
                    ELSE mon[m].list[k]]]]

(* cmd_sta_send_frame_dscp_response(): the policies it reports as refused  *)
(* are removed, as the monitor does it.                                    *)
FrameRemove(id) ==
  /\ server.pc = "idle" /\ server.n < MaxServer /\ Has(id)
  /\ Touches
  /\ \/ /\ Entry(id).name # <<>>
        /\ dscp_policy_table' = Without(dscp_policy_table, id)
        /\ Disown(id)
        /\ server' = [server EXCEPT !.n = @ + 1]
        /\ UNCHANGED rules
     \/ /\ Entry(id).name = <<>>
        /\ rules' = [rules EXCEPT ![Entry(id).ver] = Without(@, id)]
        /\ server' = [pc |-> "unlink", id |-> id, n |-> server.n + 1]
        /\ UNCHANGED <<dscp_policy_table, mon>>
     \/ /\ RulesCanFail /\ Entry(id).name = <<>>
        /\ server' = [server EXCEPT !.n = @ + 1]
        /\ UNCHANGED <<dscp_policy_table, rules, mon>>
  /\ UNCHANGED <<queue, dscp_policy_mon_thread, reject_dscp_policies, ap>>

FrameUnlink ==
  /\ server.pc = "unlink"
  /\ dscp_policy_table' = Without(dscp_policy_table, server.id)
  /\ Disown(server.id)
  /\ Touches
  /\ server' = [server EXCEPT !.pc = "idle"]
  /\ UNCHANGED <<rules, queue, dscp_policy_mon_thread, reject_dscp_policies,
                 ap>>

(* DSCPPolicyRespParams,RejectAll and AcceptAll.                           *)
SetReject(b) ==
  /\ server.pc = "idle"
  /\ reject_dscp_policies' = b
  /\ UNCHANGED <<dscp_policy_table, rules, mon, queue, dscp_policy_mon_thread,
                 server, ap, alone>>

(* Two threads in the list at a time read and free the same policies: what *)
(* the program does from there on is undefined, and the model ends.  It    *)
(* ends also where a flush has failed, which leaves rules that nothing in  *)
(* the program knows of.                                                   *)
DscpNext ==
  /\ alone
  /\ \/ \E op \in {"start", "clear"} : ApRequest(op)
     \/ \E e \in Item : ApItem(e)
     \/ ApEnd \/ ApLeaves
     \/ \E m \in Mons :
          \/ MonOpen(m) \/ MonTake(m) \/ MonClear(m) \/ MonFlush(m)
          \/ MonFree(m) \/ MonRemove(m) \/ MonUnlink(m) \/ MonAdd(m)
          \/ MonLink(m) \/ MonAnswer(m) \/ MonCancelled(m) \/ Associate(m)
     \/ ResetStop \/ ResetClear \/ ResetFlush
     \/ \E id \in Ids : FrameRemove(id)
     \/ FrameUnlink
     \/ \E b \in BOOLEAN : SetReject(b)

-----------------------------------------------------------------------------
(* strstr(): what is left of s from the first w in it, nothing if there is *)
(* none.                                                                   *)
Occurs(s, w) ==
  {i \in DOMAIN s :
     i + Len(w) - 1 <= Len(s) /\ SubSeq(s, i, i + Len(w) - 1) = w}
strstr(s, w) ==
  IF Occurs(s, w) = {} THEN <<>>
  ELSE SubSeq(s, CHOOSE i \in Occurs(s, w) : \A j \in Occurs(s, w) : i <= j,
              Len(s))

(* Is the policy looked at for what it asks of the stream, and is all it   *)
(* asks met: a condition that is not met discards it.                      *)
AtTheEnd(p, stream) ==
  p.name # <<>> /\ Len(strstr(stream.name, p.name)) = Len(p.name)
Stated(p) == {c \in Conditions : p.asks[c] # {}}
Accepts(p, stream) == \A c \in Stated(p) : stream.has[c] \in p.asks[c]

(* One more policy is looked at: p, the k-th of the table.                 *)
Nothing == [score |-> 0, suffix |-> 0, at |-> 0]
Found(p, k) ==
  [score |-> Cardinality(Stated(p)), suffix |-> Len(p.name), at |-> k]
(* Mutation: the longest suffix wins whatever the scores.                  *)
Chosen_BySuffix(stream, best, p, k) ==
  LET new == Found(p, k) IN
    IF AtTheEnd(p, stream) /\ Accepts(p, stream) /\ new.suffix > best.suffix
      THEN new ELSE best
(* A longer suffix breaks a tie of the scores.                             *)
Chosen(stream, best, p, k) ==
  LET new == Found(p, k) IN
    IF /\ AtTheEnd(p, stream) /\ Accepts(p, stream)
       /\ \/ new.score > best.score
          \/ new.score = best.score /\ new.suffix > best.suffix
      THEN new ELSE best

(* What is chosen after each policy of the table.                          *)
Lookups(t, stream) ==
  LET best[k \in 0..Len(t)] ==
        IF k = 0 THEN Nothing ELSE Chosen(stream, best[k - 1], t[k], k)
  IN  best
(* The policy that a stream is given, 0 for none.                          *)
get_dscp_from_policy_table(t, stream) == Lookups(t, stream)[Len(t)].at

DscpSpec == DscpInit /\ [][DscpNext]_dscpVars

-----------------------------------------------------------------------------
(* PROPERTIES                                                              *)
Quiet ==
  /\ server.pc = "idle"
  /\ \A m \in Mons : Live(m) => mon[m].pc \in {"open", "wait", "answer"}

(* The policies that have a rule in a chain, of the first n.               *)
Ruled(v, n) ==
  {k \in 1..n : dscp_policy_table[k].name = <<>> /\ dscp_policy_table[k].ver = v}

(* The chains of the kernel are the table: between two events each chain   *)
(* holds the rules of the policies without a domain name of its version,   *)
(* and no others, in the order of the table, and at any time they are in   *)
(* increasing granularity, so that "the most granular rule is applied      *)
(* last" (add_iptable_rule()).  This takes that no two threads were in the *)
(* table at a time and that no flush has failed.                           *)
RulesFollowTable ==
  alone =>
    /\ Quiet => \A v \in Versions :
         LET all == Ruled(v, Len(dscp_policy_table)) IN
           /\ Len(rules[v]) = Cardinality(all)
           /\ \A k \in all :
                rules[v][Cardinality(Ruled(v, k))] = dscp_policy_table[k]
    /\ server.pc = "idle" =>
         \A v \in Versions : \A j, k \in DOMAIN rules[v] :
           j < k => rules[v][j].score <= rules[v][k].score

(* What a DSCP response says was done is so when it is sent: the last      *)
(* status of a policy in it is a success of an add only if the policy is   *)
(* in the table, with its rule if it has one, and a success of a remove    *)
(* only if neither is left.  The code the tester has put in the place of a *)
(* status says nothing, even when it is that of a success.                 *)
AnswersTruthful ==
  alone /\ server.pc = "idle" => \A m \in Mons :
    mon[m].pc = "answer" /\ ~mon[m].cancelled =>
      LET list == mon[m].list IN
        \A k \in DOMAIN list :
          /\ list[k].status = "success"
          /\ \A j \in DOMAIN list : j > k => list[j].id # list[k].id
          => LET id == list[k].id IN
               /\ list[k].op = "add" =>
                    Has(id) /\ (HasRule(id) <=> Entry(id).name = <<>>)
               /\ list[k].op = "remove" => ~Has(id) /\ ~HasRule(id)

(* An identifier names one policy: whatever adds, failures and commands    *)
(* come in between, a policy is added only after the one that had its      *)
(* identifier is gone, so that a removal leaves none behind.               *)
IdsUnique ==
  \A j, k \in DOMAIN dscp_policy_table :
    dscp_policy_table[j].id = dscp_policy_table[k].id => j = k

(* The policies that a stream falls under: the domain name is the end of   *)
(* the stream's ("suffix is in the end of the complete domain name") and   *)
(* the stream has what each stated condition accepts.                      *)
Covers(p, stream) ==
  LET whole == Len(stream.name)
      own == Len(p.name) IN
    /\ p.name # <<>> /\ own <= whole
    /\ SubSeq(stream.name, whole - own + 1, whole) = p.name
    /\ \A c \in Conditions : p.asks[c] = {} \/ stream.has[c] \in p.asks[c]

(* The name that is the end of the stream's is in it further in front too, *)
(* where strstr() stops.                                                   *)
Hidden(p, stream) ==
  \E i \in 1..(Len(stream.name) - Len(p.name)) :
    SubSeq(stream.name, i, i + Len(p.name) - 1) = p.name

(* Whatever stream a policy is looked up for, the one chosen covers it, in *)
(* as many conditions as any that does, has the longest domain name among  *)
(* those, and comes first in the table among the ones that are equal in    *)
(* both; none is chosen only if none covers the stream.  The exception is  *)
(* a policy whose domain name is in the stream's twice, com in             *)
(* www.community.com: get_dscp_from_policy_table() passes it over, whether *)
(* or not another covers the stream.                                       *)
LookupFindsBest ==
  LET t == dscp_policy_table IN \A stream \in Streams :
    LET Fits == {k \in DOMAIN t : Covers(t[k], stream) /\ ~Hidden(t[k], stream)}
        best == get_dscp_from_policy_table(t, stream)
        conditions(k) == Cardinality(Stated(t[k])) IN
      IF Fits = {} THEN best = 0
      ELSE best \in Fits /\ \A k \in Fits \ {best} :
             \/ conditions(k) < conditions(best)
             \/ /\ conditions(k) = conditions(best)
                /\ \/ Len(t[k].name) < Len(t[best].name)
                   \/ Len(t[k].name) = Len(t[best].name) /\ best < k
=============================================================================
