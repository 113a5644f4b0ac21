------------------------------- MODULE SquadHub -------------------------------
(***************************************************************************)
(* The hub of live squad tasks (crates/btv-cli/src/squad_agent.rs): one    *)
(* mutex over a map from task id to task state.  Every action below is one *)
(* critical section of that mutex; a method that takes the lock more than  *)
(* once (`push_user_message`, `emergency_stop`, `drain_user_messages`) is  *)
(* as many actions, with the place its caller has reached kept in `post`,  *)
(* `stop` and `gen`.  Callers are HTTP handlers and gRPC handlers of the   *)
(* core server, so any of them may run between any two of these actions.   *)
(***************************************************************************)
EXTENDS Naturals, Sequences, FiniteSets

CONSTANTS
  Task,     \* task ids (`sq{hex}`)
  Call,     \* gate requests: calls of `request_hitl`
  Msg,      \* messages of the user, each posted at most once
  Stopper,  \* calls of the kill-switch
  Viewer,   \* SSE subscribers
  Gen,      \* calls of `Generate`, each of which drains the inbox
  MaxLog,   \* bound on the log, for the orchestrator's own events
  Lag,      \* capacity of the broadcast channel (256 in the source)
  NoCall    \* no request is pending

ASSUME TaskAssumption == Task # {}
ASSUME LagAssumption == Lag \in Nat \ {0}
ASSUME NoCallAssumption == NoCall \notin Call

(* What the log tells apart; the echo of a user message is the message. *)
Event == {"progress", "hitl", "error"} \cup Msg

VARIABLES
  issued,   \* ids handed out by `new_task`
  known,    \* ids with an entry in the map
  tasks,    \* the entry of each id (an unknown id has a fresh one)
  gate,     \* per call: where `request_hitl` is, and for which task
  chan,     \* per call: what its oneshot channel holds
  post,     \* per message: how far `push_user_message` is
  stop,     \* per kill-switch call: how far `emergency_stop` is
  sse,      \* per subscriber: what it has been given and what is queued
  gen       \* per Generate call: the cockpit turns it has drained

hubVars == <<issued, known, tasks, gate, chan, post, stop, sse, gen>>

TaskState ==
  [log : Seq(Event), open : BOOLEAN, pending : Call \cup {NoCall},
   inbox : Seq(Msg), stopped : BOOLEAN, abort : {"none", "armed", "fired"}]

Fresh ==
  [log |-> <<>>, open |-> TRUE, pending |-> NoCall,
   inbox |-> <<>>, stopped |-> FALSE, abort |-> "none"]

Request == [at : {"idle", "waiting", "allowed", "denied", "gone"}, task : Task]

Posted == [at : {"unsent", "queued", "echoed", "refused"}, task : Task, real : BOOLEAN]

Stopping == [at : {"idle", "locked", "published", "done", "unknown"}, task : Task]

Subscriber ==
  [at : {"off", "on", "ended"}, task : Task, closed : BOOLEAN, lagged : BOOLEAN,
   real : BOOLEAN, seen : Seq(Event), rx : Seq(Event)]

Draining == [at : {"idle", "draining", "sent"}, task : Task, turns : Seq(Msg)]

TypeOK ==
  /\ issued \subseteq Task
  /\ known \subseteq Task
  /\ tasks \in [Task -> TaskState]
  /\ gate \in [Call -> Request]
  /\ chan \in [Call -> {"empty", "allow", "deny", "dropped"}]
  /\ post \in [Msg -> Posted]
  /\ stop \in [Stopper -> Stopping]
  /\ sse \in [Viewer -> Subscriber]
  /\ gen \in [Gen -> Draining]

Anywhere == CHOOSE t \in Task : TRUE

HubInit ==
  /\ issued = {}
  /\ known = {}
  /\ tasks = [t \in Task |-> Fresh]
  /\ gate = [c \in Call |-> [at |-> "idle", task |-> Anywhere]]
  /\ chan = [c \in Call |-> "empty"]
  /\ post = [m \in Msg |-> [at |-> "unsent", task |-> Anywhere, real |-> FALSE]]
  /\ stop = [k \in Stopper |-> [at |-> "idle", task |-> Anywhere]]
  /\ sse = [v \in Viewer |-> [at |-> "off", task |-> Anywhere, closed |-> FALSE,
                              lagged |-> FALSE, real |-> FALSE, seen |-> <<>>, rx |-> <<>>]]
  /\ gen = [g \in Gen |-> [at |-> "idle", task |-> Anywhere, turns |-> <<>>]]

-----------------------------------------------------------------------------
(* Task entries and the event stream. *)

(* The broadcast channel of task t loses its sender. *)
ReceiversClosed(t) ==
  [v \in Viewer |->
     IF sse[v].at = "on" /\ sse[v].task = t
     THEN [sse[v] EXCEPT !.closed = TRUE] ELSE sse[v]]

(* One more event in a receiver; a full receiver loses its oldest one. *)
Received(rec, e) ==
  IF Len(rec.rx) < Lag
  THEN [rec EXCEPT !.rx = Append(@, e)]
  ELSE [rec EXCEPT !.rx = Append(Tail(@), e), !.lagged = TRUE]

Delivered(t, e) ==
  [v \in Viewer |->
     IF sse[v].at = "on" /\ sse[v].task = t /\ ~sse[v].closed
     THEN Received(sse[v], e) ELSE sse[v]]

(* `new_task` hands out a new id and installs a fresh entry, over the one  *)
(* a subscriber may have created for that id before it was handed out.     *)
NewTask(t) ==
  /\ t \notin issued
  /\ issued' = issued \cup {t}
  /\ known' = known \cup {t}
  /\ tasks' = [tasks EXCEPT ![t] = Fresh]
  /\ sse' = ReceiversClosed(t)
  /\ UNCHANGED <<gate, chan, post, stop, gen>>

Publish(t, e) ==
  /\ t \in known
  /\ tasks' = [tasks EXCEPT ![t].log = Append(@, e)]
  /\ sse' = IF tasks[t].open THEN Delivered(t, e) ELSE sse

FinishTask(t) ==
  /\ t \in known
  /\ tasks' = [tasks EXCEPT ![t].open = FALSE]
  /\ sse' = ReceiversClosed(t)

(* Bug: a subscriber that comes later gets no snapshot. *)
SubscribeWithoutSnapshot(v, t) ==
  /\ sse[v].at = "off"
  /\ known' = known \cup {t}
  /\ sse' = [sse EXCEPT ![v] =
               [at |-> "on", task |-> t, closed |-> ~tasks[t].open, lagged |-> FALSE,
                real |-> t \in issued, seen |-> <<>>, rx |-> <<>>]]
  /\ UNCHANGED <<issued, tasks, gate, chan, post, stop, gen>>

(* Snapshot and receiver are taken under one lock; an unknown id gets an   *)
(* entry of its own.                                                       *)
Subscribe(v, t) ==
  /\ sse[v].at = "off"
  /\ known' = known \cup {t}
  /\ sse' = [sse EXCEPT ![v] =
               [at |-> "on", task |-> t, closed |-> ~tasks[t].open, lagged |-> FALSE,
                real |-> t \in issued, seen |-> tasks[t].log, rx |-> <<>>]]
  /\ UNCHANGED <<issued, tasks, gate, chan, post, stop, gen>>

(* The subscriber is sent the next event, or the end of the stream. *)
StreamEvent(v) ==
  /\ sse[v].at = "on"
  /\ \/ /\ sse[v].rx # <<>>
        /\ sse' = [sse EXCEPT ![v].seen = Append(@, Head(sse[v].rx)),
                              ![v].rx = Tail(@)]
     \/ /\ sse[v].rx = <<>>
        /\ sse[v].closed
        /\ sse' = [sse EXCEPT ![v].at = "ended"]
  /\ UNCHANGED <<issued, known, tasks, gate, chan, post, stop, gen>>

-----------------------------------------------------------------------------
(* The human-approval gate. *)

(* What a waiting call finds in its oneshot; a send to nobody is ignored. *)
Sent(c, a) ==
  IF gate[c].at = "waiting" THEN [chan EXCEPT ![c] = a] ELSE chan

(* Bug: the displaced request keeps its sender, and waits for an answer    *)
(* that can no longer be sent.                                             *)
RequestHitlKeepsSender(c, t) ==
  /\ gate[c].at = "idle"
  /\ t \in issued
  /\ gate' = [gate EXCEPT ![c] = [at |-> "waiting", task |-> t]]
  /\ tasks' = [tasks EXCEPT ![t].pending = c]
  /\ UNCHANGED <<issued, known, chan, post, stop, sse, gen>>

(* The first half of `request_hitl`: `pending` is overwritten, and the     *)
(* request it held finds its sender dropped.  Only the core server of a    *)
(* task makes the call, so the task was issued and has an entry.           *)
RequestHitl(c, t) ==
  /\ gate[c].at = "idle"
  /\ t \in issued
  /\ gate' = [gate EXCEPT ![c] = [at |-> "waiting", task |-> t]]
  /\ tasks' = [tasks EXCEPT ![t].pending = c]
  /\ chan' = IF tasks[t].pending = NoCall THEN chan
             ELSE Sent(tasks[t].pending, "dropped")
  /\ UNCHANGED <<issued, known, post, stop, sse, gen>>

(* The second half: the answer if there is one, else the timeout denies.   *)
(* Neither touches `pending`.                                              *)
HitlAnswered(c) ==
  /\ gate[c].at = "waiting"
  /\ chan[c] # "empty"
  /\ gate' = [gate EXCEPT ![c].at = IF chan[c] = "allow" THEN "allowed" ELSE "denied"]
  /\ UNCHANGED <<issued, known, tasks, chan, post, stop, sse, gen>>

(* Bug: a timeout approves. *)
HitlTimeoutAllows(c) ==
  /\ gate[c].at = "waiting"
  /\ chan[c] = "empty"
  /\ gate' = [gate EXCEPT ![c].at = "allowed"]
  /\ UNCHANGED <<issued, known, tasks, chan, post, stop, sse, gen>>

HitlTimeout(c) ==
  /\ gate[c].at = "waiting"
  /\ chan[c] = "empty"
  /\ gate' = [gate EXCEPT ![c].at = "denied"]
  /\ UNCHANGED <<issued, known, tasks, chan, post, stop, sse, gen>>

(* The orchestrator cancels the gRPC call (its ReAct loop has a deadline   *)
(* of its own): the handler future is dropped where it waits.              *)
HitlAbandoned(c) ==
  /\ gate[c].at = "waiting"
  /\ gate' = [gate EXCEPT ![c].at = "gone"]
  /\ UNCHANGED <<issued, known, tasks, chan, post, stop, sse, gen>>

(* `resolve_hitl` returns Ok exactly when it finds something pending. *)
ResolveHitl(t, a) ==
  /\ t \in known
  /\ tasks[t].pending # NoCall
  /\ tasks' = [tasks EXCEPT ![t].pending = NoCall]
  /\ chan' = Sent(tasks[t].pending, a)
  /\ UNCHANGED <<issued, known, gate, post, stop, sse, gen>>

-----------------------------------------------------------------------------
(* The user as a member of the squad. *)

PushUserMessage(m, t) ==
  /\ post[m].at = "unsent"
  /\ \/ /\ t \in known
        /\ tasks' = [tasks EXCEPT ![t].inbox = Append(@, m)]
        /\ post' = [post EXCEPT ![m] = [at |-> "queued", task |-> t,
                                        real |-> t \in issued]]
     \/ /\ t \notin known
        /\ post' = [post EXCEPT ![m] = [at |-> "refused", task |-> t, real |-> FALSE]]
        /\ UNCHANGED tasks
  /\ UNCHANGED <<issued, known, gate, chan, stop, sse, gen>>

EchoUserMessage(m) ==
  /\ post[m].at = "queued"
  /\ Publish(post[m].task, m)
  /\ post' = [post EXCEPT ![m].at = "echoed"]
  /\ UNCHANGED <<issued, known, gate, chan, stop, gen>>

(* `inject_cockpit_context`: the request is parsed first and goes through  *)
(* untouched when it is malformed; otherwise the inbox is drained, one     *)
(* lock per message.                                                       *)
Generate(g, t, wellFormed) ==
  /\ gen[g].at = "idle"
  /\ t \in issued
  /\ gen' = [gen EXCEPT ![g] = [at |-> IF wellFormed THEN "draining" ELSE "sent",
                                task |-> t, turns |-> <<>>]]
  /\ UNCHANGED <<issued, known, tasks, gate, chan, post, stop, sse>>

(* Bug: the message is read and stays in the inbox. *)
TakeUserMessagePeeks(g) ==
  /\ gen[g].at = "draining"
  /\ LET t == gen[g].task IN
     \/ /\ tasks[t].inbox # <<>>
        /\ gen' = [gen EXCEPT ![g].turns = Append(@, Head(tasks[t].inbox))]
     \/ /\ tasks[t].inbox = <<>>
        /\ gen' = [gen EXCEPT ![g].at = "sent"]
  /\ UNCHANGED <<issued, known, tasks, gate, chan, post, stop, sse>>

TakeUserMessage(g) ==
  /\ gen[g].at = "draining"
  /\ LET t == gen[g].task IN
     \/ /\ tasks[t].inbox # <<>>
        /\ gen' = [gen EXCEPT ![g].turns = Append(@, Head(tasks[t].inbox))]
        /\ tasks' = [tasks EXCEPT ![t].inbox = Tail(@)]
     \/ /\ tasks[t].inbox = <<>>
        /\ gen' = [gen EXCEPT ![g].at = "sent"]
        /\ UNCHANGED tasks
  /\ UNCHANGED <<issued, known, gate, chan, post, stop, sse>>

-----------------------------------------------------------------------------
(* The kill-switch. *)

(* The handle of the spawned task; aborted at once if the stop came first. *)
RegisterAbort(t) ==
  /\ t \in issued
  /\ tasks[t].abort = "none"
  /\ tasks' = [tasks EXCEPT ![t].abort = IF tasks[t].stopped THEN "fired" ELSE "armed"]
  /\ UNCHANGED <<issued, known, gate, chan, post, stop, sse, gen>>

(* Bug: the stop leaves the pending gate alone. *)
EmergencyStopKeepsGate(k, t) ==
  /\ stop[k].at = "idle"
  /\ t \in known
  /\ tasks' = [tasks EXCEPT
       ![t].stopped = TRUE,
       ![t].abort = IF @ = "armed" THEN "fired" ELSE @]
  /\ stop' = [stop EXCEPT ![k] = [at |-> "locked", task |-> t]]
  /\ UNCHANGED <<issued, known, gate, chan, post, sse, gen>>

(* `emergency_stop` under its lock: flag, abort, and a denial for the gate *)
(* that is pending.                                                        *)
EmergencyStop(k, t) ==
  /\ stop[k].at = "idle"
  /\ \/ /\ t \in known
        /\ tasks' = [tasks EXCEPT
             ![t].stopped = TRUE,
             ![t].abort = IF @ = "armed" THEN "fired" ELSE @,
             ![t].pending = NoCall]
        /\ chan' = IF tasks[t].pending = NoCall THEN chan
                   ELSE Sent(tasks[t].pending, "deny")
        /\ stop' = [stop EXCEPT ![k] = [at |-> "locked", task |-> t]]
     \/ /\ t \notin known
        /\ stop' = [stop EXCEPT ![k] = [at |-> "unknown", task |-> t]]
        /\ UNCHANGED <<tasks, chan>>
  /\ UNCHANGED <<issued, known, gate, post, sse, gen>>

StopPublish(k) ==
  /\ stop[k].at = "locked"
  /\ Publish(stop[k].task, "error")
  /\ stop' = [stop EXCEPT ![k].at = "published"]
  /\ UNCHANGED <<issued, known, gate, chan, post, gen>>

(* Bug: the stop does not close the stream. *)
StopFinishForgets(k) ==
  /\ stop[k].at = "published"
  /\ stop' = [stop EXCEPT ![k].at = "done"]
  /\ UNCHANGED <<issued, known, tasks, sse, gate, chan, post, gen>>

StopFinish(k) ==
  /\ stop[k].at = "published"
  /\ FinishTask(stop[k].task)
  /\ stop' = [stop EXCEPT ![k].at = "done"]
  /\ UNCHANGED <<issued, known, gate, chan, post, gen>>

-----------------------------------------------------------------------------
(* The hub on its own: its callers come in any order the guards allow. *)

(* The runner of a live task publishes what the orchestrator streams. *)
OrchestratorEvent(t, e) ==
  /\ t \in issued
  /\ Len(tasks[t].log) < MaxLog
  /\ Publish(t, e)
  /\ UNCHANGED <<issued, known, gate, chan, post, stop, gen>>

RunnerFinish(t) ==
  /\ t \in issued
  /\ tasks[t].open
  /\ FinishTask(t)
  /\ UNCHANGED <<issued, known, gate, chan, post, stop, gen>>

HubNext ==
  \/ \E t \in Task :
       \/ NewTask(t)
       \/ RegisterAbort(t)
       \/ RunnerFinish(t)
       \/ \E e \in {"progress", "error"} : OrchestratorEvent(t, e)
       \/ \E c \in Call : RequestHitl(c, t)
       \/ \E a \in {"allow", "deny"} : ResolveHitl(t, a)
       \/ \E m \in Msg : PushUserMessage(m, t)
       \/ \E g \in Gen, w \in BOOLEAN : Generate(g, t, w)
       \/ \E k \in Stopper : EmergencyStop(k, t)
       \/ \E v \in Viewer : Subscribe(v, t)
  \/ \E c \in Call : HitlAnswered(c) \/ HitlTimeout(c) \/ HitlAbandoned(c)
  \/ \E m \in Msg : EchoUserMessage(m)
  \/ \E g \in Gen : TakeUserMessage(g)
  \/ \E k \in Stopper : StopPublish(k) \/ StopFinish(k)
  \/ \E v \in Viewer : StreamEvent(v)

(* What the executor runs once it is ready: a woken waiter, an expired     *)
(* timer, the rest of a handler, a stream with something to send.  Users   *)
(* and the orchestrator owe the hub nothing.                               *)
HubFairness ==
  /\ \A c \in Call : WF_hubVars(HitlAnswered(c) \/ HitlTimeout(c))
  /\ \A k \in Stopper : WF_hubVars(StopPublish(k) \/ StopFinish(k))
  /\ \A v \in Viewer : WF_hubVars(StreamEvent(v))

HubSafeSpec == HubInit /\ [][HubNext]_hubVars

HubSpec == HubSafeSpec /\ HubFairness

-----------------------------------------------------------------------------
(* Properties. *)

IsPrefixOf(p, s) == Len(p) <= Len(s) /\ p = SubSeq(s, 1, Len(p))

(* Whoever waits for an answer can still get one: a request without an     *)
(* answer is the one its task has pending, and what is pending was never   *)
(* answered (`request_hitl`, `resolve_hitl`, `emergency_stop`).            *)
PendingMatchesWaiters ==
  /\ \A c \in Call :
       gate[c].at = "waiting" /\ chan[c] = "empty" => tasks[gate[c].task].pending = c
  /\ \A t \in Task :
       tasks[t].pending # NoCall =>
         /\ gate[tasks[t].pending].task = t
         /\ gate[tasks[t].pending].at # "idle"
         /\ chan[tasks[t].pending] = "empty"
         /\ t \in issued

(* A subscriber that kept up has the log without gap or repetition: all of *)
(* it while the task is open, a prefix of it afterwards (`subscribe` takes *)
(* snapshot and receiver under one lock, `publish` logs and sends under    *)
(* the same one).                                                          *)
StreamHasNoGap ==
  \A v \in Viewer :
    sse[v].at # "off" /\ ~sse[v].lagged =>
      LET got == sse[v].seen \o sse[v].rx
          log == tasks[sse[v].task].log
      IN /\ ~sse[v].closed => got = log
         /\ sse[v].real => IsPrefixOf(got, log)

Occurrences(m, s) == Cardinality({i \in DOMAIN s : s[i] = m})

(* A message accepted for a task that was handed out is in the inbox or in *)
(* the context of exactly one Generate, whatever the drains overlap        *)
(* (`take_user_message`, `drain_user_messages`).                           *)
GuidanceGoesToOneTurn ==
  \A m \in Msg :
    post[m].at \in {"queued", "echoed"} /\ post[m].real =>
      LET holders == {g \in Gen : Occurrences(m, gen[g].turns) > 0}
          queued == Occurrences(m, tasks[post[m].task].inbox)
      IN /\ queued + Cardinality(holders) = 1
         /\ \A g \in holders : gen[g].task = post[m].task /\ Occurrences(m, gen[g].turns) = 1

(* The kill-switch leaves nobody of its task waiting without an answer     *)
(* (`emergency_stop`: "destrava qualquer gate HITL pendente").             *)
StopUnblocksGates ==
  [][\A k \in Stopper :
       stop[k].at = "idle" /\ stop'[k].at = "locked" =>
         \A c \in Call :
           gate[c].at = "waiting" /\ gate[c].task = stop'[k].task => chan'[c] # "empty"]_hubVars

(* Nobody waits for an answer that cannot come, stopped or not.            *)
GatesStayLive == []PendingMatchesWaiters /\ StopUnblocksGates

(* After the kill-switch every stream of the task ends: nobody is left     *)
(* waiting for events of a stopped task (`emergency_stop`, `finish_task`). *)
StoppedStreamsEnd ==
  \A v \in Viewer :
    (sse[v].at = "on" /\ tasks[sse[v].task].stopped) ~> (sse[v].at = "ended")

(* The gate as its caller sees it implements the abstract human gate. *)
Phase(at) == IF at = "waiting" THEN "open" ELSE at

Delivery(held) ==
  CASE held = "empty" -> "none" [] held = "allow" -> "allow" [] OTHER -> "deny"

Gate == INSTANCE HumanGate WITH
  phase <- [c \in Call |-> Phase(gate[c].at)],
  answer <- [c \in Call |-> Delivery(chan[c])]

(* Each request is answered at most once, its verdict is the answer it got *)
(* or denial, never changes, and always comes.                             *)
GateIsHumanGate == Gate!Spec
=============================================================================
