---------------------------- MODULE SquadHubProofs ----------------------------
(***************************************************************************)
(* Proofs about the hub of squad tasks, for any number of tasks, gates,    *)
(* messages, stops, subscribers and Generate calls.                        *)
(***************************************************************************)
EXTENDS SquadHub, FiniteSetTheorems, TLAPS

(* A request that was not made has nothing in its channel; with it,        *)
(* PendingMatchesWaiters is inductive.                                     *)
IdleIsEmpty == \A c \in Call : gate[c].at = "idle" => chan[c] = "empty"

HubInv == TypeOK /\ PendingMatchesWaiters /\ IdleIsEmpty

LEMMA AnywhereLemma == Anywhere \in Task
  BY TaskAssumption DEF Anywhere

-----------------------------------------------------------------------------
(* Type correctness. *)

LEMMA FreshType == Fresh \in TaskState
  BY DEF Fresh, TaskState, Event

(* What the handlers do to a sequence. *)
LEMMA SeqSteps ==
  ASSUME NEW S, NEW s \in Seq(S), NEW e \in S
  PROVE  Append(s, e) \in Seq(S)
  OBVIOUS

LEMMA SeqParts ==
  ASSUME NEW S, NEW s \in Seq(S), s # <<>>
  PROVE  Tail(s) \in Seq(S) /\ Head(s) \in S
  OBVIOUS

(* A record of each kind stays one when a handler assigns a field of it. *)
LEMMA TaskFields ==
  ASSUME NEW s \in TaskState
  PROVE  /\ s.log \in Seq(Event) /\ s.inbox \in Seq(Msg)
         /\ s.pending \in Call \cup {NoCall} /\ s.open \in BOOLEAN
         /\ s.abort \in {"none", "armed", "fired"}
         /\ \A l \in Seq(Event) : [s EXCEPT !.log = l] \in TaskState
         /\ [s EXCEPT !.open = FALSE] \in TaskState
         /\ \A p \in Call \cup {NoCall} : [s EXCEPT !.pending = p] \in TaskState
         /\ \A i \in Seq(Msg) : [s EXCEPT !.inbox = i] \in TaskState
         /\ \A a \in {"none", "armed", "fired"} :
              /\ [s EXCEPT !.abort = a] \in TaskState
              /\ [s EXCEPT !.stopped = TRUE, !.abort = a, !.pending = NoCall] \in TaskState
  BY DEF TaskState

LEMMA SubscriberFields ==
  ASSUME NEW s \in Subscriber
  PROVE  /\ s.seen \in Seq(Event) /\ s.rx \in Seq(Event) /\ s.task \in Task
         /\ [s EXCEPT !.closed = TRUE] \in Subscriber
         /\ [s EXCEPT !.at = "ended"] \in Subscriber
         /\ \A l \in Seq(Event) : /\ [s EXCEPT !.rx = l] \in Subscriber
                                  /\ [s EXCEPT !.rx = l, !.lagged = TRUE] \in Subscriber
         /\ \A l, r \in Seq(Event) : [s EXCEPT !.seen = l, !.rx = r] \in Subscriber
  BY DEF Subscriber

LEMMA ReceivedType ==
  ASSUME NEW rec \in Subscriber, NEW e \in Event
  PROVE  Received(rec, e) \in Subscriber
  <1>1. rec.rx \in Seq(Event)
    BY SubscriberFields
  <1>2. CASE Len(rec.rx) < Lag
    <2>1. Append(rec.rx, e) \in Seq(Event)
      BY <1>1
    <2> QED BY <1>2, <2>1, SubscriberFields DEF Received
  <1>3. CASE ~(Len(rec.rx) < Lag)
    <2>1. rec.rx # <<>>
      BY <1>3, LagAssumption
    <2>2. Append(Tail(rec.rx), e) \in Seq(Event)
      BY <1>1, <2>1
    <2> QED BY <1>3, <2>2, SubscriberFields DEF Received
  <1> QED BY <1>2, <1>3

LEMMA ClosedType ==
  ASSUME TypeOK, NEW t \in Task
  PROVE  ReceiversClosed(t) \in [Viewer -> Subscriber]
  BY SubscriberFields DEF TypeOK, ReceiversClosed

LEMMA PublishType ==
  ASSUME TypeOK, NEW t \in Task, NEW e \in Event, Publish(t, e)
  PROVE  tasks' \in [Task -> TaskState] /\ sse' \in [Viewer -> Subscriber]
  <1>0. tasks[t] \in TaskState
    BY DEF TypeOK
  <1>1. Append(tasks[t].log, e) \in Seq(Event)
    BY <1>0, TaskFields, SeqSteps
  <1>2. tasks' \in [Task -> TaskState]
    BY <1>0, <1>1, TaskFields DEF TypeOK, Publish
  <1>3. Delivered(t, e) \in [Viewer -> Subscriber]
    BY ReceivedType DEF TypeOK, Delivered
  <1> QED BY <1>2, <1>3 DEF Publish, TypeOK

LEMMA FinishType ==
  ASSUME TypeOK, NEW t \in Task, FinishTask(t)
  PROVE  tasks' \in [Task -> TaskState] /\ sse' \in [Viewer -> Subscriber]
  BY ClosedType, TaskFields DEF TypeOK, FinishTask

LEMMA SentType ==
  ASSUME TypeOK, NEW c \in Call, NEW a \in {"allow", "deny", "dropped"}
  PROVE  Sent(c, a) \in [Call -> {"empty", "allow", "deny", "dropped"}]
  BY DEF TypeOK, Sent

(* Every step of the hub keeps the types, one case per handler.            *)
LEMMA HubTypesStep ==
  ASSUME TypeOK, [HubNext]_hubVars
  PROVE  TypeOK'
<1>1. ASSUME NEW t \in Task, NewTask(t) PROVE TypeOK'
  BY <1>1, FreshType, ClosedType DEF NewTask, TypeOK
<1>2. ASSUME NEW t \in Task, RegisterAbort(t) PROVE TypeOK'
  <2>1. (IF tasks[t].stopped THEN "fired" ELSE "armed") \in {"none", "armed", "fired"}
    OBVIOUS
  <2>2. tasks' \in [Task -> TaskState]
    BY <1>2, <2>1, TaskFields DEF RegisterAbort, TypeOK
  <2> QED BY <1>2, <2>2 DEF RegisterAbort, TypeOK
<1>3. ASSUME NEW t \in Task, RunnerFinish(t) PROVE TypeOK'
  BY <1>3, FinishType DEF RunnerFinish, FinishTask, TypeOK
<1>4. ASSUME NEW t \in Task, NEW e \in {"progress", "error"}, OrchestratorEvent(t, e)
      PROVE  TypeOK'
  <2>1. e \in Event
    BY DEF Event
  <2> QED BY <1>4, <2>1, PublishType DEF OrchestratorEvent, Publish, TypeOK
<1>5. ASSUME NEW t \in Task, NEW c \in Call, RequestHitl(c, t) PROVE TypeOK'
  <2>1. chan' \in [Call -> {"empty", "allow", "deny", "dropped"}]
    <3>1. tasks[t].pending \in Call \cup {NoCall}
      BY TaskFields DEF TypeOK
    <3> QED BY <1>5, <3>1, SentType DEF RequestHitl, TypeOK
  <2>2. tasks' \in [Task -> TaskState]
    BY <1>5, TaskFields DEF RequestHitl, TypeOK
  <2>3. gate' \in [Call -> Request]
    BY <1>5 DEF RequestHitl, TypeOK, Request
  <2> QED BY <1>5, <2>1, <2>2, <2>3 DEF RequestHitl, TypeOK
<1>6. ASSUME NEW t \in Task, NEW a \in {"allow", "deny"}, ResolveHitl(t, a) PROVE TypeOK'
  <2>1. chan' \in [Call -> {"empty", "allow", "deny", "dropped"}]
    <3>1. tasks[t].pending \in Call \cup {NoCall}
      BY TaskFields DEF TypeOK
    <3> QED BY <1>6, <3>1, SentType DEF ResolveHitl, TypeOK
  <2>2. tasks' \in [Task -> TaskState]
    BY <1>6, TaskFields DEF ResolveHitl, TypeOK
  <2> QED BY <1>6, <2>1, <2>2 DEF ResolveHitl, TypeOK
<1>7. ASSUME NEW t \in Task, NEW m \in Msg, PushUserMessage(m, t) PROVE TypeOK'
  <2>0. tasks[t] \in TaskState
    BY DEF TypeOK
  <2>1. Append(tasks[t].inbox, m) \in Seq(Msg)
    BY <2>0, TaskFields, SeqSteps
  <2>2. [tasks[t] EXCEPT !.inbox = Append(@, m)] \in TaskState
    BY <2>0, <2>1, TaskFields
  <2>3. tasks' \in [Task -> TaskState]
    BY <1>7, <2>2 DEF PushUserMessage, TypeOK
  <2>4. /\ [at |-> "queued", task |-> t, real |-> t \in issued] \in Posted
        /\ [at |-> "refused", task |-> t, real |-> FALSE] \in Posted
    BY DEF Posted
  <2>5. post' \in [Msg -> Posted]
    BY <1>7, <2>4 DEF PushUserMessage, TypeOK
  <2> QED BY <1>7, <2>3, <2>5 DEF PushUserMessage, TypeOK
<1>8. ASSUME NEW t \in Task, NEW g \in Gen, NEW w \in BOOLEAN, Generate(g, t, w)
      PROVE  TypeOK'
  <2>1. gen' \in [Gen -> Draining]
    BY <1>8 DEF Generate, TypeOK, Draining
  <2> QED BY <1>8, <2>1 DEF Generate, TypeOK
<1>9. ASSUME NEW t \in Task, NEW k \in Stopper, EmergencyStop(k, t) PROVE TypeOK'
  <2>1. chan' \in [Call -> {"empty", "allow", "deny", "dropped"}]
    <3>1. tasks[t].pending \in Call \cup {NoCall}
      BY TaskFields DEF TypeOK
    <3> QED BY <1>9, <3>1, SentType DEF EmergencyStop, TypeOK
  <2>2. tasks' \in [Task -> TaskState]
    <3> DEFINE a == IF tasks[t].abort = "armed" THEN "fired" ELSE tasks[t].abort
    <3>1. tasks[t] \in TaskState /\ a \in {"none", "armed", "fired"}
      BY TaskFields DEF TypeOK
    <3>2. [tasks[t] EXCEPT !.stopped = TRUE, !.abort = a, !.pending = NoCall] \in TaskState
      BY <3>1, TaskFields
    <3> QED BY <1>9, <3>2 DEF EmergencyStop, TypeOK
  <2>3. stop' \in [Stopper -> Stopping]
    BY <1>9 DEF EmergencyStop, TypeOK, Stopping
  <2> QED BY <1>9, <2>1, <2>2, <2>3 DEF EmergencyStop, TypeOK
<1>10. ASSUME NEW t \in Task, NEW v \in Viewer, Subscribe(v, t) PROVE TypeOK'
  <2>1. tasks[t].log \in Seq(Event) /\ tasks[t].open \in BOOLEAN
    BY TaskFields DEF TypeOK
  <2>2. sse' \in [Viewer -> Subscriber]
    BY <1>10, <2>1 DEF Subscribe, TypeOK, Subscriber
  <2> QED BY <1>10, <2>2 DEF Subscribe, TypeOK
<1>11. ASSUME NEW c \in Call, HitlAnswered(c) \/ HitlTimeout(c) \/ HitlAbandoned(c)
       PROVE  TypeOK'
  <2>1. gate' \in [Call -> Request]
    BY <1>11 DEF HitlAnswered, HitlTimeout, HitlAbandoned, TypeOK, Request
  <2> QED BY <1>11, <2>1 DEF HitlAnswered, HitlTimeout, HitlAbandoned, TypeOK
<1>12. ASSUME NEW m \in Msg, EchoUserMessage(m) PROVE TypeOK'
  <2>1. m \in Event /\ post[m].task \in Task
    BY DEF Event, TypeOK, Posted
  <2>2. tasks' \in [Task -> TaskState] /\ sse' \in [Viewer -> Subscriber]
    BY <1>12, <2>1, PublishType DEF EchoUserMessage
  <2>3. post' \in [Msg -> Posted]
    BY <1>12 DEF EchoUserMessage, TypeOK, Posted
  <2> QED BY <1>12, <2>2, <2>3 DEF EchoUserMessage, Publish, TypeOK
<1>13. ASSUME NEW g \in Gen, TakeUserMessage(g) PROVE TypeOK'
  <2> DEFINE t == gen[g].task
  <2>1. t \in Task /\ tasks[t].inbox \in Seq(Msg) /\ gen[g].turns \in Seq(Msg)
    <3>1. t \in Task /\ gen[g].turns \in Seq(Msg)
      BY DEF TypeOK, Draining
    <3> QED BY <3>1, TaskFields DEF TypeOK
  <2>2. CASE tasks[t].inbox # <<>>
    <3>1. Tail(tasks[t].inbox) \in Seq(Msg) /\ Append(gen[g].turns, Head(tasks[t].inbox)) \in Seq(Msg)
      BY <2>1, <2>2, SeqParts, SeqSteps
    <3>2. [tasks[t] EXCEPT !.inbox = Tail(@)] \in TaskState
      BY <2>1, <3>1, TaskFields DEF TypeOK
    <3>3. [gen[g] EXCEPT !.turns = Append(@, Head(tasks[t].inbox))] \in Draining
      BY <3>1 DEF TypeOK, Draining
    <3>4. /\ tasks' = [tasks EXCEPT ![t] = [tasks[t] EXCEPT !.inbox = Tail(@)]]
          /\ gen' = [gen EXCEPT ![g] = [gen[g] EXCEPT !.turns = Append(@, Head(tasks[t].inbox))]]
      BY <1>13, <2>2 DEF TakeUserMessage
    <3>5. tasks' \in [Task -> TaskState] /\ gen' \in [Gen -> Draining]
      BY <2>1, <3>2, <3>3, <3>4 DEF TypeOK
    <3> QED BY <1>13, <3>5 DEF TakeUserMessage, TypeOK
  <2>3. CASE tasks[t].inbox = <<>>
    <3>1. [gen[g] EXCEPT !.at = "sent"] \in Draining
      BY DEF TypeOK, Draining
    <3>2. gen' = [gen EXCEPT ![g] = [gen[g] EXCEPT !.at = "sent"]] /\ UNCHANGED tasks
      BY <1>13, <2>3 DEF TakeUserMessage
    <3>3. gen' \in [Gen -> Draining]
      BY <3>1, <3>2 DEF TypeOK
    <3> QED BY <1>13, <3>2, <3>3 DEF TakeUserMessage, TypeOK
  <2> QED BY <2>2, <2>3
<1>14. ASSUME NEW k \in Stopper, StopPublish(k) PROVE TypeOK'
  <2>1. "error" \in Event /\ stop[k].task \in Task /\ stop' \in [Stopper -> Stopping]
    BY <1>14 DEF Event, TypeOK, Stopping, StopPublish
  <2>2. tasks' \in [Task -> TaskState] /\ sse' \in [Viewer -> Subscriber]
    BY <1>14, <2>1, PublishType DEF StopPublish
  <2> QED BY <1>14, <2>1, <2>2 DEF StopPublish, Publish, TypeOK
<1>15. ASSUME NEW k \in Stopper, StopFinish(k) PROVE TypeOK'
  <2>1. stop[k].task \in Task /\ stop' \in [Stopper -> Stopping]
    BY <1>15 DEF TypeOK, Stopping, StopFinish
  <2>2. tasks' \in [Task -> TaskState] /\ sse' \in [Viewer -> Subscriber]
    BY <1>15, <2>1, FinishType DEF StopFinish
  <2> QED BY <1>15, <2>1, <2>2 DEF StopFinish, FinishTask, TypeOK
<1>16. ASSUME NEW v \in Viewer, StreamEvent(v) PROVE TypeOK'
  <2>1. sse[v].rx \in Seq(Event) /\ sse[v].seen \in Seq(Event)
    BY SubscriberFields DEF TypeOK
  <2>2. CASE sse[v].rx # <<>>
    <3>1. Tail(sse[v].rx) \in Seq(Event) /\ Append(sse[v].seen, Head(sse[v].rx)) \in Seq(Event)
      BY <2>1, <2>2, SeqParts, SeqSteps
    <3>2. [sse[v] EXCEPT !.seen = Append(@, Head(sse[v].rx)), !.rx = Tail(@)] \in Subscriber
      BY <3>1, SubscriberFields DEF TypeOK
    <3>3. sse' = [sse EXCEPT ![v] = [sse[v] EXCEPT !.seen = Append(@, Head(sse[v].rx)),
                                                   !.rx = Tail(@)]]
      BY <1>16, <2>2 DEF StreamEvent, TypeOK
    <3> QED BY <1>16, <3>2, <3>3 DEF StreamEvent, TypeOK
  <2>3. CASE sse[v].rx = <<>>
    <3>1. [sse[v] EXCEPT !.at = "ended"] \in Subscriber
      BY SubscriberFields DEF TypeOK
    <3>2. sse' = [sse EXCEPT ![v] = [sse[v] EXCEPT !.at = "ended"]]
      BY <1>16, <2>3 DEF StreamEvent
    <3> QED BY <1>16, <3>1, <3>2 DEF StreamEvent, TypeOK
  <2> QED BY <2>2, <2>3
<1>17. CASE UNCHANGED hubVars
  BY <1>17 DEF hubVars, TypeOK
<1> QED BY <1>1, <1>2, <1>3, <1>4, <1>5, <1>6, <1>7, <1>8, <1>9, <1>10, <1>11, <1>12,
           <1>13, <1>14, <1>15, <1>16, <1>17 DEF HubNext

(* The hub's variables keep their types: nothing the handlers store is of  *)
(* a kind another handler does not expect (`SquadTaskState`).              *)
THEOREM HubTypes == HubSafeSpec => []TypeOK
<1>1. HubInit => TypeOK
  BY AnywhereLemma, FreshType
  DEF HubInit, TypeOK, Request, Posted, Stopping, Subscriber, Draining
<1>2. TypeOK /\ [HubNext]_hubVars => TypeOK'
  BY HubTypesStep
<1> QED BY <1>1, <1>2, PTL DEF HubSafeSpec

-----------------------------------------------------------------------------
(* The gate. *)

(* A step that leaves gates, channels and pending requests alone, but for  *)
(* new tasks, which have none.                                             *)
LEMMA GatesUntouched ==
  ASSUME HubInv, TypeOK', gate' = gate, chan' = chan, issued \subseteq issued',
         \A u \in Task : tasks'[u].pending = tasks[u].pending
  PROVE  HubInv'
  BY DEF HubInv, PendingMatchesWaiters, IdleIsEmpty, TypeOK, Request

(* The inbox of a task has no part in its gate. *)
LEMMA InboxKeepsPending ==
  ASSUME TypeOK, NEW t \in Task, NEW i, tasks' = [tasks EXCEPT ![t].inbox = i]
  PROVE  \A u \in Task : tasks'[u].pending = tasks[u].pending
  BY DEF TypeOK, TaskState

LEMMA HubInvStep ==
  ASSUME HubInv, [HubNext]_hubVars
  PROVE  HubInv'
<1> USE NoCallAssumption
<1>0. TypeOK /\ TypeOK'
  BY HubTypesStep DEF HubInv
<1>1. ASSUME NEW t \in Task, NewTask(t) PROVE HubInv'
  <2>1. tasks[t].pending = NoCall
    BY <1>1 DEF HubInv, PendingMatchesWaiters, NewTask
  <2>2. \A u \in Task : tasks'[u].pending = tasks[u].pending
    BY <1>0, <1>1, <2>1 DEF NewTask, Fresh, TypeOK
  <2> QED BY <1>0, <1>1, <2>2, GatesUntouched DEF NewTask
<1>2. ASSUME NEW t \in Task, RegisterAbort(t) PROVE HubInv'
  <2>1. \A u \in Task : tasks'[u].pending = tasks[u].pending
    BY <1>0, <1>2 DEF RegisterAbort, TypeOK, TaskState
  <2> QED BY <1>0, <1>2, <2>1, GatesUntouched DEF RegisterAbort
<1>3. ASSUME NEW t \in Task, RunnerFinish(t) PROVE HubInv'
  <2>1. \A u \in Task : tasks'[u].pending = tasks[u].pending
    BY <1>0, <1>3 DEF RunnerFinish, FinishTask, TypeOK, TaskState
  <2> QED BY <1>0, <1>3, <2>1, GatesUntouched DEF RunnerFinish
<1>4. ASSUME NEW t \in Task, NEW e \in {"progress", "error"}, OrchestratorEvent(t, e)
      PROVE  HubInv'
  <2>1. \A u \in Task : tasks'[u].pending = tasks[u].pending
    BY <1>0, <1>4 DEF OrchestratorEvent, Publish, TypeOK, TaskState
  <2> QED BY <1>0, <1>4, <2>1, GatesUntouched DEF OrchestratorEvent
<1>5. ASSUME NEW t \in Task, NEW c \in Call, RequestHitl(c, t) PROVE HubInv'
  <2> DEFINE old == tasks[t].pending
  <2>1. /\ gate[c].at = "idle" /\ chan[c] = "empty" /\ t \in issued
        /\ gate' = [gate EXCEPT ![c] = [at |-> "waiting", task |-> t]]
        /\ issued' = issued
        /\ chan' = IF old = NoCall THEN chan ELSE Sent(old, "dropped")
    BY <1>5 DEF RequestHitl, HubInv, IdleIsEmpty
  <2>2. \A u \in Task : tasks'[u].pending = IF u = t THEN c ELSE tasks[u].pending
    BY <1>0, <1>5 DEF RequestHitl, TypeOK, TaskState
  <2>3. old \in Call \cup {NoCall} /\ old # c
    BY <1>0, <2>1 DEF TypeOK, TaskState, HubInv, PendingMatchesWaiters
  <2>4. \A d \in Call : chan'[d] = IF d = old /\ gate[d].at = "waiting" THEN "dropped" ELSE chan[d]
    BY <1>0, <2>1, <2>3 DEF Sent, TypeOK
  <2>5. \A d \in Call : gate'[d] = IF d = c THEN [at |-> "waiting", task |-> t] ELSE gate[d]
    BY <1>0, <2>1 DEF TypeOK
  <2>6. PendingMatchesWaiters'
    <3>1. ASSUME NEW d \in Call, gate'[d].at = "waiting", chan'[d] = "empty"
          PROVE  tasks'[gate'[d].task].pending = d
      <4>1. CASE d = c
        BY <2>2, <2>5, <4>1
      <4>2. CASE d # c
        <5>1. gate[d].at = "waiting" /\ chan[d] = "empty" /\ d # old /\ gate'[d] = gate[d]
          BY <2>4, <2>5, <3>1, <4>2
        <5>2. tasks[gate[d].task].pending = d /\ gate[d].task \in Task
          BY <1>0, <5>1 DEF HubInv, PendingMatchesWaiters, TypeOK, Request
        <5> QED BY <2>2, <5>1, <5>2
      <4> QED BY <4>1, <4>2
    <3>2. ASSUME NEW u \in Task, tasks'[u].pending # NoCall
          PROVE  /\ gate'[tasks'[u].pending].task = u
                 /\ gate'[tasks'[u].pending].at # "idle"
                 /\ chan'[tasks'[u].pending] = "empty"
                 /\ u \in issued'
      <4>1. CASE u = t
        BY <2>1, <2>2, <2>3, <2>4, <2>5, <4>1
      <4>2. CASE u # t
        <5> DEFINE q == tasks[u].pending
        <5>1. /\ tasks'[u].pending = q /\ q # NoCall /\ q \in Call
              /\ gate[q].task = u /\ gate[q].at # "idle" /\ chan[q] = "empty" /\ u \in issued
          BY <1>0, <2>2, <3>2, <4>2 DEF HubInv, PendingMatchesWaiters, TypeOK, TaskState
        <5>2. q # c /\ q # old
          BY <2>1, <2>3, <4>2, <5>1 DEF HubInv, PendingMatchesWaiters
        <5> QED BY <2>1, <2>4, <2>5, <5>1, <5>2
      <4> QED BY <4>1, <4>2
    <3> QED BY <3>1, <3>2 DEF PendingMatchesWaiters
  <2>7. IdleIsEmpty'
    BY <2>4, <2>5 DEF HubInv, IdleIsEmpty
  <2> QED BY <1>0, <2>6, <2>7 DEF HubInv
<1>6. ASSUME NEW t \in Task, NEW a \in {"allow", "deny", "dropped"},
             gate' = gate, issued' = issued,
             \A u \in Task : tasks'[u].pending = IF u = t THEN NoCall ELSE tasks[u].pending,
             chan' = IF tasks[t].pending = NoCall THEN chan ELSE Sent(tasks[t].pending, a)
      PROVE  HubInv'
  <2> DEFINE old == tasks[t].pending
  <2>1. old \in Call \cup {NoCall}
    BY <1>0 DEF TypeOK, TaskState
  <2>2. \A d \in Call : chan'[d] = IF d = old /\ gate[d].at = "waiting" THEN a ELSE chan[d]
    BY <1>0, <1>6, <2>1 DEF Sent, TypeOK
  <2>3. PendingMatchesWaiters'
    <3>1. ASSUME NEW d \in Call, gate[d].at = "waiting", chan'[d] = "empty"
          PROVE  tasks'[gate[d].task].pending = d
      <4>1. chan[d] = "empty" /\ d # old
        BY <1>6, <2>2, <3>1
      <4>2. tasks[gate[d].task].pending = d /\ gate[d].task \in Task
        BY <1>0, <3>1, <4>1 DEF HubInv, PendingMatchesWaiters, TypeOK, Request
      <4> QED BY <1>6, <4>1, <4>2
    <3>2. ASSUME NEW u \in Task, tasks'[u].pending # NoCall
          PROVE  /\ gate[tasks'[u].pending].task = u
                 /\ gate[tasks'[u].pending].at # "idle"
                 /\ chan'[tasks'[u].pending] = "empty"
                 /\ u \in issued
      <4> DEFINE q == tasks[u].pending
      <4>1. u # t /\ tasks'[u].pending = q /\ q # NoCall /\ q \in Call
        BY <1>0, <1>6, <3>2 DEF TypeOK, TaskState
      <4>2. gate[q].task = u /\ gate[q].at # "idle" /\ chan[q] = "empty" /\ u \in issued
        BY <4>1 DEF HubInv, PendingMatchesWaiters
      <4>3. q # old
        BY <4>1, <4>2 DEF HubInv, PendingMatchesWaiters
      <4> QED BY <2>2, <4>1, <4>2, <4>3
    <3> QED BY <1>6, <3>1, <3>2 DEF PendingMatchesWaiters
  <2>4. IdleIsEmpty'
    BY <1>6, <2>2 DEF HubInv, IdleIsEmpty
  <2> QED BY <1>0, <2>3, <2>4 DEF HubInv
<1>7. ASSUME NEW t \in Task, NEW a \in {"allow", "deny"}, ResolveHitl(t, a) PROVE HubInv'
  <2>1. \A u \in Task : tasks'[u].pending = IF u = t THEN NoCall ELSE tasks[u].pending
    BY <1>0, <1>7 DEF ResolveHitl, TypeOK, TaskState
  <2> QED BY <1>6, <1>7, <2>1 DEF ResolveHitl
<1>8. ASSUME NEW t \in Task, NEW k \in Stopper, EmergencyStop(k, t) PROVE HubInv'
  <2>1. CASE t \in known
    <3>1. \A u \in Task : tasks'[u].pending = IF u = t THEN NoCall ELSE tasks[u].pending
      BY <1>0, <1>8, <2>1 DEF EmergencyStop, TypeOK, TaskState
    <3> QED BY <1>6, <1>8, <2>1, <3>1 DEF EmergencyStop
  <2>2. CASE t \notin known
    BY <1>0, <1>8, <2>2, GatesUntouched DEF EmergencyStop
  <2> QED BY <2>1, <2>2
<1>9. ASSUME NEW t \in Task, NEW m \in Msg, PushUserMessage(m, t) PROVE HubInv'
  <2>1. \A u \in Task : tasks'[u].pending = tasks[u].pending
    <3>1. \/ tasks' = tasks
          \/ tasks' = [tasks EXCEPT ![t].inbox = Append(tasks[t].inbox, m)]
      BY <1>0, <1>9 DEF PushUserMessage, TypeOK
    <3> QED BY <1>0, <3>1, InboxKeepsPending
  <2> QED BY <1>0, <1>9, <2>1, GatesUntouched DEF PushUserMessage
<1>10. ASSUME NEW t \in Task, NEW g \in Gen, NEW w \in BOOLEAN, Generate(g, t, w) PROVE HubInv'
  BY <1>0, <1>10, GatesUntouched DEF Generate
<1>11. ASSUME NEW t \in Task, NEW v \in Viewer, Subscribe(v, t) PROVE HubInv'
  BY <1>0, <1>11, GatesUntouched DEF Subscribe
<1>12. ASSUME NEW c \in Call, HitlAnswered(c) \/ HitlTimeout(c) \/ HitlAbandoned(c)
       PROVE  HubInv'
  <2>1. \A d \in Call : /\ gate'[d].task = gate[d].task
                        /\ gate'[d].at = "waiting" => gate[d].at = "waiting"
                        /\ gate'[d].at = "idle" <=> gate[d].at = "idle"
    BY <1>0, <1>12 DEF HitlAnswered, HitlTimeout, HitlAbandoned, TypeOK, Request
  <2>2. tasks' = tasks /\ chan' = chan /\ issued' = issued
    BY <1>12 DEF HitlAnswered, HitlTimeout, HitlAbandoned
  <2>3. \A u \in Task : tasks[u].pending \in Call \cup {NoCall}
    BY <1>0 DEF TypeOK, TaskState
  <2> QED BY <1>0, <2>1, <2>2, <2>3 DEF HubInv, PendingMatchesWaiters, IdleIsEmpty
<1>13. ASSUME NEW m \in Msg, EchoUserMessage(m) PROVE HubInv'
  <2>1. \A u \in Task : tasks'[u].pending = tasks[u].pending
    BY <1>0, <1>13 DEF EchoUserMessage, Publish, TypeOK, TaskState
  <2> QED BY <1>0, <1>13, <2>1, GatesUntouched DEF EchoUserMessage
<1>14. ASSUME NEW g \in Gen, TakeUserMessage(g) PROVE HubInv'
  <2>1. \A u \in Task : tasks'[u].pending = tasks[u].pending
    <3> DEFINE t == gen[g].task
    <3>1. t \in Task
      BY <1>0 DEF TypeOK, Draining
    <3>2. \/ tasks' = tasks
          \/ tasks' = [tasks EXCEPT ![t].inbox = Tail(tasks[t].inbox)]
      BY <1>0, <1>14, <3>1 DEF TakeUserMessage, TypeOK
    <3> QED BY <1>0, <3>1, <3>2, InboxKeepsPending
  <2> QED BY <1>0, <1>14, <2>1, GatesUntouched DEF TakeUserMessage
<1>15. ASSUME NEW k \in Stopper, StopPublish(k) PROVE HubInv'
  <2>1. \A u \in Task : tasks'[u].pending = tasks[u].pending
    BY <1>0, <1>15 DEF StopPublish, Publish, TypeOK, TaskState
  <2> QED BY <1>0, <1>15, <2>1, GatesUntouched DEF StopPublish
<1>16. ASSUME NEW k \in Stopper, StopFinish(k) PROVE HubInv'
  <2>1. \A u \in Task : tasks'[u].pending = tasks[u].pending
    BY <1>0, <1>16 DEF StopFinish, FinishTask, TypeOK, TaskState
  <2> QED BY <1>0, <1>16, <2>1, GatesUntouched DEF StopFinish
<1>17. ASSUME NEW v \in Viewer, StreamEvent(v) PROVE HubInv'
  BY <1>0, <1>17, GatesUntouched DEF StreamEvent
<1>18. CASE UNCHANGED hubVars
  BY <1>0, <1>18, GatesUntouched DEF hubVars
<1> QED BY <1>1, <1>2, <1>3, <1>4, <1>5, <1>7, <1>8, <1>9, <1>10, <1>11, <1>12, <1>13,
           <1>14, <1>15, <1>16, <1>17, <1>18 DEF HubNext

LEMMA HubInvariant == HubSafeSpec => []HubInv
<1>1. HubInit => HubInv
  <2>1. HubInit => TypeOK
    BY AnywhereLemma, FreshType
    DEF HubInit, TypeOK, Request, Posted, Stopping, Subscriber, Draining
  <2>2. HubInit => PendingMatchesWaiters /\ IdleIsEmpty
    BY DEF HubInit, PendingMatchesWaiters, IdleIsEmpty, Fresh
  <2> QED BY <2>1, <2>2 DEF HubInv
<1>2. HubInv /\ [HubNext]_hubVars => HubInv'
  BY HubInvStep
<1> QED BY <1>1, <1>2, PTL DEF HubSafeSpec

(* Whoever waits for an answer can still get one, and what is pending was  *)
(* never answered (`request_hitl`, `resolve_hitl`, `emergency_stop`).      *)
THEOREM PendingIsLive == HubSafeSpec => []PendingMatchesWaiters
<1>1. HubInv => PendingMatchesWaiters
  BY DEF HubInv
<1> QED BY <1>1, HubInvariant, PTL

(* The kill-switch leaves nobody of its task waiting without an answer     *)
(* (`emergency_stop`: "destrava qualquer gate HITL pendente").             *)
THEOREM StopUnblocks == HubSafeSpec => StopUnblocksGates
<1> USE NoCallAssumption
<1> DEFINE Unblocks ==
      \A k \in Stopper :
        stop[k].at = "idle" /\ stop'[k].at = "locked" =>
          \A c \in Call :
            gate[c].at = "waiting" /\ gate[c].task = stop'[k].task => chan'[c] # "empty"
<1>1. HubInv /\ [HubNext]_hubVars => [Unblocks]_hubVars
  <2> SUFFICES ASSUME HubInv, [HubNext]_hubVars,
                      NEW k \in Stopper, stop[k].at = "idle", stop'[k].at = "locked",
                      NEW c \in Call, gate[c].at = "waiting", gate[c].task = stop'[k].task
               PROVE  chan'[c] # "empty"
    OBVIOUS
  <2>0. TypeOK
    BY DEF HubInv
  <2>1. PICK t \in Task : EmergencyStop(k, t)
    <3>1. ASSUME NEW d \in Stopper, NEW u \in Task, EmergencyStop(d, u)
          PROVE  \E t \in Task : EmergencyStop(k, t)
      BY <2>0, <3>1 DEF EmergencyStop, TypeOK, Stopping
    <3>2. ASSUME NEW d \in Stopper, StopPublish(d) \/ StopFinish(d) PROVE FALSE
      BY <2>0, <3>2 DEF StopPublish, StopFinish, TypeOK, Stopping
    <3>3. stop' # stop
      OBVIOUS
    <3> QED BY <3>1, <3>2, <3>3
            DEF HubNext, hubVars, NewTask, RegisterAbort, RunnerFinish, OrchestratorEvent,
                RequestHitl, ResolveHitl, PushUserMessage, Generate, Subscribe, HitlAnswered,
                HitlTimeout, HitlAbandoned, EchoUserMessage, TakeUserMessage, StreamEvent
  <2>2. /\ t \in known
        /\ stop'[k].task = t
        /\ chan' = IF tasks[t].pending = NoCall THEN chan ELSE Sent(tasks[t].pending, "deny")
    BY <2>0, <2>1 DEF EmergencyStop, TypeOK
  <2>3. tasks[t].pending \in Call \cup {NoCall}
    BY <2>0 DEF TypeOK, TaskState
  <2>4. CASE chan[c] = "empty"
    <3>1. tasks[t].pending = c
      BY <2>2, <2>4 DEF HubInv, PendingMatchesWaiters
    <3> QED BY <2>0, <2>2, <3>1 DEF Sent, TypeOK
  <2>5. CASE chan[c] # "empty"
    BY <2>0, <2>2, <2>3, <2>5 DEF Sent, TypeOK
  <2> QED BY <2>4, <2>5
<1> QED BY <1>1, HubInvariant, PTL DEF HubSafeSpec, StopUnblocksGates

(* Nobody waits for an answer that cannot come, stopped or not.            *)
THEOREM GatesAreLive == HubSafeSpec => GatesStayLive
BY PendingIsLive, StopUnblocks DEF GatesStayLive

-----------------------------------------------------------------------------
(* The gate of the hub implements the abstract human gate. *)

LEMMA AnswerStep ==
  ASSUME HubInv, NEW t \in Task, NEW a \in {"allow", "deny"}, gate' = gate,
         chan' = IF tasks[t].pending = NoCall THEN chan ELSE Sent(tasks[t].pending, a)
  PROVE  [Gate!Next]_(Gate!vars)
<1> USE NoCallAssumption
<1> DEFINE p == tasks[t].pending
<1>0. TypeOK /\ p \in Call \cup {NoCall}
  BY DEF HubInv, TypeOK, TaskState
<1>1. CASE p # NoCall /\ gate[p].at = "waiting"
  <2>1. p \in Call /\ chan[p] = "empty" /\ chan' = [chan EXCEPT ![p] = a]
    BY <1>0, <1>1 DEF HubInv, PendingMatchesWaiters, Sent
  <2>2. Gate!Answer(p, a)
    BY <1>0, <1>1, <2>1 DEF Gate!Answer, Phase, Delivery, TypeOK
  <2> QED BY <2>1, <2>2 DEF Gate!Next
<1>2. CASE p = NoCall \/ gate[p].at # "waiting"
  BY <1>0, <1>2 DEF Sent, Gate!vars
<1> QED BY <1>1, <1>2

LEMMA GateStep ==
  ASSUME HubInv, [HubNext]_hubVars
  PROVE  [Gate!Next]_(Gate!vars)
<1> USE NoCallAssumption
<1>0. TypeOK
  BY DEF HubInv
<1>1. ASSUME NEW t \in Task, NEW c \in Call, RequestHitl(c, t)
      PROVE  Gate!Next
  <2> DEFINE old == tasks[t].pending
  <2>1. /\ gate[c].at = "idle" /\ chan[c] = "empty"
        /\ gate' = [gate EXCEPT ![c] = [at |-> "waiting", task |-> t]]
        /\ chan' = IF old = NoCall THEN chan ELSE Sent(old, "dropped")
    BY <1>1 DEF RequestHitl, HubInv, IdleIsEmpty
  <2>2. old \in Call \cup {NoCall} /\ old # c
    BY <1>0, <2>1 DEF TypeOK, TaskState, HubInv, PendingMatchesWaiters
  <2>3. CASE old # NoCall /\ gate[old].at = "waiting"
    <3>1. old \in Call /\ chan[old] = "empty" /\ chan' = [chan EXCEPT ![old] = "dropped"]
      BY <2>1, <2>2, <2>3 DEF HubInv, PendingMatchesWaiters, Sent
    <3>a. gate[old].at = "waiting" /\ gate \in [Call -> Request] /\ chan' = [chan EXCEPT ![old] = "dropped"]
      BY <1>0, <2>3, <3>1 DEF TypeOK
    <3>2. /\ Phase(gate[c].at) = "idle" /\ Phase(gate[old].at) = "open"
          /\ [d \in Call |-> Phase(gate[d].at)]' = [[d \in Call |-> Phase(gate[d].at)] EXCEPT ![c] = "open"]
      BY <2>1, <3>a DEF Phase, Request
    <3>3. /\ Delivery(chan[old]) = "none"
          /\ [d \in Call |-> Delivery(chan[d])]' = [[d \in Call |-> Delivery(chan[d])] EXCEPT ![old] = "deny"]
      BY <1>0, <3>1 DEF Delivery, TypeOK
    <3>4. Gate!OpenOver(c, old)
      BY <2>2, <3>1, <3>2, <3>3 DEF Gate!OpenOver
    <3> QED BY <3>1, <3>4 DEF Gate!Next
  <2>4. CASE old = NoCall \/ gate[old].at # "waiting"
    <3>1. chan' = chan
      BY <2>1, <2>4 DEF Sent
    <3>2. Gate!Open(c)
      BY <1>0, <2>1, <3>1 DEF Gate!Open, Phase, TypeOK, Request
    <3> QED BY <3>2 DEF Gate!Next
  <2> QED BY <2>3, <2>4
<1>2. ASSUME NEW c \in Call, HitlAnswered(c) \/ HitlTimeout(c)
      PROVE  Gate!Next
  <2>1. /\ gate[c].at = "waiting" /\ chan' = chan
        /\ gate' = [gate EXCEPT ![c].at = IF chan[c] = "allow" THEN "allowed" ELSE "denied"]
    BY <1>2 DEF HitlAnswered, HitlTimeout
  <2>2. Gate!Decide(c)
    BY <1>0, <2>1 DEF Gate!Decide, Phase, Delivery, TypeOK, Request
  <2> QED BY <2>2 DEF Gate!Next
<1>3. ASSUME NEW c \in Call, HitlAbandoned(c)
      PROVE  Gate!Next
  <2>1. Gate!Abandon(c)
    BY <1>0, <1>3 DEF HitlAbandoned, Gate!Abandon, Phase, TypeOK, Request
  <2> QED BY <2>1 DEF Gate!Next
<1>4. ASSUME NEW t \in Task, NEW a \in {"allow", "deny"}, ResolveHitl(t, a)
      PROVE  [Gate!Next]_(Gate!vars)
  BY <1>4, AnswerStep DEF ResolveHitl
<1>5. ASSUME NEW t \in Task, NEW k \in Stopper, EmergencyStop(k, t)
      PROVE  [Gate!Next]_(Gate!vars)
  <2>1. CASE t \in known
    BY <1>5, <2>1, AnswerStep DEF EmergencyStop
  <2>2. CASE t \notin known
    BY <1>5, <2>2 DEF EmergencyStop, Gate!vars
  <2> QED BY <2>1, <2>2
<1>6. CASE UNCHANGED <<gate, chan>>
  BY <1>6 DEF Gate!vars
<1> QED BY <1>1, <1>2, <1>3, <1>4, <1>5, <1>6
        DEF HubNext, hubVars, NewTask, RegisterAbort, RunnerFinish, OrchestratorEvent,
            PushUserMessage, Generate, Subscribe, EchoUserMessage, TakeUserMessage,
            StreamEvent, StopPublish, StopFinish

(* The hub's gate is the gate promised to the orchestrator: one answer at  *)
(* most, denial without one, and a verdict that stays (ADR 0017).  That    *)
(* the verdict comes is checked by TLC alone.                              *)
THEOREM HubImplementsGate == HubSafeSpec => Gate!SafeSpec
<1>1. HubInit => Gate!Init
  BY DEF HubInit, Gate!Init, Phase, Delivery
<1>2. HubInv /\ [HubNext]_hubVars => [Gate!Next]_(Gate!vars)
  BY GateStep
<1> QED BY <1>1, <1>2, HubInvariant, PTL DEF HubSafeSpec, Gate!SafeSpec

-----------------------------------------------------------------------------
(* The event stream.  What a subscriber was given and has queued is the    *)
(* log while its receiver has a sender, and the receiver of an open task   *)
(* has one; afterwards the log may only grow past it, unless the entry was *)
(* made by the subscriber itself and replaced when the id was handed out.  *)
Follows(s, log, open) ==
  s.at # "off" =>
    /\ s.at = "ended" => s.closed
    /\ ~s.closed => open
    /\ ~s.lagged => /\ ~s.closed => s.seen \o s.rx = log
                    /\ s.real => IsPrefixOf(s.seen \o s.rx, log)

StreamInv ==
  \A v \in Viewer :
    /\ Follows(sse[v], tasks[sse[v].task].log, tasks[sse[v].task].open)
    /\ sse[v].at # "off" /\ sse[v].real => sse[v].task \in issued

LEMMA StreamIsSound == StreamInv => StreamHasNoGap
  BY DEF StreamInv, StreamHasNoGap, Follows

LEMMA PrefixLemmas ==
  ASSUME NEW S, NEW p \in Seq(S), NEW s \in Seq(S), NEW e \in S
  PROVE  /\ IsPrefixOf(s, s)
         /\ IsPrefixOf(p, s) => IsPrefixOf(p, Append(s, e))
<1>1. Len(p) \in Nat /\ Len(s) \in Nat /\ Len(Append(s, e)) = Len(s) + 1
  OBVIOUS
<1>2. s = SubSeq(s, 1, Len(s))
  OBVIOUS
<1>3. ASSUME Len(p) <= Len(s), p = SubSeq(s, 1, Len(p))
      PROVE  p = SubSeq(Append(s, e), 1, Len(p))
  <2>1. SubSeq(s, 1, Len(p)) = SubSeq(Append(s, e), 1, Len(p))
    BY <1>1, <1>3
  <2> QED
    BY <1>3, <2>1
<1> QED
  BY <1>1, <1>2, <1>3 DEF IsPrefixOf

LEMMA QueuedBehind ==
  ASSUME NEW seen \in Seq(Event), NEW rx \in Seq(Event), NEW e \in Event
  PROVE  seen \o Append(rx, e) = Append(seen \o rx, e)
<1>0. seen \o rx \in Seq(Event)
  OBVIOUS
<1> DEFINE a == seen \o Append(rx, e)
           b == Append(seen \o rx, e)
<1>1. Append(rx, e) \in Seq(Event) /\ Len(Append(rx, e)) = Len(rx) + 1 /\ Len(seen \o rx) = Len(seen) + Len(rx)
  OBVIOUS
<1>2. a \in Seq(Event) /\ b \in Seq(Event) /\ Len(a) = Len(seen) + Len(rx) + 1 /\ Len(b) = Len(a)
  BY <1>0, <1>1
<1>3. ASSUME NEW i \in 1 .. Len(a) PROVE a[i] = b[i]
  <2>1. CASE i <= Len(seen)
    <3>1. a[i] = seen[i]
      BY <1>1, <1>2, <2>1
    <3>2. b[i] = (seen \o rx)[i]
      BY <1>0, <1>1, <1>2, <2>1
    <3> QED
      BY <1>2, <2>1, <3>1, <3>2
  <2>2. CASE i > Len(seen)
    <3>1. a[i] = Append(rx, e)[i - Len(seen)]
      BY <1>1, <1>2, <2>2
    <3>2. CASE i = Len(seen) + Len(rx) + 1
      BY <1>0, <1>1, <3>1, <3>2
    <3>3. CASE i # Len(seen) + Len(rx) + 1
      <4>1. b[i] = (seen \o rx)[i]
        BY <1>0, <1>1, <1>2, <2>2, <3>3
      <4>2. Append(rx, e)[i - Len(seen)] = rx[i - Len(seen)]
        BY <1>2, <2>2, <3>3
      <4>3. (seen \o rx)[i] = rx[i - Len(seen)]
        BY <1>2, <2>2, <3>3
      <4> QED
        BY <3>1, <4>1, <4>2, <4>3
    <3> QED
      BY <3>2, <3>3
  <2> QED
    BY <1>2, <2>1, <2>2
<1> HIDE DEF a, b
<1>4. a = b
  BY <1>2, <1>3
<1> QED
  BY <1>4 DEF a, b

LEMMA QueueLemmas ==
  ASSUME NEW seen \in Seq(Event), NEW rx \in Seq(Event)
  PROVE  /\ seen \o rx \in Seq(Event)
         /\ rx # <<>> => Append(seen, Head(rx)) \o Tail(rx) = seen \o rx
         /\ seen \o <<>> = seen
<1>1. seen \o rx \in Seq(Event) /\ seen \o <<>> = seen
  OBVIOUS
<1>3. ASSUME rx # <<>> PROVE Append(seen, Head(rx)) \o Tail(rx) = seen \o rx
  <2> DEFINE a == Append(seen, Head(rx)) \o Tail(rx)
             b == seen \o rx
  <2>1. /\ Head(rx) \in Event /\ Head(rx) = rx[1] /\ Tail(rx) \in Seq(Event) /\ Len(Tail(rx)) = Len(rx) - 1 /\ Len(rx) \in Nat \ {0}
        /\ Append(seen, Head(rx)) \in Seq(Event) /\ Len(Append(seen, Head(rx))) = Len(seen) + 1
    BY <1>3
  <2>2. a \in Seq(Event) /\ b \in Seq(Event) /\ Len(a) = Len(seen) + Len(rx) /\ Len(b) = Len(a)
    BY <1>1, <2>1
  <2>3. ASSUME NEW i \in 1 .. Len(a) PROVE a[i] = b[i]
    <3>1. CASE i <= Len(seen)
      BY <2>1, <2>2, <3>1
    <3>2. CASE i = Len(seen) + 1
      <4>1. a[i] = Head(rx)
        BY <2>1, <2>2, <3>2
      <4>2. b[i] = rx[1]
        BY <2>1, <2>2, <3>2
      <4> QED
        BY <2>1, <4>1, <4>2
    <3>3. CASE i > Len(seen) + 1
      <4>1. a[i] = Tail(rx)[i - Len(seen) - 1]
        BY <2>1, <2>2, <3>3
      <4>2. b[i] = rx[i - Len(seen)]
        BY <2>1, <2>2, <3>3
      <4> QED
        BY <2>1, <2>2, <3>3, <4>1, <4>2
    <3> QED
      BY <2>2, <3>1, <3>2, <3>3
  <2> HIDE DEF a, b
  <2>4. a = b
    BY <2>2, <2>3
  <2> QED
    BY <2>4 DEF a, b
<1> QED
  BY <1>1, <1>3

(* An event reaches every receiver that has a sender, or it lags. *)
LEMMA FollowsReceived ==
  ASSUME NEW s \in Subscriber, NEW log \in Seq(Event), NEW e \in Event,
         s.at = "on", ~s.closed, Follows(s, log, TRUE)
  PROVE  Follows(Received(s, e), Append(log, e), TRUE)
<1>1. s.seen \in Seq(Event) /\ s.rx \in Seq(Event)
  BY SubscriberFields
<1>2. CASE Len(s.rx) < Lag
  <2>1. /\ Received(s, e).at = s.at /\ Received(s, e).closed = s.closed
        /\ Received(s, e).lagged = s.lagged /\ Received(s, e).real = s.real
        /\ Received(s, e).seen = s.seen /\ Received(s, e).rx = Append(s.rx, e)
    BY <1>2 DEF Received, Subscriber
  <2>2. s.seen \o Append(s.rx, e) = Append(s.seen \o s.rx, e)
    BY <1>1, QueuedBehind
  <2>3. IsPrefixOf(Append(log, e), Append(log, e))
    <3>1. Append(log, e) \in Seq(Event)
      OBVIOUS
    <3> QED
      BY <3>1, PrefixLemmas
  <2> QED
    BY <2>1, <2>2, <2>3 DEF Follows
<1>3. CASE ~(Len(s.rx) < Lag)
  <2>1. /\ Received(s, e).at = s.at /\ Received(s, e).closed = s.closed
        /\ Received(s, e).lagged
    BY <1>3 DEF Received, Subscriber
  <2> QED
    BY <2>1 DEF Follows
<1> QED
  BY <1>2, <1>3

(* What has no sender may stay behind the log. *)
LEMMA FollowsBehind ==
  ASSUME NEW s \in Subscriber, NEW log \in Seq(Event), NEW e \in Event,
         NEW open \in BOOLEAN, NEW after \in BOOLEAN, Follows(s, log, open), s.at = "on" => s.closed
  PROVE  Follows(s, Append(log, e), after)
<1>1. s.seen \in Seq(Event) /\ s.rx \in Seq(Event) /\ s.at \in {"off", "on", "ended"}
  BY SubscriberFields DEF Subscriber
<1>2. s.seen \o s.rx \in Seq(Event)
  BY <1>1
<1>3. IsPrefixOf(s.seen \o s.rx, log) => IsPrefixOf(s.seen \o s.rx, Append(log, e))
  BY <1>2, PrefixLemmas
<1> QED
  BY <1>1, <1>3 DEF Follows

LEMMA FollowsClosed ==
  ASSUME NEW s \in Subscriber, NEW log, NEW open, NEW after, Follows(s, log, open)
  PROVE  Follows([s EXCEPT !.closed = TRUE], log, after)
<1> DEFINE c == [s EXCEPT !.closed = TRUE]
<1>1. /\ c.at = s.at /\ c.closed /\ c.lagged = s.lagged /\ c.real = s.real
      /\ c.seen = s.seen /\ c.rx = s.rx
  BY DEF Subscriber
<1> QED
  BY <1>1 DEF Follows

(* The kill-switch changes three fields of one task's record. *)
LEMMA EmergencyStopShape ==
  ASSUME tasks \in [Task -> TaskState], NEW t \in Task, NEW k \in Stopper, EmergencyStop(k, t),
         tasks' # tasks
  PROVE  \E x : tasks' = [tasks EXCEPT ![t] = [tasks[t] EXCEPT !.stopped = TRUE, !.abort = x,
                                                              !.pending = NoCall]]
<1> DEFINE x == IF tasks[t].abort = "armed" THEN "fired" ELSE tasks[t].abort
<1>1. tasks' = [tasks EXCEPT ![t].stopped = TRUE, ![t].abort = IF @ = "armed" THEN "fired" ELSE @,
                            ![t].pending = NoCall]
  BY DEF EmergencyStop
<1>2. tasks[t] \in TaskState
  OBVIOUS
<1>3. tasks' = [tasks EXCEPT ![t] = [tasks[t] EXCEPT !.stopped = TRUE, !.abort = x, !.pending = NoCall]]
  BY <1>1, <1>2 DEF TaskState
<1> QED
  BY <1>3

(* What a handler assigns besides the log and the sender. *)
LEMMA OtherRecord ==
  ASSUME NEW s \in TaskState, NEW x
  PROVE  /\ [s EXCEPT !.abort = x].log = s.log /\ [s EXCEPT !.abort = x].open = s.open
         /\ [s EXCEPT !.pending = x].log = s.log /\ [s EXCEPT !.pending = x].open = s.open
         /\ [s EXCEPT !.inbox = x].log = s.log /\ [s EXCEPT !.inbox = x].open = s.open
         /\ \A y : LET r == [s EXCEPT !.stopped = TRUE, !.abort = x, !.pending = y]
                   IN  r.log = s.log /\ r.open = s.open
  BY DEF TaskState

LEMMA OtherFields ==
  ASSUME tasks \in [Task -> TaskState], NEW t \in Task, NEW r,
         tasks' = [tasks EXCEPT ![t] = r], r.log = tasks[t].log, r.open = tasks[t].open
  PROVE  \A u \in Task : tasks'[u].log = tasks[u].log /\ tasks'[u].open = tasks[u].open
<1>1. tasks'[t] = r /\ \A u \in Task \ {t} : tasks'[u] = tasks[u]
  OBVIOUS
<1> QED
  BY <1>1

LEMMA StreamInvStep ==
  ASSUME TypeOK, StreamInv, [HubNext]_hubVars
  PROVE  StreamInv'
<1>0. /\ tasks \in [Task -> TaskState] /\ sse \in [Viewer -> Subscriber]
      /\ \A t \in Task : tasks[t].log \in Seq(Event) /\ tasks[t].open \in BOOLEAN
      /\ \A v \in Viewer : sse[v].task \in Task
  BY TaskFields, SubscriberFields DEF TypeOK
<1>1. ASSUME UNCHANGED <<sse, issued>>,
             \A t \in Task : tasks'[t].log = tasks[t].log /\ tasks'[t].open = tasks[t].open
      PROVE  StreamInv'
  BY <1>0, <1>1 DEF StreamInv
<1>2. ASSUME NEW t \in Task, NEW e \in Event, Publish(t, e), UNCHANGED issued
      PROVE  StreamInv'
  <2>1. /\ tasks'[t].log = Append(tasks[t].log, e) /\ tasks'[t].open = tasks[t].open
        /\ \A u \in Task \ {t} : tasks'[u] = tasks[u]
    BY <1>0, <1>2 DEF Publish, TaskState
  <2> SUFFICES ASSUME NEW v \in Viewer
               PROVE  /\ Follows(sse'[v], tasks'[sse'[v].task].log, tasks'[sse'[v].task].open)
                      /\ sse'[v].at # "off" /\ sse'[v].real => sse'[v].task \in issued
    BY <1>2 DEF StreamInv
  <2>2. /\ Follows(sse[v], tasks[sse[v].task].log, tasks[sse[v].task].open)
        /\ sse[v].at # "off" /\ sse[v].real => sse[v].task \in issued
    BY DEF StreamInv
  <2>3. CASE sse[v].at = "on" /\ sse[v].task = t /\ ~sse[v].closed
    <3>1. tasks[t].open
      BY <2>2, <2>3 DEF Follows
    <3>2. sse'[v] = Received(sse[v], e)
      BY <1>0, <1>2, <2>3, <3>1 DEF Publish, Delivered
    <3>3. Received(sse[v], e).task = t /\ Received(sse[v], e).real = sse[v].real
      BY <1>0, <2>3 DEF Received, Subscriber
    <3>4. Follows(Received(sse[v], e), Append(tasks[t].log, e), TRUE)
      <4>1. Follows(sse[v], tasks[t].log, TRUE)
        BY <2>2, <2>3, <3>1 DEF Follows
      <4> QED
        BY <1>0, <2>3, <4>1, FollowsReceived
    <3>5. tasks'[t].open = TRUE /\ sse'[v].task = t /\ sse'[v].real = sse[v].real
      BY <1>0, <2>1, <3>1, <3>2, <3>3
    <3>6. Follows(sse'[v], tasks'[sse'[v].task].log, tasks'[sse'[v].task].open)
      BY <2>1, <3>2, <3>4, <3>5
    <3> QED
      BY <2>2, <2>3, <3>5, <3>6
  <2>4. CASE ~(sse[v].at = "on" /\ sse[v].task = t /\ ~sse[v].closed)
    <3>1. sse'[v] = sse[v]
      BY <1>0, <1>2, <2>4 DEF Publish, Delivered
    <3>2. CASE sse[v].task = t
      <4>1. sse[v] \in Subscriber /\ tasks[t].log \in Seq(Event) /\ tasks[t].open \in BOOLEAN
        BY <1>0
      <4>2. Follows(sse[v], Append(tasks[t].log, e), tasks[t].open)
        BY <2>2, <2>4, <3>2, <4>1, FollowsBehind
      <4> QED
        BY <2>1, <2>2, <3>1, <3>2, <4>2
    <3>3. CASE sse[v].task # t
      BY <1>0, <2>1, <2>2, <3>1, <3>3
    <3> QED
      BY <3>2, <3>3
  <2> QED
    BY <2>3, <2>4
<1>3. ASSUME NEW t \in Task, sse' = ReceiversClosed(t), issued \subseteq issued',
             \A u \in Task \ {t} : tasks'[u] = tasks[u],
             tasks'[t].log = tasks[t].log \/ t \notin issued
      PROVE  StreamInv'
  <2> SUFFICES ASSUME NEW v \in Viewer
               PROVE  /\ Follows(sse'[v], tasks'[sse'[v].task].log, tasks'[sse'[v].task].open)
                      /\ sse'[v].at # "off" /\ sse'[v].real => sse'[v].task \in issued'
    BY DEF StreamInv
  <2>1. /\ Follows(sse[v], tasks[sse[v].task].log, tasks[sse[v].task].open)
        /\ sse[v].at # "off" /\ sse[v].real => sse[v].task \in issued
    BY DEF StreamInv
  <2>2. CASE sse[v].at = "on" /\ sse[v].task = t
    <3>1. sse'[v] = [sse[v] EXCEPT !.closed = TRUE]
      BY <1>0, <1>3, <2>2 DEF ReceiversClosed
    <3>2. /\ sse'[v].at = sse[v].at /\ sse'[v].real = sse[v].real /\ sse'[v].task = t
          /\ sse'[v].closed /\ sse'[v].at # "ended"
      BY <1>0, <2>2, <3>1 DEF Subscriber
    <3>3. CASE tasks'[t].log = tasks[t].log
      BY <1>0, <1>3, <2>1, <2>2, <3>1, <3>2, <3>3, FollowsClosed
    <3>4. CASE t \notin issued
      BY <1>3, <2>1, <2>2, <3>2, <3>4 DEF Follows
    <3> QED
      BY <1>3, <3>3, <3>4
  <2>3. CASE sse[v].at # "on" \/ sse[v].task # t
    <3>1. sse'[v] = sse[v]
      BY <1>0, <1>3, <2>3 DEF ReceiversClosed
    <3>2. CASE sse[v].task # t
      BY <1>0, <1>3, <2>1, <3>1, <3>2
    <3>3. CASE sse[v].at # "on" /\ sse[v].task = t
      <4>1. sse[v].at \in {"off", "ended"}
        BY <1>0, <3>3 DEF Subscriber
      <4> QED
        BY <1>3, <2>1, <3>1, <3>3, <4>1 DEF Follows
    <3> QED
      BY <2>3, <3>2, <3>3
  <2> QED
    BY <2>2, <2>3
<1>4. ASSUME NEW t \in Task, NewTask(t) PROVE StreamInv'
  <2>1. \A u \in Task \ {t} : tasks'[u] = tasks[u]
    BY <1>0, <1>4 DEF NewTask
  <2> QED
    BY <1>3, <1>4, <2>1 DEF NewTask
<1>5. ASSUME NEW t \in Task, FinishTask(t), UNCHANGED issued PROVE StreamInv'
  <2>1. (\A u \in Task \ {t} : tasks'[u] = tasks[u]) /\ tasks'[t].log = tasks[t].log
    BY <1>0, <1>5 DEF FinishTask, TaskState
  <2> QED
    BY <1>3, <1>5, <2>1 DEF FinishTask
<1>6. ASSUME NEW t \in Task, NEW w \in Viewer, Subscribe(w, t) PROVE StreamInv'
  <2>1. /\ tasks' = tasks /\ issued' = issued
        /\ sse'[w] = [at |-> "on", task |-> t, closed |-> ~tasks[t].open, lagged |-> FALSE,
                      real |-> t \in issued, seen |-> tasks[t].log, rx |-> <<>>]
        /\ \A v \in Viewer \ {w} : sse'[v] = sse[v]
    BY <1>0, <1>6 DEF Subscribe
  <2>2. tasks[t].log \o <<>> = tasks[t].log /\ IsPrefixOf(tasks[t].log, tasks[t].log)
    <3>1. tasks[t].log \in Seq(Event)
      BY <1>0
    <3> QED
      BY <3>1, <1>0, PrefixLemmas DEF IsPrefixOf
  <2>3. /\ sse'[w].at = "on" /\ sse'[w].task = t /\ sse'[w].seen = tasks[t].log /\ sse'[w].rx = <<>>
        /\ sse'[w].closed = ~tasks[t].open /\ sse'[w].real = (t \in issued)
    BY <2>1
  <2>4. Follows(sse'[w], tasks[t].log, tasks[t].open)
    BY <2>2, <2>3 DEF Follows
  <2> QED
    BY <2>1, <2>3, <2>4 DEF StreamInv
<1>7. ASSUME NEW w \in Viewer, StreamEvent(w) PROVE StreamInv'
  <2>1. tasks' = tasks /\ issued' = issued /\ \A v \in Viewer \ {w} : sse'[v] = sse[v]
    BY <1>0, <1>7 DEF StreamEvent
  <2>2. Follows(sse[w], tasks[sse[w].task].log, tasks[sse[w].task].open)
    BY DEF StreamInv
  <2> DEFINE Goes == /\ Follows(sse'[w], tasks[sse[w].task].log, tasks[sse[w].task].open)
                     /\ sse'[w].task = sse[w].task /\ sse'[w].real = sse[w].real
                     /\ sse[w].at # "off"
  <2>3. Goes
    <3>1. sse[w] \in Subscriber /\ sse[w].at = "on"
      BY <1>0, <1>7 DEF StreamEvent
    <3>2. ASSUME sse[w].rx # <<>>,
                 sse' = [sse EXCEPT ![w].seen = Append(@, Head(sse[w].rx)), ![w].rx = Tail(@)]
          PROVE  Goes
      <4>1. sse'[w] = [sse[w] EXCEPT !.seen = Append(sse[w].seen, Head(sse[w].rx)),
                                     !.rx = Tail(sse[w].rx)]
        BY <1>0, <3>1, <3>2 DEF Subscriber
      <4>2. /\ sse'[w].at = "on" /\ sse'[w].closed = sse[w].closed /\ sse'[w].real = sse[w].real
            /\ sse'[w].lagged = sse[w].lagged /\ sse'[w].task = sse[w].task
            /\ sse'[w].seen = Append(sse[w].seen, Head(sse[w].rx)) /\ sse'[w].rx = Tail(sse[w].rx)
        BY <3>1, <4>1 DEF Subscriber
      <4>3. sse'[w].seen \o sse'[w].rx = sse[w].seen \o sse[w].rx
        <5>1. sse[w].seen \in Seq(Event) /\ sse[w].rx \in Seq(Event)
          BY <3>1, SubscriberFields
        <5>2. Head(sse[w].rx) \in Event
          BY <3>2, <5>1, SeqParts
        <5> QED
          BY <3>2, <4>2, <5>1, <5>2, QueueLemmas
      <4> QED
        BY <2>2, <3>1, <4>2, <4>3 DEF Follows
    <3>3. ASSUME sse[w].closed, sse' = [sse EXCEPT ![w].at = "ended"]
          PROVE  Goes
      <4>1. /\ sse'[w].at = "ended" /\ sse'[w].closed = sse[w].closed /\ sse'[w].real = sse[w].real
            /\ sse'[w].lagged = sse[w].lagged /\ sse'[w].task = sse[w].task
            /\ sse'[w].seen = sse[w].seen /\ sse'[w].rx = sse[w].rx
        BY <1>0, <3>1, <3>3 DEF Subscriber
      <4> QED
        BY <2>2, <3>1, <3>3, <4>1 DEF Follows
    <3> QED
      BY <1>7, <3>1, <3>2, <3>3 DEF StreamEvent
  <2> QED
    BY <2>1, <2>3 DEF StreamInv
<1>8. ASSUME NEW t \in Task, \/ RegisterAbort(t)
                             \/ \E c \in Call : RequestHitl(c, t)
                             \/ \E a \in {"allow", "deny"} : ResolveHitl(t, a)
                             \/ \E m \in Msg : PushUserMessage(m, t)
                             \/ \E k \in Stopper : EmergencyStop(k, t)
                             \/ \E g \in Gen, w \in BOOLEAN : Generate(g, t, w)
      PROVE  StreamInv'
  <2>1. UNCHANGED <<sse, issued>>
    BY <1>8 DEF RegisterAbort, RequestHitl, ResolveHitl, PushUserMessage, EmergencyStop, Generate
  <2>2. ASSUME NEW r, tasks' = [tasks EXCEPT ![t] = r], r.log = tasks[t].log, r.open = tasks[t].open
        PROVE  StreamInv'
    BY <1>0, <1>1, <2>1, <2>2, OtherFields
  <2>3. CASE tasks' = tasks
    BY <1>1, <2>1, <2>3
  <2>4. CASE RegisterAbort(t)
    <3>1. PICK x : tasks' = [tasks EXCEPT ![t] = [tasks[t] EXCEPT !.abort = x]]
      BY <2>4 DEF RegisterAbort
    <3> QED
      BY <1>0, <2>2, <3>1, OtherRecord
  <2>5. CASE (\E c \in Call : RequestHitl(c, t)) \/ \E a \in {"allow", "deny"} : ResolveHitl(t, a)
    <3>1. PICK x : tasks' = [tasks EXCEPT ![t] = [tasks[t] EXCEPT !.pending = x]]
      BY <2>5 DEF RequestHitl, ResolveHitl
    <3> QED
      BY <1>0, <2>2, <3>1, OtherRecord
  <2>6. ASSUME NEW m \in Msg, PushUserMessage(m, t), tasks' # tasks PROVE StreamInv'
    <3>1. PICK x : tasks' = [tasks EXCEPT ![t] = [tasks[t] EXCEPT !.inbox = x]]
      BY <2>6 DEF PushUserMessage
    <3> QED
      BY <1>0, <2>2, <3>1, OtherRecord
  <2>7. ASSUME NEW k \in Stopper, EmergencyStop(k, t), tasks' # tasks PROVE StreamInv'
    <3>1. PICK x : tasks' = [tasks EXCEPT ![t] = [tasks[t] EXCEPT !.stopped = TRUE, !.abort = x,
                                                                  !.pending = NoCall]]
      BY <1>0, <2>7, EmergencyStopShape
    <3> DEFINE r == [tasks[t] EXCEPT !.stopped = TRUE, !.abort = x, !.pending = NoCall]
    <3>2. r.log = tasks[t].log /\ r.open = tasks[t].open
      BY <1>0, OtherRecord
    <3>3. tasks' = [tasks EXCEPT ![t] = r]
      BY <3>1
    <3> HIDE DEF r
    <3> QED
      BY <2>2, <3>2, <3>3
  <2>8. ASSUME NEW g \in Gen, NEW w \in BOOLEAN, Generate(g, t, w) PROVE tasks' = tasks
    BY <2>8 DEF Generate
  <2> QED
    BY <1>8, <2>3, <2>4, <2>5, <2>6, <2>7, <2>8
<1>9. ASSUME NEW c \in Call, HitlAnswered(c) \/ HitlTimeout(c) \/ HitlAbandoned(c)
      PROVE  StreamInv'
  BY <1>1, <1>9 DEF HitlAnswered, HitlTimeout, HitlAbandoned
<1>10. ASSUME NEW g \in Gen, TakeUserMessage(g) PROVE StreamInv'
  <2>1. UNCHANGED <<sse, issued>> /\ gen[g].task \in Task
    BY <1>10 DEF TakeUserMessage, TypeOK, Draining
  <2>2. tasks' = tasks \/ \E x : tasks' = [tasks EXCEPT ![gen[g].task] = [tasks[gen[g].task] EXCEPT !.inbox = x]]
    BY <1>10 DEF TakeUserMessage
  <2>3. \A u \in Task : tasks'[u].log = tasks[u].log /\ tasks'[u].open = tasks[u].open
    <3>1. ASSUME NEW x, tasks' = [tasks EXCEPT ![gen[g].task] = [tasks[gen[g].task] EXCEPT !.inbox = x]]
          PROVE  <2>3
      BY <1>0, <2>1, <3>1, OtherRecord, OtherFields
    <3> QED
      BY <2>2, <3>1
  <2> QED
    BY <1>1, <2>1, <2>3
<1>11. ASSUME NEW m \in Msg, EchoUserMessage(m) PROVE StreamInv'
  <2>1. post[m].task \in Task /\ m \in Event
    BY DEF TypeOK, Posted, Event
  <2> QED
    BY <1>2, <1>11, <2>1 DEF EchoUserMessage
<1>12. ASSUME NEW k \in Stopper, StopPublish(k) \/ StopFinish(k) PROVE StreamInv'
  <2>1. stop[k].task \in Task /\ "error" \in Event
    BY DEF TypeOK, Stopping, Event
  <2> QED
    BY <1>2, <1>5, <1>12, <2>1 DEF StopPublish, StopFinish
<1>13. ASSUME NEW t \in Task, RunnerFinish(t) \/ \E e \in {"progress", "error"} : OrchestratorEvent(t, e)
       PROVE  StreamInv'
  BY <1>2, <1>5, <1>13 DEF RunnerFinish, OrchestratorEvent, Event
<1>14. CASE UNCHANGED hubVars
  BY <1>1, <1>14 DEF hubVars
<1> QED
  BY <1>4, <1>6, <1>7, <1>8, <1>9, <1>10, <1>11, <1>12, <1>13, <1>14 DEF HubNext

(* A subscriber that keeps up has the log without gap or repetition, for   *)
(* any number of them and any capacity of the channel (`subscribe`,        *)
(* `publish`, `finish_task`).                                              *)
THEOREM StreamsAreWhole == HubSafeSpec => []StreamHasNoGap
<1>1. HubInit => StreamInv
  <2> SUFFICES ASSUME HubInit, NEW v \in Viewer PROVE sse[v].at = "off"
    BY DEF StreamInv, Follows
  <2> QED
    BY DEF HubInit
<1>2. TypeOK /\ StreamInv /\ [HubNext]_hubVars => StreamInv'
  BY StreamInvStep
<1> QED
  BY <1>1, <1>2, StreamIsSound, HubTypes, PTL DEF HubSafeSpec

-----------------------------------------------------------------------------
(* The user's messages.  An accepted one is in one place and in it once;   *)
(* what was accepted for an id before it was handed out may be lost with   *)
(* the entry it was for.                                                   *)
Holds(s, m) == \E i \in DOMAIN s : s[i] = m
Distinct(s) == \A i, j \in DOMAIN s : s[i] = s[j] => i = j

Accepted(m) == post[m].at \in {"queued", "echoed"}
InInbox(m, t) == Holds(tasks[t].inbox, m)
InTurns(m, g) == Holds(gen[g].turns, m)

PlacesAreOwn ==
  /\ \A t \in Task : /\ Distinct(tasks[t].inbox)
                     /\ \A m \in Msg : InInbox(m, t) => Accepted(m) /\ post[m].task = t
  /\ \A g \in Gen : /\ Distinct(gen[g].turns)
                    /\ gen[g].at = "idle" => gen[g].turns = <<>>
                    /\ \A m \in Msg : InTurns(m, g) => Accepted(m) /\ post[m].task = gen[g].task
  /\ \A g \in Gen, m \in Msg : InTurns(m, g) =>
       /\ \A t \in Task : ~InInbox(m, t)
       /\ \A h \in Gen \ {g} : ~InTurns(m, h)

RealOnesAreKept ==
  \A m \in Msg, t \in Task : Accepted(m) /\ post[m].real /\ post[m].task = t =>
    t \in issued /\ (InInbox(m, t) \/ \E g \in Gen : InTurns(m, g))

MessageInv == PlacesAreOwn /\ RealOnesAreKept

LEMMA AppendHolds ==
  ASSUME NEW s \in Seq(Msg), NEW x \in Msg
  PROVE  /\ \A m \in Msg : Holds(Append(s, x), m) <=> Holds(s, m) \/ m = x
         /\ Distinct(s) /\ ~Holds(s, x) => Distinct(Append(s, x))
<1>1. /\ DOMAIN s = 1 .. Len(s) /\ DOMAIN Append(s, x) = 1 .. Len(s) + 1 /\ Len(s) \in Nat
      /\ Append(s, x)[Len(s) + 1] = x
      /\ \A i \in 1 .. Len(s) : Append(s, x)[i] = s[i]
  OBVIOUS
<1>2. \A i \in 1 .. Len(s) + 1 : i \in 1 .. Len(s) \/ i = Len(s) + 1
  BY <1>1
<1>3. \A i \in 1 .. Len(s) : i \in 1 .. Len(s) + 1
  BY <1>1
<1>4. Len(s) + 1 \in 1 .. Len(s) + 1
  BY <1>1
<1>5. \A m \in Msg : Holds(Append(s, x), m) <=> Holds(s, m) \/ m = x
  BY <1>1, <1>2, <1>3, <1>4 DEF Holds
<1>6. ASSUME Distinct(s), ~Holds(s, x) PROVE Distinct(Append(s, x))
  BY <1>1, <1>2, <1>6 DEF Distinct, Holds
<1> QED
  BY <1>5, <1>6

LEMMA TailHolds ==
  ASSUME NEW s \in Seq(Msg), s # <<>>, Distinct(s)
  PROVE  /\ Head(s) \in Msg /\ Tail(s) \in Seq(Msg) /\ Holds(s, Head(s)) /\ Distinct(Tail(s))
         /\ \A m \in Msg : Holds(Tail(s), m) <=> Holds(s, m) /\ m # Head(s)
<1>1. /\ Len(s) \in Nat \ {0} /\ DOMAIN s = 1 .. Len(s) /\ DOMAIN Tail(s) = 1 .. Len(s) - 1
      /\ Head(s) = s[1] /\ Head(s) \in Msg /\ Tail(s) \in Seq(Msg)
      /\ \A i \in 1 .. Len(s) - 1 : Tail(s)[i] = s[i + 1]
  OBVIOUS
<1>2. 1 \in DOMAIN s /\ \A i \in 1 .. Len(s) - 1 : i + 1 \in DOMAIN s /\ i + 1 # 1 /\ (i + 1) - 1 = i
  BY <1>1
<1>3. \A j \in DOMAIN s : j # 1 => j - 1 \in 1 .. Len(s) - 1 /\ (j - 1) + 1 = j
  BY <1>1
<1>4. Distinct(Tail(s))
  <2> SUFFICES ASSUME NEW i \in DOMAIN Tail(s), NEW j \in DOMAIN Tail(s), Tail(s)[i] = Tail(s)[j]
               PROVE  i = j
    BY DEF Distinct
  <2>1. s[i + 1] = s[j + 1] /\ i + 1 \in DOMAIN s /\ j + 1 \in DOMAIN s
    BY <1>1, <1>2
  <2>2. i + 1 = j + 1
    BY <2>1 DEF Distinct
  <2> QED
    BY <1>1, <2>2
<1>5. ASSUME NEW m \in Msg, Holds(Tail(s), m) PROVE Holds(s, m) /\ m # Head(s)
  <2>1. PICK i \in 1 .. Len(s) - 1 : s[i + 1] = m
    BY <1>1, <1>5 DEF Holds
  <2>2. i + 1 \in DOMAIN s /\ i + 1 # 1
    BY <1>2
  <2> QED
    BY <1>1, <1>2, <2>1, <2>2 DEF Holds, Distinct
<1>6. ASSUME NEW m \in Msg, Holds(s, m), m # Head(s) PROVE Holds(Tail(s), m)
  <2>1. PICK j \in DOMAIN s : s[j] = m
    BY <1>6 DEF Holds
  <2>2. j # 1
    BY <1>1, <1>6, <2>1
  <2>3. Tail(s)[j - 1] = s[j] /\ j - 1 \in DOMAIN Tail(s)
    BY <1>1, <1>3, <2>2
  <2> QED
    BY <2>1, <2>3 DEF Holds
<1> QED
  BY <1>1, <1>2, <1>4, <1>5, <1>6 DEF Holds

LEMMA EmptyHolds == Distinct(<<>>) /\ \A m : ~Holds(<<>>, m)
  BY DEF Distinct, Holds

LEMMA OccurrencesCount ==
  ASSUME NEW s, Distinct(s), NEW m
  PROVE  /\ Holds(s, m) => Occurrences(m, s) = 1
         /\ ~Holds(s, m) => Occurrences(m, s) = 0
<1> DEFINE places == {i \in DOMAIN s : s[i] = m}
<1>1. ASSUME Holds(s, m) PROVE Occurrences(m, s) = 1
  <2>1. PICK i \in DOMAIN s : s[i] = m
    BY <1>1 DEF Holds
  <2>2. places = {i}
    BY <2>1 DEF Distinct
  <2>3. Cardinality({i}) = 1
    BY FS_Singleton
  <2> QED
    BY <2>2, <2>3 DEF Occurrences
<1>2. ASSUME ~Holds(s, m) PROVE Occurrences(m, s) = 0
  <2>1. places = {}
    BY <1>2 DEF Holds
  <2> QED
    BY <2>1, FS_EmptySet DEF Occurrences
<1> QED
  BY <1>1, <1>2

(* One place is what the property counts. *)
LEMMA GuidanceIsSound ==
  ASSUME TypeOK, MessageInv
  PROVE  GuidanceGoesToOneTurn
<1> DEFINE Counts(m) ==
      LET holders == {g \in Gen : Occurrences(m, gen[g].turns) > 0}
          queued == Occurrences(m, tasks[post[m].task].inbox)
      IN  /\ queued + Cardinality(holders) = 1
          /\ \A g \in holders : gen[g].task = post[m].task /\ Occurrences(m, gen[g].turns) = 1
<1>1. ASSUME NEW m \in Msg, Accepted(m), post[m].real PROVE Counts(m)
  <2> DEFINE holders == {g \in Gen : Occurrences(m, gen[g].turns) > 0}
             queued == Occurrences(m, tasks[post[m].task].inbox)
  <2>1. PICK t \in Task : t = post[m].task
    BY DEF TypeOK, Posted
  <2>2. \A g \in Gen : /\ InTurns(m, g) => Occurrences(m, gen[g].turns) = 1
                       /\ ~InTurns(m, g) => Occurrences(m, gen[g].turns) = 0
    BY OccurrencesCount DEF MessageInv, PlacesAreOwn, InTurns
  <2>3. (InInbox(m, t) => queued = 1) /\ (~InInbox(m, t) => queued = 0)
    BY <2>1, OccurrencesCount DEF MessageInv, PlacesAreOwn, InInbox
  <2>4. holders = {g \in Gen : InTurns(m, g)}
    BY <2>2
  <2>5. \A g \in holders : gen[g].task = post[m].task /\ Occurrences(m, gen[g].turns) = 1
    BY <2>2, <2>4 DEF MessageInv, PlacesAreOwn
  <2>6. CASE InInbox(m, t)
    <3>1. holders = {}
      BY <2>4, <2>6 DEF MessageInv, PlacesAreOwn
    <3>2. Cardinality(holders) = 0
      BY <3>1, FS_EmptySet
    <3> HIDE DEF holders, queued
    <3>3. queued + Cardinality(holders) = 1
      BY <2>3, <2>6, <3>2
    <3> QED
      BY <2>5, <3>3 DEF holders, queued
  <2>7. CASE ~InInbox(m, t)
    <3>1. PICK g \in Gen : InTurns(m, g)
      BY <1>1, <2>1, <2>7 DEF MessageInv, RealOnesAreKept
    <3>2. holders = {g}
      BY <2>4, <3>1 DEF MessageInv, PlacesAreOwn
    <3>3. Cardinality(holders) = 1
      BY <3>2, FS_Singleton
    <3> HIDE DEF holders, queued
    <3>4. queued + Cardinality(holders) = 1
      BY <2>3, <2>7, <3>3
    <3> QED
      BY <2>5, <3>4 DEF holders, queued
  <2> QED
    BY <2>6, <2>7
<1> QED
  BY <1>1 DEF GuidanceGoesToOneTurn, Accepted

(* A step that moves no message. *)
LEMMA MessagesUntouched ==
  ASSUME MessageInv, issued \subseteq issued', UNCHANGED <<post, gen>>,
         \A t \in Task : tasks'[t].inbox = tasks[t].inbox
  PROVE  MessageInv'
  BY DEF MessageInv, PlacesAreOwn, RealOnesAreKept, Accepted, InInbox, InTurns

LEMMA InboxUntouched ==
  ASSUME tasks \in [Task -> TaskState], NEW t \in Task, NEW r,
         tasks' = [tasks EXCEPT ![t] = r], r.inbox = tasks[t].inbox
  PROVE  \A u \in Task : tasks'[u].inbox = tasks[u].inbox
<1>1. tasks'[t] = r /\ \A u \in Task \ {t} : tasks'[u] = tasks[u]
  OBVIOUS
<1> QED
  BY <1>1

LEMMA OtherThanInbox ==
  ASSUME NEW s \in TaskState, NEW x
  PROVE  /\ [s EXCEPT !.abort = x].inbox = s.inbox
         /\ [s EXCEPT !.pending = x].inbox = s.inbox
         /\ [s EXCEPT !.log = x].inbox = s.inbox
         /\ [s EXCEPT !.open = x].inbox = s.inbox
         /\ \A y : [s EXCEPT !.stopped = TRUE, !.abort = x, !.pending = y].inbox = s.inbox
  BY DEF TaskState

LEMMA MessageInvStep ==
  ASSUME TypeOK, MessageInv, [HubNext]_hubVars
  PROVE  MessageInv'
<1>0. /\ tasks \in [Task -> TaskState] /\ gen \in [Gen -> Draining] /\ post \in [Msg -> Posted]
      /\ \A t \in Task : tasks[t].inbox \in Seq(Msg)
      /\ \A g \in Gen : gen[g].turns \in Seq(Msg) /\ gen[g].task \in Task
  BY TaskFields DEF TypeOK, Draining
<1>1. ASSUME issued \subseteq issued', UNCHANGED <<post, gen>>, NEW t \in Task, NEW r,
             tasks' = [tasks EXCEPT ![t] = r], r.inbox = tasks[t].inbox
      PROVE  MessageInv'
  BY <1>0, <1>1, InboxUntouched, MessagesUntouched
<1>2. ASSUME NEW t \in Task, NEW e \in Event, Publish(t, e)
      PROVE  \A u \in Task : tasks'[u].inbox = tasks[u].inbox
  <2>1. PICK x : tasks' = [tasks EXCEPT ![t] = [tasks[t] EXCEPT !.log = x]]
    BY <1>2 DEF Publish
  <2> QED
    BY <1>0, <2>1, OtherThanInbox, InboxUntouched
<1>3. ASSUME NEW t \in Task, FinishTask(t)
      PROVE  \A u \in Task : tasks'[u].inbox = tasks[u].inbox
  <2>1. tasks' = [tasks EXCEPT ![t] = [tasks[t] EXCEPT !.open = FALSE]]
    BY <1>3 DEF FinishTask
  <2> QED
    BY <1>0, <2>1, OtherThanInbox, InboxUntouched
<1>4. ASSUME NEW t \in Task, NewTask(t) PROVE MessageInv'
  <2>1. /\ tasks'[t].inbox = <<>> /\ (\A u \in Task \ {t} : tasks'[u] = tasks[u])
        /\ post' = post /\ gen' = gen /\ issued \subseteq issued' /\ t \notin issued
    BY <1>0, <1>4 DEF NewTask, Fresh
  <2>2. \A m \in Msg, u \in Task : InInbox(m, u)' <=> InInbox(m, u) /\ u # t
    BY <2>1, EmptyHolds DEF InInbox
  <2>3. \A m \in Msg : (Accepted(m)' <=> Accepted(m)) /\ \A g \in Gen : InTurns(m, g)' <=> InTurns(m, g)
    BY <2>1 DEF Accepted, InTurns
  <2>4. PlacesAreOwn'
    BY <2>1, <2>2, <2>3, EmptyHolds DEF MessageInv, PlacesAreOwn
  <2>5. RealOnesAreKept'
    BY <2>1, <2>2, <2>3 DEF MessageInv, RealOnesAreKept
  <2> QED
    BY <2>4, <2>5 DEF MessageInv
<1>5. ASSUME NEW t \in Task, NEW m \in Msg, PushUserMessage(m, t) PROVE MessageInv'
  <2>1. /\ ~Accepted(m) /\ gen' = gen /\ issued' = issued
        /\ \A n \in Msg \ {m} : post'[n] = post[n]
    BY <1>0, <1>5 DEF PushUserMessage, Accepted
  <2>2. /\ \A n \in Msg \ {m} : Accepted(n)' <=> Accepted(n)
        /\ \A n \in Msg : \A g \in Gen : InTurns(n, g)' <=> InTurns(n, g)
        /\ \A u \in Task : ~InInbox(m, u)
        /\ \A g \in Gen : ~InTurns(m, g)
    BY <2>1 DEF MessageInv, PlacesAreOwn, Accepted, InTurns
  <2>3. CASE t \in known /\ tasks' = [tasks EXCEPT ![t].inbox = Append(@, m)]
             /\ post' = [post EXCEPT ![m] = [at |-> "queued", task |-> t, real |-> t \in issued]]
    <3>1. /\ tasks'[t].inbox = Append(tasks[t].inbox, m)
          /\ \A u \in Task \ {t} : tasks'[u] = tasks[u]
      BY <1>0, <2>3 DEF TaskState
    <3>2. post'[m].at = "queued" /\ post'[m].task = t /\ post'[m].real = (t \in issued)
      BY <1>0, <2>3
    <3>3. \A n \in Msg, u \in Task : InInbox(n, u)' <=> InInbox(n, u) \/ (n = m /\ u = t)
      <4> SUFFICES ASSUME NEW n \in Msg, NEW u \in Task
                   PROVE  InInbox(n, u)' <=> InInbox(n, u) \/ (n = m /\ u = t)
        OBVIOUS
      <4>1. CASE u = t
        <5>1. Holds(Append(tasks[t].inbox, m), n) <=> Holds(tasks[t].inbox, n) \/ n = m
          BY <1>0, AppendHolds
        <5> QED
          BY <3>1, <4>1, <5>1 DEF InInbox
      <4>2. CASE u # t
        BY <3>1, <4>2 DEF InInbox
      <4> QED
        BY <4>1, <4>2
    <3>4. Distinct(tasks'[t].inbox)
      BY <1>0, <2>2, <3>1, AppendHolds DEF MessageInv, PlacesAreOwn, InInbox
    <3>5. Accepted(m)'
      BY <3>2 DEF Accepted
    <3>6. PlacesAreOwn'
      <4>1. \A u \in Task : Distinct(tasks'[u].inbox)
        BY <3>1, <3>4 DEF MessageInv, PlacesAreOwn
      <4>2. \A u \in Task : \A n \in Msg : InInbox(n, u)' => Accepted(n)' /\ post'[n].task = u
        BY <2>1, <2>2, <3>2, <3>3, <3>5 DEF MessageInv, PlacesAreOwn
      <4>3. \A g \in Gen : \A n \in Msg : InTurns(n, g)' => Accepted(n)' /\ post'[n].task = gen'[g].task
        BY <2>1, <2>2 DEF MessageInv, PlacesAreOwn
      <4>4. \A g \in Gen, n \in Msg : InTurns(n, g)' =>
              /\ \A u \in Task : ~InInbox(n, u)'
              /\ \A h \in Gen \ {g} : ~InTurns(n, h)'
        BY <2>2, <3>3 DEF MessageInv, PlacesAreOwn
      <4> QED
        BY <2>1, <4>1, <4>2, <4>3, <4>4 DEF MessageInv, PlacesAreOwn
    <3>7. RealOnesAreKept'
      BY <2>1, <2>2, <3>2, <3>3 DEF MessageInv, RealOnesAreKept
    <3> QED
      BY <3>6, <3>7 DEF MessageInv
  <2>4. CASE tasks' = tasks /\ post' = [post EXCEPT ![m] = [at |-> "refused", task |-> t, real |-> FALSE]]
    <3>1. ~Accepted(m)'
      BY <1>0, <2>4 DEF Accepted
    <3>2. \A n \in Msg, u \in Task : InInbox(n, u)' <=> InInbox(n, u)
      BY <2>4 DEF InInbox
    <3>3. PlacesAreOwn'
      BY <2>1, <2>2, <2>4, <3>2 DEF MessageInv, PlacesAreOwn
    <3>4. RealOnesAreKept'
      BY <2>1, <2>2, <3>1, <3>2 DEF MessageInv, RealOnesAreKept
    <3> QED
      BY <3>3, <3>4 DEF MessageInv
  <2> QED
    BY <1>5, <2>3, <2>4 DEF PushUserMessage
<1>6. ASSUME NEW m \in Msg, EchoUserMessage(m) PROVE MessageInv'
  <2>1. /\ \A u \in Task : tasks'[u].inbox = tasks[u].inbox
        /\ gen' = gen /\ issued' = issued
    <3>1. post[m].task \in Task /\ m \in Event
      BY <1>0 DEF Posted, Event
    <3> QED
      BY <1>2, <1>6, <3>1 DEF EchoUserMessage
  <2>2. \A n \in Msg : /\ Accepted(n)' <=> Accepted(n)
                       /\ post'[n].task = post[n].task /\ post'[n].real = post[n].real
    BY <1>0, <1>6 DEF EchoUserMessage, Accepted, Posted
  <2>3. \A n \in Msg : /\ \A u \in Task : InInbox(n, u)' <=> InInbox(n, u)
                       /\ \A g \in Gen : InTurns(n, g)' <=> InTurns(n, g)
    BY <2>1 DEF InInbox, InTurns
  <2>4. PlacesAreOwn'
    BY <2>1, <2>2, <2>3 DEF MessageInv, PlacesAreOwn
  <2>5. RealOnesAreKept'
    BY <2>1, <2>2, <2>3 DEF MessageInv, RealOnesAreKept
  <2> QED
    BY <2>4, <2>5 DEF MessageInv
<1>7. ASSUME NEW g \in Gen, NEW t \in Task, NEW w \in BOOLEAN, Generate(g, t, w) PROVE MessageInv'
  <2>1. /\ gen'[g].turns = <<>> /\ gen'[g].at # "idle" /\ gen[g].turns = <<>>
        /\ \A h \in Gen \ {g} : gen'[h] = gen[h]
        /\ tasks' = tasks /\ post' = post /\ issued' = issued
    BY <1>0, <1>7 DEF Generate, MessageInv, PlacesAreOwn
  <2>2. \A n \in Msg : /\ \A u \in Task : InInbox(n, u)' <=> InInbox(n, u)
                       /\ \A h \in Gen : InTurns(n, h)' <=> InTurns(n, h)
                       /\ Accepted(n)' <=> Accepted(n)
                       /\ ~InTurns(n, g)
    BY <2>1, EmptyHolds DEF InInbox, InTurns, Accepted
  <2>3. PlacesAreOwn'
    BY <2>1, <2>2 DEF MessageInv, PlacesAreOwn
  <2>4. RealOnesAreKept'
    BY <2>1, <2>2 DEF MessageInv, RealOnesAreKept
  <2> QED
    BY <2>3, <2>4 DEF MessageInv
<1>8. ASSUME NEW g \in Gen, TakeUserMessage(g) PROVE MessageInv'
  <2> DEFINE t == gen[g].task
             box == tasks[t].inbox
  <2>1. /\ t \in Task /\ box \in Seq(Msg) /\ gen[g].turns \in Seq(Msg)
        /\ post' = post /\ issued' = issued
    BY <1>0, <1>8 DEF TakeUserMessage
  <2>2. CASE box # <<>> /\ gen' = [gen EXCEPT ![g].turns = Append(@, Head(box))]
             /\ tasks' = [tasks EXCEPT ![t].inbox = Tail(@)]
    <3>1. /\ tasks'[t].inbox = Tail(box) /\ (\A u \in Task \ {t} : tasks'[u] = tasks[u])
          /\ gen'[g].turns = Append(gen[g].turns, Head(box)) /\ gen'[g].task = t
          /\ gen'[g].at = gen[g].at
          /\ \A h \in Gen \ {g} : gen'[h] = gen[h]
      BY <1>0, <2>1, <2>2 DEF TaskState, Draining
    <3>2. gen[g].at = "draining"
      BY <1>8 DEF TakeUserMessage
    <3>3. Distinct(box) /\ Distinct(gen[g].turns)
      BY <2>1 DEF MessageInv, PlacesAreOwn
    <3>4. PICK m \in Msg : m = Head(box)
      BY <2>1, <2>2
    <3>5. InInbox(m, t) /\ Distinct(Tail(box))
      BY <2>1, <2>2, <3>3, <3>4, TailHolds DEF InInbox
    <3>6. /\ \A u \in Task \ {t} : ~InInbox(m, u)
          /\ \A h \in Gen : ~InTurns(m, h)
          /\ Accepted(m) /\ post[m].task = t
      BY <2>1, <3>5 DEF MessageInv, PlacesAreOwn
    <3>7. \A n \in Msg, u \in Task : InInbox(n, u)' <=> InInbox(n, u) /\ n # m
      <4> SUFFICES ASSUME NEW n \in Msg, NEW u \in Task PROVE InInbox(n, u)' <=> InInbox(n, u) /\ n # m
        OBVIOUS
      <4>1. CASE u = t
        <5>1. Holds(Tail(box), n) <=> Holds(box, n) /\ n # m
          BY <2>1, <2>2, <3>3, <3>4, TailHolds
        <5> QED
          BY <3>1, <4>1, <5>1 DEF InInbox
      <4>2. CASE u # t
        BY <3>1, <3>6, <4>2 DEF InInbox
      <4> QED
        BY <4>1, <4>2
    <3>8. \A n \in Msg, h \in Gen : InTurns(n, h)' <=> InTurns(n, h) \/ (n = m /\ h = g)
      <4> SUFFICES ASSUME NEW n \in Msg, NEW h \in Gen
                   PROVE  InTurns(n, h)' <=> InTurns(n, h) \/ (n = m /\ h = g)
        OBVIOUS
      <4>1. CASE h = g
        <5>1. Holds(Append(gen[g].turns, m), n) <=> Holds(gen[g].turns, n) \/ n = m
          BY <2>1, AppendHolds
        <5>2. gen'[g].turns = Append(gen[g].turns, m)
          BY <3>1, <3>4
        <5> QED
          BY <4>1, <5>1, <5>2 DEF InTurns
      <4>2. CASE h # g
        BY <3>1, <4>2 DEF InTurns
      <4> QED
        BY <4>1, <4>2
    <3>9. Distinct(gen'[g].turns)
      <4>1. ~Holds(gen[g].turns, m)
        BY <3>6 DEF InTurns
      <4>2. Distinct(Append(gen[g].turns, m))
        BY <2>1, <3>3, <4>1, AppendHolds
      <4>3. gen'[g].turns = Append(gen[g].turns, m)
        BY <3>1, <3>4
      <4> QED
        BY <4>2, <4>3
    <3>10. \A n \in Msg : Accepted(n)' <=> Accepted(n)
      BY <2>1 DEF Accepted
    <3> HIDE DEF t, box
    <3>11. PlacesAreOwn'
      <4>1. \A u \in Task : Distinct(tasks'[u].inbox)
        BY <3>1, <3>5 DEF MessageInv, PlacesAreOwn
      <4>2. \A u \in Task : \A n \in Msg : InInbox(n, u)' => Accepted(n)' /\ post'[n].task = u
        BY <2>1, <3>7, <3>10 DEF MessageInv, PlacesAreOwn
      <4>3. \A h \in Gen : Distinct(gen'[h].turns) /\ (gen'[h].at = "idle" => gen'[h].turns = <<>>)
        BY <3>1, <3>2, <3>9 DEF MessageInv, PlacesAreOwn
      <4>4. \A h \in Gen : \A n \in Msg : InTurns(n, h)' => Accepted(n)' /\ post'[n].task = gen'[h].task
        BY <2>1, <3>1, <3>6, <3>8, <3>10 DEF MessageInv, PlacesAreOwn, t
      <4>5. \A h \in Gen, n \in Msg : InTurns(n, h)' =>
              /\ \A u \in Task : ~InInbox(n, u)'
              /\ \A k \in Gen \ {h} : ~InTurns(n, k)'
        BY <3>6, <3>7, <3>8 DEF MessageInv, PlacesAreOwn
      <4> QED
        BY <4>1, <4>2, <4>3, <4>4, <4>5 DEF PlacesAreOwn
    <3>12. RealOnesAreKept'
      BY <2>1, <3>6, <3>7, <3>8, <3>10 DEF MessageInv, RealOnesAreKept
    <3> QED
      BY <3>11, <3>12 DEF MessageInv
  <2>3. CASE gen' = [gen EXCEPT ![g].at = "sent"] /\ tasks' = tasks
    <3>1. \A h \in Gen : gen'[h].turns = gen[h].turns /\ gen'[h].task = gen[h].task
      BY <1>0, <2>3 DEF Draining
    <3>2. \A h \in Gen : gen'[h].at = "idle" => gen[h].at = "idle"
      BY <1>0, <2>3
    <3>3. \A n \in Msg : /\ \A u \in Task : InInbox(n, u)' <=> InInbox(n, u)
                         /\ \A h \in Gen : InTurns(n, h)' <=> InTurns(n, h)
                         /\ Accepted(n)' <=> Accepted(n)
      BY <2>1, <2>3, <3>1 DEF InInbox, InTurns, Accepted
    <3>4. PlacesAreOwn'
      BY <2>1, <2>3, <3>1, <3>2, <3>3 DEF MessageInv, PlacesAreOwn
    <3>5. RealOnesAreKept'
      BY <2>1, <3>3 DEF MessageInv, RealOnesAreKept
    <3> QED
      BY <3>4, <3>5 DEF MessageInv
  <2> QED
    BY <1>8, <2>2, <2>3 DEF TakeUserMessage
<1>9. ASSUME NEW t \in Task, RegisterAbort(t) PROVE MessageInv'
  <2>1. PICK x : tasks' = [tasks EXCEPT ![t] = [tasks[t] EXCEPT !.abort = x]]
    BY <1>9 DEF RegisterAbort
  <2>2. \A u \in Task : tasks'[u].inbox = tasks[u].inbox
    BY <1>0, <2>1, OtherThanInbox, InboxUntouched
  <2> QED
    BY <1>9, <2>2, MessagesUntouched DEF RegisterAbort
<1>10. ASSUME NEW t \in Task,
              (\E c \in Call : RequestHitl(c, t)) \/ \E a \in {"allow", "deny"} : ResolveHitl(t, a)
       PROVE  MessageInv'
  <2>1. PICK x : tasks' = [tasks EXCEPT ![t] = [tasks[t] EXCEPT !.pending = x]]
    BY <1>10 DEF RequestHitl, ResolveHitl
  <2>2. UNCHANGED <<issued, post, gen>>
    BY <1>10 DEF RequestHitl, ResolveHitl
  <2> QED
    BY <1>0, <1>1, <2>1, <2>2, OtherThanInbox
<1>11. ASSUME NEW t \in Task, NEW k \in Stopper, EmergencyStop(k, t) PROVE MessageInv'
  <2>1. UNCHANGED <<issued, post, gen>>
    BY <1>11 DEF EmergencyStop
  <2>2. CASE tasks' = tasks
    BY <2>1, <2>2, MessagesUntouched
  <2>3. CASE tasks' # tasks
    <3>1. PICK x : tasks' = [tasks EXCEPT ![t] = [tasks[t] EXCEPT !.stopped = TRUE, !.abort = x,
                                                                  !.pending = NoCall]]
      BY <1>0, <1>11, <2>3, EmergencyStopShape
    <3> DEFINE r == [tasks[t] EXCEPT !.stopped = TRUE, !.abort = x, !.pending = NoCall]
    <3>2. r.inbox = tasks[t].inbox /\ tasks' = [tasks EXCEPT ![t] = r]
      BY <1>0, <3>1, OtherThanInbox
    <3> HIDE DEF r
    <3> QED
      BY <1>1, <2>1, <3>2
  <2> QED
    BY <2>2, <2>3
<1>12. ASSUME NEW k \in Stopper, StopPublish(k) \/ StopFinish(k) PROVE MessageInv'
  <2>1. stop[k].task \in Task /\ "error" \in Event
    BY DEF TypeOK, Stopping, Event
  <2> QED
    BY <1>2, <1>3, <1>12, <2>1, MessagesUntouched DEF StopPublish, StopFinish
<1>13. ASSUME NEW t \in Task, RunnerFinish(t) \/ \E e \in {"progress", "error"} : OrchestratorEvent(t, e)
       PROVE  MessageInv'
  BY <1>2, <1>3, <1>13, MessagesUntouched DEF RunnerFinish, OrchestratorEvent, Event
<1>14. ASSUME \/ \E c \in Call : HitlAnswered(c) \/ HitlTimeout(c) \/ HitlAbandoned(c)
              \/ \E v \in Viewer : StreamEvent(v) \/ \E t \in Task : Subscribe(v, t)
              \/ UNCHANGED hubVars
       PROVE  MessageInv'
  BY <1>14, MessagesUntouched DEF HitlAnswered, HitlTimeout, HitlAbandoned, StreamEvent, Subscribe, hubVars
<1> QED
  BY <1>4, <1>5, <1>6, <1>7, <1>8, <1>9, <1>10, <1>11, <1>12, <1>13, <1>14 DEF HubNext

(* However drains overlap, an accepted message waits in the inbox or is in *)
(* the context of exactly one Generate (`push_user_message`,               *)
(* `take_user_message`).                                                   *)
THEOREM GuidanceIsGivenOnce == HubSafeSpec => []GuidanceGoesToOneTurn
<1>1. HubInit => MessageInv
  <2> SUFFICES ASSUME HubInit PROVE MessageInv
    OBVIOUS
  <2>1. /\ \A t \in Task : tasks[t].inbox = <<>>
        /\ \A g \in Gen : gen[g].turns = <<>>
        /\ \A m \in Msg : ~Accepted(m)
    BY DEF HubInit, Fresh, Accepted
  <2> QED
    BY <2>1, EmptyHolds DEF MessageInv, PlacesAreOwn, RealOnesAreKept, InInbox, InTurns
<1>2. TypeOK /\ MessageInv /\ [HubNext]_hubVars => MessageInv'
  BY MessageInvStep
<1> QED
  BY <1>1, <1>2, GuidanceIsSound, HubTypes, PTL DEF HubSafeSpec

=============================================================================
