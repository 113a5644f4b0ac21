---------------------------- MODULE SquadRunProofs ----------------------------
(***************************************************************************)
(* Proofs about the life of a squad run, for any number of tasks, gates,   *)
(* handlers, stops, files and crashes.                                     *)
(***************************************************************************)
EXTENDS SquadRun, SquadHubProofs, FiniteSetTheorems

-----------------------------------------------------------------------------
(* Type correctness.  With RunTypeOK it takes that a call which runs a     *)
(* tool names its file, or the sets of files would not keep their type.    *)

ToolsHaveFiles ==
  \A c \in Call : tool[c].at # "none" => tool[c].file \in File

(* The hub's variables: a step of the run is one of the hub's own, or      *)
(* publishes, closes, drops the waiting gates or starts the hub afresh.    *)
LEMMA HubTypesOfRun ==
  ASSUME RunTypeOK, [Next]_vars
  PROVE  TypeOK'
<1>0. TypeOK
  BY DEF RunTypeOK
<1>1. CASE UNCHANGED hubVars
  BY <1>0, <1>1 DEF TypeOK, hubVars
<1>2. CASE HubNext
  BY <1>0, <1>2, HubTypesStep
<1>3. ASSUME NEW t \in Task, NEW e \in Event, Publish(t, e),
             UNCHANGED <<issued, known, gate, chan, post, stop, gen>>
      PROVE  TypeOK'
  BY <1>0, <1>3, PublishType DEF TypeOK
<1>4. ASSUME NEW t \in Task, FinishTask(t),
             UNCHANGED <<issued, known, gate, chan, post, stop, gen>>
      PROVE  TypeOK'
  BY <1>0, <1>4, FinishType DEF TypeOK, FinishTask
<1>5. CASE SidecarDies
  BY <1>0, <1>5 DEF TypeOK, SidecarDies, Request
<1>6. CASE Crash
  <2>1. issued' \subseteq Task /\ known' \subseteq Task /\ tasks' \in [Task -> TaskState]
    BY <1>6, FreshType DEF Crash
  <2>2. gate' \in [Call -> Request]
    BY <1>0, <1>6 DEF TypeOK, Crash, Request
  <2>3. post' \in [Msg -> Posted]
    BY <1>0, <1>6 DEF TypeOK, Crash, Posted
  <2>4. stop' \in [Stopper -> Stopping]
    BY <1>0, <1>6 DEF TypeOK, Crash, Stopping
  <2>5. UNCHANGED <<chan, sse, gen>>
    BY <1>6 DEF Crash
  <2> QED
    BY <1>0, <2>1, <2>2, <2>3, <2>4, <2>5 DEF TypeOK
<1>7. ASSUME NEW t \in Task, StartSquadTask(t) \/ ActStep(t) PROVE TypeOK'
  <2>1. HubNext \/ UNCHANGED hubVars
    BY <1>7 DEF StartSquadTask, ActStep, ActRegisterAbort, ActSaveRun, ActRecord, HubNext
  <2> QED
    BY <1>1, <1>2, <2>1
<1>8. ASSUME NEW t \in Task, RunnerStep(t) PROVE TypeOK'
  <2>1. CASE Receive(t)
    <3>1. \/ UNCHANGED hubVars
          \/ \E e \in Event : Publish(t, e) /\ UNCHANGED <<issued, known, gate, chan, post, stop, gen>>
      BY <2>1 DEF Receive
    <3> QED
      BY <1>1, <1>3, <3>1
  <2>2. CASE ReportPublish(t)
    <3>1. "error" \in Event
      BY DEF Event
    <3> QED
      BY <1>3, <2>2, <3>1 DEF ReportPublish
  <2>3. CASE Finish(t)
    BY <1>4, <2>3 DEF Finish
  <2>4. CASE Boot(t) \/ Called(t) \/ LoopCheck(t) \/ Close(t) \/ Report(t) \/ Aborted(t)
    BY <1>1, <2>4 DEF Boot, Called, LoopCheck, Close, Report, Aborted
  <2> QED
    BY <1>8, <2>1, <2>2, <2>3, <2>4 DEF RunnerStep
<1>9. ASSUME NEW t \in Task, CoreStep(t) \/ OrchStep(t) \/ WatchStep(t) PROVE TypeOK'
  <2>1. HubNext \/ UNCHANGED hubVars
    <3>1. CASE CoreStep(t)
      BY <3>1 DEF CoreStep, ToolVerdict, ToolNote
    <3>2. CASE WatchStep(t)
      BY <3>2 DEF WatchStep, WatchWake, WatchCheckStop, WatchReadLog, WatchSave, WatchCollect,
         DeliverInsert, DeliverAppend, WatchOnly
    <3>3. CASE OrchEmit(t) \/ OrchPlanVerdict(t) \/ OrchEnd(t)
      BY <3>3 DEF OrchEmit, OrchPlanVerdict, OrchEnd
    <3>4. CASE \E c \in Call : OrchPlanGate(t, c) \/ \E f \in File : OrchRunTool(t, c, f)
      BY <3>4 DEF OrchPlanGate, OrchRunTool, HubNext
    <3>5. CASE \E c \in Call : ReactTimeout(t, c)
      BY <3>5 DEF ReactTimeout, HubNext
    <3> QED
      BY <1>9, <3>1, <3>2, <3>3, <3>4, <3>5 DEF OrchStep
  <2> QED
    BY <1>1, <1>2, <2>1
<1>10. CASE WebStep \/ \E c \in Call : ToolWrite(c) \/ GateReturns(c)
  <2>1. HubNext \/ UNCHANGED hubVars
    <3>1. CASE \E c \in Call : ToolWrite(c) \/ GateReturns(c)
      BY <3>1 DEF ToolWrite, GateReturns, HubNext
    <3>2. CASE \E t \in Task :
                  \/ \E h \in Handler : GateRelease(h, t)
                  \/ \E m \in Msg : AdjustPush(m, t)
                  \/ \E a \in {"allow", "deny"} : DevResolve(t, a)
                  \/ \E k \in Stopper : Kill(k, t)
      BY <3>2 DEF GateRelease, AdjustPush, DevResolve, Kill, HubNext
    <3>3. CASE \E h \in Handler : GateRecord(h) \/ GateFact(h)
      BY <3>3 DEF GateRecord, GateFact
    <3>4. CASE \E m \in Msg : AdjustEcho(m) \/ AdjustFact(m)
      BY <3>4 DEF AdjustEcho, AdjustFact, HubNext
    <3>5. CASE \E m \in Msg : AdjustRelease(m)
      <4>1. PICK m \in Msg : AdjustRelease(m)
        BY <3>5
      <4>2. post[m].task \in Task
        BY <1>0 DEF TypeOK, Posted
      <4> QED
        BY <4>1, <4>2 DEF AdjustRelease, HubNext
    <3>6. CASE \E k \in Stopper : KillGoesOn(k)
      BY <3>6 DEF KillGoesOn, HubNext
    <3> QED
      BY <1>10, <3>1, <3>2, <3>3, <3>4, <3>5, <3>6 DEF WebStep
  <2> QED
    BY <1>1, <1>2, <2>1
<1>11. CASE Restart \/ OtherStart \/ UNCHANGED vars
  BY <1>1, <1>11 DEF Restart, OtherStart, vars
<1> QED
  BY <1>5, <1>6, <1>7, <1>8, <1>9, <1>10, <1>11 DEF Next

(* What the runner and the orchestrator leave alone. *)
LEMMA RunnerLeavesTheStores ==
  ASSUME NEW t \in Task, StartSquadTask(t) \/ RunnerStep(t) \/ CoreStep(t) \/ OrchStep(t)
  PROVE  UNCHANGED storeVars /\ UNCHANGED <<up, crashes, watch, hand>>
<1>1. CASE StartSquadTask(t)
  BY <1>1 DEF StartSquadTask, procVars
<1>2. CASE RunnerStep(t)
  BY <1>2 DEF RunnerStep, Boot, Called, LoopCheck, Receive, Close, Report, ReportPublish, Finish,
     Aborted, procVars, webVars
<1>3. CASE CoreStep(t)
  BY <1>3 DEF CoreStep, ToolVerdict, ToolNote, procVars, webVars
<1>4. CASE OrchStep(t)
  BY <1>4 DEF OrchStep, OrchEmit, OrchPlanVerdict, OrchEnd, OrchPlanGate, ReactTimeout,
     OrchRunTool, procVars, webVars
<1> QED
  BY <1>1, <1>2, <1>3, <1>4

(* What the runner, the core server and the orchestrator leave alone. *)
LEMMA RunnerLeavesTheActivation ==
  ASSUME NEW t \in Task, RunnerStep(t) \/ CoreStep(t) \/ OrchStep(t)
  PROVE  UNCHANGED act
<1>1. CASE RunnerStep(t)
  BY <1>1 DEF RunnerStep, Boot, Called, LoopCheck, Receive, Close, Report, ReportPublish, Finish,
     Aborted, webVars
<1>2. CASE CoreStep(t)
  BY <1>2 DEF CoreStep, ToolVerdict, ToolNote, webVars
<1>3. CASE OrchStep(t)
  BY <1>3 DEF OrchStep, OrchEmit, OrchPlanVerdict, OrchEnd, OrchPlanGate, ReactTimeout,
     OrchRunTool, webVars
<1> QED
  BY <1>1, <1>2, <1>3

(* What the requests of users leave alone. *)
LEMMA WebLeavesTheWatcher ==
  ASSUME WebStep
  PROVE  UNCHANGED <<up, crashes, act, watch, lib, run, lease, orch, stream, tool, disk, notes>>
<1> USE DEF WebOnly, procVars, webVars, storeVars, runVars, orchVars
<1>1. CASE \E t \in Task :
              \/ \E h \in Handler : GateRelease(h, t)
              \/ \E m \in Msg : AdjustPush(m, t)
              \/ \E a \in {"allow", "deny"} : DevResolve(t, a)
              \/ \E k \in Stopper : Kill(k, t)
  BY <1>1 DEF GateRelease, AdjustPush, DevResolve, Kill
<1>2. CASE \E h \in Handler : GateRecord(h) \/ GateFact(h)
  BY <1>2 DEF GateRecord, GateFact
<1>3. CASE \E m \in Msg : AdjustEcho(m) \/ AdjustRelease(m) \/ AdjustFact(m)
  BY <1>3 DEF AdjustEcho, AdjustRelease, AdjustFact
<1>4. CASE \E k \in Stopper : KillGoesOn(k)
  BY <1>4 DEF KillGoesOn
<1> QED
  BY <1>1, <1>2, <1>3, <1>4 DEF WebStep

(* The rows, the library and the ledger. *)
LEMMA StoreTypesStep ==
  ASSUME RunTypeOK, [Next]_vars
  PROVE  StoreTypes'
<1> USE DEF RunTypeOK, StoreTypes, RunRow, FactCount, Handling, Watching
<1>1. CASE UNCHANGED storeVars
  BY <1>1 DEF storeVars
<1>2. ASSUME NEW t \in Task, NEW kind \in {"activated", "gates", "adjusts", "exports"},
             Appended(t, kind), UNCHANGED <<row, lib>>
      PROVE  StoreTypes'
  <2>1. facts' = facts \/ facts' = [facts EXCEPT ![t][kind] = @ + 1]
    BY <1>2 DEF Appended
  <2>2. facts[t] \in FactCount
    OBVIOUS
  <2>3. [facts[t] EXCEPT ![kind] = @ + 1] \in FactCount
    BY <2>2
  <2> QED
    BY <1>2, <2>1, <2>3
<1>3. ASSUME NEW t \in Task, ActStep(t) PROVE StoreTypes'
  <2>1. CASE ActRegisterAbort(t)
    BY <1>1, <2>1 DEF ActRegisterAbort
  <2>2. CASE ActSaveRun(t)
    BY <2>2 DEF ActSaveRun
  <2>3. CASE ActRecord(t)
    BY <1>2, <2>3 DEF ActRecord
  <2> QED
    BY <1>3, <2>1, <2>2, <2>3 DEF ActStep
<1>4. ASSUME NEW t \in Task, WatchStep(t) PROVE StoreTypes'
  <2>1. CASE WatchWake(t) \/ WatchCheckStop(t) \/ WatchReadLog(t) \/ WatchCollect(t)
    BY <1>1, <2>1 DEF WatchWake, WatchCheckStop, WatchReadLog, WatchCollect
  <2>2. CASE WatchSave(t)
    BY <2>2 DEF WatchSave, SetStatus, HandlerTypes, Terminal
  <2>3. CASE \E f \in File : DeliverInsert(t, f)
    BY <2>3 DEF DeliverInsert
  <2>4. CASE DeliverAppend(t)
    BY <1>2, <2>4 DEF DeliverAppend
  <2> QED
    BY <1>4, <2>1, <2>2, <2>3, <2>4 DEF WatchStep
<1>5. CASE WebStep
  <2>1. CASE \E t \in Task :
                \/ \E h \in Handler : GateRelease(h, t)
                \/ \E m \in Msg : AdjustPush(m, t)
                \/ \E a \in {"allow", "deny"} : DevResolve(t, a)
                \/ \E k \in Stopper : Kill(k, t)
    BY <1>1, <2>1 DEF GateRelease, AdjustPush, DevResolve, Kill
  <2>2. ASSUME NEW h \in Handler, GateRecord(h) PROVE StoreTypes'
    <3>1. PICK t \in Task : t = hand[h].task
      BY DEF HandlerTypes
    <3>2. /\ row' = row \/ row' = [row EXCEPT ![t].gates = @ + 1]
          /\ UNCHANGED <<lib, facts>>
      BY <2>2, <3>1 DEF GateRecord
    <3>3. row' \in [Task -> RunRow]
      BY <3>2
    <3> QED
      BY <3>2, <3>3
  <2>3. ASSUME NEW h \in Handler, GateFact(h) PROVE StoreTypes'
    <3>1. hand[h].task \in Task
      BY DEF HandlerTypes
    <3> QED
      BY <1>2, <2>3, <3>1 DEF GateFact
  <2>4. CASE \E m \in Msg : AdjustEcho(m) \/ AdjustRelease(m)
    BY <1>1, <2>4 DEF AdjustEcho, AdjustRelease
  <2>5. ASSUME NEW m \in Msg, AdjustFact(m) PROVE StoreTypes'
    <3>1. hand[m].task \in Task
      BY DEF HandlerTypes
    <3> QED
      BY <1>2, <2>5, <3>1 DEF AdjustFact
  <2>6. CASE \E k \in Stopper : KillGoesOn(k)
    BY <1>1, <2>6 DEF KillGoesOn
  <2> QED
    BY <1>5, <2>1, <2>2, <2>3, <2>4, <2>5, <2>6 DEF WebStep
<1>6. CASE Restart \/ OtherStart
  <2>1. Reconciled /\ UNCHANGED <<lib, facts>>
    BY <1>6 DEF Restart, OtherStart
  <2>2. row' \in [Task -> RunRow]
    BY <2>1 DEF Reconciled, Terminal
  <2> QED
    BY <2>1, <2>2
<1>7. ASSUME NEW t \in Task,
             StartSquadTask(t) \/ RunnerStep(t) \/ CoreStep(t) \/ OrchStep(t)
      PROVE  UNCHANGED storeVars
  BY <1>7, RunnerLeavesTheStores
<1>8. CASE \E c \in Call : ToolWrite(c) \/ GateReturns(c)
  BY <1>1, <1>8 DEF ToolWrite, GateReturns
<1>9. CASE SidecarDies \/ Crash \/ UNCHANGED vars
  BY <1>1, <1>9 DEF SidecarDies, Crash, vars
<1> QED
  BY <1>1, <1>3, <1>4, <1>5, <1>6, <1>7, <1>8, <1>9 DEF Next

(* A record of each kind stays one when a step assigns fields of it. *)
LEMMA WatchingFields ==
  ASSUME NEW w \in Watching, NEW todo \in SUBSET File
  PROVE  /\ \A at \in {"start", "woken", "checked", "decided", "collect", "deliver", "append", "done"} :
              /\ [w EXCEPT !.at = at] \in Watching
              /\ [w EXCEPT !.at = at, !.todo = todo] \in Watching
              /\ \A status \in Terminal \cup {"ativa"} :
                   [w EXCEPT !.at = at, !.status = status] \in Watching
         /\ w.todo \in SUBSET File /\ w.status \in Terminal \cup {"ativa"}
  BY DEF Watching

LEMMA HandlingFields ==
  ASSUME NEW h \in Handling
  PROVE  /\ \A at \in {"done", "cut"} : [h EXCEPT !.at = at] \in Handling
         /\ \A at \in {"released", "recorded", "done"}, t \in Task, counted \in BOOLEAN :
              [at |-> at, task |-> t, counted |-> counted] \in Handling
         /\ h.task \in Task
  BY DEF Handling

LEMMA WorkingFields ==
  ASSUME NEW o \in Working
  PROVE  /\ \A at \in {"work", "over"} : /\ [o EXCEPT !.at = at] \in Working
                                        /\ [o EXCEPT !.at = at, !.call = NoCall] \in Working
         /\ \A at \in {"gate", "tool"}, c \in Call : [o EXCEPT !.at = at, !.call = c] \in Working
         /\ o.left > 0 => [o EXCEPT !.left = @ - 1] \in Working
         /\ o.call \in Call \cup {NoCall}
<1>1. o.left \in 0 .. MaxEvents /\ o.call \in Call \cup {NoCall}
  BY DEF Working
<1>2. o.left > 0 => o.left - 1 \in 0 .. MaxEvents
  BY <1>1, BoundsAssumption
<1> QED
  BY <1>1, <1>2 DEF Working

LEMMA ToolFields ==
  ASSUME NEW o \in ToolCall
  PROVE  /\ \A at \in {"running", "ran", "over"} : [o EXCEPT !.at = at] \in ToolCall
         /\ [o EXCEPT !.heard = FALSE] \in ToolCall
         /\ \A f \in File : [at |-> "asking", file |-> f, heard |-> TRUE] \in ToolCall
         /\ NoTool \in ToolCall
         /\ o.file \in File \cup {NoFile}
  BY DEF ToolCall, NoTool

(* The handlers and the watcher, variable by variable. *)
LEMMA WatchToType ==
  ASSUME watch \in [Task -> Watching], NEW t \in Task,
         NEW at \in {"start", "woken", "checked", "decided", "collect", "deliver", "append", "done"},
         NEW status \in Terminal \cup {"ativa"}, WatchTo(t, at, status)
  PROVE  watch' \in [Task -> Watching]
<1>1. [watch[t] EXCEPT !.at = at, !.status = status] \in Watching
  BY WatchingFields
<1>2. watch' = [watch EXCEPT ![t] = [watch[t] EXCEPT !.at = at, !.status = status]]
  BY DEF WatchTo
<1> QED
  BY <1>1, <1>2

LEMMA WatchTypesStep ==
  ASSUME RunTypeOK, [Next]_vars
  PROVE  watch' \in [Task -> Watching]
<1>1. watch \in [Task -> Watching] /\ notes \in [Task -> SUBSET File]
  BY DEF RunTypeOK, HandlerTypes, WorkTypes
<1>2. ASSUME NEW t \in Task, NEW w \in Watching, watch' = [watch EXCEPT ![t] = w]
      PROVE  watch' \in [Task -> Watching]
  BY <1>1, <1>2
<1>3. ASSUME NEW t \in Task, WatchStep(t) PROVE watch' \in [Task -> Watching]
  <2>0. watch[t] \in Watching
    BY <1>1
  <2>1. CASE WatchWake(t)
    BY <1>1, <2>1, WatchToType DEF WatchWake
  <2>2. CASE WatchCheckStop(t)
    BY <1>1, <2>2, WatchToType DEF WatchCheckStop, Terminal
  <2>3. CASE WatchReadLog(t)
    BY <1>1, <2>3, WatchToType DEF WatchReadLog, Terminal
  <2>4. CASE WatchSave(t)
    <3>1. watch[t].status \in Terminal \cup {"ativa"}
      BY <2>0, WatchingFields
    <3> QED
      BY <1>1, <2>4, <3>1, WatchToType DEF WatchSave
  <2>5. CASE WatchCollect(t)
    <3>1. \A at \in {"done", "deliver"} : /\ [watch[t] EXCEPT !.at = at] \in Watching
                                        /\ [watch[t] EXCEPT !.at = at, !.todo = notes[t]] \in Watching
      BY <1>1, <2>0, WatchingFields
    <3>2. \/ \E at \in {"done", "deliver"} :
               watch' = [watch EXCEPT ![t] = [watch[t] EXCEPT !.at = at, !.todo = notes[t]]]
          \/ watch' = [watch EXCEPT ![t] = [watch[t] EXCEPT !.at = "done"]]
      BY <1>1, <2>5 DEF WatchCollect
    <3> QED
      BY <1>2, <3>1, <3>2
  <2>6. CASE \E f \in File : DeliverInsert(t, f)
    <3>1. PICK f \in File : DeliverInsert(t, f)
      BY <2>6
    <3>2. PICK left \in SUBSET File : left = watch[t].todo \ {f}
      BY <2>0, WatchingFields
    <3>3. \A at \in {"append", "done", "deliver"} : [watch[t] EXCEPT !.at = at, !.todo = left] \in Watching
      BY <2>0, WatchingFields
    <3>4. \E at \in {"append", "done", "deliver"} :
            watch' = [watch EXCEPT ![t] = [watch[t] EXCEPT !.at = at, !.todo = left]]
      BY <1>1, <3>1, <3>2 DEF DeliverInsert
    <3> QED
      BY <1>2, <3>3, <3>4
  <2>7. CASE DeliverAppend(t)
    <3>1. \A at \in {"done", "deliver"} : [watch[t] EXCEPT !.at = at] \in Watching
      BY <2>0, WatchingFields
    <3>2. \E at \in {"done", "deliver"} : watch' = [watch EXCEPT ![t] = [watch[t] EXCEPT !.at = at]]
      BY <2>7 DEF DeliverAppend
    <3> QED
      BY <1>2, <3>1, <3>2
  <2> QED
    BY <1>3, <2>1, <2>2, <2>3, <2>4, <2>5, <2>6, <2>7 DEF WatchStep
<1>4. ASSUME NEW t \in Task, ActStep(t) PROVE watch' = watch \/ \E w \in Watching : watch' = [watch EXCEPT ![t] = w]
  BY <1>1, <1>4, WatchingFields DEF ActStep, ActRegisterAbort, ActSaveRun, ActRecord
<1>5. CASE Crash
  BY <1>5 DEF Crash, NoWatch, Watching
<1>6. ASSUME NEW t \in Task, StartSquadTask(t) \/ RunnerStep(t) \/ CoreStep(t) \/ OrchStep(t)
      PROVE  watch' = watch
  BY <1>6, RunnerLeavesTheStores
<1>7. CASE WebStep
  BY <1>1, <1>7, WebLeavesTheWatcher
<1>8. CASE \/ \E c \in Call : ToolWrite(c) \/ GateReturns(c)
           \/ SidecarDies \/ Restart \/ OtherStart \/ UNCHANGED vars
  BY <1>1, <1>8 DEF ToolWrite, GateReturns, SidecarDies, Restart, OtherStart, vars, webVars
<1> QED
  BY <1>1, <1>2, <1>3, <1>4, <1>5, <1>6, <1>7, <1>8 DEF Next

LEMMA HandTypesStep ==
  ASSUME RunTypeOK, [Next]_vars
  PROVE  hand' \in [Handler \cup Msg -> Handling]
<1>1. hand \in [Handler \cup Msg -> Handling] /\ \A m \in Msg : post[m].task \in Task
  BY DEF RunTypeOK, HandlerTypes, TypeOK, Posted
<1>2. ASSUME NEW h \in Handler \cup Msg, NEW r \in Handling, hand' = [hand EXCEPT ![h] = r]
      PROVE  hand' \in [Handler \cup Msg -> Handling]
  BY <1>1, <1>2
<1>3. CASE WebStep
  <2>1. hand' = hand \/ \E h \in Handler \cup Msg, r \in Handling : hand' = [hand EXCEPT ![h] = r]
    <3>1. CASE \E t \in Task :
                  \/ \E m \in Msg : AdjustPush(m, t)
                  \/ \E a \in {"allow", "deny"} : DevResolve(t, a)
                  \/ \E k \in Stopper : Kill(k, t)
      BY <3>1 DEF AdjustPush, DevResolve, Kill, webVars
    <3>2. ASSUME NEW t \in Task, NEW h \in Handler, GateRelease(h, t)
          PROVE  \E r \in Handling : hand' = [hand EXCEPT ![h] = r]
      BY <1>1, <3>2, HandlingFields DEF GateRelease, HandTo
    <3>3. ASSUME NEW h \in Handler, GateRecord(h) \/ GateFact(h)
          PROVE  \E r \in Handling : hand' = [hand EXCEPT ![h] = r]
      <4>1. hand[h] \in Handling
        BY <1>1
      <4> QED
        BY <3>3, <4>1, HandlingFields DEF GateRecord, GateFact, HandTo
    <3>4. ASSUME NEW m \in Msg, AdjustRelease(m)
          PROVE  \E r \in Handling : hand' = [hand EXCEPT ![m] = r]
      <4>1. hand[m] \in Handling /\ post[m].task \in Task
        BY <1>1
      <4> QED
        BY <3>4, <4>1, HandlingFields DEF AdjustRelease, HandTo
    <3>5. ASSUME NEW m \in Msg, AdjustFact(m)
          PROVE  \E r \in Handling : hand' = [hand EXCEPT ![m] = r]
      <4>1. hand[m] \in Handling
        BY <1>1
      <4> QED
        BY <3>5, <4>1, HandlingFields DEF AdjustFact
    <3>6. CASE (\E m \in Msg : AdjustEcho(m)) \/ \E k \in Stopper : KillGoesOn(k)
      BY <3>6 DEF AdjustEcho, KillGoesOn, webVars
    <3> QED
      BY <1>3, <3>1, <3>2, <3>3, <3>4, <3>5, <3>6 DEF WebStep
  <2> QED
    BY <1>1, <1>2, <2>1
<1>4. CASE Crash
  <2>1. \A h \in Handler \cup Msg : /\ hand[h] \in Handling
                                  /\ \A at \in {"done", "cut"} : [hand[h] EXCEPT !.at = at] \in Handling
    BY <1>1, HandlingFields
  <2>2. \A h \in Handler \cup Msg :
          [hand[h] EXCEPT !.at = IF @ = "done" THEN "done" ELSE "cut"] \in Handling
    BY <2>1
  <2> QED
    BY <1>4, <2>1, <2>2 DEF Crash
<1>5. ASSUME NEW t \in Task, StartSquadTask(t) \/ RunnerStep(t) \/ CoreStep(t) \/ OrchStep(t)
      PROVE  hand' = hand
  BY <1>5, RunnerLeavesTheStores
<1>6. ASSUME NEW t \in Task, ActStep(t) \/ WatchStep(t) PROVE hand' = hand
  BY <1>6 DEF ActStep, ActRegisterAbort, ActSaveRun, ActRecord, WatchStep, WatchWake, WatchCheckStop,
     WatchReadLog, WatchSave, WatchCollect, DeliverInsert, DeliverAppend, WatchOnly, webVars
<1>7. CASE \/ \E c \in Call : ToolWrite(c) \/ GateReturns(c)
           \/ SidecarDies \/ Restart \/ OtherStart \/ UNCHANGED vars
  BY <1>1, <1>7 DEF ToolWrite, GateReturns, SidecarDies, Restart, OtherStart, vars, webVars
<1> QED
  BY <1>1, <1>3, <1>4, <1>5, <1>6, <1>7 DEF Next

LEMMA ActTypesStep ==
  ASSUME RunTypeOK, [Next]_vars
  PROVE  /\ DashboardTypes'
         /\ act' \in [Task -> {"idle", "started", "registered", "saved", "done", "refused", "failed"}]
<1> USE DEF RunTypeOK, DashboardTypes, HandlerTypes
<1>1. ASSUME NEW t \in Task, StartSquadTask(t) \/ ActStep(t)
      PROVE  UNCHANGED <<up, crashes>> /\ \E a \in {"started", "registered", "saved", "done", "refused", "failed"} :
               act' = [act EXCEPT ![t] = a]
  <2>1. CASE StartSquadTask(t)
    BY <2>1 DEF StartSquadTask, procVars
  <2>2. CASE ActRegisterAbort(t)
    BY <2>2 DEF ActRegisterAbort, procVars
  <2>3. CASE ActSaveRun(t)
    BY <2>3 DEF ActSaveRun, procVars
  <2>4. CASE ActRecord(t)
    BY <2>4 DEF ActRecord, procVars
  <2> QED
    BY <1>1, <2>1, <2>2, <2>3, <2>4 DEF ActStep
<1>2. CASE Crash
  <2>1. up' = FALSE /\ crashes' \in 0 .. MaxCrash
    BY <1>2, BoundsAssumption DEF Crash
  <2>2. act' \in [Task -> {"idle", "started", "registered", "saved", "done", "refused", "failed"}]
    BY <1>2 DEF Crash
  <2> QED
    BY <2>1, <2>2
<1>3. CASE Restart
  BY <1>3 DEF Restart, webVars
<1>4. ASSUME NEW t \in Task, RunnerStep(t) \/ CoreStep(t) \/ OrchStep(t)
      PROVE  UNCHANGED <<up, crashes, act>>
  BY <1>4, RunnerLeavesTheStores, RunnerLeavesTheActivation
<1>5. ASSUME NEW t \in Task, WatchStep(t) PROVE UNCHANGED <<up, crashes, act>>
  BY <1>5 DEF WatchStep, WatchWake, WatchCheckStop,
     WatchReadLog, WatchSave, WatchCollect, DeliverInsert, DeliverAppend, WatchOnly, procVars
<1>6. CASE WebStep
  BY <1>6, WebLeavesTheWatcher
<1>7. CASE \/ \E c \in Call : ToolWrite(c) \/ GateReturns(c)
           \/ SidecarDies \/ OtherStart \/ UNCHANGED vars
  BY <1>7 DEF ToolWrite, GateReturns, WebOnly, SidecarDies, OtherStart, vars, webVars, procVars
<1> QED
  BY <1>1, <1>2, <1>3, <1>4, <1>5, <1>6, <1>7 DEF Next

(* The runner, the orchestrator and the tools, variable by variable. *)
LEMMA RunnerTypesStep ==
  ASSUME RunTypeOK, NEW t \in Task, StartSquadTask(t) \/ RunnerStep(t)
  PROVE  /\ run' \in [Task -> Running] /\ lease' \in Task \cup {NoTask}
         /\ orch' \in [Task -> Working] /\ stream' \in [Task -> Seq(Streamed)]
         /\ UNCHANGED <<tool, notes, disk>>
<1>0. /\ run \in [Task -> Running] /\ run[t] \in Running
      /\ lease \in Task \cup {NoTask}
      /\ orch \in [Task -> Working] /\ orch[t] \in Working
      /\ stream \in [Task -> Seq(Streamed)] /\ stream[t] \in Seq(Streamed)
  BY DEF RunTypeOK, WorkTypes
<1>1. \A at \in {"boot", "call", "loop", "recv", "close", "report", "publish", "finish", "done", "aborted"},
         ok \in BOOLEAN : [at |-> at, ok |-> ok] \in Running
  BY DEF Running
<1>2. [run[t] EXCEPT !.at = "boot"] \in Running /\ run[t].ok \in BOOLEAN
  BY <1>0 DEF Running
<1>3. \A at \in {"boot", "call", "loop", "recv", "close", "report", "publish", "finish", "done", "aborted"},
         ok \in BOOLEAN : RunnerTo(t, at, ok) => run' \in [Task -> Running]
  BY <1>0, <1>1 DEF RunnerTo
<1>4. CASE StartSquadTask(t)
  <2>1. run' = run \/ run' = [run EXCEPT ![t] = [run[t] EXCEPT !.at = "boot"]]
    BY <1>0, <1>4 DEF StartSquadTask
  <2> QED
    BY <1>0, <1>2, <1>4, <2>1 DEF StartSquadTask, orchVars
<1>5. CASE Boot(t)
  <2>1. [orch[t] EXCEPT !.at = "work"] \in Working
    BY <1>0, WorkingFields
  <2>2. orch' = orch \/ orch' = [orch EXCEPT ![t] = [orch[t] EXCEPT !.at = "work"]]
    BY <1>5 DEF Boot
  <2>3. orch' \in [Task -> Working]
    BY <1>0, <2>1, <2>2
  <2> QED
    BY <1>0, <1>3, <1>5, <2>3 DEF Boot
<1>6. CASE Called(t)
  BY <1>0, <1>3, <1>6 DEF Called, orchVars
<1>7. CASE LoopCheck(t)
  BY <1>0, <1>3, <1>7 DEF LoopCheck, orchVars
<1>8. CASE Receive(t)
  <2>1. Tail(stream[t]) \in Seq(Streamed)
    BY <1>0, <1>8 DEF Receive
  <2>2. stream' \in [Task -> Seq(Streamed)] /\ UNCHANGED <<lease, orch, tool, notes, disk>>
    BY <1>0, <1>8, <2>1 DEF Receive
  <2>3. run' \in [Task -> Running]
    <3>1. \E at \in {"close", "loop"}, ok \in BOOLEAN : RunnerTo(t, at, ok)
      BY <1>8 DEF Receive
    <3> QED
      BY <1>3, <3>1
  <2> QED
    BY <1>0, <2>2, <2>3
<1>9. CASE Close(t)
  BY <1>0, <1>2, <1>3, <1>9 DEF Close, orchVars
<1>10. CASE Report(t)
  BY <1>0, <1>3, <1>10 DEF Report, orchVars
<1>11. CASE ReportPublish(t)
  BY <1>0, <1>3, <1>11 DEF ReportPublish, orchVars
<1>12. CASE Finish(t)
  BY <1>0, <1>2, <1>3, <1>12 DEF Finish, orchVars
<1>13. CASE Aborted(t)
  BY <1>0, <1>3, <1>13 DEF Aborted, orchVars
<1> QED
  BY <1>4, <1>5, <1>6, <1>7, <1>8, <1>9, <1>10, <1>11, <1>12, <1>13 DEF RunnerStep

LEMMA SendType ==
  ASSUME stream \in [Task -> Seq(Streamed)], NEW t \in Task, NEW es \in Seq(Streamed), Send(t, es)
  PROVE  stream' \in [Task -> Seq(Streamed)]
<1>1. stream[t] \o es \in Seq(Streamed)
  OBVIOUS
<1> QED
  BY <1>1 DEF Send

LEMMA OrchTypesStep ==
  ASSUME RunTypeOK, ToolsHaveFiles, NEW t \in Task, CoreStep(t) \/ OrchStep(t)
  PROVE  WorkTypes'
<1>0. /\ orch \in [Task -> Working] /\ orch[t] \in Working
      /\ stream \in [Task -> Seq(Streamed)]
      /\ tool \in [Call -> ToolCall]
      /\ run \in [Task -> Running] /\ lease \in Task \cup {NoTask}
      /\ notes \in [Task -> SUBSET File] /\ disk \in [Task -> SUBSET File]
  BY DEF RunTypeOK, WorkTypes
<1>1. /\ <<"progress">> \in Seq(Streamed) /\ <<"hitl">> \in Seq(Streamed)
      /\ <<"end">> \in Seq(Streamed) /\ <<"error", "end">> \in Seq(Streamed)
  BY DEF Streamed, Event
<1>2. \A o \in Working : orch' = [orch EXCEPT ![t] = o] => orch' \in [Task -> Working]
  BY <1>0
<1>3. \A c \in Call : \A o \in ToolCall : tool' = [tool EXCEPT ![c] = o] => tool' \in [Call -> ToolCall]
  BY <1>0
<1>4. /\ \A at \in {"work", "over"} : [orch[t] EXCEPT !.at = at, !.call = NoCall] \in Working
      /\ [orch[t] EXCEPT !.at = "over"] \in Working
      /\ \A at \in {"gate", "tool"}, c \in Call : [orch[t] EXCEPT !.at = at, !.call = c] \in Working
  BY <1>0, WorkingFields
<1>5. CASE OrchEmit(t)
  <2>1. orch[t].left > 0 /\ orch' = [orch EXCEPT ![t] = [orch[t] EXCEPT !.left = @ - 1]]
    BY <1>5 DEF OrchEmit
  <2>2. orch' \in [Task -> Working]
    BY <1>0, <1>2, <2>1, WorkingFields
  <2>3. stream' \in [Task -> Seq(Streamed)]
    BY <1>0, <1>1, <1>5, SendType DEF OrchEmit
  <2> QED
    BY <1>0, <1>5, <2>2, <2>3 DEF OrchEmit, WorkTypes, runVars
<1>6. CASE OrchPlanVerdict(t)
  <2>1. \E at \in {"work", "over"} : orch' = [orch EXCEPT ![t] = [orch[t] EXCEPT !.at = at, !.call = NoCall]]
    BY <1>0, <1>6 DEF OrchPlanVerdict
  <2>2. orch' \in [Task -> Working]
    BY <1>2, <1>4, <2>1
  <2>3. stream' \in [Task -> Seq(Streamed)]
    BY <1>0, <1>1, <1>6, SendType DEF OrchPlanVerdict
  <2> QED
    BY <1>0, <1>6, <2>2, <2>3 DEF OrchPlanVerdict, WorkTypes, runVars
<1>7. CASE OrchEnd(t)
  <2>1. orch' \in [Task -> Working]
    BY <1>2, <1>4, <1>7 DEF OrchEnd
  <2>2. stream' \in [Task -> Seq(Streamed)]
    BY <1>0, <1>1, <1>7, SendType DEF OrchEnd
  <2> QED
    BY <1>0, <1>7, <2>1, <2>2 DEF OrchEnd, WorkTypes, runVars
<1>8. ASSUME NEW c \in Call, OrchPlanGate(t, c) PROVE WorkTypes'
  <2>1. orch' = [orch EXCEPT ![t] = [orch[t] EXCEPT !.at = "gate", !.call = c]]
    BY <1>0, <1>8 DEF OrchPlanGate
  <2>2. orch' \in [Task -> Working]
    BY <1>2, <1>4, <2>1
  <2>3. stream' \in [Task -> Seq(Streamed)]
    BY <1>0, <1>1, <1>8, SendType DEF OrchPlanGate
  <2> QED
    BY <1>0, <1>8, <2>2, <2>3 DEF OrchPlanGate, WorkTypes, runVars
<1>9. ASSUME NEW c \in Call, ReactTimeout(t, c) PROVE WorkTypes'
  <2>1. orch' = [orch EXCEPT ![t] = [orch[t] EXCEPT !.at = "work", !.call = NoCall]]
    BY <1>0, <1>9 DEF ReactTimeout
  <2>2. orch' \in [Task -> Working]
    BY <1>2, <1>4, <2>1
  <2>3. [tool[c] EXCEPT !.at = "over"] \in ToolCall /\ [tool[c] EXCEPT !.heard = FALSE] \in ToolCall
    BY <1>0, ToolFields
  <2>4. tool' \in [Call -> ToolCall]
    BY <1>3, <1>9, <2>3 DEF ReactTimeout
  <2> QED
    BY <1>0, <1>9, <2>2, <2>4 DEF ReactTimeout, WorkTypes, runVars
<1>10. ASSUME NEW c \in Call, NEW f \in File, OrchRunTool(t, c, f) PROVE WorkTypes'
  <2>1. orch' = [orch EXCEPT ![t] = [orch[t] EXCEPT !.at = "tool", !.call = c]]
    BY <1>0, <1>10 DEF OrchRunTool
  <2>2. orch' \in [Task -> Working]
    BY <1>2, <1>4, <2>1
  <2>3. [at |-> "asking", file |-> f, heard |-> TRUE] \in ToolCall
    BY DEF ToolCall
  <2>4. tool' \in [Call -> ToolCall]
    BY <1>3, <1>10, <2>3 DEF OrchRunTool
  <2> QED
    BY <1>0, <1>10, <2>2, <2>4 DEF OrchRunTool, WorkTypes, runVars
<1>11. ASSUME NEW c \in Call, ToolVerdict(t, c) PROVE WorkTypes'
  <2>1. orch' = orch \/ orch' = [orch EXCEPT ![t] = [orch[t] EXCEPT !.at = "work", !.call = NoCall]]
    BY <1>0, <1>11 DEF ToolVerdict
  <2>2. orch' \in [Task -> Working]
    BY <1>0, <1>2, <1>4, <2>1
  <2>3. [tool[c] EXCEPT !.at = "running"] \in ToolCall /\ [tool[c] EXCEPT !.at = "over"] \in ToolCall
    BY <1>0, ToolFields
  <2>4. tool' \in [Call -> ToolCall]
    BY <1>3, <1>11, <2>3 DEF ToolVerdict
  <2> QED
    BY <1>0, <1>11, <2>2, <2>4 DEF ToolVerdict, WorkTypes, runVars
<1>12. ASSUME NEW c \in Call, ToolNote(t, c) PROVE WorkTypes'
  <2>1. orch' = [orch EXCEPT ![t] = [orch[t] EXCEPT !.at = "work", !.call = NoCall]]
    BY <1>0, <1>12 DEF ToolNote
  <2>2. orch' \in [Task -> Working]
    BY <1>0, <1>2, <1>4, <2>1
  <2>3. [tool[c] EXCEPT !.at = "over"] \in ToolCall
    BY <1>0, ToolFields
  <2>4. tool' \in [Call -> ToolCall]
    BY <1>3, <1>12, <2>3 DEF ToolNote
  <2>5. tool[c].file \in File
    BY <1>12 DEF ToolNote, ToolsHaveFiles
  <2>6. notes' \in [Task -> SUBSET File]
    BY <1>0, <1>12, <2>5 DEF ToolNote
  <2> QED
    BY <1>0, <1>12, <2>2, <2>4, <2>6 DEF ToolNote, WorkTypes, runVars
<1> QED
  BY <1>5, <1>6, <1>7, <1>8, <1>9, <1>10, <1>11, <1>12 DEF CoreStep, OrchStep

LEMMA WorkTypesStep ==
  ASSUME RunTypeOK, ToolsHaveFiles, [Next]_vars
  PROVE  WorkTypes'
<1>0. /\ orch \in [Task -> Working]
      /\ stream \in [Task -> Seq(Streamed)]
      /\ tool \in [Call -> ToolCall]
      /\ run \in [Task -> Running] /\ lease \in Task \cup {NoTask}
      /\ notes \in [Task -> SUBSET File] /\ disk \in [Task -> SUBSET File]
  BY DEF RunTypeOK, WorkTypes
<1>1. CASE UNCHANGED <<run, lease, orch, stream, tool, notes, disk>>
  BY <1>0, <1>1 DEF WorkTypes
<1>2. ASSUME NEW t \in Task, StartSquadTask(t) \/ RunnerStep(t) PROVE WorkTypes'
  BY <1>0, <1>2, RunnerTypesStep DEF WorkTypes
<1>3. ASSUME NEW t \in Task, CoreStep(t) \/ OrchStep(t) PROVE WorkTypes'
  BY <1>3, OrchTypesStep
<1>4. ASSUME NEW t \in Task, ActStep(t) PROVE WorkTypes'
  BY <1>1, <1>4 DEF ActStep, ActRegisterAbort, ActSaveRun, ActRecord, runVars, orchVars
<1>5. ASSUME NEW t \in Task, WatchStep(t) PROVE WorkTypes'
  BY <1>1, <1>5 DEF WatchStep, WatchWake, WatchCheckStop, WatchReadLog, WatchSave, WatchCollect,
     DeliverInsert, DeliverAppend, WatchOnly, runVars, orchVars
<1>6. ASSUME NEW c \in Call, ToolWrite(c) PROVE WorkTypes'
  <2>1. \A at \in {"ran", "over"} : [tool[c] EXCEPT !.at = at] \in ToolCall
    BY <1>0, ToolFields
  <2>2. \E at \in {"ran", "over"} : tool' = [tool EXCEPT ![c] = [tool[c] EXCEPT !.at = at]]
    BY <1>6 DEF ToolWrite
  <2>3. tool' \in [Call -> ToolCall]
    BY <1>0, <2>1, <2>2
  <2>4. tool[c].file \in File /\ gate[c].task \in Task
    BY <1>6 DEF ToolWrite, ToolsHaveFiles, RunTypeOK, TypeOK, Request
  <2>5. disk' \in [Task -> SUBSET File]
    BY <1>0, <1>6, <2>4 DEF ToolWrite
  <2> QED
    BY <1>0, <1>6, <2>3, <2>5 DEF ToolWrite, WorkTypes, runVars
<1>7. ASSUME NEW c \in Call, GateReturns(c) PROVE WorkTypes'
  BY <1>1, <1>7 DEF GateReturns, WebOnly, runVars, orchVars
<1>8. CASE WebStep
  BY <1>1, <1>8, WebLeavesTheWatcher
<1>9. CASE SidecarDies
  <2>1. \A t \in Task : [orch[t] EXCEPT !.at = "over", !.call = NoCall] \in Working
    BY <1>0, WorkingFields
  <2>2. orch' \in [Task -> Working]
    BY <1>0, <1>9, <2>1 DEF SidecarDies
  <2>3. \A t \in Task : stream[t] \in Seq(Streamed) /\ Append(stream[t], "broken") \in Seq(Streamed)
    BY <1>0 DEF Streamed
  <2>4. stream' \in [Task -> Seq(Streamed)]
    BY <1>9, <2>3 DEF SidecarDies
  <2>5. \A c \in Call : [tool[c] EXCEPT !.at = "over"] \in ToolCall /\ [tool[c] EXCEPT !.heard = FALSE] \in ToolCall
    BY <1>0, ToolFields
  <2>6. tool' \in [Call -> ToolCall]
    BY <1>9, <2>5 DEF SidecarDies
  <2> QED
    BY <1>0, <1>9, <2>2, <2>4, <2>6 DEF SidecarDies, WorkTypes, runVars
<1>10. CASE Crash
  <2>1. NoRun \in Running /\ NoOrch \in Working /\ NoTool \in ToolCall
    BY BoundsAssumption DEF NoRun, NoOrch, NoTool, Running, Working, ToolCall
  <2>2. \A c \in Call : [tool[c] EXCEPT !.at = "over"] \in ToolCall
    BY <1>0, ToolFields
  <2>3. tool' \in [Call -> ToolCall]
    BY <1>10, <2>1, <2>2 DEF Crash
  <2>4. /\ run' = [t \in Task |-> NoRun] /\ lease' = NoTask /\ orch' = [t \in Task |-> NoOrch]
        /\ stream' = [t \in Task |-> <<>>] /\ notes' = [t \in Task |-> {}] /\ disk' = disk
    BY <1>10 DEF Crash
  <2>5. <<>> \in Seq(Streamed)
    OBVIOUS
  <2> QED
    BY <1>0, <2>1, <2>3, <2>4, <2>5 DEF WorkTypes
<1>11. CASE Restart \/ OtherStart \/ UNCHANGED vars
  BY <1>1, <1>11 DEF Restart, OtherStart, vars, runVars, orchVars
<1> QED
  BY <1>2, <1>3, <1>4, <1>5, <1>6, <1>7, <1>8, <1>9, <1>10, <1>11 DEF Next

LEMMA ToolsHaveFilesStep ==
  ASSUME RunTypeOK, ToolsHaveFiles, [Next]_vars
  PROVE  ToolsHaveFiles'
<1>0. tool \in [Call -> ToolCall]
  BY DEF RunTypeOK, WorkTypes
<1>1. CASE UNCHANGED tool
  BY <1>1 DEF ToolsHaveFiles
<1>2. ASSUME NEW t \in Task, NEW c \in Call, NEW f \in File, OrchRunTool(t, c, f) PROVE ToolsHaveFiles'
  BY <1>0, <1>2 DEF OrchRunTool, ToolsHaveFiles
<1>3. ASSUME NEW t \in Task, NEW c \in Call, ToolVerdict(t, c) \/ ToolNote(t, c) \/ ReactTimeout(t, c)
      PROVE  ToolsHaveFiles'
  <2>1. \/ \E at \in {"running", "over"} : tool' = [tool EXCEPT ![c].at = at]
        \/ tool' = [tool EXCEPT ![c].heard = FALSE]
    BY <1>3 DEF ToolVerdict, ToolNote, ReactTimeout
  <2>2. tool[c].at # "none"
    BY <1>3 DEF ToolVerdict, ToolNote, ReactTimeout
  <2> QED
    BY <1>0, <2>1, <2>2 DEF ToolsHaveFiles, ToolCall
<1>4. ASSUME NEW c \in Call, ToolWrite(c) PROVE ToolsHaveFiles'
  BY <1>0, <1>4 DEF ToolWrite, ToolsHaveFiles, ToolCall
<1>5. CASE SidecarDies
  BY <1>0, <1>5 DEF SidecarDies, ToolsHaveFiles, ToolCall
<1>6. CASE Crash
  BY <1>0, <1>6 DEF Crash, ToolsHaveFiles, ToolCall, NoTool
<1>7. ASSUME NEW t \in Task, OrchEmit(t) \/ OrchPlanVerdict(t) \/ OrchEnd(t)
                            \/ \E c \in Call : OrchPlanGate(t, c)
      PROVE  UNCHANGED tool
  BY <1>7 DEF OrchEmit, OrchPlanVerdict, OrchEnd, OrchPlanGate
<1>8. ASSUME NEW t \in Task, ActStep(t) PROVE UNCHANGED tool
  BY <1>8 DEF ActStep, ActRegisterAbort, ActSaveRun, ActRecord, orchVars
<1>9. ASSUME NEW t \in Task, WatchStep(t) PROVE UNCHANGED tool
  BY <1>9 DEF WatchStep, WatchWake, WatchCheckStop, WatchReadLog, WatchSave, WatchCollect,
     DeliverInsert, DeliverAppend, WatchOnly, orchVars
<1>10. ASSUME NEW t \in Task, StartSquadTask(t) \/ RunnerStep(t) PROVE UNCHANGED tool
  BY <1>10, RunnerTypesStep
<1>11. CASE WebStep
  BY <1>1, <1>11, WebLeavesTheWatcher
<1>12. CASE Restart \/ OtherStart \/ UNCHANGED vars
  BY <1>1, <1>12 DEF Restart, OtherStart, vars, orchVars
<1>13. ASSUME NEW c \in Call, GateReturns(c) PROVE UNCHANGED tool
  BY <1>13 DEF GateReturns, WebOnly, orchVars
<1> QED
  BY <1>1, <1>2, <1>3, <1>4, <1>5, <1>6, <1>7, <1>8, <1>9, <1>10, <1>11, <1>12, <1>13
  DEF Next, OrchStep, CoreStep

LEMMA InitRunTypes == Init => RunTypeOK /\ ToolsHaveFiles
<1> SUFFICES ASSUME Init PROVE RunTypeOK /\ ToolsHaveFiles
  OBVIOUS
<1>1. TypeOK
  BY AnywhereLemma, FreshType
  DEF Init, HubInit, TypeOK, Request, Posted, Stopping, Subscriber, Draining
<1>2. DashboardTypes /\ StoreTypes
  BY BoundsAssumption DEF Init, DashboardTypes, StoreTypes, RunRow, FactCount
<1>3. HandlerTypes
  BY AnywhereLemma DEF Init, HandlerTypes, NoWatch, Watching, Handling
<1>4. WorkTypes
  BY BoundsAssumption DEF Init, WorkTypes, NoRun, NoOrch, NoTool, Running, Working, ToolCall
<1>5. ToolsHaveFiles
  BY DEF Init, ToolsHaveFiles, NoTool
<1> QED
  BY <1>1, <1>2, <1>3, <1>4, <1>5 DEF RunTypeOK

LEMMA NextRunTypes ==
  ASSUME RunTypeOK, ToolsHaveFiles, [Next]_vars
  PROVE  RunTypeOK' /\ ToolsHaveFiles'
  BY HubTypesOfRun, StoreTypesStep, WatchTypesStep, HandTypesStep, ActTypesStep, WorkTypesStep,
     ToolsHaveFilesStep DEF RunTypeOK, HandlerTypes

(* The dashboard, the stores, the runner and the orchestrator keep what    *)
(* they hold of the kinds the others expect.                               *)
THEOREM RunTypes == SafeSpec => []RunTypeOK
  BY InitRunTypes, NextRunTypes, PTL DEF SafeSpec

-----------------------------------------------------------------------------
(* The ledger follows the rows.  Of itself FactsFollowRow is not           *)
(* inductive: an append comes after the write it reports, so it takes      *)
(* what every handler that is between the two has already written.         *)

(* The activation handler saves the row before anything else follows. *)
ActivationFollowsRow ==
  \A t \in Task :
    /\ act[t] \in {"idle", "started", "registered", "refused"} => row[t].status = "ausente"
    /\ act[t] \in {"saved", "done"} => row[t].status # "ausente"
    /\ act[t] # "done" => /\ watch[t].at = "none" /\ lib[t] = {}
                          /\ facts[t].activated = 0 /\ facts[t].exports = 0
    /\ facts[t].activated <= 1

(* The watcher delivers each file once, and tells the ledger afterwards. *)
ExportsFollowLibrary ==
  \A t \in Task :
    /\ watch[t].at \in {"start", "woken", "checked", "decided", "collect"} =>
         lib[t] = {} /\ facts[t].exports = 0
    /\ IsFiniteSet(lib[t])
    /\ lib[t] \cap watch[t].todo = {}
    /\ facts[t].exports + (IF watch[t].at = "append" THEN 1 ELSE 0) <= Cardinality(lib[t])

(* Approvals that are in the row and not yet in the ledger. *)
Recorded(t) == {h \in Handler : hand[h].at = "recorded" /\ hand[h].task = t}

GatesFollowRow ==
  \A t \in Task :
    /\ IsFiniteSet(Recorded(t))
    /\ facts[t].gates + Cardinality(Recorded(t)) <= row[t].gates

LEMMA AppendedFacts ==
  ASSUME facts \in [Task -> FactCount], NEW t \in Task, NEW u \in Task,
         NEW kind \in {"activated", "gates", "adjusts", "exports"}, Appended(t, kind)
  PROVE  /\ \/ facts'[u].activated = facts[u].activated + 1 /\ u = t /\ kind = "activated"
            \/ facts'[u].activated = facts[u].activated
         /\ \/ facts'[u].gates = facts[u].gates + 1 /\ u = t /\ kind = "gates"
            \/ facts'[u].gates = facts[u].gates
         /\ \/ facts'[u].exports = facts[u].exports + 1 /\ u = t /\ kind = "exports"
            \/ facts'[u].exports = facts[u].exports
         /\ u # t => facts'[u] = facts[u]
<1>1. CASE UNCHANGED facts
  BY <1>1
<1>2. CASE facts' = [facts EXCEPT ![t] = [facts[t] EXCEPT ![kind] = facts[t][kind] + 1]]
  BY <1>2 DEF FactCount
<1> QED
  BY <1>1, <1>2 DEF Appended

LEMMA RowSteps ==
  ASSUME RunTypeOK, NEW t \in Task, NEW u \in Task
  PROVE  /\ Reconciled => /\ row'[u].gates = row[u].gates
                          /\ row'[u].status = "ausente" <=> row[u].status = "ausente"
         /\ \A s \in Terminal \cup {"ativa"} : SetStatus(t, s) =>
              /\ row'[u].gates = row[u].gates
              /\ u # t => row'[u] = row[u]
              /\ u = t => row'[u].status = s
         /\ row' = [row EXCEPT ![t].gates = @ + 1] =>
              /\ row'[u].status = row[u].status
              /\ row'[u].gates = row[u].gates + (IF u = t THEN 1 ELSE 0)
  BY DEF RunTypeOK, StoreTypes, RunRow, Reconciled, SetStatus, Terminal

(* What a step of a gate handler may do to the row and the ledger. *)
LEMMA WebMoves ==
  ASSUME RunTypeOK, WebStep, NEW u \in Task
  PROVE  /\ UNCHANGED <<act, watch, lib>>
         /\ row'[u].status = row[u].status
         /\ facts'[u].activated = facts[u].activated
         /\ facts'[u].exports = facts[u].exports
<1>0. facts \in [Task -> FactCount] /\ hand \in [Handler \cup Msg -> Handling]
      /\ \A h \in Handler \cup Msg : hand[h].task \in Task
  BY DEF RunTypeOK, StoreTypes, HandlerTypes, Handling
<1>1. CASE UNCHANGED storeVars
  BY <1>1, WebLeavesTheWatcher DEF storeVars
<1>2. ASSUME NEW h \in Handler, GateRecord(h)
      PROVE  row'[u].status = row[u].status /\ UNCHANGED facts
  BY <1>0, <1>2, RowSteps DEF GateRecord
<1>3. ASSUME NEW h \in Handler, GateFact(h)
      PROVE  UNCHANGED row /\ Appended(hand[h].task, "gates")
  BY <1>3 DEF GateFact
<1>4. ASSUME NEW m \in Msg, AdjustFact(m)
      PROVE  UNCHANGED row /\ Appended(hand[m].task, "adjusts")
  BY <1>4 DEF AdjustFact
<1>5. ASSUME NEW t \in Task,
             \/ \E h \in Handler : GateRelease(h, t)
             \/ \E m \in Msg : AdjustPush(m, t)
             \/ \E a \in {"allow", "deny"} : DevResolve(t, a)
             \/ \E k \in Stopper : Kill(k, t)
      PROVE  UNCHANGED storeVars
  BY <1>5 DEF GateRelease, AdjustPush, DevResolve, Kill
<1>6. CASE \/ \E m \in Msg : AdjustEcho(m) \/ AdjustRelease(m)
           \/ \E k \in Stopper : KillGoesOn(k)
  BY <1>1, <1>6 DEF AdjustEcho, AdjustRelease, KillGoesOn
<1>7. ASSUME NEW h \in Handler, GateFact(h)
      PROVE  row'[u].status = row[u].status /\ facts'[u].activated = facts[u].activated
             /\ facts'[u].exports = facts[u].exports
  BY <1>0, <1>3, <1>7, AppendedFacts
<1>8. ASSUME NEW m \in Msg, AdjustFact(m)
      PROVE  row'[u].status = row[u].status /\ facts'[u].activated = facts[u].activated
             /\ facts'[u].exports = facts[u].exports
  BY <1>0, <1>4, <1>8, AppendedFacts
<1>9. UNCHANGED <<act, watch, lib>>
  BY WebLeavesTheWatcher
<1> QED
  BY <1>1, <1>2, <1>5, <1>6, <1>7, <1>8, <1>9 DEF WebStep

(* What a step of the watcher may do. *)
LEMMA WatchMoves ==
  ASSUME RunTypeOK, NEW t \in Task, WatchStep(t), NEW u \in Task
  PROVE  /\ watch[t].at # "none"
         /\ UNCHANGED <<act, hand>>
         /\ row'[u].gates = row[u].gates
         /\ row'[u].status = row[u].status \/ row'[u].status # "ausente"
         /\ facts'[u].activated = facts[u].activated
         /\ facts'[u].gates = facts[u].gates
         /\ u # t => /\ watch'[u] = watch[u] /\ lib'[u] = lib[u]
                     /\ row'[u] = row[u] /\ facts'[u] = facts[u]
<1>0. /\ watch \in [Task -> Watching] /\ watch[t].status \in Terminal \cup {"ativa"}
      /\ lib \in [Task -> SUBSET File] /\ facts \in [Task -> FactCount]
      /\ "ausente" \notin Terminal \cup {"ativa"}
  BY DEF RunTypeOK, StoreTypes, HandlerTypes, Watching, Terminal
<1>1. watch[t].at # "none" /\ UNCHANGED <<act, hand>>
  BY DEF WatchStep, WatchWake, WatchCheckStop, WatchReadLog, WatchSave, WatchCollect, DeliverInsert,
     DeliverAppend, WatchOnly
<1>2. u # t => watch'[u] = watch[u]
  BY <1>0 DEF WatchStep, WatchWake, WatchCheckStop, WatchReadLog, WatchSave, WatchCollect,
     DeliverInsert, DeliverAppend, WatchTo
<1>3. u # t => lib'[u] = lib[u]
  BY <1>0 DEF WatchStep, WatchWake, WatchCheckStop, WatchReadLog, WatchSave, WatchCollect,
     DeliverInsert, DeliverAppend, storeVars
<1>4. UNCHANGED row \/ SetStatus(t, watch[t].status)
  BY DEF WatchStep, WatchWake, WatchCheckStop, WatchReadLog, WatchSave, WatchCollect, DeliverInsert,
     DeliverAppend, storeVars
<1>5. UNCHANGED facts \/ Appended(t, "exports")
  BY DEF WatchStep, WatchWake, WatchCheckStop, WatchReadLog, WatchSave, WatchCollect, DeliverInsert,
     DeliverAppend, storeVars
<1>6. /\ row'[u].gates = row[u].gates
      /\ row'[u].status = row[u].status \/ row'[u].status # "ausente"
      /\ u # t => row'[u] = row[u]
  BY <1>0, <1>4, RowSteps
<1>7. /\ facts'[u].activated = facts[u].activated
      /\ facts'[u].gates = facts[u].gates
      /\ u # t => facts'[u] = facts[u]
  BY <1>0, <1>5, AppendedFacts
<1> QED
  BY <1>1, <1>2, <1>3, <1>6, <1>7

LEMMA ActivationStep ==
  ASSUME RunTypeOK, ActivationFollowsRow, [Next]_vars
  PROVE  ActivationFollowsRow'
<1>0. /\ act \in [Task -> {"idle", "started", "registered", "saved", "done", "refused", "failed"}]
      /\ facts \in [Task -> FactCount] /\ row \in [Task -> RunRow]
      /\ watch \in [Task -> Watching]
  BY DEF RunTypeOK, StoreTypes, HandlerTypes
<1>1. CASE UNCHANGED storeVars /\ UNCHANGED <<act, watch>>
  BY <1>1 DEF ActivationFollowsRow, storeVars
<1>2. ASSUME NEW t \in Task, StartSquadTask(t) PROVE ActivationFollowsRow'
  <2>1. row[t].status = "ausente"
    <3>1. \A v \in Used : v < t
      BY <1>2 DEF StartSquadTask, NextId
    <3>2. t \in Int
      BY TaskIds
    <3>3. t \notin Used
      BY <3>1, <3>2
    <3> QED
      BY <3>3 DEF Used
  <2>2. act' = [act EXCEPT ![t] = "started"] \/ act' = [act EXCEPT ![t] = "refused"]
    BY <1>2 DEF StartSquadTask
  <2>3. UNCHANGED <<row, lib, facts, watch>>
    BY <1>2 DEF StartSquadTask, storeVars
  <2> QED
    BY <1>0, <2>1, <2>2, <2>3 DEF ActivationFollowsRow
<1>3. ASSUME NEW t \in Task, ActRegisterAbort(t) PROVE ActivationFollowsRow'
  BY <1>0, <1>3 DEF ActRegisterAbort, ActivationFollowsRow, storeVars
<1>4. ASSUME NEW t \in Task, ActSaveRun(t) PROVE ActivationFollowsRow'
  <2>1. UNCHANGED row \/ SetStatus(t, "ativa")
    BY <1>4 DEF ActSaveRun, SetStatus
  <2>2. /\ act[t] = "registered" /\ UNCHANGED <<lib, facts, watch>>
        /\ \/ act' = [act EXCEPT ![t] = "saved"] /\ SetStatus(t, "ativa")
           \/ act' = [act EXCEPT ![t] = "failed"]
    BY <1>4 DEF ActSaveRun, SetStatus
  <2>3. \A u \in Task : (u # t => row'[u].status = row[u].status)
                        /\ (SetStatus(t, "ativa") => row'[t].status = "ativa")
    BY <2>1, RowSteps
  <2> QED
    BY <1>0, <2>2, <2>3 DEF ActivationFollowsRow
<1>5. ASSUME NEW t \in Task, ActRecord(t) PROVE ActivationFollowsRow'
  <2>1. /\ act[t] = "saved" /\ act' = [act EXCEPT ![t] = "done"]
        /\ watch' = [watch EXCEPT ![t].at = "start"]
        /\ Appended(t, "activated") /\ UNCHANGED <<row, lib>>
    BY <1>5 DEF ActRecord
  <2>2. \A u \in Task : /\ u # t => facts'[u] = facts[u]
                        /\ facts'[u].activated <= facts[u].activated + 1
    BY <1>0, <2>1, AppendedFacts DEF FactCount
  <2>3. facts[t].activated = 0
    BY <2>1 DEF ActivationFollowsRow
  <2> QED
    BY <1>0, <2>1, <2>2, <2>3 DEF ActivationFollowsRow, FactCount
<1>6. ASSUME NEW t \in Task, WatchStep(t) PROVE ActivationFollowsRow'
  <2>1. act[t] = "done"
    BY <1>0, <1>6, WatchMoves DEF ActivationFollowsRow
  <2> QED
    BY <1>0, <1>6, <2>1, WatchMoves DEF ActivationFollowsRow
<1>7. CASE WebStep
  BY <1>0, <1>7, WebMoves DEF ActivationFollowsRow
<1>8. CASE Crash
  BY <1>0, <1>8 DEF Crash, ActivationFollowsRow, NoWatch, storeVars
<1>9. CASE Restart \/ OtherStart
  <2>1. Reconciled /\ UNCHANGED <<act, watch, lib, facts>>
    BY <1>9 DEF Restart, OtherStart, webVars
  <2> QED
    BY <1>0, <2>1, RowSteps DEF ActivationFollowsRow
<1>10. ASSUME NEW t \in Task, RunnerStep(t) \/ CoreStep(t) \/ OrchStep(t)
       PROVE  UNCHANGED storeVars /\ UNCHANGED <<act, watch>>
  BY <1>10, RunnerLeavesTheStores, RunnerLeavesTheActivation
<1>11. CASE SidecarDies \/ UNCHANGED vars \/ \E c \in Call : ToolWrite(c) \/ GateReturns(c)
  <2>1. UNCHANGED storeVars /\ UNCHANGED webVars
    BY <1>11 DEF SidecarDies, vars, ToolWrite, GateReturns
  <2> QED
    BY <1>1, <2>1 DEF webVars
<1> QED
  BY <1>1, <1>2, <1>3, <1>4, <1>5, <1>6, <1>7, <1>8, <1>9, <1>10, <1>11 DEF Next, ActStep

(* Where the watcher delivers: each file leaves the list as it enters the  *)
(* library.                                                                *)
LEMMA DeliveryStep ==
  ASSUME RunTypeOK, ExportsFollowLibrary, NEW t \in Task, WatchStep(t)
  PROVE  ExportsFollowLibrary'
<1>0. /\ facts \in [Task -> FactCount] /\ watch \in [Task -> Watching]
      /\ lib \in [Task -> SUBSET File] /\ notes \in [Task -> SUBSET File]
  BY DEF RunTypeOK, StoreTypes, HandlerTypes, WorkTypes
<1>1. \A u \in Task : /\ u # t => /\ watch'[u] = watch[u] /\ lib'[u] = lib[u]
                                  /\ facts'[u] = facts[u]
  BY WatchMoves
<1> DEFINE Good(at, todo, exports, kept) ==
      /\ at \in {"start", "woken", "checked", "decided", "collect"} => kept = {} /\ exports = 0
      /\ IsFiniteSet(kept)
      /\ kept \cap todo = {}
      /\ exports + (IF at = "append" THEN 1 ELSE 0) <= Cardinality(kept)
<1>2. Good(watch[t].at, watch[t].todo, facts[t].exports, lib[t])
  BY DEF ExportsFollowLibrary
<1>3. SUFFICES Good(watch'[t].at, watch'[t].todo, facts'[t].exports, lib'[t])
  BY <1>1, <1>3 DEF ExportsFollowLibrary
<1>4. facts[t].exports \in Nat
  BY <1>0 DEF FactCount
<1>5. CASE WatchWake(t) \/ WatchCheckStop(t) \/ WatchReadLog(t)
  <2>1. /\ watch[t].at \in {"start", "woken", "checked"}
        /\ watch'[t].at \in {"woken", "checked", "decided"} /\ watch'[t].todo = watch[t].todo
        /\ UNCHANGED <<lib, facts>>
    <3>1. /\ watch[t].at \in {"start", "woken", "checked"} /\ UNCHANGED <<lib, facts>>
          /\ \E at \in {"woken", "checked", "decided"}, status \in Terminal \cup {"ativa"} :
               WatchTo(t, at, status)
      BY <1>5 DEF WatchWake, WatchCheckStop, WatchReadLog, storeVars, Terminal
    <3> QED
      BY <1>0, <3>1 DEF WatchTo, Watching
  <2> QED
    BY <1>2, <1>4, <2>1
<1>6. CASE WatchSave(t)
  <2>1. /\ watch[t].at = "decided"
        /\ watch'[t].at \in {"collect", "done"} /\ watch'[t].todo = watch[t].todo
        /\ UNCHANGED <<lib, facts>>
    BY <1>0, <1>6 DEF WatchSave, WatchTo, Watching
  <2> QED
    BY <1>2, <1>4, <2>1
<1>7. CASE WatchCollect(t)
  <2>1. /\ watch[t].at = "collect"
        /\ watch'[t].at \in {"deliver", "done"} /\ UNCHANGED <<lib, facts>>
    BY <1>0, <1>7 DEF WatchCollect, storeVars, Watching
  <2>2. lib[t] = {} /\ facts[t].exports = 0
    BY <1>2, <2>1
  <2> QED
    BY <1>2, <1>4, <2>1, <2>2
<1>8. ASSUME NEW f \in File, DeliverInsert(t, f)
      PROVE  Good(watch'[t].at, watch'[t].todo, facts'[t].exports, lib'[t])
  <2>1. /\ watch[t].at = "deliver" /\ f \in watch[t].todo /\ UNCHANGED facts
        /\ watch'[t].todo = watch[t].todo \ {f}
        /\ \/ lib'[t] = lib[t] \cup {f} /\ watch'[t].at = "append"
           \/ lib'[t] = lib[t] /\ watch'[t].at \in {"deliver", "done"}
    BY <1>0, <1>8 DEF DeliverInsert, Watching
  <2>2. CASE lib'[t] = lib[t] \cup {f} /\ watch'[t].at = "append"
    <3>1. f \notin lib[t] /\ IsFiniteSet(lib[t]) /\ facts[t].exports <= Cardinality(lib[t])
      BY <1>2, <1>4, <2>1
    <3>2. /\ IsFiniteSet(lib[t] \cup {f}) /\ Cardinality(lib[t] \cup {f}) = Cardinality(lib[t]) + 1
          /\ Cardinality(lib[t]) \in Nat
      BY <3>1, FS_AddElement, FS_CardinalityType
    <3>3. (lib[t] \cup {f}) \cap (watch[t].todo \ {f}) = {}
      BY <1>2
    <3> QED
      BY <1>4, <2>1, <2>2, <3>1, <3>2, <3>3
  <2>3. CASE lib'[t] = lib[t] /\ watch'[t].at \in {"deliver", "done"}
    BY <1>2, <1>4, <2>1, <2>3
  <2> QED
    BY <2>1, <2>2, <2>3
<1>9. CASE DeliverAppend(t)
  <2>1. /\ watch[t].at = "append" /\ watch'[t].todo = watch[t].todo
        /\ watch'[t].at \in {"deliver", "done"} /\ UNCHANGED lib /\ Appended(t, "exports")
    BY <1>0, <1>9 DEF DeliverAppend, Watching
  <2>2. facts'[t].exports = facts[t].exports + 1 \/ facts'[t].exports = facts[t].exports
    BY <1>0, <2>1, AppendedFacts
  <2>3. /\ IsFiniteSet(lib[t]) /\ lib[t] \cap watch[t].todo = {}
        /\ facts[t].exports + 1 <= Cardinality(lib[t]) /\ Cardinality(lib[t]) \in Nat
    BY <1>2, <2>1, FS_CardinalityType
  <2>4. facts'[t].exports + 0 <= Cardinality(lib[t])
    BY <1>4, <2>2, <2>3
  <2> QED
    BY <2>1, <2>3, <2>4
<1> QED
  BY <1>5, <1>6, <1>7, <1>8, <1>9 DEF WatchStep

LEMMA ExportsStep ==
  ASSUME RunTypeOK, ActivationFollowsRow, ExportsFollowLibrary, [Next]_vars
  PROVE  ExportsFollowLibrary'
<1>0. /\ facts \in [Task -> FactCount] /\ watch \in [Task -> Watching]
      /\ \A t \in Task : facts[t].exports \in Nat
  BY DEF RunTypeOK, StoreTypes, HandlerTypes, FactCount
<1>1. ASSUME UNCHANGED <<watch, lib>>, \A t \in Task : facts'[t].exports = facts[t].exports
      PROVE  ExportsFollowLibrary'
  BY <1>1 DEF ExportsFollowLibrary
<1>2. CASE UNCHANGED storeVars /\ UNCHANGED watch
  BY <1>1, <1>2 DEF storeVars
<1>3. ASSUME NEW t \in Task, StartSquadTask(t) \/ RunnerStep(t) \/ CoreStep(t) \/ OrchStep(t)
      PROVE  ExportsFollowLibrary'
  BY <1>2, <1>3, RunnerLeavesTheStores
<1>4. ASSUME NEW t \in Task, ActRegisterAbort(t) \/ ActSaveRun(t) PROVE ExportsFollowLibrary'
  BY <1>1, <1>4 DEF ActRegisterAbort, ActSaveRun, storeVars
<1>5. ASSUME NEW t \in Task, ActRecord(t) PROVE ExportsFollowLibrary'
  <2>1. /\ act[t] = "saved" /\ watch' = [watch EXCEPT ![t].at = "start"]
        /\ Appended(t, "activated") /\ UNCHANGED lib
    BY <1>5 DEF ActRecord
  <2>2. \A u \in Task : facts'[u].exports = facts[u].exports
    BY <1>0, <2>1, AppendedFacts
  <2>3. lib[t] = {} /\ facts[t].exports = 0
    BY <2>1 DEF ActivationFollowsRow
  <2>4. IsFiniteSet({}) /\ Cardinality({}) = 0
    BY FS_EmptySet
  <2>5. \A u \in Task : u # t => watch'[u] = watch[u]
    BY <1>0, <2>1
  <2>6. watch'[t].at = "start" /\ watch'[t].todo = watch[t].todo
    BY <1>0, <2>1 DEF Watching
  <2>7. ASSUME NEW u \in Task, u # t
        PROVE  watch'[u] = watch[u] /\ lib'[u] = lib[u] /\ facts'[u].exports = facts[u].exports
    BY <2>1, <2>2, <2>5, <2>7
  <2>8. lib'[t] = {} /\ facts'[t].exports = 0
    BY <2>1, <2>2, <2>3
  <2>9. /\ IsFiniteSet(lib'[t]) /\ lib'[t] \cap watch'[t].todo = {}
        /\ facts'[t].exports + (IF watch'[t].at = "append" THEN 1 ELSE 0) <= Cardinality(lib'[t])
    BY <2>4, <2>6, <2>8
  <2>10. ASSUME NEW u \in Task, u # t
         PROVE  /\ watch'[u].at \in {"start", "woken", "checked", "decided", "collect"} =>
                     lib'[u] = {} /\ facts'[u].exports = 0
                /\ IsFiniteSet(lib'[u]) /\ lib'[u] \cap watch'[u].todo = {}
                /\ facts'[u].exports + (IF watch'[u].at = "append" THEN 1 ELSE 0)
                     <= Cardinality(lib'[u])
    BY <2>7, <2>10 DEF ExportsFollowLibrary
  <2> QED
    BY <2>8, <2>9, <2>10 DEF ExportsFollowLibrary
<1>6. ASSUME NEW t \in Task, WatchStep(t) PROVE ExportsFollowLibrary'
  BY <1>6, DeliveryStep
<1>7. CASE WebStep
  <2>1. UNCHANGED <<watch, lib>>
    BY <1>7, WebLeavesTheWatcher
  <2> QED
    BY <1>1, <1>7, <2>1, WebMoves
<1>8. CASE Crash
  <2>1. watch' = [t \in Task |-> NoWatch] /\ UNCHANGED <<lib, facts>>
    BY <1>8 DEF Crash, storeVars
  <2>2. ASSUME NEW t \in Task
        PROVE  /\ IsFiniteSet(lib[t])
               /\ facts[t].exports <= Cardinality(lib[t]) /\ Cardinality(lib[t]) \in Nat
    <3>1. IsFiniteSet(lib[t]) /\ Cardinality(lib[t]) \in Nat
      BY FS_CardinalityType DEF ExportsFollowLibrary
    <3>2. facts[t].exports <= facts[t].exports + (IF watch[t].at = "append" THEN 1 ELSE 0)
      BY <1>0
    <3> QED
      BY <1>0, <3>1, <3>2 DEF ExportsFollowLibrary
  <2> QED
    BY <1>0, <2>1, <2>2 DEF ExportsFollowLibrary, NoWatch
<1>9. CASE Restart \/ OtherStart
  BY <1>1, <1>9 DEF Restart, OtherStart, webVars
<1>10. CASE SidecarDies \/ UNCHANGED vars \/ \E c \in Call : ToolWrite(c) \/ GateReturns(c)
  <2>1. UNCHANGED storeVars /\ UNCHANGED webVars
    BY <1>10 DEF SidecarDies, vars, ToolWrite, GateReturns
  <2> QED
    BY <1>2, <2>1 DEF webVars
<1> QED
  BY <1>3, <1>4, <1>5, <1>6, <1>7, <1>8, <1>9, <1>10 DEF Next, ActStep

(* One approval: in the row under the store lock, then in the ledger. *)
LEMMA ApprovalStep ==
  ASSUME RunTypeOK, GatesFollowRow, NEW h \in Handler, GateRecord(h) \/ GateFact(h)
  PROVE  GatesFollowRow'
<1>0. /\ hand \in [Handler \cup Msg -> Handling] /\ facts \in [Task -> FactCount]
      /\ row \in [Task -> RunRow] /\ hand[h].task \in Task
      /\ \A t \in Task : facts[t].gates \in Nat /\ row[t].gates \in Nat
  BY DEF RunTypeOK, StoreTypes, HandlerTypes, Handling, FactCount, RunRow
<1>1. ASSUME NEW u \in Task
      PROVE  /\ IsFiniteSet(Recorded(u)) /\ Cardinality(Recorded(u)) \in Nat
             /\ facts[u].gates + Cardinality(Recorded(u)) <= row[u].gates
  BY FS_CardinalityType DEF GatesFollowRow
<1>2. CASE GateRecord(h) /\ row' = [row EXCEPT ![hand[h].task].gates = @ + 1]
                         /\ HandTo(h, "recorded", hand[h].task, TRUE)
  <2>1. hand[h].at = "released" /\ UNCHANGED facts
    BY <1>2 DEF GateRecord
  <2>2. /\ hand'[h] = [at |-> "recorded", task |-> hand[h].task, counted |-> TRUE]
        /\ \A g \in Handler : g # h => hand'[g] = hand[g]
    BY <1>0, <1>2 DEF HandTo
  <2>3. ASSUME NEW u \in Task
        PROVE  /\ Recorded(u)' = IF u = hand[h].task THEN Recorded(u) \cup {h} ELSE Recorded(u)
               /\ h \notin Recorded(u)
               /\ row'[u].gates = row[u].gates + (IF u = hand[h].task THEN 1 ELSE 0)
    BY <1>0, <1>2, <2>1, <2>2, RowSteps DEF Recorded
  <2>4. ASSUME NEW u \in Task
        PROVE  /\ IsFiniteSet(Recorded(u)')
               /\ facts'[u].gates + Cardinality(Recorded(u)') <= row'[u].gates
    <3>1. CASE u = hand[h].task
      <4>1. /\ IsFiniteSet(Recorded(u) \cup {h})
            /\ Cardinality(Recorded(u) \cup {h}) = Cardinality(Recorded(u)) + 1
        BY <1>1, <2>3, FS_AddElement
      <4>2. /\ Recorded(u)' = Recorded(u) \cup {h} /\ row'[u].gates = row[u].gates + 1
            /\ facts'[u].gates = facts[u].gates
        BY <2>1, <2>3, <3>1
      <4> QED
        BY <1>0, <1>1, <4>1, <4>2
    <3>2. CASE u # hand[h].task
      BY <1>0, <1>1, <2>1, <2>3, <3>2
    <3> QED
      BY <3>1, <3>2
  <2> QED
    BY <2>4 DEF GatesFollowRow
<1>3. CASE GateRecord(h) /\ UNCHANGED row /\ HandTo(h, "done", hand[h].task, FALSE)
  <2>1. hand[h].at = "released" /\ UNCHANGED facts
    BY <1>3 DEF GateRecord
  <2>2. hand'[h].at = "done" /\ \A g \in Handler : g # h => hand'[g] = hand[g]
    BY <1>0, <1>3 DEF HandTo
  <2>3. \A u \in Task : Recorded(u)' = Recorded(u)
    BY <2>1, <2>2 DEF Recorded
  <2> QED
    BY <1>3, <2>1, <2>3 DEF GatesFollowRow
<1>4. CASE GateFact(h)
  <2>1. /\ hand[h].at = "recorded" /\ UNCHANGED row /\ Appended(hand[h].task, "gates")
        /\ hand' = [hand EXCEPT ![h].at = "done"]
    BY <1>4 DEF GateFact
  <2>2. hand'[h].at = "done" /\ \A g \in Handler : g # h => hand'[g] = hand[g]
    BY <1>0, <2>1
  <2>3. ASSUME NEW u \in Task
        PROVE  /\ Recorded(u)' = Recorded(u) \ {h}
               /\ h \in Recorded(u) <=> u = hand[h].task
               /\ \/ facts'[u].gates = facts[u].gates + 1 /\ u = hand[h].task
                  \/ facts'[u].gates = facts[u].gates
    <3>1. Recorded(u)' = Recorded(u) \ {h} /\ (h \in Recorded(u) <=> u = hand[h].task)
      BY <2>1, <2>2 DEF Recorded
    <3> QED
      BY <1>0, <2>1, <3>1, AppendedFacts
  <2>4. ASSUME NEW u \in Task
        PROVE  /\ IsFiniteSet(Recorded(u)')
               /\ facts'[u].gates + Cardinality(Recorded(u)') <= row'[u].gates
    <3>1. CASE u = hand[h].task
      <4>1. /\ IsFiniteSet(Recorded(u) \ {h})
            /\ Cardinality(Recorded(u) \ {h}) = Cardinality(Recorded(u)) - 1
        BY <1>1, <2>3, <3>1, FS_RemoveElement
      <4>2. /\ Recorded(u)' = Recorded(u) \ {h} /\ row'[u].gates = row[u].gates
            /\ facts'[u].gates <= facts[u].gates + 1 /\ facts'[u].gates \in Nat
        BY <1>0, <2>1, <2>3
      <4> QED
        BY <1>0, <1>1, <4>1, <4>2
    <3>2. CASE u # hand[h].task
      <4>1. Recorded(u) \ {h} = Recorded(u)
        BY <2>3, <3>2
      <4> QED
        BY <1>0, <1>1, <2>1, <2>3, <3>2, <4>1
    <3> QED
      BY <3>1, <3>2
  <2> QED
    BY <2>4 DEF GatesFollowRow
<1> QED
  BY <1>2, <1>3, <1>4 DEF GateRecord

LEMMA GatesStep ==
  ASSUME RunTypeOK, GatesFollowRow, [Next]_vars
  PROVE  GatesFollowRow'
<1>0. /\ hand \in [Handler \cup Msg -> Handling] /\ facts \in [Task -> FactCount]
      /\ row \in [Task -> RunRow]
      /\ \A t \in Task : facts[t].gates \in Nat /\ row[t].gates \in Nat
  BY DEF RunTypeOK, StoreTypes, HandlerTypes, FactCount, RunRow
<1>1. ASSUME \A u \in Task : /\ row'[u].gates = row[u].gates /\ facts'[u].gates = facts[u].gates
                             /\ Recorded(u)' = Recorded(u)
      PROVE  GatesFollowRow'
  BY <1>1 DEF GatesFollowRow
<1>2. ASSUME \A u \in Task : row'[u].gates = row[u].gates /\ facts'[u].gates = facts[u].gates,
             UNCHANGED hand
      PROVE  GatesFollowRow'
  BY <1>1, <1>2 DEF Recorded
<1>3. CASE UNCHANGED storeVars /\ UNCHANGED hand
  BY <1>2, <1>3 DEF storeVars
<1>4. ASSUME NEW t \in Task, StartSquadTask(t) \/ RunnerStep(t) \/ CoreStep(t) \/ OrchStep(t)
      PROVE  GatesFollowRow'
  BY <1>3, <1>4, RunnerLeavesTheStores
<1>5. ASSUME NEW t \in Task, ActStep(t) PROVE GatesFollowRow'
  <2>1. CASE ActRegisterAbort(t)
    BY <1>3, <2>1 DEF ActRegisterAbort
  <2>2. CASE ActSaveRun(t)
    <3>1. (UNCHANGED row \/ SetStatus(t, "ativa")) /\ UNCHANGED <<facts, hand>>
      BY <2>2 DEF ActSaveRun, SetStatus
    <3> QED
      BY <1>2, <3>1, RowSteps
  <2>3. CASE ActRecord(t)
    <3>1. Appended(t, "activated") /\ UNCHANGED <<row, hand>>
      BY <2>3 DEF ActRecord
    <3> QED
      BY <1>0, <1>2, <3>1, AppendedFacts
  <2> QED
    BY <1>5, <2>1, <2>2, <2>3 DEF ActStep
<1>6. ASSUME NEW t \in Task, WatchStep(t) PROVE GatesFollowRow'
  <2>1. UNCHANGED hand
    BY <1>6, WatchMoves
  <2> QED
    BY <1>2, <1>6, <2>1, WatchMoves
<1>7. ASSUME NEW h \in Handler, GateRecord(h) \/ GateFact(h) PROVE GatesFollowRow'
  BY <1>7, ApprovalStep
<1>8. ASSUME NEW h \in Handler \cup Msg, NEW r \in {"idle", "released"},
             NEW s \in {"released", "done"}, NEW w, w.at = s,
             hand[h].at = r, hand' = [hand EXCEPT ![h] = w]
      PROVE  \A u \in Task : Recorded(u)' = Recorded(u)
  BY <1>0, <1>8 DEF Recorded
<1>9. ASSUME NEW h \in Handler, NEW t \in Task, GateRelease(h, t) PROVE GatesFollowRow'
  <2>1. /\ hand[h].at = "idle" /\ UNCHANGED storeVars
        /\ hand' = [hand EXCEPT ![h] = [at |-> "released", task |-> t, counted |-> FALSE]]
    BY <1>9 DEF GateRelease, HandTo
  <2>2. \A u \in Task : Recorded(u)' = Recorded(u)
    BY <1>8, <2>1
  <2> QED
    BY <1>1, <2>1, <2>2 DEF storeVars
<1>10. ASSUME NEW m \in Msg, AdjustRelease(m) PROVE GatesFollowRow'
  <2>1. /\ hand[m].at = "idle" /\ UNCHANGED storeVars
        /\ \E c \in BOOLEAN : hand' =
             [hand EXCEPT ![m] = [at |-> "released", task |-> post[m].task, counted |-> c]]
    BY <1>10 DEF AdjustRelease, HandTo
  <2>2. \A u \in Task : Recorded(u)' = Recorded(u)
    BY <1>8, <2>1
  <2> QED
    BY <1>1, <2>1, <2>2 DEF storeVars
<1>11. ASSUME NEW m \in Msg, AdjustFact(m) PROVE GatesFollowRow'
  <2>1. /\ hand[m].at = "released" /\ UNCHANGED row /\ Appended(hand[m].task, "adjusts")
        /\ hand' = [hand EXCEPT ![m] = [hand[m] EXCEPT !.at = "done"]]
    BY <1>11 DEF AdjustFact
  <2>2. hand[m] \in Handling /\ hand[m].task \in Task
    BY <1>0 DEF Handling
  <2>3. [hand[m] EXCEPT !.at = "done"].at = "done"
    BY <2>2 DEF Handling
  <2>4. \A u \in Task : Recorded(u)' = Recorded(u)
    BY <1>8, <2>1, <2>3
  <2>5. \A u \in Task : facts'[u].gates = facts[u].gates
    BY <1>0, <2>1, <2>2, AppendedFacts
  <2> QED
    BY <1>1, <2>1, <2>4, <2>5
<1>12. ASSUME NEW t \in Task,
              \/ \E m \in Msg : AdjustPush(m, t)
              \/ \E a \in {"allow", "deny"} : DevResolve(t, a)
              \/ \E k \in Stopper : Kill(k, t)
       PROVE  GatesFollowRow'
  BY <1>3, <1>12 DEF AdjustPush, DevResolve, Kill, webVars
<1>13. CASE \/ \E m \in Msg : AdjustEcho(m)
            \/ \E k \in Stopper : KillGoesOn(k)
  BY <1>3, <1>13 DEF AdjustEcho, KillGoesOn, webVars
<1>14. CASE WebStep
  BY <1>7, <1>9, <1>10, <1>11, <1>12, <1>13, <1>14 DEF WebStep
<1>15. CASE Crash
  <2>1. UNCHANGED storeVars
        /\ \A h \in Handler : hand'[h].at # "recorded"
    <3>1. ASSUME NEW h \in Handler PROVE hand'[h].at # "recorded"
      <4>1. hand[h] \in Handling
        BY <1>0
      <4> QED
        BY <1>15, <4>1 DEF Crash, Handling
    <3> QED
      BY <1>15, <3>1 DEF Crash
  <2>2. ASSUME NEW u \in Task
        PROVE  /\ IsFiniteSet(Recorded(u)')
               /\ facts'[u].gates + Cardinality(Recorded(u)') <= row'[u].gates
    <3>1. Recorded(u)' = {}
      BY <2>1 DEF Recorded
    <3>2. IsFiniteSet({}) /\ Cardinality({}) = 0
      BY FS_EmptySet
    <3>3. facts[u].gates + Cardinality(Recorded(u)) <= row[u].gates
          /\ Cardinality(Recorded(u)) \in Nat
      BY FS_CardinalityType DEF GatesFollowRow
    <3> QED
      BY <1>0, <2>1, <3>1, <3>2, <3>3 DEF storeVars
  <2> QED
    BY <2>2 DEF GatesFollowRow
<1>16. CASE Restart \/ OtherStart
  <2>1. Reconciled /\ UNCHANGED <<facts, hand>>
    BY <1>16 DEF Restart, OtherStart, webVars
  <2> QED
    BY <1>2, <2>1, RowSteps
<1>17. CASE SidecarDies \/ UNCHANGED vars \/ \E c \in Call : ToolWrite(c) \/ GateReturns(c)
  <2>1. UNCHANGED storeVars /\ UNCHANGED webVars
    BY <1>17 DEF SidecarDies, vars, ToolWrite, GateReturns
  <2> QED
    BY <1>3, <2>1 DEF webVars
<1> QED
  BY <1>4, <1>5, <1>6, <1>14, <1>15, <1>16, <1>17 DEF Next

RowInv == ActivationFollowsRow /\ ExportsFollowLibrary /\ GatesFollowRow

LEMMA InitRow == Init => RowInv
<1> SUFFICES ASSUME Init PROVE RowInv
  OBVIOUS
<1>1. \A t \in Task : /\ row[t] = [status |-> "ausente", gates |-> 0] /\ lib[t] = {}
                      /\ facts[t] = [activated |-> 0, gates |-> 0, adjusts |-> 0, exports |-> 0]
                      /\ act[t] = "idle" /\ watch[t] = NoWatch
  BY DEF Init
<1>2. \A t \in Task : Recorded(t) = {}
  BY DEF Init, Recorded
<1>3. ActivationFollowsRow
  BY <1>1 DEF ActivationFollowsRow, NoWatch
<1>4. ExportsFollowLibrary
  <2>1. ASSUME NEW t \in Task PROVE watch[t].at = "none" /\ lib[t] = {} /\ facts[t].exports = 0
    BY <1>1 DEF NoWatch
  <2>2. IsFiniteSet({}) /\ Cardinality({}) = 0
    BY FS_EmptySet
  <2>3. ASSUME NEW t \in Task
        PROVE  /\ watch[t].at \notin {"start", "woken", "checked", "decided", "collect", "append"}
               /\ IsFiniteSet(lib[t]) /\ lib[t] \cap watch[t].todo = {}
               /\ facts[t].exports + 0 <= Cardinality(lib[t])
    <3>1. watch[t].at = "none" /\ lib[t] = {} /\ facts[t].exports = 0
      BY <2>1
    <3>2. IsFiniteSet(lib[t]) /\ Cardinality(lib[t]) = 0
      BY <2>2, <3>1
    <3>3. facts[t].exports + 0 <= Cardinality(lib[t])
      BY <3>1, <3>2
    <3>4. lib[t] \cap watch[t].todo = {}
      BY <3>1
    <3> QED
      BY <3>1, <3>2, <3>3, <3>4
  <2> QED
    BY <2>3 DEF ExportsFollowLibrary
<1>5. GatesFollowRow
  BY <1>1, <1>2, FS_EmptySet DEF GatesFollowRow
<1> QED
  BY <1>3, <1>4, <1>5 DEF RowInv

LEMMA RowInvariant == SafeSpec => [](RunTypeOK /\ RowInv)
<1>1. RunTypeOK /\ RowInv /\ [Next]_vars => RowInv'
  BY ActivationStep, ExportsStep, GatesStep DEF RowInv
<1> QED
  BY <1>1, InitRow, RunTypes, PTL DEF SafeSpec

(* The ledger never tells of an activation, an approval or a delivery the  *)
(* stores do not hold: over crashes, failures of either store and a second *)
(* dashboard, with any number of squads and handlers.                      *)
THEOREM LedgerFollowsRows == SafeSpec => []FactsFollowRow
<1>1. RunTypeOK /\ RowInv => FactsFollowRow
  <2> SUFFICES ASSUME RunTypeOK, RowInv, NEW t \in Task
               PROVE  /\ facts[t].activated <= 1
                      /\ facts[t].activated > 0 => row[t].status # "ausente"
                      /\ facts[t].gates <= row[t].gates
                      /\ facts[t].exports <= Cardinality(lib[t])
    BY DEF FactsFollowRow
  <2>1. facts[t].gates \in Nat /\ facts[t].exports \in Nat /\ row[t].gates \in Nat
        /\ facts[t].activated \in Nat
    BY DEF RunTypeOK, StoreTypes, FactCount, RunRow
  <2>2. /\ Cardinality(lib[t]) \in Nat /\ Cardinality(Recorded(t)) \in Nat
    BY FS_CardinalityType DEF RowInv, ExportsFollowLibrary, GatesFollowRow
  <2>3. facts[t].gates <= row[t].gates
    BY <2>1, <2>2 DEF RowInv, GatesFollowRow
  <2>4. facts[t].exports <= Cardinality(lib[t])
    BY <2>1, <2>2 DEF RowInv, ExportsFollowLibrary
  <2>5. facts[t].activated <= 1 /\ (facts[t].activated > 0 => row[t].status # "ausente")
    BY <2>1 DEF RowInv, ActivationFollowsRow
  <2> QED
    BY <2>3, <2>4, <2>5
<1> QED
  BY <1>1, RowInvariant, PTL

-----------------------------------------------------------------------------
(* The persisted run lives the domain's life.                              *)

(* A dashboard that is down has nobody at work. *)
NobodyWhenDown ==
  ~up => \A t \in Task : watch[t].at = "none" /\ act[t] \notin {"started", "registered", "saved"}

(* The watcher decides one of the three ends. *)
DecidedIsTerminal ==
  \A t \in Task : watch[t].at = "decided" => watch[t].status \in Terminal

(* The row is `ativa` until the watcher writes it. *)
OpenWhileWatched ==
  \A t \in Task :
    /\ act[t] = "saved" => row[t].status = "ativa"
    /\ watch[t].at \in {"start", "woken", "checked", "decided"} => row[t].status = "ativa"

(* What is delivered is delivered of a concluded run. *)
DeliversTheConcluded ==
  \A t \in Task :
    watch[t].at \in {"collect", "deliver", "append"} \/ lib[t] # {} => row[t].status = "concluida"

(* Where the watcher of a task may go. *)
LEMMA WatcherGoes ==
  ASSUME RunTypeOK, NEW t \in Task, WatchStep(t)
  PROVE  /\ watch'[t].at \in {"start", "woken", "checked", "decided"} =>
              /\ watch[t].at \in {"start", "woken", "checked"}
              /\ watch'[t].at \in {"woken", "checked", "decided"}
              /\ UNCHANGED <<row, lib, facts>>
         /\ watch'[t].at = "decided" => watch'[t].status \in Terminal
         /\ watch'[t].at \in {"collect", "deliver", "append"} =>
              \/ watch[t].at = "decided" /\ watch[t].status = "concluida" /\ UNCHANGED lib
                 /\ (SetStatus(t, "concluida") \/ ("store" \in Faults /\ UNCHANGED row))
              \/ watch[t].at \in {"collect", "deliver", "append"} /\ UNCHANGED row
         /\ watch'[t].at \in {"done"} =>
              \/ watch[t].at = "decided" /\ UNCHANGED lib
              \/ watch[t].at \in {"collect", "deliver", "append"} /\ UNCHANGED row
         /\ watch'[t].at # "none"
         /\ lib' = lib \/ (watch[t].at = "deliver" /\ UNCHANGED row)
<1>0. watch \in [Task -> Watching] /\ watch[t] \in Watching
  BY DEF RunTypeOK, HandlerTypes
<1>1. ASSUME NEW at \in {"start", "woken", "checked", "decided", "collect", "deliver", "append", "done"},
             NEW status, WatchTo(t, at, status)
      PROVE  watch'[t].at = at /\ watch'[t].status = status
  BY <1>0, <1>1 DEF WatchTo, Watching
<1>2. CASE WatchWake(t)
  BY <1>1, <1>2 DEF WatchWake, storeVars
<1>3. CASE WatchCheckStop(t)
  <2>1. watch[t].at = "woken" /\ UNCHANGED <<row, lib, facts>>
        /\ (WatchTo(t, "decided", "encerrada") \/ WatchTo(t, "checked", "ativa"))
    BY <1>3 DEF WatchCheckStop, storeVars
  <2> QED
    BY <1>1, <2>1 DEF Terminal
<1>4. CASE WatchReadLog(t)
  <2>1. watch[t].at = "checked" /\ UNCHANGED <<row, lib, facts>>
        /\ (WatchTo(t, "decided", "erro") \/ WatchTo(t, "decided", "concluida"))
    BY <1>4 DEF WatchReadLog, storeVars
  <2> QED
    BY <1>1, <2>1 DEF Terminal
<1>5. CASE WatchSave(t)
  <2>1. /\ watch[t].at = "decided" /\ UNCHANGED lib
        /\ SetStatus(t, watch[t].status) \/ ("store" \in Faults /\ UNCHANGED row)
        /\ \/ watch[t].status = "concluida" /\ WatchTo(t, "collect", watch[t].status)
           \/ WatchTo(t, "done", watch[t].status)
    BY <1>5 DEF WatchSave
  <2>2. CASE watch[t].status = "concluida" /\ WatchTo(t, "collect", watch[t].status)
    <3>1. watch'[t].at = "collect"
      BY <1>1, <2>2
    <3> QED
      BY <2>1, <2>2, <3>1
  <2>3. CASE WatchTo(t, "done", watch[t].status)
    <3>1. watch'[t].at = "done"
      BY <1>1, <2>3
    <3> QED
      BY <2>1, <3>1
  <2> QED
    BY <2>1, <2>2, <2>3
<1>6. CASE WatchCollect(t)
  <2>1. watch[t].at = "collect" /\ UNCHANGED <<row, lib>> /\ watch'[t].at \in {"deliver", "done"}
    BY <1>0, <1>6 DEF WatchCollect, storeVars, Watching
  <2> QED
    BY <2>1
<1>7. ASSUME NEW f \in File, DeliverInsert(t, f)
      PROVE  watch[t].at = "deliver" /\ UNCHANGED row /\ watch'[t].at \in {"append", "deliver", "done"}
  BY <1>0, <1>7 DEF DeliverInsert, Watching
<1>8. CASE DeliverAppend(t)
  <2>1. watch[t].at = "append" /\ UNCHANGED <<row, lib>> /\ watch'[t].at \in {"deliver", "done"}
    BY <1>0, <1>8 DEF DeliverAppend, Watching
  <2> QED
    BY <2>1
<1> QED
  BY <1>2, <1>3, <1>4, <1>5, <1>6, <1>7, <1>8 DEF WatchStep

LEMMA NobodyStep ==
  ASSUME RunTypeOK, NobodyWhenDown, [Next]_vars
  PROVE  NobodyWhenDown'
<1>0. /\ act \in [Task -> {"idle", "started", "registered", "saved", "done", "refused", "failed"}]
      /\ watch \in [Task -> Watching]
  BY DEF RunTypeOK, HandlerTypes
<1>1. CASE UNCHANGED <<up, act, watch>>
  BY <1>1 DEF NobodyWhenDown
<1>2. ASSUME NEW t \in Task, StartSquadTask(t) PROVE up'
  BY <1>2 DEF StartSquadTask, procVars
<1>3. ASSUME NEW t \in Task, ActStep(t) \/ WatchStep(t) PROVE up'
  <2>1. UNCHANGED up
    BY <1>3 DEF ActStep, ActRegisterAbort, ActSaveRun, ActRecord, WatchStep, WatchWake,
       WatchCheckStop, WatchReadLog, WatchSave, WatchCollect, DeliverInsert, DeliverAppend, WatchOnly,
       procVars
  <2>2. act[t] \in {"started", "registered", "saved"} \/ watch[t].at # "none"
    BY <1>3, WatchMoves DEF ActStep, ActRegisterAbort, ActSaveRun, ActRecord
  <2> QED
    BY <2>1, <2>2 DEF NobodyWhenDown
<1>4. ASSUME NEW t \in Task, RunnerStep(t) \/ CoreStep(t) \/ OrchStep(t)
      PROVE  UNCHANGED <<up, act, watch>>
  BY <1>4, RunnerLeavesTheStores, RunnerLeavesTheActivation
<1>5. CASE WebStep
  BY <1>1, <1>5, WebLeavesTheWatcher
<1>6. CASE Crash
  BY <1>0, <1>6 DEF Crash, NobodyWhenDown, NoWatch
<1>7. CASE Restart
  BY <1>7 DEF Restart, NobodyWhenDown
<1>8. CASE OtherStart
  BY <1>1, <1>8 DEF OtherStart, procVars, webVars
<1>9. CASE SidecarDies \/ UNCHANGED vars \/ \E c \in Call : ToolWrite(c) \/ GateReturns(c)
  <2>1. UNCHANGED procVars /\ UNCHANGED webVars
    BY <1>9 DEF SidecarDies, vars, ToolWrite, GateReturns, WebOnly
  <2> QED
    BY <1>1, <2>1 DEF webVars, procVars
<1> QED
  BY <1>1, <1>2, <1>3, <1>4, <1>5, <1>6, <1>7, <1>8, <1>9 DEF Next, NobodyWhenDown

LEMMA DecidedStep ==
  ASSUME RunTypeOK, DecidedIsTerminal, [Next]_vars
  PROVE  DecidedIsTerminal'
<1>0. watch \in [Task -> Watching]
  BY DEF RunTypeOK, HandlerTypes
<1>1. CASE UNCHANGED watch
  BY <1>1 DEF DecidedIsTerminal
<1>2. ASSUME NEW t \in Task, WatchStep(t) PROVE DecidedIsTerminal'
  <2>1. \A u \in Task : u # t => watch'[u] = watch[u]
    BY <1>2, WatchMoves
  <2>2. watch'[t].at = "decided" => watch'[t].status \in Terminal
    BY <1>2, WatcherGoes
  <2> QED
    BY <2>1, <2>2 DEF DecidedIsTerminal
<1>3. ASSUME NEW t \in Task, ActStep(t) PROVE DecidedIsTerminal'
  <2>1. UNCHANGED watch \/ watch' = [watch EXCEPT ![t] = [watch[t] EXCEPT !.at = "start"]]
    BY <1>3 DEF ActStep, ActRegisterAbort, ActSaveRun, ActRecord
  <2> QED
    BY <1>0, <2>1 DEF DecidedIsTerminal, Watching
<1>4. CASE Crash
  BY <1>4 DEF Crash, DecidedIsTerminal, NoWatch
<1>5. ASSUME NEW t \in Task, StartSquadTask(t) \/ RunnerStep(t) \/ CoreStep(t) \/ OrchStep(t)
      PROVE  UNCHANGED watch
  BY <1>5, RunnerLeavesTheStores
<1>6. CASE WebStep
  BY <1>1, <1>6, WebLeavesTheWatcher
<1>7. CASE \/ SidecarDies \/ UNCHANGED vars \/ Restart \/ OtherStart
           \/ \E c \in Call : ToolWrite(c) \/ GateReturns(c)
  <2>1. UNCHANGED webVars
    BY <1>7 DEF SidecarDies, vars, ToolWrite, GateReturns, Restart, OtherStart
  <2> QED
    BY <1>1, <2>1 DEF webVars
<1> QED
  BY <1>1, <1>2, <1>3, <1>4, <1>5, <1>6, <1>7 DEF Next

LEMMA OpenStep ==
  ASSUME ~SecondStart, RunTypeOK, ActivationFollowsRow, NobodyWhenDown, OpenWhileWatched, [Next]_vars
  PROVE  OpenWhileWatched'
<1>0. /\ act \in [Task -> {"idle", "started", "registered", "saved", "done", "refused", "failed"}]
      /\ watch \in [Task -> Watching] /\ row \in [Task -> RunRow]
  BY DEF RunTypeOK, HandlerTypes, StoreTypes
<1>1. ASSUME UNCHANGED <<act, watch>>, \A u \in Task : row'[u].status = row[u].status
      PROVE  OpenWhileWatched'
  BY <1>1 DEF OpenWhileWatched
<1>2. CASE UNCHANGED <<act, watch>> /\ UNCHANGED storeVars
  BY <1>1, <1>2 DEF storeVars
<1>3. ASSUME NEW t \in Task, StartSquadTask(t) \/ ActRegisterAbort(t) PROVE OpenWhileWatched'
  <2>1. UNCHANGED <<row, watch>> /\ \E a \in {"started", "refused", "registered"} :
          act' = [act EXCEPT ![t] = a]
    BY <1>3 DEF StartSquadTask, ActRegisterAbort, storeVars
  <2> QED
    BY <1>0, <2>1 DEF OpenWhileWatched
<1>4. ASSUME NEW t \in Task, ActSaveRun(t) PROVE OpenWhileWatched'
  <2>1. /\ act[t] = "registered" /\ UNCHANGED watch
        /\ \/ act' = [act EXCEPT ![t] = "saved"] /\ SetStatus(t, "ativa")
           \/ act' = [act EXCEPT ![t] = "failed"]
        /\ UNCHANGED row \/ SetStatus(t, "ativa")
    BY <1>4 DEF ActSaveRun, SetStatus
  <2>2. \A u \in Task : (u # t => row'[u].status = row[u].status)
                        /\ (SetStatus(t, "ativa") => row'[t].status = "ativa")
    BY <2>1, RowSteps
  <2>3. watch[t].at = "none"
    BY <2>1 DEF ActivationFollowsRow
  <2> QED
    BY <1>0, <2>1, <2>2, <2>3 DEF OpenWhileWatched
<1>5. ASSUME NEW t \in Task, ActRecord(t) PROVE OpenWhileWatched'
  <2>1. /\ act[t] = "saved" /\ act' = [act EXCEPT ![t] = "done"]
        /\ watch' = [watch EXCEPT ![t].at = "start"] /\ UNCHANGED row
    BY <1>5 DEF ActRecord
  <2>2. row[t].status = "ativa"
    BY <2>1 DEF OpenWhileWatched
  <2> QED
    BY <1>0, <2>1, <2>2 DEF OpenWhileWatched
<1>6. ASSUME NEW t \in Task, WatchStep(t) PROVE OpenWhileWatched'
  <2>1. act[t] # "saved" /\ UNCHANGED act
    BY <1>6, WatchMoves DEF ActivationFollowsRow
  <2>2. \A u \in Task : u # t => watch'[u] = watch[u] /\ row'[u] = row[u]
    BY <1>6, WatchMoves
  <2>3. watch'[t].at \in {"start", "woken", "checked", "decided"} =>
          row' = row /\ watch[t].at \in {"start", "woken", "checked"}
    BY <1>6, WatcherGoes
  <2> QED
    BY <2>1, <2>2, <2>3 DEF OpenWhileWatched
<1>7. CASE WebStep
  <2>1. UNCHANGED <<act, watch>>
    BY <1>7, WebLeavesTheWatcher
  <2> QED
    BY <1>1, <1>7, <2>1, WebMoves
<1>8. CASE Crash
  BY <1>0, <1>8 DEF Crash, OpenWhileWatched, NoWatch
<1>9. CASE Restart
  <2>1. /\ ~up /\ UNCHANGED <<act, watch>>
    BY <1>9 DEF Restart, webVars
  <2> QED
    BY <2>1 DEF OpenWhileWatched, NobodyWhenDown
<1>10. ASSUME NEW t \in Task, RunnerStep(t) \/ CoreStep(t) \/ OrchStep(t)
       PROVE  UNCHANGED <<act, watch>> /\ UNCHANGED storeVars
  BY <1>10, RunnerLeavesTheStores, RunnerLeavesTheActivation
<1>11. CASE SidecarDies \/ UNCHANGED vars \/ \E c \in Call : ToolWrite(c) \/ GateReturns(c)
  <2>1. UNCHANGED storeVars /\ UNCHANGED webVars
    BY <1>11 DEF SidecarDies, vars, ToolWrite, GateReturns
  <2> QED
    BY <1>2, <2>1 DEF webVars
<1> QED
  BY <1>2, <1>3, <1>4, <1>5, <1>6, <1>7, <1>8, <1>9, <1>10, <1>11 DEF Next, ActStep, OtherStart

LEMMA DeliversStep ==
  ASSUME "store" \notin Faults, RunTypeOK, RowInv, DeliversTheConcluded, [Next]_vars
  PROVE  DeliversTheConcluded'
<1>0. /\ act \in [Task -> {"idle", "started", "registered", "saved", "done", "refused", "failed"}]
      /\ watch \in [Task -> Watching] /\ row \in [Task -> RunRow]
  BY DEF RunTypeOK, HandlerTypes, StoreTypes
<1>1. ASSUME UNCHANGED <<watch, lib>>, \A u \in Task : row'[u].status = row[u].status
      PROVE  DeliversTheConcluded'
  BY <1>1 DEF DeliversTheConcluded
<1>2. CASE UNCHANGED watch /\ UNCHANGED storeVars
  BY <1>1, <1>2 DEF storeVars
<1>3. ASSUME NEW t \in Task, StartSquadTask(t) \/ RunnerStep(t) \/ CoreStep(t) \/ OrchStep(t)
      PROVE  DeliversTheConcluded'
  BY <1>2, <1>3, RunnerLeavesTheStores
<1>4. ASSUME NEW t \in Task, ActSaveRun(t) PROVE DeliversTheConcluded'
  <2>1. /\ act[t] = "registered" /\ UNCHANGED <<watch, lib>>
        /\ UNCHANGED row \/ SetStatus(t, "ativa")
    BY <1>4 DEF ActSaveRun, SetStatus
  <2>2. \A u \in Task : (u # t => row'[u].status = row[u].status)
    BY <2>1, RowSteps
  <2>3. watch[t].at = "none" /\ lib[t] = {}
    BY <2>1 DEF RowInv, ActivationFollowsRow
  <2> QED
    BY <1>0, <2>1, <2>2, <2>3 DEF DeliversTheConcluded
<1>5. ASSUME NEW t \in Task, ActRegisterAbort(t) \/ ActRecord(t) PROVE DeliversTheConcluded'
  <2>1. /\ UNCHANGED <<row, lib>>
        /\ UNCHANGED watch \/ watch' = [watch EXCEPT ![t] = [watch[t] EXCEPT !.at = "start"]]
    BY <1>5 DEF ActRegisterAbort, ActRecord, storeVars
  <2> QED
    BY <1>0, <2>1 DEF DeliversTheConcluded, Watching
<1>6. ASSUME NEW t \in Task, WatchStep(t) PROVE DeliversTheConcluded'
  <2>1. \A u \in Task : u # t => watch'[u] = watch[u] /\ row'[u] = row[u] /\ lib'[u] = lib[u]
    BY <1>6, WatchMoves
  <2>2. SetStatus(t, "concluida") => row'[t].status = "concluida"
    BY RowSteps DEF Terminal
  <2>3. watch'[t].at \in {"collect", "deliver", "append"} => row'[t].status = "concluida"
    BY <1>6, <2>2, WatcherGoes DEF DeliversTheConcluded
  <2>4. ASSUME lib'[t] # {} PROVE row'[t].status = "concluida"
    <3>1. watch'[t].at # "none"
      BY <1>6, WatcherGoes
    <3>2. CASE watch'[t].at \in {"start", "woken", "checked", "decided"}
      BY <1>6, <2>4, <3>2, WatcherGoes DEF RowInv, ExportsFollowLibrary
    <3>3. CASE watch'[t].at = "done"
      BY <1>6, <2>4, <3>3, WatcherGoes DEF RowInv, ExportsFollowLibrary, DeliversTheConcluded
    <3> QED
      BY <1>6, <2>3, <3>1, <3>2, <3>3, WatchTypesStep DEF Watching, Next
  <2> QED
    BY <2>1, <2>3, <2>4 DEF DeliversTheConcluded
<1>7. CASE WebStep
  <2>1. UNCHANGED <<lib, watch>>
    BY <1>7, WebLeavesTheWatcher
  <2> QED
    BY <1>1, <1>7, <2>1, WebMoves
<1>8. CASE Crash
  BY <1>8 DEF Crash, DeliversTheConcluded, NoWatch, storeVars
<1>9. CASE Restart \/ OtherStart
  <2>1. Reconciled /\ UNCHANGED <<watch, lib>>
    BY <1>9 DEF Restart, OtherStart, webVars
  <2>2. \A u \in Task : row[u].status = "concluida" => row'[u].status = "concluida"
    BY <1>0, <2>1 DEF Reconciled
  <2> QED
    BY <2>1, <2>2 DEF DeliversTheConcluded
<1>10. CASE SidecarDies \/ UNCHANGED vars \/ \E c \in Call : ToolWrite(c) \/ GateReturns(c)
  <2>1. UNCHANGED storeVars /\ UNCHANGED webVars
    BY <1>10 DEF SidecarDies, vars, ToolWrite, GateReturns
  <2> QED
    BY <1>2, <2>1 DEF webVars
<1> QED
  BY <1>3, <1>4, <1>5, <1>6, <1>7, <1>8, <1>9, <1>10 DEF Next, ActStep

(* Each step of the run is one of the lifecycle, or leaves the row alone. *)
LEMMA LifecycleStep ==
  ASSUME "store" \notin Faults, ~SecondStart, RunTypeOK, RowInv, DecidedIsTerminal, OpenWhileWatched,
         DeliversTheConcluded, [Next]_vars
  PROVE  [Lifecycle!Next]_(Lifecycle!vars)
<1>0. /\ row \in [Task -> RunRow] /\ lib \in [Task -> SUBSET File]
      /\ \A t \in Task : row[t] = [status |-> row[t].status, gates |-> row[t].gates]
  BY DEF RunTypeOK, StoreTypes, RunRow
<1> DEFINE status == [t \in Task |-> row[t].status]
           gates == [t \in Task |-> row[t].gates]
<1>1. CASE UNCHANGED storeVars
  BY <1>1 DEF storeVars, Lifecycle!vars
<1>2. ASSUME UNCHANGED <<row, lib>> PROVE [Lifecycle!Next]_(Lifecycle!vars)
  BY <1>2 DEF Lifecycle!vars
<1>3. ASSUME NEW t \in Task, NEW s, SetStatus(t, s)
      PROVE  status' = [status EXCEPT ![t] = s] /\ gates' = gates
  BY <1>0, <1>3 DEF SetStatus, RunRow
<1>4. ASSUME NEW t \in Task, ActStep(t) PROVE [Lifecycle!Next]_(Lifecycle!vars)
  <2>1. CASE ActRegisterAbort(t) \/ ActRecord(t)
    BY <1>1, <1>2, <2>1 DEF ActRegisterAbort, ActRecord
  <2>2. CASE ActSaveRun(t)
    <3>1. act[t] = "registered" /\ UNCHANGED lib /\ SetStatus(t, "ativa")
      BY <2>2 DEF ActSaveRun, SetStatus
    <3>2. row[t].status = "ausente"
      BY <3>1 DEF RowInv, ActivationFollowsRow
    <3>3. Lifecycle!Activate(t)
      BY <1>3, <3>1, <3>2 DEF Lifecycle!Activate
    <3> QED
      BY <3>3 DEF Lifecycle!Next
  <2> QED
    BY <1>4, <2>1, <2>2 DEF ActStep
<1>5. ASSUME NEW t \in Task, WatchStep(t) PROVE [Lifecycle!Next]_(Lifecycle!vars)
  <2>1. CASE WatchWake(t) \/ WatchCheckStop(t) \/ WatchReadLog(t) \/ WatchCollect(t)
    BY <1>1, <2>1 DEF WatchWake, WatchCheckStop, WatchReadLog, WatchCollect
  <2>2. CASE WatchSave(t)
    <3>1. watch[t].at = "decided" /\ UNCHANGED lib /\ SetStatus(t, watch[t].status)
      BY <2>2 DEF WatchSave
    <3>2. row[t].status = "ativa" /\ watch[t].status \in Terminal
      BY <3>1 DEF OpenWhileWatched, DecidedIsTerminal
    <3>3. PICK s \in Terminal : s = watch[t].status
      BY <3>2
    <3>4. s \in Lifecycle!Terminal /\ Lifecycle!End(t, s)
      BY <1>3, <3>1, <3>2, <3>3 DEF Lifecycle!End, Lifecycle!CanTransitionTo, Lifecycle!Terminal, Terminal
    <3> QED
      BY <3>4 DEF Lifecycle!Next
  <2>3. ASSUME NEW f \in File, DeliverInsert(t, f) PROVE [Lifecycle!Next]_(Lifecycle!vars)
    <3>1. /\ watch[t].at = "deliver" /\ UNCHANGED row /\ lib' = [lib EXCEPT ![t] = @ \cup {f}]
      BY <2>3 DEF DeliverInsert
    <3>2. Lifecycle!Deliver(t, f)
      BY <3>1 DEF Lifecycle!Deliver, DeliversTheConcluded
    <3> QED
      BY <3>2 DEF Lifecycle!Next
  <2>4. CASE DeliverAppend(t)
    BY <1>2, <2>4 DEF DeliverAppend
  <2> QED
    BY <1>5, <2>1, <2>2, <2>3, <2>4 DEF WatchStep
<1>6. ASSUME NEW h \in Handler, GateRecord(h) PROVE [Lifecycle!Next]_(Lifecycle!vars)
  <2>1. hand[h].task \in Task
    BY DEF RunTypeOK, HandlerTypes, Handling
  <2>2. CASE UNCHANGED row
    BY <1>2, <1>6, <2>2 DEF GateRecord
  <2>3. CASE /\ row[hand[h].task].status = "ativa" /\ UNCHANGED lib
             /\ row' = [row EXCEPT ![hand[h].task].gates = @ + 1]
    <3>1. PICK t \in Task : t = hand[h].task
      BY <2>1
    <3>2. Lifecycle!ApproveGate(t)
      BY <1>0, <2>3, <3>1 DEF Lifecycle!ApproveGate, RunRow
    <3> QED
      BY <3>2 DEF Lifecycle!Next
  <2> QED
    BY <1>6, <2>2, <2>3 DEF GateRecord
<1>7. CASE WebStep
  <2>1. ASSUME \/ \E h \in Handler : GateFact(h)
               \/ \E m \in Msg : AdjustFact(m)
        PROVE  UNCHANGED <<row, lib>>
    BY <2>1 DEF GateFact, AdjustFact
  <2>2. ASSUME NEW t \in Task,
               \/ \E h \in Handler : GateRelease(h, t)
               \/ \E m \in Msg : AdjustPush(m, t)
               \/ \E a \in {"allow", "deny"} : DevResolve(t, a)
               \/ \E k \in Stopper : Kill(k, t)
        PROVE  UNCHANGED storeVars
    BY <2>2 DEF GateRelease, AdjustPush, DevResolve, Kill
  <2>3. ASSUME \/ \E m \in Msg : AdjustEcho(m) \/ AdjustRelease(m)
               \/ \E k \in Stopper : KillGoesOn(k)
        PROVE  UNCHANGED storeVars
    BY <2>3 DEF AdjustEcho, AdjustRelease, KillGoesOn
  <2> QED
    BY <1>1, <1>2, <1>6, <1>7, <2>1, <2>2, <2>3 DEF WebStep
<1>8. CASE Restart
  <2>1. Reconciled /\ UNCHANGED lib
    BY <1>8 DEF Restart
  <2>2. row' = [t \in Task |-> IF row[t].status = "ativa" THEN [row[t] EXCEPT !.status = "encerrada"]
                               ELSE row[t]]
    BY <2>1 DEF Reconciled
  <2>3. \A t \in Task : /\ row'[t].gates = row[t].gates
                        /\ row'[t].status = IF row[t].status = "ativa" THEN "encerrada"
                                            ELSE row[t].status
    BY <1>0, <2>2
  <2>4. Lifecycle!Reconcile
    BY <2>1, <2>3 DEF Lifecycle!Reconcile
  <2> QED
    BY <2>4 DEF Lifecycle!Next
<1>9. ASSUME NEW t \in Task, StartSquadTask(t) \/ RunnerStep(t) \/ CoreStep(t) \/ OrchStep(t)
      PROVE  UNCHANGED storeVars
  BY <1>9, RunnerLeavesTheStores
<1>10. CASE SidecarDies \/ Crash \/ UNCHANGED vars \/ \E c \in Call : ToolWrite(c) \/ GateReturns(c)
  BY <1>1, <1>10 DEF SidecarDies, Crash, vars, ToolWrite, GateReturns
<1> QED
  BY <1>1, <1>4, <1>5, <1>7, <1>8, <1>9, <1>10 DEF Next, OtherStart

(* The persisted run implements the domain's lifecycle, for any number of  *)
(* squads, handlers and crashes, where the run's row can be written and    *)
(* one dashboard alone has the workspace: the watcher writes the status it *)
(* decided over whatever another dashboard's start left there.             *)
THEOREM RunsImplementLifecycle ==
  ASSUME "store" \notin Faults, ~SecondStart
  PROVE  SafeSpec => RunHasItsLifecycle
<1> DEFINE LifeInv == /\ NobodyWhenDown /\ DecidedIsTerminal
                      /\ OpenWhileWatched /\ DeliversTheConcluded
<1>1. Init => LifeInv /\ Lifecycle!Init
  BY DEF Init, NobodyWhenDown, DecidedIsTerminal, OpenWhileWatched, DeliversTheConcluded, NoWatch,
     Lifecycle!Init
<1>2. RunTypeOK /\ RowInv /\ LifeInv /\ [Next]_vars => LifeInv'
  BY NobodyStep, DecidedStep, OpenStep, DeliversStep DEF RowInv
<1>3. RunTypeOK /\ RowInv /\ LifeInv /\ [Next]_vars => [Lifecycle!Next]_(Lifecycle!vars)
  BY LifecycleStep
<1> QED
  BY <1>1, <1>2, <1>3, RowInvariant, PTL DEF SafeSpec, RunHasItsLifecycle, Lifecycle!Spec

-----------------------------------------------------------------------------
(* The status tells the ending.  The watcher reads the hub in two          *)
(* sections and writes in a third: what it has seen stays so, because the  *)
(* log only grows, a stop is not taken back and a runner that is done      *)
(* stays done.                                                             *)

(* The steps that touch the hub's tasks. *)
LEMMA TaskSteps ==
  ASSUME RunTypeOK, [Next]_vars
  PROVE  \/ UNCHANGED <<issued, known, tasks, stop>>
         \/ \E t \in Task : StartSquadTask(t) \/ RegisterAbort(t) \/ Finish(t)
         \/ \E t \in Task, e \in Event : Publish(t, e) /\ UNCHANGED <<issued, known, stop>>
         \/ \E k \in Stopper : StopPublish(k) \/ StopFinish(k)
         \/ \E t \in Task :
              \/ \E c \in Call : RequestHitl(c, t)
              \/ \E a \in {"allow", "deny"} : ResolveHitl(t, a)
              \/ \E m \in Msg : PushUserMessage(m, t)
              \/ \E k \in Stopper : EmergencyStop(k, t)
         \/ Crash
<1>0. \A m \in Msg : post[m].task \in Task /\ m \in Event
  BY DEF RunTypeOK, TypeOK, Posted, Event
<1>1. CASE UNCHANGED hubVars
  BY <1>1 DEF hubVars
<1>2. ASSUME NEW t \in Task, StartSquadTask(t) \/ ActStep(t)
      PROVE  StartSquadTask(t) \/ RegisterAbort(t) \/ UNCHANGED hubVars
  BY <1>2 DEF ActStep, ActRegisterAbort, ActSaveRun, ActRecord
<1>3. ASSUME NEW t \in Task, RunnerStep(t)
      PROVE  \/ Finish(t) \/ UNCHANGED hubVars
             \/ \E e \in Event : Publish(t, e) /\ UNCHANGED <<issued, known, stop>>
  <2>1. "error" \in Event
    BY DEF Event
  <2>2. CASE Receive(t)
    BY <2>2 DEF Receive
  <2>3. CASE ReportPublish(t)
    BY <2>1, <2>3 DEF ReportPublish
  <2>4. CASE Boot(t) \/ Called(t) \/ LoopCheck(t) \/ Close(t) \/ Report(t) \/ Aborted(t)
    BY <2>4 DEF Boot, Called, LoopCheck, Close, Report, Aborted
  <2> QED
    BY <1>3, <2>2, <2>3, <2>4 DEF RunnerStep
<1>4. ASSUME NEW t \in Task, CoreStep(t) \/ OrchStep(t) \/ WatchStep(t)
      PROVE  \/ UNCHANGED <<issued, known, tasks, stop>>
             \/ \E c \in Call : RequestHitl(c, t)
  <2>1. CASE CoreStep(t)
    BY <2>1 DEF CoreStep, ToolVerdict, ToolNote, hubVars
  <2>2. CASE WatchStep(t)
    BY <2>2 DEF WatchStep, WatchWake, WatchCheckStop, WatchReadLog, WatchSave, WatchCollect,
       DeliverInsert, DeliverAppend, WatchOnly, hubVars
  <2>3. CASE OrchEmit(t) \/ OrchPlanVerdict(t) \/ OrchEnd(t)
    BY <2>3 DEF OrchEmit, OrchPlanVerdict, OrchEnd, hubVars
  <2>4. CASE \E c \in Call : OrchPlanGate(t, c) \/ \E f \in File : OrchRunTool(t, c, f)
    BY <2>4 DEF OrchPlanGate, OrchRunTool
  <2>5. CASE \E c \in Call : ReactTimeout(t, c)
    BY <2>5 DEF ReactTimeout, HitlAbandoned, hubVars
  <2> QED
    BY <1>4, <2>1, <2>2, <2>3, <2>4, <2>5 DEF OrchStep
<1>5. ASSUME NEW t \in Task,
             \/ \E h \in Handler : GateRelease(h, t)
             \/ \E m \in Msg : AdjustPush(m, t)
             \/ \E a \in {"allow", "deny"} : DevResolve(t, a)
             \/ \E k \in Stopper : Kill(k, t)
      PROVE  \/ \E a \in {"allow", "deny"} : ResolveHitl(t, a)
             \/ \E m \in Msg : PushUserMessage(m, t)
             \/ \E k \in Stopper : EmergencyStop(k, t)
  BY <1>5 DEF GateRelease, AdjustPush, DevResolve, Kill
<1>6. CASE \/ \E h \in Handler : GateRecord(h) \/ GateFact(h)
           \/ \E m \in Msg : AdjustFact(m)
  BY <1>1, <1>6 DEF GateRecord, GateFact, AdjustFact
<1>7. ASSUME NEW m \in Msg, AdjustEcho(m)
      PROVE  \E t \in Task, e \in Event : Publish(t, e) /\ UNCHANGED <<issued, known, stop>>
  BY <1>0, <1>7 DEF AdjustEcho, EchoUserMessage
<1>8. ASSUME NEW m \in Msg, AdjustRelease(m)
      PROVE  \/ \E t \in Task, a \in {"allow", "deny"} : ResolveHitl(t, a)
             \/ UNCHANGED hubVars
  BY <1>0, <1>8 DEF AdjustRelease
<1>9. ASSUME NEW k \in Stopper, KillGoesOn(k) PROVE StopPublish(k) \/ StopFinish(k)
  BY <1>9 DEF KillGoesOn
<1>10. CASE \/ SidecarDies \/ Restart \/ OtherStart \/ UNCHANGED vars
            \/ \E c \in Call : ToolWrite(c) \/ GateReturns(c)
  BY <1>10 DEF SidecarDies, Restart, OtherStart, vars, ToolWrite, GateReturns, HitlAnswered, HitlTimeout,
     hubVars
<1>11. CASE WebStep
  BY <1>1, <1>5, <1>6, <1>7, <1>8, <1>9, <1>11 DEF WebStep
<1>12. CASE \E t \in Task : \/ StartSquadTask(t) \/ ActStep(t) \/ RunnerStep(t) \/ CoreStep(t)
                           \/ OrchStep(t) \/ WatchStep(t)
  BY <1>1, <1>2, <1>3, <1>4, <1>12
<1> QED
  BY <1>10, <1>11, <1>12 DEF Next

HasError(log) == \E i \in DOMAIN log : log[i] = "error"

(* What a task entry keeps. *)
Keeps(old, new) ==
  /\ HasError(old.log) => HasError(new.log)
  /\ old.stopped => new.stopped
  /\ ~old.open => ~new.open

LEMMA KeptEntries ==
  ASSUME NEW s \in TaskState, NEW e \in Event
  PROVE  /\ Keeps(s, [s EXCEPT !.log = Append(@, e)])
         /\ e = "error" => HasError([s EXCEPT !.log = Append(@, e)].log)
         /\ [s EXCEPT !.log = Append(@, e)].open = s.open
         /\ Keeps(s, [s EXCEPT !.open = FALSE])
<1>1. s.log \in Seq(Event)
  BY DEF TaskState
<1>2. /\ DOMAIN Append(s.log, e) = 1 .. Len(s.log) + 1 /\ DOMAIN s.log = 1 .. Len(s.log)
      /\ Len(s.log) \in Nat /\ Append(s.log, e)[Len(s.log) + 1] = e
      /\ \A i \in 1 .. Len(s.log) : Append(s.log, e)[i] = s.log[i]
  BY <1>1
<1>3. /\ HasError(s.log) => HasError(Append(s.log, e))
      /\ e = "error" => HasError(Append(s.log, e))
  BY <1>2 DEF HasError
<1>4. /\ [s EXCEPT !.log = Append(@, e)].log = Append(s.log, e)
      /\ [s EXCEPT !.log = Append(@, e)].open = s.open
      /\ [s EXCEPT !.log = Append(@, e)].stopped = s.stopped
      /\ [s EXCEPT !.open = FALSE].log = s.log /\ ~[s EXCEPT !.open = FALSE].open
      /\ [s EXCEPT !.open = FALSE].stopped = s.stopped
  BY DEF TaskState
<1> QED
  BY <1>3, <1>4 DEF Keeps

LEMMA TasksMove ==
  ASSUME RunTypeOK, [Next]_vars, ~Crash, NEW u \in Task, ~StartSquadTask(u)
  PROVE  /\ Keeps(tasks[u], tasks'[u])
         /\ tasks[u].open /\ ~tasks'[u].open =>
              Finish(u) \/ \E k \in Stopper : StopFinish(k) /\ stop[k].task = u
         /\ u \in issued <=> u \in issued'
<1>0. tasks \in [Task -> TaskState] /\ tasks[u] \in TaskState /\ "error" \in Event
  BY DEF RunTypeOK, TypeOK, Event
<1> DEFINE Goal == /\ Keeps(tasks[u], tasks'[u])
                   /\ tasks[u].open /\ ~tasks'[u].open =>
                        Finish(u) \/ \E k \in Stopper : StopFinish(k) /\ stop[k].task = u
                   /\ u \in issued <=> u \in issued'
<1>1. ASSUME tasks'[u] = tasks[u], u \in issued <=> u \in issued' PROVE Goal
  BY <1>1 DEF Keeps
<1>2. ASSUME tasks'[u].log = tasks[u].log, tasks'[u].open = tasks[u].open,
             tasks[u].stopped => tasks'[u].stopped, UNCHANGED issued
      PROVE  Goal
  BY <1>2 DEF Keeps
<1>3. ASSUME NEW t \in Task, NEW e \in Event, Publish(t, e), UNCHANGED issued PROVE Goal
  <2>1. tasks' = [tasks EXCEPT ![t] = [tasks[t] EXCEPT !.log = Append(@, e)]]
    BY <1>3 DEF Publish
  <2>2. CASE t = u
    <3>1. tasks'[u] = [tasks[u] EXCEPT !.log = Append(@, e)]
      BY <1>0, <2>1, <2>2
    <3>2. Keeps(tasks[u], tasks'[u]) /\ tasks'[u].open = tasks[u].open
      BY <1>0, <3>1, KeptEntries
    <3> QED
      BY <1>3, <3>2
  <2> QED
    BY <1>0, <1>1, <1>3, <2>1, <2>2
<1>4. ASSUME NEW t \in Task, FinishTask(t), UNCHANGED issued,
             Finish(t) \/ \E k \in Stopper : StopFinish(k) /\ stop[k].task = t
      PROVE  Goal
  <2>1. tasks' = [tasks EXCEPT ![t] = [tasks[t] EXCEPT !.open = FALSE]]
    BY <1>4 DEF FinishTask
  <2>2. CASE t = u
    <3>1. Keeps(tasks[u], tasks'[u])
      BY <1>0, <2>1, <2>2, KeptEntries
    <3> QED
      BY <1>4, <2>2, <3>1
  <2> QED
    BY <1>0, <1>1, <1>4, <2>1, <2>2
<1>5. ASSUME NEW t \in Task, StartSquadTask(t) PROVE Goal
  <2>1. t # u /\ tasks' = [tasks EXCEPT ![t] = Fresh] /\ issued' = issued \cup {t}
    BY <1>5 DEF StartSquadTask, NewTask
  <2> QED
    BY <1>0, <1>1, <2>1
<1>6. ASSUME NEW t \in Task, RegisterAbort(t) PROVE Goal
  BY <1>0, <1>2, <1>6 DEF RegisterAbort, TaskState
<1>7. ASSUME NEW t \in Task, Finish(t) PROVE Goal
  BY <1>4, <1>7 DEF Finish
<1>8. ASSUME NEW k \in Stopper, StopPublish(k) \/ StopFinish(k) PROVE Goal
  <2>1. stop[k].task \in Task
    BY DEF RunTypeOK, TypeOK, Stopping
  <2>2. CASE StopPublish(k)
    BY <1>0, <1>3, <2>1, <2>2 DEF StopPublish
  <2>3. CASE StopFinish(k)
    BY <1>4, <2>1, <2>3 DEF StopFinish
  <2> QED
    BY <1>8, <2>2, <2>3
<1>9. ASSUME NEW t \in Task, NEW c \in Call, RequestHitl(c, t) PROVE Goal
  BY <1>0, <1>2, <1>9 DEF RequestHitl, TaskState
<1>10. ASSUME NEW t \in Task, NEW a \in {"allow", "deny"}, ResolveHitl(t, a) PROVE Goal
  BY <1>0, <1>2, <1>10 DEF ResolveHitl, TaskState
<1>11. ASSUME NEW t \in Task, NEW m \in Msg, PushUserMessage(m, t) PROVE Goal
  <2>1. UNCHANGED tasks \/ tasks' = [tasks EXCEPT ![t].inbox = Append(@, m)]
    BY <1>11 DEF PushUserMessage
  <2>2. UNCHANGED issued
    BY <1>11 DEF PushUserMessage
  <2>3. CASE tasks'[u] = tasks[u]
    BY <1>1, <2>2, <2>3
  <2>4. CASE t = u /\ tasks' = [tasks EXCEPT ![t].inbox = Append(@, m)]
    <3>1. /\ tasks'[u].log = tasks[u].log /\ tasks'[u].open = tasks[u].open
          /\ tasks'[u].stopped = tasks[u].stopped
      BY <1>0, <2>4 DEF TaskState
    <3> QED
      BY <1>2, <2>2, <3>1
  <2> QED
    BY <1>0, <2>1, <2>3, <2>4
<1>12. ASSUME NEW t \in Task, NEW k \in Stopper, EmergencyStop(k, t) PROVE Goal
  <2>1. \/ UNCHANGED tasks
        \/ tasks' = [tasks EXCEPT ![t] = [tasks[t] EXCEPT !.stopped = TRUE,
                        !.abort = IF @ = "armed" THEN "fired" ELSE @, !.pending = NoCall]]
    BY <1>12 DEF EmergencyStop
  <2>2. UNCHANGED issued
    BY <1>12 DEF EmergencyStop
  <2>3. CASE tasks'[u] = tasks[u]
    BY <1>1, <2>2, <2>3
  <2>4. CASE t = u /\ tasks' = [tasks EXCEPT ![t] = [tasks[t] EXCEPT !.stopped = TRUE,
                        !.abort = IF @ = "armed" THEN "fired" ELSE @, !.pending = NoCall]]
    <3>1. /\ tasks'[u].log = tasks[u].log /\ tasks'[u].open = tasks[u].open /\ tasks'[u].stopped
      BY <1>0, <2>4 DEF TaskState
    <3> QED
      BY <1>2, <2>2, <3>1
  <2> QED
    BY <1>0, <2>1, <2>3, <2>4
<1> QED
  BY <1>1, <1>3, <1>5, <1>6, <1>7, <1>8, <1>9, <1>10, <1>11, <1>12, TaskSteps

(* Where a runner may go. *)
LEMMA RunnersMove ==
  ASSUME RunTypeOK, [Next]_vars, ~Crash, NEW u \in Task, ~StartSquadTask(u)
  PROVE  /\ run[u].at \in {"none", "done"} => run'[u] = run[u]
         /\ run'[u].at = "finish" /\ run'[u] # run[u] =>
              \/ run'[u].ok
              \/ tasks[u].stopped
              \/ HasError(tasks'[u].log)
         /\ run'[u].at = "done" => run[u].at \in {"finish", "done"} /\ run'[u].ok = run[u].ok
         /\ Finish(u) => run'[u].at = "done"
<1>0. run \in [Task -> Running] /\ run[u] \in Running /\ tasks \in [Task -> TaskState]
      /\ "error" \in Event
  BY DEF RunTypeOK, WorkTypes, TypeOK, Event
<1> DEFINE Goal == /\ run[u].at \in {"none", "done"} => run'[u] = run[u]
                   /\ run'[u].at = "finish" /\ run'[u] # run[u] =>
                        \/ run'[u].ok
                        \/ tasks[u].stopped
                        \/ HasError(tasks'[u].log)
                   /\ run'[u].at = "done" => run[u].at \in {"finish", "done"} /\ run'[u].ok = run[u].ok
                   /\ Finish(u) => run'[u].at = "done"
<1>2. Finish(u) => run'[u].at = "done" /\ run[u].at = "finish" /\ run'[u].ok = run[u].ok
  BY <1>0 DEF Finish, RunnerTo
<1>3. ASSUME run'[u] = run[u] PROVE Goal
  <2>1. ~Finish(u)
    BY <1>2, <1>3
  <2> QED
    BY <1>3, <2>1
<1>4. CASE Boot(u) \/ Called(u) \/ LoopCheck(u) \/ Aborted(u)
  <2>1. /\ run[u].at \in {"boot", "call", "loop", "recv"}
        /\ \E at \in {"call", "report", "loop", "recv", "aborted"} : RunnerTo(u, at, FALSE)
    BY <1>4 DEF Boot, Called, LoopCheck, Aborted
  <2>2. run'[u].at \in {"call", "report", "loop", "recv", "aborted"}
    BY <1>0, <2>1 DEF RunnerTo
  <2> QED
    BY <1>2, <2>1, <2>2
<1>5. CASE Receive(u)
  <2>1. run[u].at = "recv" /\ \E at \in {"close", "loop"}, ok \in BOOLEAN : RunnerTo(u, at, ok)
    BY <1>5 DEF Receive
  <2>2. run'[u].at \in {"close", "loop"}
    BY <1>0, <2>1 DEF RunnerTo
  <2> QED
    BY <1>2, <2>1, <2>2
<1>6. CASE Close(u)
  <2>1. run[u].at = "close" /\ RunnerTo(u, IF run[u].ok THEN "finish" ELSE "report", run[u].ok)
    BY <1>6 DEF Close
  <2>2. run'[u].at = (IF run[u].ok THEN "finish" ELSE "report") /\ run'[u].ok = run[u].ok
    BY <1>0, <2>1 DEF RunnerTo
  <2> QED
    BY <1>2, <2>1, <2>2
<1>7. CASE Report(u)
  <2>1. run[u].at = "report" /\ RunnerTo(u, IF tasks[u].stopped THEN "finish" ELSE "publish", FALSE)
    BY <1>7 DEF Report
  <2>2. run'[u].at = (IF tasks[u].stopped THEN "finish" ELSE "publish")
    BY <1>0, <2>1 DEF RunnerTo
  <2> QED
    BY <1>2, <2>1, <2>2
<1>8. CASE ReportPublish(u)
  <2>1. run[u].at = "publish" /\ RunnerTo(u, "finish", FALSE) /\ Publish(u, "error")
    BY <1>8 DEF ReportPublish
  <2>2. run'[u].at = "finish"
    BY <1>0, <2>1 DEF RunnerTo
  <2>3. tasks' = [tasks EXCEPT ![u] = [tasks[u] EXCEPT !.log = Append(@, "error")]]
    BY <2>1 DEF Publish
  <2>4. tasks'[u] = [tasks[u] EXCEPT !.log = Append(@, "error")]
    BY <1>0, <2>3
  <2>5. HasError(tasks'[u].log)
    BY <1>0, <2>4, KeptEntries
  <2> QED
    BY <1>2, <2>1, <2>2, <2>5
<1>9. CASE Finish(u)
  BY <1>2, <1>9
<1>10. ASSUME NEW t \in Task, t # u, StartSquadTask(t) \/ RunnerStep(t) PROVE run'[u] = run[u]
  <2>1. UNCHANGED run \/ (\E r : run' = [run EXCEPT ![t] = r])
    <3>1. CASE StartSquadTask(t)
      BY <3>1 DEF StartSquadTask
    <3>2. CASE RunnerStep(t)
      <4>1. \E at, ok : RunnerTo(t, at, ok)
        BY <3>2 DEF RunnerStep, Boot, Called, LoopCheck, Receive, Close, Report, ReportPublish, Finish,
           Aborted
      <4> QED
        BY <4>1 DEF RunnerTo
    <3> QED
      BY <1>10, <3>1, <3>2
  <2> QED
    BY <1>0, <1>10, <2>1
<1>11. ASSUME NEW t \in Task, ActStep(t) \/ CoreStep(t) \/ OrchStep(t) \/ WatchStep(t)
       PROVE  UNCHANGED run
  <2>1. CASE ActStep(t)
    BY <2>1 DEF ActStep, ActRegisterAbort, ActSaveRun, ActRecord, runVars
  <2>2. CASE CoreStep(t)
    BY <2>2 DEF CoreStep, ToolVerdict, ToolNote, runVars
  <2>3. CASE OrchStep(t)
    BY <2>3 DEF OrchStep, OrchEmit, OrchPlanVerdict, OrchEnd, OrchPlanGate, ReactTimeout, OrchRunTool,
       runVars
  <2>4. CASE WatchStep(t)
    BY <2>4 DEF WatchStep, WatchWake, WatchCheckStop, WatchReadLog, WatchSave, WatchCollect,
       DeliverInsert, DeliverAppend, WatchOnly, runVars
  <2> QED
    BY <1>11, <2>1, <2>2, <2>3, <2>4
<1>12. CASE WebStep
  BY <1>3, <1>12, WebLeavesTheWatcher
<1>13. CASE \/ SidecarDies \/ Restart \/ OtherStart \/ UNCHANGED vars
            \/ \E c \in Call : ToolWrite(c) \/ GateReturns(c)
  <2>1. UNCHANGED run
    BY <1>13 DEF SidecarDies, Restart, OtherStart, vars, ToolWrite, GateReturns, WebOnly, runVars
  <2> QED
    BY <1>3, <2>1
<1>14. CASE RunnerStep(u)
  BY <1>4, <1>5, <1>6, <1>7, <1>8, <1>9, <1>14 DEF RunnerStep
<1> QED
  BY <1>3, <1>10, <1>11, <1>12, <1>13, <1>14 DEF Next

(* Nobody is at work for a task that was not handed out. *)
OnlyTheIssued ==
  /\ known = issued
  /\ \A t \in Task :
       run[t].at # "none" \/ watch[t].at # "none" \/ act[t] \in {"started", "registered", "saved"} =>
         t \in issued

StopsAreHeld ==
  \A k \in Stopper : stop[k].at \in {"locked", "published"} =>
    stop[k].task \in issued /\ tasks[stop[k].task].stopped

(* A runner ends well, with an error on the log or by a stop; a stream     *)
(* closes for a stop or for a runner that is done.                         *)
EndsAreExplained ==
  \A t \in Task :
    /\ run[t].at \in {"finish", "done"} =>
         run[t].ok \/ HasError(tasks[t].log) \/ tasks[t].stopped
    /\ t \in issued /\ ~tasks[t].open => tasks[t].stopped \/ run[t].at = "done"

Tells(t, status) ==
  /\ status = "concluida" => run[t].at = "done" /\ run[t].ok
  /\ status = "erro" => HasError(tasks[t].log)
  /\ status = "encerrada" => tasks[t].stopped

(* What the watcher has seen is still so. *)
WatcherIsRight ==
  \A t \in Task :
    /\ watch[t].at = "woken" => ~tasks[t].open
    /\ watch[t].at = "checked" => run[t].at = "done" /\ (run[t].ok \/ HasError(tasks[t].log))
    /\ watch[t].at = "decided" => Tells(t, watch[t].status)

(* Before any crash, and with no other dashboard to write it. *)
RowsTellTheEnding ==
  crashes = 0 => \A t \in Task :
    /\ row[t].status # "ausente" => t \in issued
    /\ Tells(t, row[t].status)

LEMMA IssuedStep ==
  ASSUME RunTypeOK, OnlyTheIssued, [Next]_vars
  PROVE  OnlyTheIssued'
<1>0. /\ act \in [Task -> {"idle", "started", "registered", "saved", "done", "refused", "failed"}]
      /\ watch \in [Task -> Watching] /\ run \in [Task -> Running]
  BY DEF RunTypeOK, HandlerTypes, WorkTypes
<1>1. CASE Crash
  BY <1>0, <1>1 DEF Crash, OnlyTheIssued, NoRun, NoWatch
<1>2. (known' = issued' /\ issued \subseteq issued') \/ Crash
  <2>1. CASE UNCHANGED <<issued, known, tasks, stop>>
    BY <2>1 DEF OnlyTheIssued
  <2>2. ASSUME NEW t \in Task, StartSquadTask(t) PROVE known' = issued' /\ issued \subseteq issued'
    BY <2>2 DEF StartSquadTask, NewTask, OnlyTheIssued
  <2>3. ASSUME NEW t \in Task, RegisterAbort(t) \/ Finish(t) PROVE UNCHANGED <<issued, known>>
    BY <2>3 DEF RegisterAbort, Finish
  <2>4. ASSUME NEW k \in Stopper, StopPublish(k) \/ StopFinish(k) PROVE UNCHANGED <<issued, known>>
    BY <2>4 DEF StopPublish, StopFinish
  <2>5. ASSUME NEW t \in Task,
               \/ \E c \in Call : RequestHitl(c, t)
               \/ \E a \in {"allow", "deny"} : ResolveHitl(t, a)
               \/ \E m \in Msg : PushUserMessage(m, t)
               \/ \E k \in Stopper : EmergencyStop(k, t)
        PROVE  UNCHANGED <<issued, known>>
    BY <2>5 DEF RequestHitl, ResolveHitl, PushUserMessage, EmergencyStop
  <2> QED
    BY <2>1, <2>2, <2>3, <2>4, <2>5, TaskSteps DEF OnlyTheIssued
<1>3. ASSUME NEW u \in Task, ~Crash,
             \/ run'[u].at # "none" \/ watch'[u].at # "none"
             \/ act'[u] \in {"started", "registered", "saved"}
      PROVE  u \in issued'
  <2>1. CASE StartSquadTask(u)
    BY <2>1 DEF StartSquadTask, NewTask
  <2>2. CASE ~StartSquadTask(u) /\ run'[u].at # "none"
    <3>1. run[u].at # "none"
      BY <1>3, <2>2, RunnersMove
    <3> QED
      BY <1>2, <1>3, <3>1 DEF OnlyTheIssued
  <2>3. CASE ~StartSquadTask(u) /\ (watch'[u].at # "none" \/ act'[u] \in {"started", "registered", "saved"})
    <3>1. CASE watch'[u] = watch[u] /\ act'[u] = act[u]
      BY <1>2, <1>3, <2>3, <3>1 DEF OnlyTheIssued
    <3>2. ASSUME NEW t \in Task, ActStep(t)
          PROVE  u # t => watch'[u] = watch[u] /\ act'[u] = act[u]
      BY <1>0, <3>2 DEF ActStep, ActRegisterAbort, ActSaveRun, ActRecord
    <3>3. CASE ActStep(u)
      <4>1. act[u] \in {"started", "registered", "saved"}
        BY <3>3 DEF ActStep, ActRegisterAbort, ActSaveRun, ActRecord
      <4> QED
        BY <1>2, <1>3, <4>1 DEF OnlyTheIssued
    <3>4. ASSUME NEW t \in Task, WatchStep(t), u # t PROVE watch'[u] = watch[u] /\ act'[u] = act[u]
      BY <3>4, WatchMoves
    <3>5. CASE WatchStep(u)
      <4>1. watch[u].at # "none"
        BY <3>5, WatchMoves
      <4> QED
        BY <1>2, <1>3, <4>1 DEF OnlyTheIssued
    <3>6. ASSUME NEW t \in Task, RunnerStep(t) \/ CoreStep(t) \/ OrchStep(t) PROVE UNCHANGED <<act, watch>>
      BY <3>6, RunnerLeavesTheStores, RunnerLeavesTheActivation
    <3>7. ASSUME NEW t \in Task, StartSquadTask(t)
          PROVE  watch'[u] = watch[u] /\ act'[u] = act[u]
      <4>1. u # t
        BY <2>3, <3>7
      <4>2. UNCHANGED watch /\ \E a : act' = [act EXCEPT ![t] = a]
        BY <3>7 DEF StartSquadTask
      <4> QED
        BY <1>0, <4>1, <4>2
    <3>8. CASE WebStep
      BY <3>1, <3>8, WebLeavesTheWatcher
    <3>9. CASE \/ SidecarDies \/ Restart \/ OtherStart \/ UNCHANGED vars
               \/ \E c \in Call : ToolWrite(c) \/ GateReturns(c)
      <4>1. UNCHANGED webVars
        BY <3>9 DEF SidecarDies, Restart, OtherStart, vars, ToolWrite, GateReturns
      <4> QED
        BY <3>1, <4>1 DEF webVars
    <3> QED
      BY <1>3, <3>1, <3>2, <3>3, <3>4, <3>5, <3>6, <3>7, <3>8, <3>9 DEF Next
  <2> QED
    BY <1>3, <2>1, <2>2, <2>3
<1> QED
  BY <1>1, <1>2, <1>3 DEF OnlyTheIssued

(* What holds of a task that was handed out stays so until a crash. *)
LEMMA IssuedMove ==
  ASSUME RunTypeOK, OnlyTheIssued, [Next]_vars, ~Crash, NEW u \in issued
  PROVE  /\ u \in Task /\ ~StartSquadTask(u)
         /\ Keeps(tasks[u], tasks'[u])
         /\ run[u].at = "done" => run'[u] = run[u]
         /\ u \in issued'
<1>1. u \in Task
  BY DEF RunTypeOK, TypeOK
<1>2. ~StartSquadTask(u)
  BY DEF StartSquadTask, NewTask
<1> QED
  BY <1>1, <1>2, TasksMove, RunnersMove

LEMMA StopsStep ==
  ASSUME RunTypeOK, OnlyTheIssued, StopsAreHeld, [Next]_vars
  PROVE  StopsAreHeld'
<1>0. stop \in [Stopper -> Stopping] /\ tasks \in [Task -> TaskState]
  BY DEF RunTypeOK, TypeOK
<1>1. CASE Crash
  <2>1. ASSUME NEW k \in Stopper PROVE stop'[k].at \notin {"locked", "published"}
    <3>1. stop[k] \in Stopping
      BY <1>0
    <3> QED
      BY <1>1, <3>1 DEF Crash, Stopping
  <2> QED
    BY <2>1 DEF StopsAreHeld
<1>2. ASSUME ~Crash,
             \A k \in Stopper : stop'[k].at \in {"locked", "published"} =>
               stop'[k] = stop[k] \/ (stop[k].at = "locked" /\ stop'[k].task = stop[k].task)
      PROVE  StopsAreHeld'
  <2>1. ASSUME NEW k \in Stopper, stop'[k].at \in {"locked", "published"}
        PROVE  stop'[k].task \in issued' /\ tasks'[stop'[k].task].stopped
    <3>1. /\ stop'[k].task = stop[k].task /\ stop[k].task \in issued
          /\ tasks[stop[k].task].stopped
      BY <1>2, <2>1 DEF StopsAreHeld
    <3>2. PICK u \in issued : u = stop[k].task
      BY <3>1
    <3>3. tasks'[u].stopped /\ u \in issued'
      BY <1>2, <3>1, <3>2, IssuedMove DEF Keeps
    <3> QED
      BY <3>1, <3>2, <3>3
  <2> QED
    BY <2>1 DEF StopsAreHeld
<1>3. CASE ~Crash /\ UNCHANGED stop
  BY <1>2, <1>3
<1>4. ASSUME NEW t \in Task, StartSquadTask(t) \/ RegisterAbort(t) \/ Finish(t) PROVE UNCHANGED stop
  BY <1>4 DEF StartSquadTask, NewTask, RegisterAbort, Finish
<1>5. ASSUME NEW t \in Task,
             \/ \E c \in Call : RequestHitl(c, t)
             \/ \E a \in {"allow", "deny"} : ResolveHitl(t, a)
             \/ \E m \in Msg : PushUserMessage(m, t)
      PROVE  UNCHANGED stop
  BY <1>5 DEF RequestHitl, ResolveHitl, PushUserMessage
<1>6. ASSUME NEW k \in Stopper, ~Crash, StopPublish(k) \/ StopFinish(k) PROVE StopsAreHeld'
  <2>1. \/ stop[k].at = "locked" /\ stop' = [stop EXCEPT ![k].at = "published"]
        \/ stop' = [stop EXCEPT ![k].at = "done"]
    BY <1>6 DEF StopPublish, StopFinish
  <2>2. \A j \in Stopper : stop'[j].at \in {"locked", "published"} =>
               stop'[j] = stop[j] \/ (stop[j].at = "locked" /\ stop'[j].task = stop[j].task)
    BY <1>0, <2>1 DEF Stopping
  <2> QED
    BY <1>2, <1>6, <2>2
<1>7. ASSUME NEW t \in Task, NEW k \in Stopper, ~Crash, EmergencyStop(k, t) PROVE StopsAreHeld'
  <2>1. CASE /\ t \in known /\ stop' = [stop EXCEPT ![k] = [at |-> "locked", task |-> t]]
             /\ tasks' = [tasks EXCEPT ![t] = [tasks[t] EXCEPT !.stopped = TRUE,
                             !.abort = IF @ = "armed" THEN "fired" ELSE @, !.pending = NoCall]]
             /\ UNCHANGED issued
    <3>1. tasks'[t].stopped /\ t \in issued'
      BY <1>0, <2>1 DEF TaskState, OnlyTheIssued
    <3>2. \A u \in issued : tasks[u].stopped => tasks'[u].stopped
      BY <1>7, IssuedMove DEF Keeps
    <3>3. \A j \in Stopper : j # k => stop'[j] = stop[j]
      BY <1>0, <2>1
    <3>4. stop'[k].task = t
      BY <1>0, <2>1
    <3> QED
      BY <2>1, <3>1, <3>2, <3>3, <3>4 DEF StopsAreHeld
  <2>2. CASE stop' = [stop EXCEPT ![k] = [at |-> "unknown", task |-> t]]
    <3>1. \A j \in Stopper : stop'[j].at \in {"locked", "published"} => stop'[j] = stop[j]
      BY <1>0, <2>2
    <3> QED
      BY <1>2, <1>7, <3>1
  <2> QED
    BY <1>7, <2>1, <2>2 DEF EmergencyStop
<1> QED
  BY <1>1, <1>3, <1>4, <1>5, <1>6, <1>7, TaskSteps

LEMMA EndsStep ==
  ASSUME RunTypeOK, OnlyTheIssued, StopsAreHeld, EndsAreExplained, [Next]_vars
  PROVE  EndsAreExplained'
<1>0. run \in [Task -> Running] /\ tasks \in [Task -> TaskState]
  BY DEF RunTypeOK, WorkTypes, TypeOK
<1>1. CASE Crash
  BY <1>1 DEF Crash, EndsAreExplained, NoRun
<1>2. ASSUME NEW u \in Task, StartSquadTask(u)
      PROVE  run'[u].at \notin {"finish", "done"} /\ tasks'[u].open
  <2>1. u \notin issued /\ tasks' = [tasks EXCEPT ![u] = Fresh]
        /\ (run' = run \/ run' = [run EXCEPT ![u].at = "boot"])
    BY <1>2 DEF StartSquadTask, NewTask
  <2>2. run[u].at = "none"
    BY <2>1 DEF OnlyTheIssued
  <2> QED
    BY <1>0, <2>1, <2>2 DEF Fresh, Running
<1>3. ASSUME NEW u \in Task, ~Crash, ~StartSquadTask(u)
      PROVE  /\ run'[u].at \in {"finish", "done"} =>
                  run'[u].ok \/ HasError(tasks'[u].log) \/ tasks'[u].stopped
             /\ u \in issued' /\ ~tasks'[u].open => tasks'[u].stopped \/ run'[u].at = "done"
  <2>1. Keeps(tasks[u], tasks'[u]) /\ (u \in issued' => u \in issued)
    BY <1>3, TasksMove
  <2>2. ASSUME run'[u].at \in {"finish", "done"}
        PROVE  run'[u].ok \/ HasError(tasks'[u].log) \/ tasks'[u].stopped
    <3>1. CASE run'[u] = run[u]
      BY <2>1, <2>2, <3>1 DEF EndsAreExplained, Keeps
    <3>2. CASE run'[u].at = "finish" /\ run'[u] # run[u]
      BY <1>3, <2>1, <3>2, RunnersMove DEF Keeps
    <3>3. CASE run'[u].at = "done"
      <4>1. run[u].at \in {"finish", "done"} /\ run'[u].ok = run[u].ok
        BY <1>3, <3>3, RunnersMove
      <4> QED
        BY <2>1, <4>1 DEF EndsAreExplained, Keeps
    <3> QED
      BY <2>2, <3>1, <3>2, <3>3
  <2>3. ASSUME u \in issued', ~tasks'[u].open PROVE tasks'[u].stopped \/ run'[u].at = "done"
    <3>1. CASE ~tasks[u].open
      BY <1>3, <2>1, <2>3, <3>1, RunnersMove DEF EndsAreExplained, Keeps
    <3>2. CASE tasks[u].open
      <4>1. CASE Finish(u)
        BY <1>3, <4>1, RunnersMove
      <4>2. ASSUME NEW k \in Stopper, StopFinish(k), stop[k].task = u PROVE tasks'[u].stopped
        BY <2>1, <4>2 DEF StopFinish, StopsAreHeld, Keeps
      <4> QED
        BY <1>3, <2>3, <3>2, <4>1, <4>2, TasksMove
    <3> QED
      BY <3>1, <3>2
  <2> QED
    BY <2>2, <2>3
<1> QED
  BY <1>1, <1>2, <1>3 DEF EndsAreExplained

LEMMA WatcherStep ==
  ASSUME RunTypeOK, OnlyTheIssued, EndsAreExplained, WatcherIsRight, [Next]_vars
  PROVE  WatcherIsRight'
<1>0. watch \in [Task -> Watching] /\ tasks \in [Task -> TaskState]
  BY DEF RunTypeOK, HandlerTypes, TypeOK
<1>1. CASE Crash
  BY <1>1 DEF Crash, WatcherIsRight, NoWatch
<1>2. ASSUME NEW u \in Task, ~Crash, watch'[u] = watch[u]
      PROVE  /\ watch'[u].at = "woken" => ~tasks'[u].open
             /\ watch'[u].at = "checked" =>
                  run'[u].at = "done" /\ (run'[u].ok \/ HasError(tasks'[u].log))
             /\ watch'[u].at = "decided" => Tells(u, watch[u].status)'
  <2>1. CASE watch[u].at = "none"
    BY <1>2, <2>1
  <2>2. CASE watch[u].at # "none"
    <3>1. u \in issued
      BY <2>2 DEF OnlyTheIssued
    <3>2. Keeps(tasks[u], tasks'[u]) /\ (run[u].at = "done" => run'[u] = run[u])
      BY <1>2, <3>1, IssuedMove
    <3> QED
      BY <1>2, <3>2 DEF WatcherIsRight, Tells, Keeps
  <2> QED
    BY <2>1, <2>2
<1>3. ASSUME NEW t \in Task, WatchStep(t)
      PROVE  /\ watch'[t].at = "woken" => ~tasks'[t].open
             /\ watch'[t].at = "checked" =>
                  run'[t].at = "done" /\ (run'[t].ok \/ HasError(tasks'[t].log))
             /\ watch'[t].at = "decided" => Tells(t, watch[t].status)'
  <2>1. UNCHANGED <<tasks, run>>
    BY <1>3 DEF WatchStep, WatchWake, WatchCheckStop, WatchReadLog, WatchSave, WatchCollect,
       DeliverInsert, DeliverAppend, WatchOnly, hubVars, runVars
  <2>2. ASSUME NEW at, NEW status, WatchTo(t, at, status)
        PROVE  watch'[t].at = at /\ watch'[t].status = status
    BY <1>0, <2>2 DEF WatchTo, Watching
  <2>3. CASE WatchWake(t)
    <3>1. ~tasks[t].open /\ WatchTo(t, "woken", "ativa")
      BY <2>3 DEF WatchWake
    <3> QED
      BY <2>1, <2>2, <3>1
  <2>4. CASE WatchCheckStop(t)
    <3>1. CASE tasks[t].stopped /\ WatchTo(t, "decided", "encerrada")
      BY <2>1, <2>2, <3>1 DEF Tells
    <3>2. CASE ~tasks[t].stopped /\ WatchTo(t, "checked", "ativa")
      <4>1. watch[t].at = "woken"
        BY <2>4 DEF WatchCheckStop
      <4>2. ~tasks[t].open /\ t \in issued
        BY <4>1 DEF WatcherIsRight, OnlyTheIssued
      <4>3. run[t].at = "done" /\ (run[t].ok \/ HasError(tasks[t].log))
        BY <3>2, <4>2 DEF EndsAreExplained
      <4> QED
        BY <2>1, <2>2, <3>2, <4>3
    <3> QED
      BY <2>4, <3>1, <3>2 DEF WatchCheckStop
  <2>5. CASE WatchReadLog(t)
    <3>1. /\ watch[t].at = "checked"
          /\ \/ HasError(tasks[t].log) /\ WatchTo(t, "decided", "erro")
             \/ ~HasError(tasks[t].log) /\ WatchTo(t, "decided", "concluida")
      BY <2>5 DEF WatchReadLog, InLog, HasError
    <3>2. run[t].at = "done" /\ (run[t].ok \/ HasError(tasks[t].log))
      BY <3>1 DEF WatcherIsRight
    <3> QED
      BY <2>1, <2>2, <3>1, <3>2 DEF Tells
  <2>6. CASE WatchSave(t)
    <3>1. WatchTo(t, "collect", watch[t].status) \/ WatchTo(t, "done", watch[t].status)
      BY <2>6 DEF WatchSave
    <3>2. watch'[t].at \in {"collect", "done"}
      BY <1>0, <3>1 DEF WatchTo, Watching
    <3> QED
      BY <3>2
  <2>7. CASE WatchCollect(t) \/ DeliverAppend(t) \/ \E f \in File : DeliverInsert(t, f)
    <3>1. watch'[t].at \in {"deliver", "append", "done"}
      BY <1>0, <2>7 DEF WatchCollect, DeliverAppend, DeliverInsert, Watching
    <3> QED
      BY <3>1
  <2> QED
    BY <1>3, <2>3, <2>4, <2>5, <2>6, <2>7 DEF WatchStep
<1>4. ASSUME NEW u \in Task, ~Crash
      PROVE  watch'[u] = watch[u] \/ WatchStep(u) \/ watch'[u].at = "start"
  <2>1. ASSUME NEW t \in Task, WatchStep(t), t # u PROVE watch'[u] = watch[u]
    BY <2>1, WatchMoves
  <2>2. ASSUME NEW t \in Task, ActStep(t) PROVE watch'[u] = watch[u] \/ watch'[u].at = "start"
    <3>1. UNCHANGED watch \/ watch' = [watch EXCEPT ![t] = [watch[t] EXCEPT !.at = "start"]]
      BY <2>2 DEF ActStep, ActRegisterAbort, ActSaveRun, ActRecord
    <3> QED
      BY <1>0, <3>1 DEF Watching
  <2>3. ASSUME NEW t \in Task, StartSquadTask(t) \/ RunnerStep(t) \/ CoreStep(t) \/ OrchStep(t)
        PROVE  UNCHANGED watch
    BY <2>3, RunnerLeavesTheStores
  <2>4. CASE WebStep
    BY <2>4, WebLeavesTheWatcher
  <2>5. CASE \/ SidecarDies \/ Restart \/ OtherStart \/ UNCHANGED vars
             \/ \E c \in Call : ToolWrite(c) \/ GateReturns(c)
    BY <2>5 DEF SidecarDies, Restart, OtherStart, vars, ToolWrite, GateReturns, webVars
  <2> QED
    BY <1>4, <2>1, <2>2, <2>3, <2>4, <2>5 DEF Next
<1> QED
  BY <1>1, <1>2, <1>3, <1>4 DEF WatcherIsRight

DownAfterCrash == ~up => crashes # 0

LEMMA DownStep ==
  ASSUME RunTypeOK, DownAfterCrash, [Next]_vars
  PROVE  DownAfterCrash' /\ (crashes' = 0 => ~Crash /\ crashes = 0)
<1>0. crashes \in Nat
  BY BoundsAssumption DEF RunTypeOK, DashboardTypes
<1>1. CASE UNCHANGED <<up, crashes>> /\ ~Crash
  BY <1>1 DEF DownAfterCrash
<1>2. CASE Crash
  <2>1. crashes' = crashes + 1
    BY <1>2 DEF Crash
  <2> QED
    BY <1>0, <2>1 DEF DownAfterCrash
<1>3. CASE Restart
  BY <1>3 DEF Restart, DownAfterCrash, Crash
<1>4. ASSUME NEW t \in Task, StartSquadTask(t) \/ RunnerStep(t) \/ CoreStep(t) \/ OrchStep(t)
      PROVE  UNCHANGED <<up, crashes>>
  BY <1>4, RunnerLeavesTheStores
<1>5. ASSUME NEW t \in Task, ActStep(t) \/ WatchStep(t) PROVE UNCHANGED <<up, crashes>>
  BY <1>5 DEF ActStep, ActRegisterAbort, ActSaveRun, ActRecord, WatchStep, WatchWake, WatchCheckStop,
     WatchReadLog, WatchSave, WatchCollect, DeliverInsert, DeliverAppend, WatchOnly, procVars
<1>6. ASSUME \/ SidecarDies \/ OtherStart \/ UNCHANGED vars
             \/ \E c \in Call : ToolWrite(c) \/ GateReturns(c)
      PROVE  UNCHANGED <<up, crashes>>
  BY <1>6 DEF SidecarDies, OtherStart, vars, ToolWrite, GateReturns, WebOnly, procVars
<1>7. UNCHANGED <<up, crashes>> \/ Crash \/ Restart
  BY <1>4, <1>5, <1>6, WebLeavesTheWatcher DEF Next
<1> QED
  BY <1>1, <1>2, <1>3, <1>7

LEMMA RowsStep ==
  ASSUME ~SecondStart, RunTypeOK, OnlyTheIssued, WatcherIsRight, DownAfterCrash, RowsTellTheEnding,
         [Next]_vars
  PROVE  RowsTellTheEnding'
<1>0. row \in [Task -> RunRow]
  BY DEF RunTypeOK, StoreTypes
<1>1. SUFFICES ASSUME crashes' = 0, ~Crash, crashes = 0, NEW u \in Task
               PROVE  /\ row'[u].status # "ausente" => u \in issued'
                      /\ Tells(u, row[u].status)'
  BY DownStep DEF RowsTellTheEnding
<1>2. (row[u].status # "ausente" => u \in issued) /\ Tells(u, row[u].status)
  BY <1>1 DEF RowsTellTheEnding
<1>3. ASSUME row'[u].status = row[u].status
      PROVE  (row'[u].status # "ausente" => u \in issued') /\ Tells(u, row[u].status)'
  <2>1. CASE row[u].status = "ausente"
    BY <1>3, <2>1 DEF Tells
  <2>2. CASE u \in issued
    <3>1. Keeps(tasks[u], tasks'[u]) /\ (run[u].at = "done" => run'[u] = run[u]) /\ u \in issued'
      BY <1>1, <2>2, IssuedMove
    <3> QED
      BY <1>2, <1>3, <3>1 DEF Tells, Keeps
  <2> QED
    BY <1>2, <2>1, <2>2
<1>4. ASSUME NEW t \in Task, ActStep(t)
      PROVE  (row'[u].status # "ausente" => u \in issued') /\ Tells(u, row[u].status)'
  <2>1. CASE UNCHANGED row
    BY <1>3, <2>1
  <2>2. CASE SetStatus(t, "ativa") /\ t # u
    BY <1>3, <2>2, RowSteps
  <2>3. CASE SetStatus(t, "ativa") /\ t = u /\ act[t] = "registered"
    <3>1. row'[u].status = "ativa"
      BY <2>3, RowSteps
    <3>2. u \in issued
      BY <2>3 DEF OnlyTheIssued
    <3>3. u \in issued'
      BY <1>1, <3>2, IssuedMove
    <3> QED
      BY <3>1, <3>3 DEF Tells
  <2> QED
    BY <1>4, <2>1, <2>2, <2>3
    DEF ActStep, ActRegisterAbort, ActSaveRun, ActRecord, SetStatus, storeVars
<1>5. ASSUME NEW t \in Task, WatchStep(t)
      PROVE  (row'[u].status # "ausente" => u \in issued') /\ Tells(u, row[u].status)'
  <2>1. CASE UNCHANGED row
    BY <1>3, <2>1
  <2>2. CASE t # u
    BY <1>3, <1>5, <2>2, WatchMoves
  <2>3. CASE t = u /\ WatchSave(t) /\ SetStatus(t, watch[t].status)
    <3>1. watch[u].at = "decided" /\ UNCHANGED <<tasks, run>>
      BY <2>3 DEF WatchSave, WatchOnly, hubVars, runVars
    <3>2. u \in issued /\ Tells(u, watch[u].status)
      BY <3>1 DEF OnlyTheIssued, WatcherIsRight
    <3>3. row'[u].status = watch[u].status
      <4>1. watch[u].status \in Terminal \cup {"ativa"}
        BY DEF RunTypeOK, HandlerTypes, Watching
      <4> QED
        BY <2>3, <4>1, RowSteps
    <3>4. u \in issued'
      BY <1>1, <3>2, IssuedMove
    <3> QED
      BY <3>1, <3>2, <3>3, <3>4 DEF Tells
  <2> QED
    BY <1>5, <2>1, <2>2, <2>3
    DEF WatchStep, WatchWake, WatchCheckStop, WatchReadLog, WatchSave, WatchCollect, DeliverInsert,
        DeliverAppend, storeVars
<1>6. CASE WebStep
  BY <1>3, <1>6, WebMoves
<1>7. CASE Restart
  BY <1>1, <1>7 DEF Restart, DownAfterCrash
<1>8. ASSUME NEW t \in Task, StartSquadTask(t) \/ RunnerStep(t) \/ CoreStep(t) \/ OrchStep(t)
      PROVE  UNCHANGED storeVars
  BY <1>8, RunnerLeavesTheStores
<1>9. CASE SidecarDies \/ UNCHANGED vars \/ \E c \in Call : ToolWrite(c) \/ GateReturns(c)
  BY <1>3, <1>9 DEF SidecarDies, vars, ToolWrite, GateReturns, storeVars
<1>10. CASE UNCHANGED storeVars
  BY <1>3, <1>10 DEF storeVars
<1> QED
  BY <1>1, <1>4, <1>5, <1>6, <1>7, <1>8, <1>9, <1>10 DEF Next, OtherStart

(* As long as the dashboard has not crashed the status of a run is the way *)
(* it ended, whatever steps of the runner, the kill-switch and the gates   *)
(* come between the watcher's two readings and its write.  With a second   *)
(* dashboard it is not so: that one's start closes runs it knows nothing   *)
(* of.                                                                     *)
THEOREM StatusIsTheEnding ==
  ASSUME ~SecondStart
  PROVE  SafeSpec => []StatusTellsTheEnding
<1> DEFINE EndInv == /\ OnlyTheIssued /\ StopsAreHeld /\ EndsAreExplained
                     /\ WatcherIsRight /\ DownAfterCrash /\ RowsTellTheEnding
<1>1. Init => EndInv
  BY DEF Init, HubInit, OnlyTheIssued, StopsAreHeld, EndsAreExplained, WatcherIsRight, DownAfterCrash,
     RowsTellTheEnding, Tells, NoRun, NoWatch
<1>2. RunTypeOK /\ EndInv /\ [Next]_vars => EndInv'
  BY IssuedStep, StopsStep, EndsStep, WatcherStep, DownStep, RowsStep
<1>3. EndInv => StatusTellsTheEnding
  BY DEF RowsTellTheEnding, StatusTellsTheEnding, Tells, HasError, InLog
<1> QED
  BY <1>1, <1>2, <1>3, RunTypes, PTL DEF SafeSpec

-----------------------------------------------------------------------------
(* Files are written on approval alone.  It takes where each file came     *)
(* from: a call of the task itself that was approved when its tool began   *)
(* to run, and that nothing can take the approval from.                    *)

(* A verdict of allowance is the answer that was sent. *)
AllowedWasSaid == \A c \in Call : gate[c].at = "allowed" => chan[c] = "allow"

ToolsHaveGates ==
  \A c \in Call :
    /\ gate[c].at = "idle" => tool[c].at = "none"
    /\ tool[c].at \in {"running", "ran"} => gate[c].at = "allowed"
    /\ tool[c].at = "ran" => tool[c].file \in disk[gate[c].task]

OrchestratorsAskForThemselves ==
  \A t \in Task : orch[t].call # NoCall =>
    gate[orch[t].call].task = t /\ gate[orch[t].call].at # "idle"

(* What the hub noted, the watcher is to deliver and the library shows. *)
KnownFilesExist ==
  \A t \in Task : notes[t] \subseteq disk[t] /\ watch[t].todo \subseteq disk[t] /\ lib[t] \subseteq disk[t]

FilesWereApproved ==
  \A t \in Task : \A f \in disk[t] :
    \E c \in Call : /\ tool[c].file = f /\ tool[c].at # "none"
                    /\ gate[c].task = t /\ gate[c].at = "allowed"

(* The steps that touch the gates ... *)
LEMMA GateSteps ==
  ASSUME RunTypeOK, [Next]_vars
  PROVE  \/ UNCHANGED <<gate, chan>>
         \/ \E t \in Task : \/ \E c \in Call : RequestHitl(c, t)
                            \/ \E a \in {"allow", "deny"} : ResolveHitl(t, a)
                            \/ \E k \in Stopper : EmergencyStop(k, t)
         \/ \E c \in Call : HitlAnswered(c) \/ HitlTimeout(c) \/ HitlAbandoned(c)
         \/ SidecarDies \/ Crash
<1>0. \A m \in Msg : post[m].task \in Task
  BY DEF RunTypeOK, TypeOK, Posted
<1>1. CASE UNCHANGED hubVars
  BY <1>1 DEF hubVars
<1>2. ASSUME NEW t \in Task, StartSquadTask(t) \/ ActStep(t) PROVE UNCHANGED <<gate, chan>>
  BY <1>2 DEF StartSquadTask, NewTask, ActStep, ActRegisterAbort, ActSaveRun, ActRecord, RegisterAbort,
     hubVars
<1>3. ASSUME NEW t \in Task, RunnerStep(t) PROVE UNCHANGED <<gate, chan>>
  BY <1>3 DEF RunnerStep, Boot, Called, LoopCheck, Receive, Close, Report, ReportPublish, Finish, Aborted,
     hubVars
<1>4. ASSUME NEW t \in Task, CoreStep(t) \/ WatchStep(t) PROVE UNCHANGED <<gate, chan>>
  BY <1>4 DEF CoreStep, ToolVerdict, ToolNote, WatchStep, WatchWake, WatchCheckStop, WatchReadLog,
     WatchSave, WatchCollect, DeliverInsert, DeliverAppend, WatchOnly, hubVars
<1>5. ASSUME NEW t \in Task, OrchStep(t)
      PROVE  \/ UNCHANGED <<gate, chan>>
             \/ \E c \in Call : RequestHitl(c, t) \/ HitlAbandoned(c)
  BY <1>5 DEF OrchStep, OrchEmit, OrchPlanVerdict, OrchEnd, OrchPlanGate, OrchRunTool, ReactTimeout,
     hubVars
<1>6. ASSUME NEW t \in Task,
             \/ \E h \in Handler : GateRelease(h, t)
             \/ \E m \in Msg : AdjustPush(m, t)
             \/ \E a \in {"allow", "deny"} : DevResolve(t, a)
             \/ \E k \in Stopper : Kill(k, t)
      PROVE  \/ UNCHANGED <<gate, chan>>
             \/ \E a \in {"allow", "deny"} : ResolveHitl(t, a)
             \/ \E k \in Stopper : EmergencyStop(k, t)
  BY <1>6 DEF GateRelease, AdjustPush, PushUserMessage, DevResolve, Kill
<1>7. ASSUME NEW m \in Msg, AdjustRelease(m)
      PROVE  \/ UNCHANGED <<gate, chan>>
             \/ \E t \in Task, a \in {"allow", "deny"} : ResolveHitl(t, a)
  BY <1>0, <1>7 DEF AdjustRelease, hubVars
<1>8. CASE \/ \E h \in Handler : GateRecord(h) \/ GateFact(h)
           \/ \E m \in Msg : AdjustEcho(m) \/ AdjustFact(m)
           \/ \E k \in Stopper : KillGoesOn(k)
  BY <1>8 DEF GateRecord, GateFact, AdjustEcho, EchoUserMessage, AdjustFact, KillGoesOn, StopPublish,
     StopFinish, hubVars
<1>9. CASE WebStep
  BY <1>6, <1>7, <1>8, <1>9 DEF WebStep
<1>10. CASE \/ Restart \/ OtherStart \/ UNCHANGED vars \/ \E c \in Call : ToolWrite(c)
  BY <1>10 DEF Restart, OtherStart, vars, ToolWrite, hubVars
<1>11. CASE \E c \in Call : GateReturns(c)
  BY <1>11 DEF GateReturns
<1> QED
  BY <1>2, <1>3, <1>4, <1>5, <1>9, <1>10, <1>11 DEF Next

LEMMA GatesMove ==
  ASSUME RunTypeOK, [Next]_vars, NEW c \in Call
  PROVE  /\ gate[c].at = "allowed" => gate'[c] = gate[c] /\ chan'[c] = chan[c]
         /\ gate'[c].at = "allowed" => gate[c].at = "allowed" \/ chan'[c] = "allow"
         /\ gate[c].at # "idle" => gate'[c].task = gate[c].task /\ gate'[c].at # "idle"
<1>0. gate \in [Call -> Request] /\ gate[c] \in Request
      /\ chan \in [Call -> {"empty", "allow", "deny", "dropped"}]
  BY DEF RunTypeOK, TypeOK
<1> DEFINE Goal ==
         /\ gate[c].at = "allowed" => gate'[c] = gate[c] /\ chan'[c] = chan[c]
         /\ gate'[c].at = "allowed" => gate[c].at = "allowed" \/ chan'[c] = "allow"
         /\ gate[c].at # "idle" => gate'[c].task = gate[c].task /\ gate'[c].at # "idle"
<1>1. ASSUME NEW d, NEW a, gate' = gate, chan' = chan \/ chan' = Sent(d, a) PROVE Goal
  BY <1>0, <1>1 DEF Sent
<1>2. ASSUME NEW t \in Task, NEW d \in Call, RequestHitl(d, t) PROVE Goal
  <2>1. /\ gate[d].at = "idle" /\ gate' = [gate EXCEPT ![d] = [at |-> "waiting", task |-> t]]
        /\ chan' = chan \/ \E e : chan' = Sent(e, "dropped")
    BY <1>2 DEF RequestHitl
  <2>2. gate[c].at = "allowed" => chan'[c] = chan[c]
    BY <1>0, <2>1 DEF Sent
  <2> QED
    BY <1>0, <2>1, <2>2
<1>3. ASSUME NEW t \in Task, NEW a \in {"allow", "deny"}, ResolveHitl(t, a) PROVE Goal
  BY <1>1, <1>3 DEF ResolveHitl
<1>4. ASSUME NEW t \in Task, NEW k \in Stopper, EmergencyStop(k, t) PROVE Goal
  BY <1>1, <1>4 DEF EmergencyStop
<1>5. ASSUME NEW d \in Call, HitlAnswered(d) \/ HitlTimeout(d) \/ HitlAbandoned(d) PROVE Goal
  <2>1. /\ gate[d].at = "waiting" /\ UNCHANGED chan
        /\ \E v \in {"allowed", "denied", "gone"} :
             gate' = [gate EXCEPT ![d] = [gate[d] EXCEPT !.at = v]] /\ (v = "allowed" => chan[d] = "allow")
    BY <1>5 DEF HitlAnswered, HitlTimeout, HitlAbandoned
  <2> QED
    BY <1>0, <2>1 DEF Request
<1>6. CASE SidecarDies \/ Crash
  <2>1. /\ UNCHANGED chan
        /\ gate' = [d \in Call |-> IF gate[d].at = "waiting" THEN [gate[d] EXCEPT !.at = "gone"]
                                   ELSE gate[d]]
    BY <1>6 DEF SidecarDies, Crash
  <2> QED
    BY <1>0, <2>1 DEF Request
<1>7. CASE UNCHANGED <<gate, chan>>
  BY <1>7
<1> QED
  BY <1>2, <1>3, <1>4, <1>5, <1>6, <1>7, GateSteps

(* ... and the steps that touch the tools. *)
LEMMA ToolSteps ==
  ASSUME RunTypeOK, [Next]_vars
  PROVE  \/ UNCHANGED <<tool, disk>>
         \/ \E t \in Task, c \in Call :
              \/ ToolVerdict(t, c) \/ ToolNote(t, c) \/ ReactTimeout(t, c)
              \/ \E f \in File : OrchRunTool(t, c, f)
         \/ \E c \in Call : ToolWrite(c)
         \/ SidecarDies \/ Crash
<1>1. ASSUME NEW t \in Task, StartSquadTask(t) \/ ActStep(t) \/ WatchStep(t) PROVE UNCHANGED <<tool, disk>>
  BY <1>1 DEF StartSquadTask, ActStep, ActRegisterAbort, ActSaveRun, ActRecord, WatchStep, WatchWake,
     WatchCheckStop, WatchReadLog, WatchSave, WatchCollect, DeliverInsert, DeliverAppend, WatchOnly,
     orchVars
<1>2. ASSUME NEW t \in Task, RunnerStep(t) PROVE UNCHANGED <<tool, disk>>
  BY <1>2, RunnerTypesStep
<1>3. ASSUME NEW t \in Task, OrchStep(t)
      PROVE  \/ UNCHANGED <<tool, disk>>
             \/ \E c \in Call : ReactTimeout(t, c) \/ \E f \in File : OrchRunTool(t, c, f)
  BY <1>3 DEF OrchStep, OrchEmit, OrchPlanVerdict, OrchEnd, OrchPlanGate
<1>4. CASE WebStep
  BY <1>4, WebLeavesTheWatcher
<1>5. CASE Restart \/ OtherStart \/ UNCHANGED vars \/ \E c \in Call : GateReturns(c)
  BY <1>5 DEF Restart, OtherStart, vars, GateReturns, WebOnly, orchVars
<1> QED
  BY <1>1, <1>2, <1>3, <1>4, <1>5 DEF Next, CoreStep

LEMMA ToolsMove ==
  ASSUME RunTypeOK, ToolsHaveGates, [Next]_vars, NEW c \in Call
  PROVE  /\ tool[c].at # "none" => tool'[c].at # "none" /\ tool'[c].file = tool[c].file
         /\ tool[c].at = "none" /\ tool'[c].at # "none" =>
              tool'[c].at = "asking" /\ gate'[c].at # "idle"
         /\ tool'[c].at = "running" => tool[c].at = "running" \/ gate[c].at = "allowed"
         /\ tool'[c].at = "ran" =>
              \/ tool[c].at = "ran"
              \/ tool[c].at = "running" /\ tool[c].file \in disk'[gate[c].task]
<1>0. /\ tool \in [Call -> ToolCall] /\ gate \in [Call -> Request]
      /\ disk \in [Task -> SUBSET File]
  BY DEF RunTypeOK, WorkTypes, TypeOK
<1> DEFINE Goal ==
         /\ tool[c].at # "none" => tool'[c].at # "none" /\ tool'[c].file = tool[c].file
         /\ tool[c].at = "none" /\ tool'[c].at # "none" =>
              tool'[c].at = "asking" /\ gate'[c].at # "idle"
         /\ tool'[c].at = "running" => tool[c].at = "running" \/ gate[c].at = "allowed"
         /\ tool'[c].at = "ran" =>
              \/ tool[c].at = "ran"
              \/ tool[c].at = "running" /\ tool[c].file \in disk'[gate[c].task]
<1>1. CASE UNCHANGED tool
  BY <1>1
<1>2. ASSUME NEW t \in Task, NEW d \in Call, ToolVerdict(t, d) PROVE Goal
  <2>1. /\ tool[d].at = "asking"
        /\ \/ gate[d].at = "allowed" /\ tool' = [tool EXCEPT ![d] = [tool[d] EXCEPT !.at = "running"]]
           \/ tool' = [tool EXCEPT ![d] = [tool[d] EXCEPT !.at = "over"]]
    BY <1>2 DEF ToolVerdict
  <2> QED
    BY <1>0, <2>1 DEF ToolCall
<1>3. ASSUME NEW t \in Task, NEW d \in Call, ToolNote(t, d) PROVE Goal
  <2>1. tool[d].at = "ran" /\ tool' = [tool EXCEPT ![d] = [tool[d] EXCEPT !.at = "over"]]
    BY <1>3 DEF ToolNote
  <2> QED
    BY <1>0, <2>1 DEF ToolCall
<1>4. ASSUME NEW t \in Task, NEW d \in Call, ReactTimeout(t, d) PROVE Goal
  <2>1. \/ /\ tool[d].at = "asking" /\ tool' = [tool EXCEPT ![d] = [tool[d] EXCEPT !.at = "over"]]
        \/ /\ tool[d].at = "running" /\ tool' = [tool EXCEPT ![d] = [tool[d] EXCEPT !.heard = FALSE]]
    BY <1>4 DEF ReactTimeout
  <2> QED
    BY <1>0, <2>1 DEF ToolCall
<1>5. ASSUME NEW t \in Task, NEW d \in Call, NEW f \in File, OrchRunTool(t, d, f), tool[d].at = "none"
      PROVE  Goal
  <2>1. tool' = [tool EXCEPT ![d] = [at |-> "asking", file |-> f, heard |-> TRUE]]
        /\ gate' = [gate EXCEPT ![d] = [at |-> "waiting", task |-> t]]
    BY <1>5 DEF OrchRunTool, RequestHitl
  <2> QED
    BY <1>0, <1>5, <2>1
<1>6. ASSUME NEW d \in Call, ToolWrite(d) PROVE Goal
  <2>1. /\ tool[d].at = "running"
        /\ \E at \in {"ran", "over"} : tool' = [tool EXCEPT ![d] = [tool[d] EXCEPT !.at = at]]
        /\ disk' = [disk EXCEPT ![gate[d].task] = @ \cup {tool[d].file}]
    BY <1>6 DEF ToolWrite
  <2>2. gate[d].task \in Task
    BY <1>0 DEF Request
  <2>3. tool[d].file \in disk'[gate[d].task]
    BY <1>0, <2>1, <2>2
  <2> QED
    BY <1>0, <2>1, <2>3 DEF ToolCall
<1>7. CASE SidecarDies
  <2>1. tool' = [d \in Call |-> IF tool[d].at \in {"asking", "ran"} THEN [tool[d] EXCEPT !.at = "over"]
                               ELSE [tool[d] EXCEPT !.heard = FALSE]]
    BY <1>7 DEF SidecarDies
  <2> QED
    BY <1>0, <2>1 DEF ToolCall
<1>8. CASE Crash
  <2>1. tool' = [d \in Call |-> IF tool[d].at = "none" THEN NoTool ELSE [tool[d] EXCEPT !.at = "over"]]
    BY <1>8 DEF Crash
  <2> QED
    BY <1>0, <2>1 DEF ToolCall, NoTool
<1> HIDE DEF Goal
<1>9. ASSUME NEW t \in Task, NEW d \in Call, NEW f \in File, OrchRunTool(t, d, f)
      PROVE  tool[d].at = "none"
  BY <1>9 DEF OrchRunTool, RequestHitl, ToolsHaveGates
<1> QED
  BY <1>1, <1>2, <1>3, <1>4, <1>5, <1>6, <1>7, <1>8, <1>9, ToolSteps DEF Goal

LEMMA DiskMoves ==
  ASSUME RunTypeOK, [Next]_vars, NEW t \in Task
  PROVE  /\ disk[t] \subseteq disk'[t]
         /\ \A f \in disk'[t] : f \notin disk[t] =>
              \E c \in Call : tool[c].at = "running" /\ tool[c].file = f /\ gate[c].task = t
<1>0. disk \in [Task -> SUBSET File]
  BY DEF RunTypeOK, WorkTypes
<1>1. CASE UNCHANGED disk
  BY <1>1
<1>2. ASSUME NEW d \in Call, ToolWrite(d)
      PROVE  /\ disk[t] \subseteq disk'[t]
             /\ \A f \in disk'[t] : f \notin disk[t] =>
                  \E c \in Call : tool[c].at = "running" /\ tool[c].file = f /\ gate[c].task = t
  BY <1>0, <1>2 DEF ToolWrite
<1> QED
  BY <1>1, <1>2, ToolSteps DEF ToolVerdict, ToolNote, ReactTimeout, OrchRunTool, SidecarDies, Crash

LEMMA AskersStep ==
  ASSUME RunTypeOK, OrchestratorsAskForThemselves, [Next]_vars
  PROVE  OrchestratorsAskForThemselves'
<1>0. /\ orch \in [Task -> Working] /\ gate \in [Call -> Request]
      /\ \A t \in Task : orch[t].call \in Call \cup {NoCall}
  BY DEF RunTypeOK, WorkTypes, TypeOK, Working
<1>1. ASSUME NEW u \in Task, orch'[u].call # NoCall,
             \/ orch'[u].call = orch[u].call
             \/ \E c \in Call : orch'[u].call = c /\ gate'[c].task = u /\ gate'[c].at # "idle"
      PROVE  gate'[orch'[u].call].task = u /\ gate'[orch'[u].call].at # "idle"
  <2>1. CASE orch'[u].call = orch[u].call
    <3>1. PICK c \in Call : c = orch[u].call
      BY <1>0, <1>1, <2>1
    <3>2. gate[c].task = u /\ gate[c].at # "idle"
      BY <1>1, <2>1, <3>1 DEF OrchestratorsAskForThemselves
    <3> QED
      BY <2>1, <3>1, <3>2, GatesMove
  <2> QED
    BY <1>1, <2>1
<1>2. SUFFICES ASSUME NEW u \in Task
               PROVE  \/ orch'[u].call = NoCall
                      \/ orch'[u].call = orch[u].call
                      \/ \E c \in Call : /\ orch'[u].call = c /\ gate'[c].task = u
                                         /\ gate'[c].at # "idle"
  BY <1>1 DEF OrchestratorsAskForThemselves
<1>3. ASSUME NEW t \in Task, NEW c \in Call,
             OrchPlanGate(t, c) \/ \E f \in File : OrchRunTool(t, c, f)
      PROVE  \/ orch'[u].call = orch[u].call
             \/ orch'[u].call = c /\ gate'[c].task = u /\ gate'[c].at # "idle"
  <2>1. /\ \E at \in {"gate", "tool"} : orch' = [orch EXCEPT ![t] = [orch[t] EXCEPT !.at = at, !.call = c]]
        /\ gate' = [gate EXCEPT ![c] = [at |-> "waiting", task |-> t]]
    BY <1>3 DEF OrchPlanGate, OrchRunTool, RequestHitl
  <2>2. u # t => orch'[u] = orch[u]
    BY <1>0, <2>1
  <2>3. u = t => orch'[u].call = c
    BY <1>0, <2>1 DEF Working
  <2>4. gate'[c].task = t /\ gate'[c].at # "idle"
    BY <1>0, <2>1
  <2> QED
    BY <2>2, <2>3, <2>4
<1>4. ASSUME NEW t \in Task,
             \/ OrchEmit(t) \/ OrchPlanVerdict(t) \/ OrchEnd(t) \/ Boot(t)
             \/ \E c \in Call : ReactTimeout(t, c) \/ ToolVerdict(t, c) \/ ToolNote(t, c)
      PROVE  orch'[u].call = NoCall \/ orch'[u].call = orch[u].call
  <2>1. \/ orch' = orch
        \/ \E at \in {"work", "over"} : orch' = [orch EXCEPT ![t] = [orch[t] EXCEPT !.at = at, !.call = NoCall]]
        \/ \E at \in {"work", "over"} : orch' = [orch EXCEPT ![t] = [orch[t] EXCEPT !.at = at]]
        \/ orch' = [orch EXCEPT ![t] = [orch[t] EXCEPT !.left = @ - 1]]
    BY <1>4 DEF OrchEmit, OrchPlanVerdict, OrchEnd, Boot, ReactTimeout, ToolVerdict, ToolNote
  <2>2. orch[t] \in Working /\ u \in DOMAIN orch /\ t \in DOMAIN orch
    BY <1>0
  <2>3. \A at : /\ [orch[t] EXCEPT !.at = at, !.call = NoCall].call = NoCall
               /\ [orch[t] EXCEPT !.at = at].call = orch[t].call
               /\ [orch[t] EXCEPT !.left = @ - 1].call = orch[t].call
    BY <2>2 DEF Working
  <2>4. CASE \E at \in {"work", "over"} :
               orch' = [orch EXCEPT ![t] = [orch[t] EXCEPT !.at = at, !.call = NoCall]]
    BY <2>2, <2>3, <2>4
  <2>5. CASE \E at \in {"work", "over"} : orch' = [orch EXCEPT ![t] = [orch[t] EXCEPT !.at = at]]
    BY <2>2, <2>3, <2>5
  <2>6. CASE orch' = [orch EXCEPT ![t] = [orch[t] EXCEPT !.left = @ - 1]]
    BY <2>2, <2>3, <2>6
  <2> QED
    BY <2>1, <2>4, <2>5, <2>6
<1>5. ASSUME NEW t \in Task, \/ StartSquadTask(t) \/ ActStep(t) \/ WatchStep(t) PROVE UNCHANGED orch
  BY <1>5 DEF StartSquadTask, ActStep, ActRegisterAbort, ActSaveRun, ActRecord, WatchStep, WatchWake,
     WatchCheckStop, WatchReadLog, WatchSave, WatchCollect, DeliverInsert, DeliverAppend, WatchOnly,
     orchVars
<1>6. ASSUME NEW t \in Task, RunnerStep(t) PROVE Boot(t) \/ UNCHANGED orch
  BY <1>6 DEF RunnerStep, Called, LoopCheck, Receive, Close, Report, ReportPublish, Finish, Aborted,
     orchVars
<1>7. CASE WebStep
  BY <1>7, WebLeavesTheWatcher
<1>8. CASE Restart \/ OtherStart \/ UNCHANGED vars \/ \E c \in Call : ToolWrite(c) \/ GateReturns(c)
  BY <1>8 DEF Restart, OtherStart, vars, ToolWrite, GateReturns, WebOnly, orchVars
<1>9. CASE Crash
  BY <1>9 DEF Crash, NoOrch
<1>10. CASE SidecarDies
  <2>1. orch' = [t \in Task |-> IF orch[t].at = "off" THEN orch[t]
                               ELSE [orch[t] EXCEPT !.at = "over", !.call = NoCall]]
    BY <1>10 DEF SidecarDies
  <2> QED
    BY <1>0, <2>1 DEF Working
<1> QED
  BY <1>3, <1>4, <1>5, <1>6, <1>7, <1>8, <1>9, <1>10 DEF Next, OrchStep, CoreStep

LEMMA ToolGatesStep ==
  ASSUME RunTypeOK, ToolsHaveGates, [Next]_vars
  PROVE  ToolsHaveGates'
<1> SUFFICES ASSUME NEW c \in Call
             PROVE  /\ gate'[c].at = "idle" => tool'[c].at = "none"
                    /\ tool'[c].at \in {"running", "ran"} => gate'[c].at = "allowed"
                    /\ tool'[c].at = "ran" => tool'[c].file \in disk'[gate'[c].task]
  BY DEF ToolsHaveGates
<1>1. gate[c].task \in Task /\ disk[gate[c].task] \subseteq disk'[gate[c].task]
  <2>1. PICK t \in Task : t = gate[c].task
    BY DEF RunTypeOK, TypeOK, Request
  <2> QED
    BY <2>1, DiskMoves
<1>2. gate'[c].at = "idle" => tool'[c].at = "none"
  BY GatesMove, ToolsMove DEF ToolsHaveGates
<1>3. tool'[c].at \in {"running", "ran"} => gate[c].at = "allowed"
  BY ToolsMove DEF ToolsHaveGates
<1>4. tool'[c].at \in {"running", "ran"} => gate'[c] = gate[c] /\ gate'[c].at = "allowed"
  BY <1>3, GatesMove
<1>5. tool'[c].at = "ran" => tool'[c].file = tool[c].file /\ tool[c].file \in disk'[gate[c].task]
  BY <1>1, ToolsMove DEF ToolsHaveGates
<1> QED
  BY <1>2, <1>4, <1>5

LEMMA AllowedStep ==
  ASSUME RunTypeOK, AllowedWasSaid, [Next]_vars
  PROVE  AllowedWasSaid'
  BY GatesMove DEF AllowedWasSaid

LEMMA ApprovedStep ==
  ASSUME RunTypeOK, ToolsHaveGates, FilesWereApproved, [Next]_vars
  PROVE  FilesWereApproved'
<1> SUFFICES ASSUME NEW t \in Task, NEW f \in disk'[t]
             PROVE  \E c \in Call : /\ tool'[c].file = f /\ tool'[c].at # "none"
                                    /\ gate'[c].task = t /\ gate'[c].at = "allowed"
  BY DEF FilesWereApproved
<1>1. PICK c \in Call : /\ tool[c].file = f /\ tool[c].at # "none"
                       /\ gate[c].task = t /\ gate[c].at = "allowed"
  <2>1. CASE f \in disk[t]
    BY <2>1 DEF FilesWereApproved
  <2>2. CASE f \notin disk[t]
    <3>1. PICK c \in Call : tool[c].at = "running" /\ tool[c].file = f /\ gate[c].task = t
      BY <2>2, DiskMoves
    <3> QED
      BY <3>1 DEF ToolsHaveGates
  <2> QED
    BY <2>1, <2>2
<1> QED
  BY <1>1, GatesMove, ToolsMove

LEMMA KnownFilesStep ==
  ASSUME RunTypeOK, ToolsHaveGates, OrchestratorsAskForThemselves, KnownFilesExist, [Next]_vars
  PROVE  KnownFilesExist'
<1>0. /\ watch \in [Task -> Watching] /\ lib \in [Task -> SUBSET File]
      /\ notes \in [Task -> SUBSET File]
  BY DEF RunTypeOK, HandlerTypes, StoreTypes, WorkTypes
<1> SUFFICES ASSUME NEW u \in Task
             PROVE  /\ notes'[u] \subseteq disk[u] /\ watch'[u].todo \subseteq disk[u]
                    /\ lib'[u] \subseteq disk[u]
  BY DiskMoves DEF KnownFilesExist
<1>1. notes[u] \subseteq disk[u] /\ watch[u].todo \subseteq disk[u] /\ lib[u] \subseteq disk[u]
  BY DEF KnownFilesExist
<1>2. CASE UNCHANGED <<notes, watch, lib>>
  BY <1>1, <1>2
<1>3. ASSUME NEW t \in Task, StartSquadTask(t) \/ RunnerStep(t) PROVE UNCHANGED <<notes, watch, lib>>
  BY <1>3, RunnerTypesStep, RunnerLeavesTheStores DEF storeVars
<1>4. ASSUME NEW t \in Task, NEW c \in Call, ToolNote(t, c)
      PROVE  notes'[u] \subseteq disk[u] /\ UNCHANGED <<watch, lib>>
  <2>1. /\ orch[t].call = c /\ tool[c].at = "ran" /\ notes' = [notes EXCEPT ![t] = @ \cup {tool[c].file}]
        /\ UNCHANGED <<watch, lib>>
    BY <1>4 DEF ToolNote, webVars, storeVars
  <2>2. c # NoCall
    BY NoCallAssumption
  <2>3. tool[c].file \in disk[t]
    BY <2>1, <2>2 DEF ToolsHaveGates, OrchestratorsAskForThemselves
  <2> QED
    BY <1>0, <1>1, <2>1, <2>3
<1>5. ASSUME NEW t \in Task, NEW c \in Call, ToolVerdict(t, c) PROVE UNCHANGED <<notes, watch, lib>>
  BY <1>5 DEF ToolVerdict, webVars, storeVars
<1>6. ASSUME NEW t \in Task, OrchStep(t) PROVE UNCHANGED <<notes, watch, lib>>
  BY <1>6 DEF OrchStep, OrchEmit, OrchPlanVerdict, OrchEnd, OrchPlanGate, ReactTimeout, OrchRunTool,
     webVars, storeVars
<1>7. ASSUME NEW t \in Task, ActStep(t)
      PROVE  UNCHANGED <<notes, lib>> /\ watch'[u].todo = watch[u].todo
  <2>1. /\ UNCHANGED <<notes, lib>>
        /\ UNCHANGED watch \/ watch' = [watch EXCEPT ![t] = [watch[t] EXCEPT !.at = "start"]]
    BY <1>7 DEF ActStep, ActRegisterAbort, ActSaveRun, ActRecord, webVars, storeVars
  <2> QED
    BY <1>0, <2>1 DEF Watching
<1>8. ASSUME NEW t \in Task, WatchStep(t)
      PROVE  UNCHANGED notes /\ watch'[u].todo \subseteq disk[u] /\ lib'[u] \subseteq disk[u]
  <2>0. UNCHANGED notes
    BY <1>8 DEF WatchStep, WatchWake, WatchCheckStop, WatchReadLog, WatchSave, WatchCollect,
       DeliverInsert, DeliverAppend, WatchOnly
  <2>1. CASE u # t
    BY <1>1, <1>8, <2>0, <2>1, WatchMoves
  <2>2. CASE u = t /\ (WatchWake(t) \/ WatchCheckStop(t) \/ WatchReadLog(t) \/ WatchSave(t) \/ DeliverAppend(t))
    <3>1. /\ UNCHANGED lib
          /\ \/ \E at, status : WatchTo(t, at, status)
             \/ \E at : watch' = [watch EXCEPT ![t] = [watch[t] EXCEPT !.at = at]]
      BY <2>2 DEF WatchWake, WatchCheckStop, WatchReadLog, WatchSave, DeliverAppend, storeVars
    <3>2. watch[t] \in Watching
      BY <1>0
    <3>3. ASSUME NEW at, NEW status, WatchTo(t, at, status)
          PROVE  watch'[t].todo = watch[t].todo
      BY <1>0, <3>2, <3>3 DEF WatchTo, Watching
    <3>4. ASSUME NEW at, watch' = [watch EXCEPT ![t] = [watch[t] EXCEPT !.at = at]]
          PROVE  watch'[t].todo = watch[t].todo
      BY <1>0, <3>2, <3>4 DEF Watching
    <3>5. watch'[t].todo = watch[t].todo
      BY <3>1, <3>3, <3>4
    <3> QED
      BY <1>1, <2>0, <2>2, <3>1, <3>5
  <2>3. CASE u = t /\ WatchCollect(t)
    <3>1. UNCHANGED lib /\ watch'[t].todo \in {watch[t].todo, notes[t]}
      BY <1>0, <2>3 DEF WatchCollect, Watching, storeVars
    <3> QED
      BY <1>1, <2>0, <2>3, <3>1
  <2>4. ASSUME u = t, NEW f \in File, DeliverInsert(t, f)
        PROVE  watch'[u].todo \subseteq disk[u] /\ lib'[u] \subseteq disk[u]
    <3>1. f \in watch[t].todo /\ watch'[t].todo = watch[t].todo \ {f}
          /\ lib'[t] \in {lib[t], lib[t] \cup {f}}
      BY <1>0, <2>4 DEF DeliverInsert, Watching
    <3> QED
      BY <1>1, <2>4, <3>1
  <2> QED
    BY <1>8, <2>0, <2>1, <2>2, <2>3, <2>4 DEF WatchStep
<1>9. CASE WebStep
  BY <1>2, <1>9, WebLeavesTheWatcher
<1>10. CASE Crash
  <2>1. notes'[u] = {} /\ watch'[u].todo = {} /\ UNCHANGED lib
    BY <1>10 DEF Crash, NoWatch, storeVars
  <2> QED
    BY <1>1, <2>1
<1>11. CASE \/ SidecarDies \/ Restart \/ OtherStart \/ UNCHANGED vars
            \/ \E c \in Call : ToolWrite(c) \/ GateReturns(c)
  <2>1. UNCHANGED <<notes, watch, lib>>
    BY <1>11 DEF SidecarDies, Restart, OtherStart, vars, ToolWrite, GateReturns, WebOnly, webVars,
       storeVars
  <2> QED
    BY <1>2, <2>1
<1> QED
  BY <1>1, <1>2, <1>3, <1>4, <1>5, <1>6, <1>7, <1>8, <1>9, <1>10, <1>11 DEF Next, CoreStep

(* A file is on disk only by a call of its task that a human approved, and *)
(* the library shows such files alone, of runs that were concluded: for    *)
(* any number of tasks, calls, handlers and crashes.  That what is shown   *)
(* was concluded takes a store that writes: a status that could not be     *)
(* saved is delivered all the same.                                        *)
THEOREM WritingIsApproved ==
  ASSUME "store" \notin Faults
  PROVE  SafeSpec => []WrittenOnlyIfApproved
<1> DEFINE WriteInv == /\ AllowedWasSaid /\ ToolsHaveGates /\ OrchestratorsAskForThemselves
                       /\ KnownFilesExist /\ FilesWereApproved /\ DeliversTheConcluded
<1>1. Init => WriteInv
  BY DEF Init, HubInit, AllowedWasSaid, ToolsHaveGates, OrchestratorsAskForThemselves, KnownFilesExist,
     FilesWereApproved, DeliversTheConcluded, NoTool, NoOrch, NoWatch
<1>2. RunTypeOK /\ RowInv /\ WriteInv /\ [Next]_vars => WriteInv'
  BY AllowedStep, ToolGatesStep, AskersStep, KnownFilesStep, ApprovedStep, DeliversStep
<1>3. WriteInv => WrittenOnlyIfApproved
  BY DEF AllowedWasSaid, KnownFilesExist, FilesWereApproved, DeliversTheConcluded, WrittenOnlyIfApproved
<1> QED
  BY <1>1, <1>2, <1>3, RowInvariant, PTL DEF SafeSpec
=============================================================================
