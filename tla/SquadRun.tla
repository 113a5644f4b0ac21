------------------------------- MODULE SquadRun -------------------------------
(***************************************************************************)
(* The life of a squad activated from the gallery, from the activation     *)
(* handler to the library of deliverables: the handler                     *)
(* (`ativar_squad_handler`), the runner that drains the orchestrator's     *)
(* stream (`run_squad_task`), the Python orchestrator with the gates and   *)
(* tools it calls back for, the kill-switch, the handler that approves a   *)
(* gate, and the watcher that writes the final status.  They share the hub *)
(* (SquadHub), the run row in SQLite and the ledger, each under a lock of  *)
(* its own; every action is one critical section or one await.             *)
(***************************************************************************)
EXTENDS SquadHub

CONSTANTS
  File,        \* what the squad's `edit` calls may write
  Handler,     \* calls of `aprovar_gate_handler`; a call of `pedir_ajuste_handler`
               \* goes by the message it posts
  MaxEvents,   \* bound: progress events per orchestrator
  MaxCrash,    \* bound: crashes of the dashboard
  Faults,      \* what may fail: a subset of {"store", "ledger", "sidecar", "provider"}
  SecondStart, \* may another dashboard start on the same database?
  NoTask,      \* the pool slot is free
  NoFile       \* a call that runs no tool

(* Ids are numbered in the order they are handed out (`sq{hex}`). *)
ASSUME TaskIds == Task \subseteq Nat \ {0}
ASSUME BoundsAssumption == MaxEvents \in Nat /\ MaxCrash \in Nat

VARIABLES
  up,          \* the dashboard process is running
  crashes,     \* crashes so far
  act,         \* per task: where the activation handler is
  run,         \* per task: where the runner is, and whether it ended well
  lease,       \* holder of the only pool slot
  orch,        \* per task: the orchestrator: phase, call it waits for, events left
  stream,      \* per task: events sent and not yet received
  tool,        \* per call: the RunTool it belongs to, if any
  notes,       \* per task: files of the `edit` runs noted in the hub
  disk,        \* per task: files its tools wrote
  watch,       \* per task: where the watcher is, the status it decided
  hand,        \* per call of a gate handler: where it is, and for which task
  row,         \* per task: the run row: status and gates_aprovados
  lib,         \* per task: deliverable rows
  facts        \* per task: ledger entries of each kind

procVars == <<up, crashes>>
storeVars == <<row, lib, facts>>
runVars == <<run, lease>>
orchVars == <<orch, stream, tool, disk>>
webVars == <<act, watch, hand>>
vars == <<hubVars, procVars, storeVars, runVars, orchVars, webVars, notes>>

Terminal == {"concluida", "encerrada", "erro"}

RunRow == [status : Terminal \cup {"ausente", "ativa"}, gates : Nat]
FactCount == [activated : Nat, gates : Nat, adjusts : Nat, exports : Nat]
Running ==
  [at : {"none", "boot", "call", "loop", "recv", "close", "report", "publish", "finish", "done",
         "aborted"}, ok : BOOLEAN]
Working ==
  [at : {"off", "work", "gate", "tool", "over"}, call : Call \cup {NoCall}, left : 0..MaxEvents]
ToolCall ==
  [at : {"none", "asking", "running", "ran", "over"}, file : File \cup {NoFile}, heard : BOOLEAN]
Watching ==
  [at : {"none", "start", "woken", "checked", "decided", "collect", "deliver", "append", "done"},
   status : Terminal \cup {"ativa"}, todo : SUBSET File]
Handling ==
  [at : {"idle", "released", "recorded", "done", "cut"}, task : Task, counted : BOOLEAN]
Streamed == Event \cup {"end", "broken"}

DashboardTypes ==
  /\ up \in BOOLEAN
  /\ crashes \in 0..MaxCrash

StoreTypes ==
  /\ row \in [Task -> RunRow]
  /\ lib \in [Task -> SUBSET File]
  /\ facts \in [Task -> FactCount]

HandlerTypes ==
  /\ act \in [Task -> {"idle", "started", "registered", "saved", "done", "refused", "failed"}]
  /\ watch \in [Task -> Watching]
  /\ hand \in [Handler \cup Msg -> Handling]

WorkTypes ==
  /\ run \in [Task -> Running]
  /\ lease \in Task \cup {NoTask}
  /\ orch \in [Task -> Working]
  /\ stream \in [Task -> Seq(Streamed)]
  /\ tool \in [Call -> ToolCall]
  /\ notes \in [Task -> SUBSET File]
  /\ disk \in [Task -> SUBSET File]

RunTypeOK == TypeOK /\ DashboardTypes /\ StoreTypes /\ HandlerTypes /\ WorkTypes

NoRun == [at |-> "none", ok |-> FALSE]
NoOrch == [at |-> "off", call |-> NoCall, left |-> MaxEvents]
NoTool == [at |-> "none", file |-> NoFile, heard |-> FALSE]
NoWatch == [at |-> "none", status |-> "ativa", todo |-> {}]

Init ==
  /\ HubInit
  /\ up = TRUE
  /\ crashes = 0
  /\ act = [t \in Task |-> "idle"]
  /\ run = [t \in Task |-> NoRun]
  /\ lease = NoTask
  /\ orch = [t \in Task |-> NoOrch]
  /\ stream = [t \in Task |-> <<>>]
  /\ tool = [c \in Call |-> NoTool]
  /\ notes = [t \in Task |-> {}]
  /\ disk = [t \in Task |-> {}]
  /\ watch = [t \in Task |-> NoWatch]
  /\ hand = [h \in Handler \cup Msg |-> [at |-> "idle", task |-> Anywhere, counted |-> FALSE]]
  /\ row = [t \in Task |-> [status |-> "ausente", gates |-> 0]]
  /\ lib = [t \in Task |-> {}]
  /\ facts = [t \in Task |-> [activated |-> 0, gates |-> 0, adjusts |-> 0, exports |-> 0]]

-----------------------------------------------------------------------------
(* The activation handler: no await, but other threads run in between. *)

(* Ids the counter is past: `seed_task_seq` starts it above every persisted *)
(* one.                                                                    *)
Used == issued \cup {t \in Task : row[t].status # "ausente"}

NextId(t) == /\ \A u \in Used : u < t
             /\ t = 1 \/ t - 1 \in Used

(* `start_squad_task`: the id is handed out and the runner spawned; without *)
(* a provider the id stays in the hub with nobody to run it.               *)
StartSquadTask(t) ==
  /\ up
  /\ NextId(t)
  /\ NewTask(t)
  /\ \/ /\ act' = [act EXCEPT ![t] = "started"]
        /\ run' = [run EXCEPT ![t].at = "boot"]
     \/ /\ "provider" \in Faults
        /\ act' = [act EXCEPT ![t] = "refused"]
        /\ UNCHANGED run
  /\ UNCHANGED <<procVars, storeVars, lease, orchVars, watch, hand, notes>>

ActRegisterAbort(t) ==
  /\ act[t] = "started"
  /\ RegisterAbort(t)
  /\ act' = [act EXCEPT ![t] = "registered"]
  /\ UNCHANGED <<procVars, storeVars, runVars, orchVars, watch, hand, notes>>

(* Save and re-read under the store lock; either failing answers 500, with *)
(* the runner already started and no watcher to follow.                    *)
ActSaveRun(t) ==
  /\ act[t] = "registered"
  /\ \/ /\ row' = [row EXCEPT ![t].status = "ativa"]
        /\ \/ act' = [act EXCEPT ![t] = "saved"]
           \/ "store" \in Faults /\ act' = [act EXCEPT ![t] = "failed"]
     \/ /\ "store" \in Faults
        /\ act' = [act EXCEPT ![t] = "failed"]
        /\ UNCHANGED row
  /\ UNCHANGED <<hubVars, procVars, lib, facts, runVars, orchVars, watch, hand, notes>>

(* A fact goes to the ledger or, when the append fails, only to stderr. *)
Appended(t, kind) ==
  \/ facts' = [facts EXCEPT ![t][kind] = @ + 1]
  \/ "ledger" \in Faults /\ UNCHANGED facts

ActRecord(t) ==
  /\ act[t] = "saved"
  /\ Appended(t, "activated")
  /\ act' = [act EXCEPT ![t] = "done"]
  /\ watch' = [watch EXCEPT ![t].at = "start"]
  /\ UNCHANGED <<hubVars, procVars, row, lib, runVars, orchVars, hand, notes>>

-----------------------------------------------------------------------------
(* The runner. *)

RunnerTo(t, at, ok) == run' = [run EXCEPT ![t] = [at |-> at, ok |-> ok]]

(* Core server, /verify, ledger session, the pool slot, ExecuteTask. *)
Boot(t) ==
  /\ run[t].at = "boot"
  /\ \/ /\ lease = NoTask
        /\ lease' = t
        /\ RunnerTo(t, "call", FALSE)
        /\ orch' = [orch EXCEPT ![t].at = "work"]
     \/ /\ "sidecar" \in Faults
        /\ RunnerTo(t, "report", FALSE)
        /\ UNCHANGED <<lease, orch>>
  /\ UNCHANGED <<hubVars, procVars, storeVars, stream, tool, disk, webVars, notes>>

(* `execute_task` returns once the orchestrator has something to send, or  *)
(* with the error of a sidecar that died first.                            *)
Called(t) ==
  /\ run[t].at = "call"
  /\ stream[t] # <<>>
  /\ \/ /\ Head(stream[t]) # "broken"
        /\ RunnerTo(t, "loop", FALSE)
        /\ UNCHANGED lease
     \/ /\ Head(stream[t]) = "broken"
        /\ RunnerTo(t, "report", FALSE)
        /\ lease' = NoTask
  /\ UNCHANGED <<hubVars, procVars, storeVars, orchVars, webVars, notes>>

LoopCheck(t) ==
  /\ run[t].at = "loop"
  /\ \/ /\ tasks[t].stopped
        /\ RunnerTo(t, "report", FALSE)
        /\ lease' = NoTask
     \/ /\ ~tasks[t].stopped
        /\ RunnerTo(t, "recv", FALSE)
        /\ UNCHANGED lease
  /\ UNCHANGED <<hubVars, procVars, storeVars, orchVars, webVars, notes>>

(* One event of the stream: published, and the loop goes on unless it was  *)
(* an error; the end of the stream closes well, a broken one badly.        *)
Receive(t) ==
  /\ run[t].at = "recv"
  /\ stream[t] # <<>>
  /\ LET e == Head(stream[t]) IN
     \/ /\ e \in Event
        /\ Publish(t, e)
        /\ RunnerTo(t, IF e = "error" THEN "close" ELSE "loop", FALSE)
        /\ UNCHANGED <<issued, known, gate, chan, post, stop, gen>>
     \/ /\ e \notin Event
        /\ RunnerTo(t, "close", e = "end")
        /\ UNCHANGED hubVars
  /\ stream' = [stream EXCEPT ![t] = Tail(@)]
  /\ UNCHANGED <<procVars, storeVars, lease, orch, tool, disk, webVars, notes>>

(* Bug: the lease outlives the stream. *)
CloseKeepsLease(t) ==
  /\ run[t].at = "close"
  /\ RunnerTo(t, IF run[t].ok THEN "finish" ELSE "report", run[t].ok)
  /\ UNCHANGED <<hubVars, procVars, storeVars, orchVars, lease, webVars, notes>>

(* Ledger session finished, lease dropped; `run_squad_task` gets the result. *)
Close(t) ==
  /\ run[t].at = "close"
  /\ RunnerTo(t, IF run[t].ok THEN "finish" ELSE "report", run[t].ok)
  /\ lease' = NoTask
  /\ UNCHANGED <<hubVars, procVars, storeVars, orchVars, webVars, notes>>

(* The error is published unless the kill-switch already did. *)
Report(t) ==
  /\ run[t].at = "report"
  /\ RunnerTo(t, IF tasks[t].stopped THEN "finish" ELSE "publish", FALSE)
  /\ UNCHANGED <<hubVars, procVars, storeVars, lease, orchVars, webVars, notes>>

ReportPublish(t) ==
  /\ run[t].at = "publish"
  /\ Publish(t, "error")
  /\ RunnerTo(t, "finish", FALSE)
  /\ UNCHANGED <<issued, known, gate, chan, post, stop, gen, procVars, storeVars, lease,
                 orchVars, webVars, notes>>

(* Bug: only a run that ended well closes its stream. *)
FinishOnlyIfOk(t) ==
  /\ run[t].at = "finish"
  /\ IF run[t].ok THEN FinishTask(t) ELSE UNCHANGED <<known, tasks, sse>>
  /\ RunnerTo(t, "done", run[t].ok)
  /\ UNCHANGED <<issued, known, gate, chan, post, stop, gen, procVars, storeVars, lease,
                 orchVars, webVars, notes>>

Finish(t) ==
  /\ run[t].at = "finish"
  /\ FinishTask(t)
  /\ RunnerTo(t, "done", run[t].ok)
  /\ UNCHANGED <<issued, known, gate, chan, post, stop, gen, procVars, storeVars, lease,
                 orchVars, webVars, notes>>

(* An abort takes the runner where it awaits.  Its lease is dropped with it *)
(* and its stream is cancelled; the orchestrator is not (`await runner`),   *)
(* nor is the core server it calls, whose task nobody aborts.               *)
Aborted(t) ==
  /\ tasks[t].abort = "fired"
  /\ run[t].at \in {"boot", "call", "recv"}
  /\ RunnerTo(t, "aborted", FALSE)
  /\ lease' = IF lease = t THEN NoTask ELSE lease
  /\ UNCHANGED <<hubVars, procVars, storeVars, orchVars, webVars, notes>>

-----------------------------------------------------------------------------
(* The orchestrator in the sidecar, and the calls it makes back. *)

Send(t, es) ==
  stream' = [stream EXCEPT ![t] = IF run[t].at \in {"call", "loop", "recv"}
                                  THEN @ \o es ELSE @]

OrchEmit(t) ==
  /\ orch[t].at = "work"
  /\ orch[t].left > 0
  /\ orch' = [orch EXCEPT ![t].left = @ - 1]
  /\ Send(t, <<"progress">>)
  /\ UNCHANGED <<hubVars, procVars, storeVars, runVars, tool, disk, webVars, notes>>

(* Weak consensus: the plan goes to a human (`execute_with_autonomy`). *)
OrchPlanGate(t, c) ==
  /\ orch[t].at = "work"
  /\ RequestHitl(c, t)
  /\ orch' = [orch EXCEPT ![t].at = "gate", ![t].call = c]
  /\ Send(t, <<"hitl">>)
  /\ UNCHANGED <<procVars, storeVars, runVars, tool, disk, webVars, notes>>

(* The verdict reaches the orchestrator: go on, or end with the plan       *)
(* rejected, which the stream does not tell from any other end.            *)
OrchPlanVerdict(t) ==
  /\ orch[t].at = "gate"
  /\ \/ /\ gate[orch[t].call].at = "allowed"
        /\ orch' = [orch EXCEPT ![t].at = "work", ![t].call = NoCall]
        /\ UNCHANGED stream
     \/ /\ gate[orch[t].call].at = "denied"
        /\ orch' = [orch EXCEPT ![t].at = "over", ![t].call = NoCall]
        /\ Send(t, <<"end">>)
  /\ UNCHANGED <<hubVars, procVars, storeVars, runVars, tool, disk, webVars, notes>>

(* RunTool of an `edit`: the permission engine says Ask, the hub asks. *)
OrchRunTool(t, c, f) ==
  /\ orch[t].at = "work"
  /\ RequestHitl(c, t)
  /\ orch' = [orch EXCEPT ![t].at = "tool", ![t].call = c]
  /\ tool' = [tool EXCEPT ![c] = [at |-> "asking", file |-> f, heard |-> TRUE]]
  /\ UNCHANGED <<procVars, storeVars, runVars, stream, disk, webVars, notes>>

(* Bug: the tool runs whatever the verdict. *)
ToolVerdictIgnored(t, c) ==
  /\ orch[t].call = c
  /\ tool[c].at = "asking"
  /\ gate[c].at \in {"allowed", "denied"}
  /\ tool' = [tool EXCEPT ![c].at = "running"]
  /\ UNCHANGED <<hubVars, procVars, storeVars, runVars, orch, stream, disk, webVars, notes>>

(* `core_run_tool` with the verdict: the tool runs on a blocking thread, or *)
(* the denial, or the tool's own failure, is the result (noted with a       *)
(* non-zero exit: no deliverable).                                         *)
ToolVerdict(t, c) ==
  /\ orch[t].call = c
  /\ tool[c].at = "asking"
  /\ \/ /\ gate[c].at = "allowed"
        /\ tool' = [tool EXCEPT ![c].at = "running"]
        /\ UNCHANGED orch
     \/ /\ gate[c].at \in {"allowed", "denied"}
        /\ tool' = [tool EXCEPT ![c].at = "over"]
        /\ orch' = [orch EXCEPT ![t].at = "work", ![t].call = NoCall]
  /\ UNCHANGED <<hubVars, procVars, storeVars, runVars, stream, disk, webVars, notes>>

(* The blocking thread writes the file, whoever still waits for it. *)
ToolWrite(c) ==
  /\ tool[c].at = "running"
  /\ tool' = [tool EXCEPT ![c].at = IF tool[c].heard THEN "ran" ELSE "over"]
  /\ disk' = [disk EXCEPT ![gate[c].task] = @ \cup {tool[c].file}]
  /\ UNCHANGED <<hubVars, procVars, storeVars, runVars, orch, stream, webVars, notes>>

(* `note_tool_run`, then the result goes back to the orchestrator. *)
ToolNote(t, c) ==
  /\ orch[t].call = c
  /\ tool[c].at = "ran"
  /\ notes' = [notes EXCEPT ![t] = @ \cup {tool[c].file}]
  /\ tool' = [tool EXCEPT ![c].at = "over"]
  /\ orch' = [orch EXCEPT ![t].at = "work", ![t].call = NoCall]
  /\ UNCHANGED <<hubVars, procVars, storeVars, runVars, stream, disk, webVars>>

(* The ReAct loop's deadline cancels the RunTool call it waits for: the    *)
(* handler future is dropped, a blocking thread it started is not.         *)
ReactTimeout(t, c) ==
  /\ orch[t].at = "tool"
  /\ orch[t].call = c
  /\ \/ /\ tool[c].at = "asking"
        /\ HitlAbandoned(c)
        /\ tool' = [tool EXCEPT ![c].at = "over"]
     \/ /\ tool[c].at = "running"
        /\ tool' = [tool EXCEPT ![c].heard = FALSE]
        /\ UNCHANGED hubVars
  /\ orch' = [orch EXCEPT ![t].at = "work", ![t].call = NoCall]
  /\ UNCHANGED <<procVars, storeVars, runVars, stream, disk, webVars, notes>>

(* The orchestrator returns, or raises: an error event before the end. *)
OrchEnd(t) ==
  /\ orch[t].at = "work"
  /\ orch' = [orch EXCEPT ![t].at = "over"]
  /\ \/ Send(t, <<"end">>)
     \/ Send(t, <<"error", "end">>)
  /\ UNCHANGED <<hubVars, procVars, storeVars, runVars, tool, disk, webVars, notes>>

(* The sidecar process dies: its calls are cancelled, its streams break. *)
SidecarDies ==
  /\ "sidecar" \in Faults
  /\ \E t \in Task : orch[t].at \in {"work", "gate", "tool"}
  /\ orch' = [t \in Task |-> IF orch[t].at = "off" THEN orch[t]
                             ELSE [orch[t] EXCEPT !.at = "over", !.call = NoCall]]
  /\ stream' = [t \in Task |-> IF orch[t].at \in {"work", "gate", "tool"}
                               THEN Append(stream[t], "broken") ELSE stream[t]]
  /\ gate' = [c \in Call |-> IF gate[c].at = "waiting" THEN [gate[c] EXCEPT !.at = "gone"]
                             ELSE gate[c]]
  /\ tool' = [c \in Call |-> IF tool[c].at \in {"asking", "ran"} THEN [tool[c] EXCEPT !.at = "over"]
                             ELSE [tool[c] EXCEPT !.heard = FALSE]]
  /\ UNCHANGED <<issued, known, tasks, chan, post, stop, sse, gen, procVars, storeVars,
                 runVars, disk, webVars, notes>>

-----------------------------------------------------------------------------
(* The gate handlers and the kill-switch: HTTP requests. *)

WebOnly == UNCHANGED <<procVars, runVars, orchVars, notes>>

HandTo(h, at, t, counted) ==
  hand' = [hand EXCEPT ![h] = [at |-> at, task |-> t, counted |-> counted]]

(* `aprovar_gate_handler`: the gate is released first ... *)
GateRelease(h, t) ==
  /\ up
  /\ hand[h].at = "idle"
  /\ ResolveHitl(t, "allow")
  /\ HandTo(h, "released", t, FALSE)
  /\ UNCHANGED <<storeVars, act, watch>>
  /\ WebOnly

(* Bug: an approval is counted whatever the status of the run. *)
GateRecordAnyStatus(h) ==
  /\ hand[h].at = "released"
  /\ h \in Handler
  /\ row' = [row EXCEPT ![hand[h].task].gates = @ + 1]
  /\ HandTo(h, "recorded", hand[h].task, TRUE)
  /\ UNCHANGED <<hubVars, lib, facts, act, watch>>
  /\ WebOnly

(* Bug: the fact goes to the ledger even when the row was not saved. *)
GateRecordDespiteFault(h) ==
  /\ hand[h].at = "released"
  /\ h \in Handler
  /\ \/ row' = [row EXCEPT ![hand[h].task].gates = @ + 1]
     \/ "store" \in Faults /\ UNCHANGED row
  /\ HandTo(h, "recorded", hand[h].task, TRUE)
  /\ UNCHANGED <<hubVars, lib, facts, act, watch>>
  /\ WebOnly

(* ... then the run is read, `approve_gate` refuses it unless `ativa`, and  *)
(* the row is saved, all under the store lock ...                          *)
GateRecord(h) ==
  /\ hand[h].at = "released"
  /\ h \in Handler
  /\ LET t == hand[h].task IN
     \/ /\ row[t].status = "ativa"
        /\ row' = [row EXCEPT ![t].gates = @ + 1]
        /\ HandTo(h, "recorded", t, TRUE)
     \/ /\ row[t].status # "ativa" \/ "store" \in Faults
        /\ HandTo(h, "done", t, FALSE)
        /\ UNCHANGED row
  /\ UNCHANGED <<hubVars, lib, facts, act, watch>>
  /\ WebOnly

(* ... then the fact goes to the ledger. *)
GateFact(h) ==
  /\ hand[h].at = "recorded"
  /\ Appended(hand[h].task, "gates")
  /\ hand' = [hand EXCEPT ![h].at = "done"]
  /\ UNCHANGED <<hubVars, row, lib, act, watch>>
  /\ WebOnly

(* `pedir_ajuste_handler`: the instruction goes to the inbox and the chat  *)
(* (PushUserMessage, EchoUserMessage), then the gate is released, if any.  *)
AdjustPush(m, t) ==
  /\ up
  /\ PushUserMessage(m, t)
  /\ UNCHANGED <<storeVars, webVars>>
  /\ WebOnly

AdjustEcho(m) ==
  /\ EchoUserMessage(m)
  /\ UNCHANGED <<storeVars, webVars>>
  /\ WebOnly

AdjustRelease(m) ==
  /\ post[m].at = "echoed"
  /\ hand[m].at = "idle"
  /\ LET t == post[m].task IN
     \/ /\ ResolveHitl(t, "allow")
        /\ HandTo(m, "released", t, TRUE)
     \/ /\ tasks[t].pending = NoCall
        /\ HandTo(m, "released", t, FALSE)
        /\ UNCHANGED hubVars
  /\ UNCHANGED <<storeVars, act, watch>>
  /\ WebOnly

AdjustFact(m) ==
  /\ m \in Msg
  /\ hand[m].at = "released"
  /\ Appended(hand[m].task, "adjusts")
  /\ hand' = [hand EXCEPT ![m].at = "done"]
  /\ UNCHANGED <<hubVars, row, lib, act, watch>>
  /\ WebOnly

(* `POST /api/squad/{id}/hitl` of the development console: no run, no fact. *)
DevResolve(t, a) ==
  /\ up
  /\ ResolveHitl(t, a)
  /\ UNCHANGED <<storeVars, webVars>>
  /\ WebOnly

Kill(k, t) ==
  /\ up
  /\ EmergencyStop(k, t)
  /\ UNCHANGED <<storeVars, webVars>>
  /\ WebOnly

KillGoesOn(k) ==
  /\ StopPublish(k) \/ StopFinish(k)
  /\ UNCHANGED <<storeVars, webVars>>
  /\ WebOnly

(* `request_hitl` returns to the core server. *)
GateReturns(c) ==
  /\ HitlAnswered(c) \/ HitlTimeout(c)
  /\ UNCHANGED <<storeVars, webVars>>
  /\ WebOnly

-----------------------------------------------------------------------------
(* The watcher. *)

WatchOnly == UNCHANGED <<hubVars, procVars, runVars, orchVars, act, hand, notes>>

WatchTo(t, at, status) ==
  watch' = [watch EXCEPT ![t].at = at, ![t].status = status]

(* The channel of the task closed: `finish_task`, of whoever. *)
WatchWake(t) ==
  /\ watch[t].at = "start"
  /\ ~tasks[t].open
  /\ WatchTo(t, "woken", "ativa")
  /\ UNCHANGED storeVars
  /\ WatchOnly

(* `is_stopped` under one lock ... *)
WatchCheckStop(t) ==
  /\ watch[t].at = "woken"
  /\ IF tasks[t].stopped THEN WatchTo(t, "decided", "encerrada")
                         ELSE WatchTo(t, "checked", "ativa")
  /\ UNCHANGED storeVars
  /\ WatchOnly

InLog(t, e) == \E i \in DOMAIN tasks[t].log : tasks[t].log[i] = e

(* Bug: what is on the log does not matter. *)
WatchReadLogBlind(t) ==
  /\ watch[t].at = "checked"
  /\ WatchTo(t, "decided", "concluida")
  /\ UNCHANGED storeVars
  /\ WatchOnly

(* ... and the log under another. *)
WatchReadLog(t) ==
  /\ watch[t].at = "checked"
  /\ WatchTo(t, "decided", IF InLog(t, "error") THEN "erro" ELSE "concluida")
  /\ UNCHANGED storeVars
  /\ WatchOnly

(* It does not look at the status it overwrites. *)
SetStatus(t, status) == row' = [row EXCEPT ![t].status = status]

(* When `set_status` fails the watcher goes on with the status it decided. *)
WatchSave(t) ==
  /\ watch[t].at = "decided"
  /\ \/ SetStatus(t, watch[t].status)
     \/ "store" \in Faults /\ UNCHANGED row
  /\ WatchTo(t, IF watch[t].status = "concluida" THEN "collect" ELSE "done", watch[t].status)
  /\ UNCHANGED <<lib, facts>>
  /\ WatchOnly

(* `registrar_entregas`: the files the hub noted, and the run, if it reads. *)
WatchCollect(t) ==
  /\ watch[t].at = "collect"
  /\ \/ watch' = [watch EXCEPT ![t].at = IF notes[t] = {} THEN "done" ELSE "deliver",
                               ![t].todo = notes[t]]
     \/ "store" \in Faults /\ watch' = [watch EXCEPT ![t].at = "done"]
  /\ UNCHANGED storeVars
  /\ WatchOnly

(* One file: a row in the library, then a fact in the ledger. *)
DeliverInsert(t, f) ==
  /\ watch[t].at = "deliver"
  /\ f \in watch[t].todo
  /\ LET left == watch[t].todo \ {f} IN
     \/ /\ lib' = [lib EXCEPT ![t] = @ \cup {f}]
        /\ watch' = [watch EXCEPT ![t].at = "append", ![t].todo = left]
     \/ /\ "store" \in Faults
        /\ watch' = [watch EXCEPT ![t].at = IF left = {} THEN "done" ELSE "deliver",
                                  ![t].todo = left]
        /\ UNCHANGED lib
  /\ UNCHANGED <<row, facts>>
  /\ WatchOnly

DeliverAppend(t) ==
  /\ watch[t].at = "append"
  /\ Appended(t, "exports")
  /\ watch' = [watch EXCEPT ![t].at = IF watch[t].todo = {} THEN "done" ELSE "deliver"]
  /\ UNCHANGED <<row, lib>>
  /\ WatchOnly

-----------------------------------------------------------------------------
(* The dashboard stops without warning, and is started again. *)

(* Everything in memory is gone: the hub, the handlers, the runners, the   *)
(* blocking threads, and the sidecar's calls back into the process.        *)
Crash ==
  /\ up
  /\ crashes < MaxCrash
  /\ up' = FALSE
  /\ crashes' = crashes + 1
  /\ issued' = {}
  /\ known' = {}
  /\ tasks' = [t \in Task |-> Fresh]
  /\ gate' = [c \in Call |-> IF gate[c].at = "waiting" THEN [gate[c] EXCEPT !.at = "gone"]
                             ELSE gate[c]]
  /\ post' = [m \in Msg |-> IF post[m].at = "queued" THEN [post[m] EXCEPT !.at = "refused"]
                            ELSE post[m]]
  /\ stop' = [k \in Stopper |-> IF stop[k].at \in {"locked", "published"}
                                THEN [stop[k] EXCEPT !.at = "unknown"] ELSE stop[k]]
  /\ act' = [t \in Task |-> IF act[t] \in {"started", "registered", "saved"} THEN "failed"
                            ELSE act[t]]
  /\ run' = [t \in Task |-> NoRun]
  /\ lease' = NoTask
  /\ orch' = [t \in Task |-> NoOrch]
  /\ stream' = [t \in Task |-> <<>>]
  /\ tool' = [c \in Call |-> IF tool[c].at = "none" THEN NoTool ELSE [tool[c] EXCEPT !.at = "over"]]
  /\ notes' = [t \in Task |-> {}]
  /\ watch' = [t \in Task |-> NoWatch]
  /\ hand' = [h \in Handler \cup Msg |->
                IF hand[h].at \in {"released", "recorded"} \/ (h \in Msg /\ post[h].at = "echoed")
                THEN [hand[h] EXCEPT !.at = IF @ = "done" THEN "done" ELSE "cut"] ELSE hand[h]]
  /\ UNCHANGED <<chan, sse, gen, disk, storeVars>>

(* `reconcile_stale_runs`; its failure is ignored. *)
Reconciled ==
  \/ row' = [t \in Task |-> IF row[t].status = "ativa"
                            THEN [row[t] EXCEPT !.status = "encerrada"] ELSE row[t]]
  \/ "store" \in Faults /\ UNCHANGED row

Restart ==
  /\ ~up
  /\ up' = TRUE
  /\ Reconciled
  /\ UNCHANGED <<hubVars, crashes, lib, facts, runVars, orchVars, webVars, notes>>

(* A second `btv` on the same directory reconciles before it binds a port. *)
OtherStart ==
  /\ SecondStart
  /\ \E t \in Task : row[t].status = "ativa"
  /\ Reconciled
  /\ UNCHANGED <<hubVars, procVars, lib, facts, runVars, orchVars, webVars, notes>>

-----------------------------------------------------------------------------
ActStep(t) == ActRegisterAbort(t) \/ ActSaveRun(t) \/ ActRecord(t)

RunnerStep(t) ==
  \/ Boot(t) \/ Called(t) \/ LoopCheck(t) \/ Receive(t) \/ Close(t)
  \/ Report(t) \/ ReportPublish(t) \/ Finish(t) \/ Aborted(t)

(* What the core server does for the orchestrator's calls. *)
CoreStep(t) ==
  \E c \in Call : ToolVerdict(t, c) \/ ToolNote(t, c)

OrchStep(t) ==
  \/ OrchEmit(t) \/ OrchPlanVerdict(t) \/ OrchEnd(t)
  \/ \E c \in Call :
       OrchPlanGate(t, c) \/ ReactTimeout(t, c) \/ \E f \in File : OrchRunTool(t, c, f)

WatchStep(t) ==
  \/ WatchWake(t) \/ WatchCheckStop(t) \/ WatchReadLog(t) \/ WatchSave(t)
  \/ WatchCollect(t) \/ DeliverAppend(t) \/ \E f \in File : DeliverInsert(t, f)

WebStep ==
  \/ \E t \in Task :
       \/ \E h \in Handler : GateRelease(h, t)
       \/ \E m \in Msg : AdjustPush(m, t)
       \/ \E a \in {"allow", "deny"} : DevResolve(t, a)
       \/ \E k \in Stopper : Kill(k, t)
  \/ \E h \in Handler : GateRecord(h) \/ GateFact(h)
  \/ \E m \in Msg : AdjustEcho(m) \/ AdjustRelease(m) \/ AdjustFact(m)
  \/ \E k \in Stopper : KillGoesOn(k)

Next ==
  \/ \E t \in Task :
       \/ StartSquadTask(t) \/ ActStep(t) \/ RunnerStep(t) \/ CoreStep(t)
       \/ OrchStep(t) \/ WatchStep(t)
  \/ \E c \in Call : ToolWrite(c) \/ GateReturns(c)
  \/ WebStep
  \/ SidecarDies \/ Crash \/ Restart \/ OtherStart

SafeSpec == Init /\ [][Next]_vars

(* A runner that waits for the slot may fail, and owes it to nobody. *)
RunnerGoesOn(t) == RunnerStep(t) /\ ~(run[t].at = "boot" /\ run'[t].at = "report")

(* The executor polls what is ready: handlers, the runner, the watcher, a  *)
(* woken or timed-out gate, a tool's thread.  Nothing is owed by users.    *)
ExecutorFairness ==
  /\ \A t \in Task :
       /\ WF_vars(ActStep(t))
       /\ WF_vars(RunnerGoesOn(t))
       /\ WF_vars(WatchStep(t))
       /\ WF_vars(CoreStep(t))
  /\ \A c \in Call : WF_vars(ToolWrite(c)) /\ WF_vars(GateReturns(c))
  /\ \A k \in Stopper : WF_vars(KillGoesOn(k))

Spec == SafeSpec /\ ExecutorFairness

(* The orchestrator is bounded: its ReAct loop has a deadline, its calls   *)
(* return once the gate does.                                              *)
OrchestratorFairness == \A t \in Task : WF_vars(OrchPlanVerdict(t) \/ OrchEnd(t))

-----------------------------------------------------------------------------
(* Properties. *)

(* The run the rows and the library hold. *)
Lifecycle == INSTANCE RunLifecycle WITH
  status <- [t \in Task |-> row[t].status],
  gates <- [t \in Task |-> row[t].gates],
  delivered <- lib

(* The persisted run lives the life the domain gives it (`RunStatus`,      *)
(* `can_transition_to`, `approve_gate`), whatever order the activation     *)
(* handler, the watcher, the gate handlers, a crash and a restart write    *)
(* the row in: it leaves `ativa` once, counts gates and delivers only      *)
(* where it may.                                                           *)
RunHasItsLifecycle == Lifecycle!Spec

(* No fact without its state: the ledger never says that a squad was       *)
(* activated, a gate approved or a file delivered unless the row or the    *)
(* library entry is there, over faults of either store and crashes between *)
(* the two writes (`ativar_squad_handler`, `aprovar_gate_handler`,         *)
(* `registrar_entregas` save before they append).                          *)
FactsFollowRow ==
  \A t \in Task :
    /\ facts[t].activated <= 1
    /\ facts[t].activated > 0 => row[t].status # "ausente"
    /\ facts[t].gates <= row[t].gates
    /\ facts[t].exports <= Cardinality(lib[t])

(* The status written is the way the run ended: `concluida` only after a   *)
(* runner that ended well, `erro` only with an error on the stream,        *)
(* `encerrada` only by the kill-switch (`spawn_status_watcher` learns it   *)
(* from the hub alone, after `finish_task`); a crash has its own ending.   *)
StatusTellsTheEnding ==
  crashes = 0 => \A t \in Task :
    /\ row[t].status = "concluida" => run[t].at = "done" /\ run[t].ok
    /\ row[t].status = "erro" => InLog(t, "error")
    /\ row[t].status = "encerrada" => tasks[t].stopped

(* A file is written only by a call that a human approved and that was not *)
(* told otherwise first: a late approval, an approval of another request,  *)
(* a timeout or the kill-switch never lets a tool run (`core_run_tool`,    *)
(* `request_hitl`).  The library shows such files only, and those of a run *)
(* that ended well (`registrar_entregas`, `note_tool_run`).                *)
WrittenOnlyIfApproved ==
  \A t \in Task :
    /\ lib[t] \subseteq disk[t]
    /\ lib[t] # {} => row[t].status = "concluida"
    /\ \A f \in disk[t] :
         \E c \in Call : /\ tool[c].file = f
                         /\ gate[c].task = t
                         /\ gate[c].at = "allowed"
                         /\ chan[c] = "allow"

(* A run does not stay open: every activated squad ends, though nobody     *)
(* answers its gates and its sidecar dies, and though another squad has    *)
(* the only slot and waits for a gate itself (a failure of its start frees *)
(* a runner that waits, but is owed to nobody); and one hit by the         *)
(* kill-switch ends whatever its row says by then, without anything from   *)
(* the orchestrator (`emergency_stop`, `finish_task`,                      *)
(* `spawn_status_watcher`).                                                *)
RunsEnd ==
  \A t \in Task :
    \/ row[t].status = "ativa"
    \/ up /\ act[t] = "done" /\ tasks[t].stopped
    ~> row[t].status \in Terminal

-----------------------------------------------------------------------------
(* What the source says of the program and the program does not do. *)

(* "kill-switch > erro no log > concluída" (btv_agent.rs): a task that was *)
(* stopped is not written down as failed.                                  *)
KillSwitchWins ==
  [][\A t \in Task :
       watch[t].at = "checked" /\ watch'[t].status = "erro" => ~tasks[t].stopped]_vars

(* The ledger's `gate_approved` is the approval of a gate: there are no    *)
(* more of them than requests that were given an approval.                 *)
LedgerApprovalsAreReal ==
  \A t \in Task :
    facts[t].gates <= Cardinality({c \in Call : gate[c].task = t /\ chan[c] = "allow"})

(* "Arquivos REAIS gravados pelas ferramentas ... viram itens": a run that *)
(* was concluded delivered every file its tools wrote.                     *)
DeliveriesAreComplete ==
  \A t \in Task : watch[t].at = "done" /\ row[t].status = "concluida" => disk[t] \subseteq lib[t]

(* "só uma tarefa viva por vez" (squad_agent.rs): one orchestrator at work *)
(* at a time, since the pool has one slot.                                 *)
OneTaskAlive ==
  Cardinality({t \in Task : orch[t].at \in {"work", "gate", "tool"}}) <= 1
=============================================================================
