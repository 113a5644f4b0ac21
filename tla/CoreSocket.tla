------------------------------- MODULE CoreSocket -------------------------------
(***************************************************************************)
(* How an orchestrator finds the dashboard's end of its task               *)
(* (crates/btv-cli/src/squad_agent.rs `run_squad_task_inner`,              *)
(* crates/btv-sidecar/src/core_server.rs `serve_core`): the runner of      *)
(* every task spawns a server for its own backend on one socket path,      *)
(* waits for a file there, waits for the pool's only slot and starts the   *)
(* orchestrator, which connects to whoever the path names at that moment.  *)
(***************************************************************************)
EXTENDS Naturals

CONSTANTS
  CsTask,
  Nobody    \* neither a task nor a server

ASSUME NobodyIsNoTask == Nobody \notin CsTask

VARIABLES
  file,       \* the path: absent, or the task whose server bound it
  coreServer, \* per task: its core server
  runner,     \* per task: its runner
  slot,       \* holder of the pool's slot
  peer,       \* per task: whose server its orchestrator is connected to
  calling     \* per task: whether its orchestrator has connected, or has yet to

socketVars == <<file, coreServer, runner, slot, peer, calling>>

SocketInit ==
  /\ file = Nobody
  /\ coreServer = [t \in CsTask |-> "off"]
  /\ runner = [t \in CsTask |-> "new"]
  /\ slot = Nobody
  /\ peer = [t \in CsTask |-> Nobody]
  /\ calling = [t \in CsTask |-> "no"]

ServerIs(t, phase) == coreServer' = [coreServer EXCEPT ![t] = phase]
RunnerIs(t, phase) == runner' = [runner EXCEPT ![t] = phase]
SlotOf(t) == IF slot = t THEN Nobody ELSE slot

-----------------------------------------------------------------------------
(* `serve_core`, a task of its own. *)

RemoveFile(t) ==
  /\ coreServer[t] = "spawned"
  /\ ServerIs(t, "removed")
  /\ file' = Nobody
  /\ UNCHANGED <<runner, slot, peer, calling>>

(* Bind fails on a path another server has bound since. *)
Bind(t) ==
  /\ coreServer[t] = "removed"
  /\ IF file = Nobody
     THEN ServerIs(t, "listening") /\ file' = t
     ELSE ServerIs(t, "failed") /\ UNCHANGED file
  /\ UNCHANGED <<runner, slot, peer, calling>>

-----------------------------------------------------------------------------
(* The runner. *)

SpawnCore(t) ==
  /\ runner[t] = "new"
  /\ RunnerIs(t, "waiting")
  /\ ServerIs(t, "spawned")
  /\ UNCHANGED <<file, slot, peer, calling>>

(* A file is all it waits for, whosever it is; after a while it gives up, *)
(* as it does when verification or the ledger session fails.              *)
WaitForSocket(t) ==
  /\ runner[t] = "waiting"
  /\ \/ file # Nobody /\ RunnerIs(t, "queued")
     \/ RunnerIs(t, "over")
  /\ UNCHANGED <<file, coreServer, slot, peer, calling>>

AcquireSlot(t) ==
  /\ runner[t] = "queued"
  /\ slot = Nobody
  /\ slot' = t
  /\ RunnerIs(t, "running")
  /\ calling' = [calling EXCEPT ![t] = "yet"]
  /\ UNCHANGED <<file, coreServer, peer>>

(* Bug: the server is left behind. *)
EndsWithoutAbort(t) ==
  /\ runner[t] = "running"
  /\ calling[t] = "over"
  /\ RunnerIs(t, "done")
  /\ slot' = SlotOf(t)
  /\ UNCHANGED <<file, coreServer, peer, calling>>

(* The stream has ended: `core_task.abort()`, and the lease is dropped. *)
Ends(t) ==
  /\ runner[t] = "running"
  /\ calling[t] = "over"
  /\ RunnerIs(t, "done")
  /\ slot' = SlotOf(t)
  /\ ServerIs(t, "aborted")
  /\ UNCHANGED <<file, peer, calling>>

(* The kill-switch aborts the runner, not the server it spawned. *)
Killed(t) ==
  /\ runner[t] \in {"waiting", "queued", "running"}
  /\ RunnerIs(t, "over")
  /\ slot' = SlotOf(t)
  /\ UNCHANGED <<file, coreServer, peer, calling>>

-----------------------------------------------------------------------------
(* The orchestrator connects with its first call; nobody listens on the file *)
(* an aborted server leaves, and its task ends with an error.                *)
Connect(t) ==
  /\ calling[t] = "yet"
  /\ IF file # Nobody /\ coreServer[file] = "listening"
     THEN /\ peer' = [peer EXCEPT ![t] = file]
          /\ calling' = [calling EXCEPT ![t] = "on"]
     ELSE /\ calling' = [calling EXCEPT ![t] = "over"]
          /\ UNCHANGED peer
  /\ UNCHANGED <<file, coreServer, runner, slot>>

LastCall(t) ==
  /\ calling[t] = "on"
  /\ calling' = [calling EXCEPT ![t] = "over"]
  /\ UNCHANGED <<file, coreServer, runner, slot, peer>>

ServeCore(t) == RemoveFile(t) \/ Bind(t)
RunSquadTaskInner(t) == SpawnCore(t) \/ WaitForSocket(t) \/ AcquireSlot(t) \/ Ends(t)

SocketNext ==
  \E t \in CsTask : RunSquadTaskInner(t) \/ Killed(t) \/ ServeCore(t) \/ Connect(t) \/ LastCall(t)

SocketSpec == SocketInit /\ [][SocketNext]_socketVars

-----------------------------------------------------------------------------
(* No orchestrator that has no peer yet connects to the backend of a task    *)
(* whose stream has ended: its file outlives it, is found by a later runner  *)
(* and even connected to before that one's own server has bound, but nobody  *)
(* answers there.  One connected before may hold its connection still.       *)
EndedTasksAnswerNobody ==
  [][\A t, u \in CsTask : peer[t] = Nobody /\ peer'[t] = u => runner[u] # "done"]_socketVars

(* The capacity of one is to leave no doubt whose a call is: an orchestrator *)
(* calls the backend of its own task.                                        *)
CallsReachOwnTask == \A t \in CsTask : peer[t] \in {Nobody, t}
=============================================================================
