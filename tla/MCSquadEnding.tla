----------------------------- MODULE MCSquadEnding -----------------------------
(* SquadRun's liveness for TLC.  A behaviour is of one scene: a task alone,  *)
(* with a human, the kill-switch and a sidecar that may die; or two tasks in *)
(* a queue for the one slot, whose gates nobody answers and of which the     *)
(* kill-switch may stop the first, at work while the other waits.  What a    *)
(* scene takes away is no step that anybody owes.                            *)
EXTENDS SquadRun, TLC

VARIABLE scene

TwoTasks == 1..2

EndingInit == Init /\ scene \in {"alone", "queue"}

NextAlone == issued' \subseteq {1}

NextInQueue ==
  /\ \A c \in Call : chan'[c] \in {"allow", "deny"} => tasks'[gate'[c].task].stopped
  /\ \A t \in Task : \A i \in DOMAIN stream'[t] : stream'[t][i] # "broken"
  /\ \A t \in Task :
       /\ run[t].at = "boot" => run'[t].at # "report"
       /\ orch'[t].left = MaxEvents /\ orch'[t].at # "tool"
       /\ tasks'[t].stopped => tasks[t].stopped \/ (t = 1 /\ run[1].at = "loop" /\ run[2].at = "boot")

EndingNext ==
  \/ scene = "alone" /\ Next /\ NextAlone /\ UNCHANGED scene
  \/ scene = "queue" /\ Next /\ NextInQueue /\ UNCHANGED scene

EndingSpec ==
  /\ EndingInit /\ [][EndingNext]_<<vars, scene>>
  /\ ExecutorFairness /\ OrchestratorFairness
=============================================================================
