------------------------------ MODULE Orchestrator ------------------------------
(***************************************************************************)
(* One task of the Python squad (btv_squad: server.py `ExecuteTask`,       *)
(* orchestrator.py `execute_complex_task`, the agents, parallel.py,        *)
(* hitl.py): plan, three proposals, consensus, the human when it is weak,  *)
(* the steps of the plan, the auditor's verdict.  A step is given to one   *)
(* agent or to developer and designer at once; only the developer runs     *)
(* tools, in a loop with the model.  What a model answers is free; each    *)
(* action ends at an await.                                                *)
(***************************************************************************)
EXTENDS Naturals, Sequences, FiniteSetsExt

CONSTANTS
  Confidence,  \* tenths: what an agent's answer may claim
  MaxPlan,  \* bound: steps of a plan
  MaxReact   \* model turns of a developer's loop (_MAX_REACT_STEPS)

ASSUME OrchestratorConstants ==
  /\ Confidence \subseteq 0 .. 10
  /\ MaxPlan \in Nat
  /\ MaxReact \in Nat \ {0}

VARIABLES
  orc,       \* the task: where it is, the agents' votes, its plan and step, what the server was sent
  developer, \* the developer at its step: turns taken, what its tool_calls hold; history: mutated
  designer,  \* the other half of a parallel step
  results,   \* developer results: their step, status, tool_calls; history: mutated
  consent,   \* history: how the plan was agreed
  tooled     \* history: a tool has run

orcVars == <<orc, developer, designer, results, consent, tooled>>

(* `_select_agent_for_step`, `_can_parallelize`: a step without dependencies  *)
(* is done by two unless it validates or deploys; of the rest a developer's  *)
(* differs from the others'.  A step that names no action is a developer's  *)
(* too, and a bare one: it is worked without tools.                         *)
StepKind == {"parallel", "develop", "parallelBare", "developBare", "audit", "other"}
Paired == {"parallel", "parallelBare"}
Bare == {"parallelBare", "developBare"}
DeveloperSteps == {"parallel", "develop"} \cup Bare

Plans == UNION {[1..n -> StepKind] : n \in 0..MaxPlan}

(* The evidence of the request: no message, or one with this verdict. *)
WireVerdict == {"absent", "unspecified", "pass", "fail", "skipped"}

(* `from_proto` refuses a message without a verdict: it counts as absent. *)
HasEvidence == orc.wire \notin {"absent", "unspecified"}

(* `tool_calls`: the key is absent, or it holds no edit or bash with exit   *)
(* code 0, or one.  `mutated`: such a call was made and answered so.         *)
OffDuty == [at |-> "off", turns |-> 0, calls |-> "idle", mutated |-> FALSE]
AtLoop == [OffDuty EXCEPT !.at = "model"]
AtAnswer == [OffDuty EXCEPT !.at = "answer", !.calls = "absent"]

OrcInit ==
  /\ orc \in [at : {"received"}, votes : {<<>>}, plan : {<<>>}, step : {1}, verdict : {"none"},
              roster : BOOLEAN, wire : WireVerdict]
  /\ developer = OffDuty
  /\ designer = "off"
  /\ results = {}
  /\ consent = "none"
  /\ tooled = FALSE

OrcGoes(phase) == orc' = [orc EXCEPT !.at = phase]

(* `run` in server.py: whatever is raised becomes the error event. *)
Raises == OrcGoes("error")

-----------------------------------------------------------------------------
(* Up to the consent. *)

(* An invalid tenant context is refused with one error event. *)
ExecuteTask ==
  /\ orc.at = "received"
  /\ OrcGoes("planning") \/ OrcGoes("error")
  /\ UNCHANGED <<developer, designer, results, consent, tooled>>

(* `recall_similar`, then the model decomposes the task: both may raise. *)
CreateAdaptivePlan ==
  /\ orc.at = "planning"
  /\ \/ \E p \in Plans : orc' = [orc EXCEPT !.at = "architect", !.plan = p]
     \/ Raises
  /\ UNCHANGED <<developer, designer, results, consent, tooled>>

(* An answer and its confidence; one that claims no number in 0..1 raises. *)
Votes(agent, next) ==
  /\ orc.at = agent
  /\ \/ \E c \in Confidence : orc' = [orc EXCEPT !.at = next, !.votes = Append(@, c)]
     \/ Raises

(* Bug: the developer's proposal carries an action, the sign to use tools. *)
ProposeWithAction ==
  /\ Votes("developer", "auditor")
  /\ tooled' \in {tooled, TRUE}
  /\ UNCHANGED <<developer, designer, results, consent>>

(* `_get_squad_proposals`, one call of the model each.  Without an action  *)
(* the developer's is `implement_task` without tools.                      *)
ArchitectProposes ==
  Votes("architect", "developer") /\ UNCHANGED <<developer, designer, results, consent, tooled>>
DeveloperProposes ==
  Votes("developer", "auditor") /\ UNCHANGED <<developer, designer, results, consent, tooled>>
AuditorProposes ==
  Votes("auditor", "agreeing") /\ UNCHANGED <<developer, designer, results, consent, tooled>>

GetSquadProposals == ArchitectProposes \/ DeveloperProposes \/ AuditorProposes

(* A decision on architecture: of architect, developer and auditor. *)
Weight == <<9, 6, 5>>

(* The strength of the winner's weighted vote among all; HITL_ESCALATION_THRESHOLD *)
RequiresHuman(votes) ==
  LET weighted == [i \in DOMAIN votes |-> Weight[i] * votes[i]]
      total == weighted[1] + weighted[2] + weighted[3]
  IN  total = 0 \/ 10 * Max({weighted[i] : i \in DOMAIN votes}) < 7 * total

ReachConsensus ==
  /\ orc.at = "agreeing"
  /\ orc' = [orc EXCEPT !.at = IF RequiresHuman(orc.votes) THEN "asking" ELSE "stepping", !.votes = <<>>]
  /\ consent' = IF RequiresHuman(orc.votes) THEN "asked" ELSE "strong"
  /\ UNCHANGED <<developer, designer, results, tooled>>

(* How many of the thresholds a trust score, in tenths, has reached. *)
AutonomyLevel(score) == Cardinality({limit \in {4, 6, 8} : score >= limit})
NeedsHumanApproval(level, critical) == level < 2 \/ (level = 2 /\ critical)

(* `execute_with_autonomy`: an orchestrator is new to its task, its trust  *)
(* 0.5, the action critical; denied, it returns at once.                   *)
ExecuteWithAutonomy ==
  /\ orc.at = "asking"
  /\ IF NeedsHumanApproval(AutonomyLevel(5), TRUE)
     THEN \/ OrcGoes("stepping") /\ consent' = "granted"
          \/ OrcGoes("ended") /\ consent' = "denied"
          \/ Raises /\ UNCHANGED consent
     ELSE OrcGoes("stepping") /\ UNCHANGED consent
  /\ UNCHANGED <<developer, designer, results, tooled>>

-----------------------------------------------------------------------------
(* The steps. *)

Step == orc.plan[orc.step]

(* The loop goes over the plan it was given: a replan binds another. *)
StartStep ==
  /\ orc.at = "stepping"
  /\ IF orc.step > Len(orc.plan)
     THEN OrcGoes("validating") /\ UNCHANGED <<developer, designer>>
     ELSE /\ OrcGoes("working")
          /\ developer' = IF Step \notin DeveloperSteps THEN OffDuty
                          ELSE IF Step \in Bare THEN AtAnswer ELSE AtLoop
          /\ designer' = IF Step \in Paired THEN "busy" ELSE "off"
  /\ UNCHANGED <<results, consent, tooled>>

(* Bug: one mutating call is taken for every claim. *)
ClaimsCompletionWithoutAnyWrite(rs) ==
  /\ \E r \in rs : r.said = "completed" /\ r.calls = "idle"
  /\ ~\E r \in rs : r.calls = "mutating"

(* `_claims_completion_without_write_evidence`: an edit or a bash with exit  *)
(* code 0 is evidence, whatever it did; a result without the key `tool_calls` *)
(* is skipped.                                                              *)
ClaimsCompletionWithoutWriteEvidence(rs) ==
  \E r \in rs : r.said = "completed" /\ r.calls = "idle"

NextStep == orc' = [orc EXCEPT !.at = "stepping", !.step = @ + 1]

(* The agent raises, or the model proposes steps to recover with; the plan  *)
(* made of them and of the steps not done is given a name the loop over    *)
(* the old plan does not look at.                                          *)
ReplanFromPoint == NextStep \/ Raises

(* Architect, designer or ops, and the model it calls; an answer below 0.6, *)
(* by its own word, brings a replan.                                        *)
OtherAgentStep ==
  /\ orc.at = "working"
  /\ Step = "other"
  /\ NextStep \/ ReplanFromPoint
  /\ UNCHANGED <<developer, designer, results, consent, tooled>>

(* The auditor, shown the results so far: a claim without such a call      *)
(* is refused, with a confidence of 0, before the model is asked.          *)
AuditStep ==
  /\ orc.at = "working"
  /\ Step = "audit"
  /\ IF ClaimsCompletionWithoutWriteEvidence(results) THEN ReplanFromPoint ELSE NextStep \/ ReplanFromPoint
  /\ UNCHANGED <<developer, designer, results, consent, tooled>>

DesignerStep ==
  /\ designer = "busy"
  /\ designer' \in {"over", "raised"}
  /\ UNCHANGED <<orc, developer, results, consent, tooled>>

DeveloperIs(phase) == developer' = [developer EXCEPT !.at = phase]

(* `_implement_with_tools`: an answer of the model ends the loop, asks for a *)
(* tool, or makes no sense and costs a turn.                                 *)
DeveloperTurn ==
  /\ developer.at = "model"
  /\ IF developer.turns = MaxReact
     THEN DeveloperIs("incomplete")
     ELSE \/ DeveloperIs("completed") \/ DeveloperIs("incomplete")
          \/ DeveloperIs("tool")
          \/ developer' = [developer EXCEPT !.turns = @ + 1]
          \/ DeveloperIs("raised")
  /\ UNCHANGED <<orc, designer, results, consent, tooled>>

(* The tool ran, and was an edit or a bash that answered exit code 0, or     *)
(* neither; or the call broke, and it may have run.                          *)
DeveloperTool ==
  /\ developer.at = "tool"
  /\ \/ /\ \/ developer' = [developer EXCEPT !.at = "model", !.turns = @ + 1]
           \/ developer' = [at |-> "model", turns |-> developer.turns + 1,
                            calls |-> "mutating", mutated |-> TRUE]
        /\ tooled' = TRUE
     \/ DeveloperIs("raised") /\ tooled' \in {tooled, TRUE}
  /\ UNCHANGED <<orc, designer, results, consent>>

(* `wait_for`: what the tools did, the one under way included, is not in    *)
(* the result.                                                              *)
DeveloperTimeout ==
  /\ developer.at \in {"model", "tool"}
  /\ \E ran \in {FALSE, developer.at = "tool"} :
       /\ developer' = [developer EXCEPT !.at = "incomplete", !.calls = "idle"]
       /\ tooled' = (tooled \/ ran)
  /\ UNCHANGED <<orc, designer, results, consent>>

(* `implement_task` without tools: one answer of the model. *)
ImplementWithoutTools ==
  /\ developer.at = "answer"
  /\ \E phase \in {"completed", "incomplete", "raised"} : DeveloperIs(phase)
  /\ UNCHANGED <<orc, designer, results, consent, tooled>>

DeveloperOver == developer.at \in {"completed", "incomplete"}
DeveloperResult ==
  [step |-> orc.step, said |-> developer.at, calls |-> developer.calls, mutated |-> developer.mutated]

(* `gather` waits for both, and raises as soon as one has raised: the other  *)
(* goes on.  A developer alone may be followed by a replan that raises.      *)
EndStep ==
  /\ orc.at = "working"
  /\ Step \in DeveloperSteps
  /\ \/ /\ DeveloperOver
        /\ Step \in Paired => designer = "over"
        /\ \/ NextStep /\ results' = results \cup {DeveloperResult}
           \/ Step \notin Paired /\ Raises /\ UNCHANGED results
        /\ developer' = OffDuty
     \/ /\ developer.at = "raised" \/ designer = "raised"
        /\ Raises
        /\ UNCHANGED <<developer, results>>
  /\ UNCHANGED <<designer, consent, tooled>>

-----------------------------------------------------------------------------
(* The verdict. *)

(* Without evidence an engineering task is refused unasked; so is a claim    *)
(* without a call to back it.  The model judges the rest, whatever the         *)
(* evidence says.                                                            *)
ValidateResults ==
  /\ orc.at = "validating"
  /\ \/ orc' = [orc EXCEPT !.at = "remembering", !.verdict = "refused"]
     \/ /\ HasEvidence \/ orc.roster
        /\ ~ClaimsCompletionWithoutWriteEvidence(results)
        /\ orc' = [orc EXCEPT !.at = "remembering", !.verdict = "approved"] \/ Raises
  /\ UNCHANGED <<developer, designer, results, consent, tooled>>

(* The verdict is told before the decision is remembered: a memory that    *)
(* cannot be written ends an approved task with the error event.           *)
RememberVerdict ==
  /\ orc.at = "remembering"
  /\ OrcGoes("ended") \/ Raises
  /\ UNCHANGED <<developer, designer, results, consent, tooled>>

(* The last event is sent; closing the channel cuts what still works. *)
CloseChannel ==
  /\ orc.at \in {"error", "ended"}
  /\ OrcGoes("closed")
  /\ developer' = OffDuty
  /\ designer' = "off"
  /\ UNCHANGED <<results, consent, tooled>>

ExecutePlanSteps == StartStep \/ OtherAgentStep \/ AuditStep \/ EndStep
ImplementTask == DeveloperTurn \/ DeveloperTool \/ DeveloperTimeout \/ ImplementWithoutTools
ExecuteComplexTask ==
  \/ CreateAdaptivePlan \/ GetSquadProposals \/ ReachConsensus \/ ExecuteWithAutonomy
  \/ ExecutePlanSteps \/ ValidateResults \/ RememberVerdict

OrcNext == ExecuteTask \/ ExecuteComplexTask \/ DesignerStep \/ ImplementTask \/ CloseChannel

OrcSpec == OrcInit /\ [][OrcNext]_orcVars

-----------------------------------------------------------------------------
(* No tool runs before the plan is agreed, by a strong consensus or by the   *)
(* human asked for it, so that a plan the human denied has touched nothing.  *)
(* A task approved had, behind each claim of completion, a mutating call     *)
(* its own step's developer made and got exit code 0 for, through every     *)
(* replan, timeout and parallel step, unless that step named no action: then *)
(* no tool was there to call and the claim is the model's word alone.  And   *)
(* an engineering task had its verification evidence.  What the call wrote   *)
(* nobody looks at: `bash ls` counts.                                        *)
WorkIsSanctioned ==
  /\ tooled => consent \in {"strong", "granted"}
  /\ orc.verdict = "approved" =>
       /\ \A r \in results : r.said = "completed" => r.mutated \/ orc.plan[r.step] \in Bare
       /\ orc.roster \/ HasEvidence
=============================================================================
