------------------------------- MODULE AgentProofs -------------------------------
(***************************************************************************)
(* Theorems about the agents' processes, for any number of tasks, calls,   *)
(* steps and turns: whom a squad's orchestrator can reach (CoreSocket), in *)
(* what order a task's plan is agreed, worked and approved (Orchestrator), *)
(* what the calls of a command on the terminal may do (CliSquad), whose    *)
(* answers a language server's queries are given (LspClient), what a       *)
(* durable conversation keeps, whoever writes to it (DurableSession), and  *)
(* which of the user's permission rules decides (RulePolicy).              *)
(***************************************************************************)
EXTENDS CoreSocket, Orchestrator, CliSquad, LspClient, DurableSession, RulePolicy,
        FiniteSetTheorems, SequenceTheorems, TLAPS

-----------------------------------------------------------------------------
(* The core socket. *)

SocketTypes ==
  /\ file \in CsTask \cup {Nobody}
  /\ coreServer \in [CsTask -> {"off", "spawned", "removed", "listening", "failed", "aborted"}]
  /\ runner \in [CsTask -> {"new", "waiting", "queued", "running", "over", "done"}]
  /\ peer \in [CsTask -> CsTask \cup {Nobody}]

(* Why nobody answers for an ended task: its server is aborted before its  *)
(* runner ends, and is none that could still bind.                         *)
EndedIsAborted == \A t \in CsTask : runner[t] = "done" => coreServer[t] = "aborted"

SocketInv == SocketTypes /\ EndedIsAborted

(* The end of a task aborts its server in the step that ends it, and no    *)
(* step of the server brings it back.                                      *)
LEMMA SocketInvInductive == SocketSpec => []SocketInv
<1>1. SocketInit => SocketInv
  BY DEF SocketInit, SocketInv, SocketTypes, EndedIsAborted
<1>2. SocketInv /\ [SocketNext]_socketVars => SocketInv'
  <2> SUFFICES ASSUME SocketInv, [SocketNext]_socketVars PROVE SocketInv'
    OBVIOUS
  <2> USE DEF SocketInv, SocketTypes, EndedIsAborted, ServerIs, RunnerIs
  <2>1. ASSUME NEW t \in CsTask, RemoveFile(t) PROVE SocketInv'
    BY <2>1 DEF RemoveFile
  <2>2. ASSUME NEW t \in CsTask, Bind(t) PROVE SocketInv'
    BY <2>2 DEF Bind
  <2>3. ASSUME NEW t \in CsTask, SpawnCore(t) PROVE SocketInv'
    BY <2>3 DEF SpawnCore
  <2>4. ASSUME NEW t \in CsTask, WaitForSocket(t) PROVE SocketInv'
    BY <2>4 DEF WaitForSocket
  <2>5. ASSUME NEW t \in CsTask, AcquireSlot(t) PROVE SocketInv'
    BY <2>5 DEF AcquireSlot
  <2>6. ASSUME NEW t \in CsTask, Ends(t) PROVE SocketInv'
    BY <2>6 DEF Ends
  <2>7. ASSUME NEW t \in CsTask, Killed(t) PROVE SocketInv'
    BY <2>7 DEF Killed
  <2>8. ASSUME NEW t \in CsTask, Connect(t) PROVE SocketInv'
    BY <2>8 DEF Connect
  <2>9. ASSUME NEW t \in CsTask, LastCall(t) PROVE SocketInv'
    BY <2>9 DEF LastCall
  <2>10. CASE UNCHANGED socketVars
    BY <2>10 DEF socketVars
  <2> QED
    BY <2>1, <2>2, <2>3, <2>4, <2>5, <2>6, <2>7, <2>8, <2>9, <2>10
       DEF SocketNext, RunSquadTaskInner, ServeCore
<1> QED
  BY <1>1, <1>2, PTL DEF SocketSpec

(* However many tasks share the path, no orchestrator without a peer       *)
(* connects to the backend of a task whose stream has ended: the only step *)
(* that gives an orchestrator its peer finds a server that listens, and    *)
(* one of an ended task does not.                                          *)
THEOREM EndedAnswerNobody == SocketSpec => EndedTasksAnswerNobody
<1>1. ASSUME SocketInv, [SocketNext]_socketVars
      PROVE  [\A t, u \in CsTask : peer[t] = Nobody /\ peer'[t] = u => runner[u] # "done"]_socketVars
  <2> SUFFICES ASSUME SocketNext,
                      NEW t \in CsTask, NEW u \in CsTask, peer[t] = Nobody, peer'[t] = u
               PROVE  runner[u] # "done"
    BY <1>1
  <2>1. PICK v \in CsTask : RunSquadTaskInner(v) \/ Killed(v) \/ ServeCore(v) \/ Connect(v) \/ LastCall(v)
    BY DEF SocketNext
  <2>2. peer # peer'
    BY NobodyIsNoTask
  <2>3. Connect(v)
    BY <2>1, <2>2 DEF RunSquadTaskInner, Killed, ServeCore, LastCall, SpawnCore, WaitForSocket,
       AcquireSlot, Ends, RemoveFile, Bind
  <2>4. file # Nobody /\ coreServer[file] = "listening" /\ peer' = [peer EXCEPT ![v] = file]
    BY <2>2, <2>3 DEF Connect
  <2>5. u = file
    BY <1>1, <2>2, <2>4, NobodyIsNoTask DEF SocketInv, SocketTypes
  <2> QED
    BY <1>1, <2>4, <2>5 DEF SocketInv, EndedIsAborted
<1> QED
  BY <1>1, SocketInvInductive, PTL DEF SocketSpec, EndedTasksAnswerNobody

-----------------------------------------------------------------------------
(* The orchestrator's task. *)

(* A refused task, an unreached consent: no tool can be under way yet. *)
BeforeConsent == {"received", "planning", "architect", "developer", "auditor", "agreeing", "asking"}
Working == {"stepping", "working", "validating", "remembering"}
AtTools == {"model", "tool"}
Agreed == consent \in {"strong", "granted"}

OrcPhase == BeforeConsent \cup Working \cup {"error", "ended", "closed"}
OrcRecord ==
  [at : OrcPhase, votes : Seq(Confidence), plan : Plans, step : Nat,
   verdict : {"none", "approved", "refused"}, roster : BOOLEAN, wire : WireVerdict]
DeveloperRecord ==
  [at : AtTools \cup {"off", "answer", "completed", "incomplete", "raised"}, turns : Nat,
   calls : {"absent", "idle", "mutating"}, mutated : BOOLEAN]

OrcTypes ==
  /\ orc \in OrcRecord
  /\ developer \in DeveloperRecord
  /\ tooled \in BOOLEAN

(* Before the consent nothing has run, and nobody is at work who could.    *)
NothingRanUnagreed ==
  /\ orc.at \in BeforeConsent => ~tooled /\ developer.at \notin AtTools
  /\ orc.at \in Working => Agreed
  /\ tooled \/ developer.at \in AtTools => Agreed

(* What one of `rs` says of its calls is so: a mutating call was made, and  *)
(* only a step that names no action has none to tell of.                    *)
ToldTruly(rs, plan) ==
  \A r \in rs :
    /\ r.calls \in {"absent", "idle", "mutating"}
    /\ r.calls = "mutating" => r.mutated
    /\ r.calls = "absent" => plan[r.step] \in Bare

(* So of the results and, at a step, of the developer's. *)
CallsWereMade ==
  /\ orc.at \in BeforeConsent => results = {}
  /\ ToldTruly(results, orc.plan)
  /\ developer.calls = "mutating" => developer.mutated
  /\ orc.at = "working" /\ developer.calls = "absent" => Step \in Bare

(* An approval comes after the last result, and of these results.          *)
ApprovalIsBacked ==
  orc.verdict = "approved" =>
    /\ orc.at \in {"remembering", "ended", "error", "closed"}
    /\ \A r \in results : r.said = "completed" => r.mutated \/ orc.plan[r.step] \in Bare
    /\ orc.roster \/ HasEvidence

OrcInv == OrcTypes /\ NothingRanUnagreed /\ CallsWereMade /\ ApprovalIsBacked

(* The trust a new orchestrator starts with is below every level that acts *)
(* on its own: the human is always asked.                                  *)
LEMMA NewcomersAsk == NeedsHumanApproval(AutonomyLevel(5), TRUE)
<1>1. {limit \in {4, 6, 8} : 5 >= limit} = {4}
  OBVIOUS
<1>2. AutonomyLevel(5) = 1
  BY <1>1, FS_Singleton DEF AutonomyLevel
<1> QED
  BY <1>2 DEF NeedsHumanApproval

(* The records' shapes: what an update leaves a task's, and a developer's. *)
LEMMA PlanFields ==
  ASSUME OrcTypes, NEW phase \in OrcPhase, NEW plan \in Plans,
         orc' = [orc EXCEPT !.at = phase, !.plan = plan]
  PROVE  /\ orc' \in OrcRecord
         /\ orc'.at = phase /\ orc'.verdict = orc.verdict
         /\ orc'.roster = orc.roster /\ orc'.wire = orc.wire
  BY DEF OrcTypes, OrcRecord

LEMMA VotesFields ==
  ASSUME OrcTypes, NEW phase \in OrcPhase, NEW votes \in Seq(Confidence),
         orc' = [orc EXCEPT !.at = phase, !.votes = votes]
  PROVE  /\ orc' \in OrcRecord
         /\ orc'.at = phase /\ orc'.verdict = orc.verdict
         /\ orc'.roster = orc.roster /\ orc'.wire = orc.wire /\ orc'.plan = orc.plan
  BY DEF OrcTypes, OrcRecord

LEMMA StepFields ==
  ASSUME OrcTypes, NEW phase \in OrcPhase, NEW step \in Nat,
         orc' = [orc EXCEPT !.at = phase, !.step = step]
  PROVE  /\ orc' \in OrcRecord
         /\ orc'.at = phase /\ orc'.verdict = orc.verdict
         /\ orc'.roster = orc.roster /\ orc'.wire = orc.wire /\ orc'.plan = orc.plan
  BY DEF OrcTypes, OrcRecord

LEMMA VerdictFields ==
  ASSUME OrcTypes, NEW phase \in OrcPhase, NEW verdict \in {"none", "approved", "refused"},
         orc' = [orc EXCEPT !.at = phase, !.verdict = verdict]
  PROVE  /\ orc' \in OrcRecord
         /\ orc'.at = phase /\ orc'.verdict = verdict
         /\ orc'.roster = orc.roster /\ orc'.wire = orc.wire /\ orc'.plan = orc.plan
  BY DEF OrcTypes, OrcRecord

LEMMA OrcGoesFields ==
  ASSUME OrcTypes, NEW phase \in OrcPhase, OrcGoes(phase)
  PROVE  /\ orc' \in OrcRecord
         /\ orc'.at = phase
         /\ orc'.verdict = orc.verdict /\ orc'.roster = orc.roster /\ orc'.wire = orc.wire /\ orc'.plan = orc.plan
  BY DEF OrcTypes, OrcGoes, OrcRecord

LEMMA RaisesFields ==
  ASSUME OrcTypes, Raises
  PROVE  /\ orc' \in OrcRecord
         /\ orc'.at = "error"
         /\ orc'.verdict = orc.verdict /\ orc'.roster = orc.roster /\ orc'.wire = orc.wire /\ orc'.plan = orc.plan
<1>1. "error" \in OrcPhase
  BY DEF OrcPhase
<1> QED
  BY <1>1, OrcGoesFields DEF Raises

LEMMA NextStepFields ==
  ASSUME OrcTypes, NextStep
  PROVE  /\ orc' \in OrcRecord
         /\ orc'.at = "stepping"
         /\ orc'.verdict = orc.verdict /\ orc'.roster = orc.roster /\ orc'.wire = orc.wire /\ orc'.plan = orc.plan
<1>1. orc.step + 1 \in Nat
  BY DEF OrcTypes, OrcRecord
<1>2. "stepping" \in OrcPhase
  BY DEF OrcPhase, Working
<1>3. orc' = [orc EXCEPT !.at = "stepping", !.step = orc.step + 1]
  BY DEF NextStep
<1> QED
  BY <1>1, <1>2, <1>3, StepFields

LEMMA DutyFields ==
  /\ OffDuty \in DeveloperRecord /\ OffDuty.calls = "idle" /\ OffDuty.at = "off"
  /\ AtLoop \in DeveloperRecord /\ AtLoop.calls = "idle"
  /\ AtAnswer \in DeveloperRecord /\ AtAnswer.calls = "absent" /\ AtAnswer.at = "answer"
  BY DEF OffDuty, AtLoop, AtAnswer, DeveloperRecord, AtTools

(* A step that leaves the developer, the results and the histories alone   *)
(* and does not approve keeps the invariant if where it goes is after no   *)
(* consent it has not got.                                                 *)
LEMMA OrcMovesOn ==
  ASSUME OrcInv, OrcTypes',
         UNCHANGED <<developer, results, consent, tooled>>,
         orc'.verdict = orc.verdict, orc'.roster = orc.roster, orc'.wire = orc.wire,
         orc'.plan = orc.plan \/ orc.at \in BeforeConsent,
         orc'.at \in BeforeConsent => orc.at \in BeforeConsent,
         orc'.at \in Working \ {"working"} => orc.at \in Working,
         orc'.at # "working",
         orc.verdict = "approved" => orc'.at \in {"remembering", "ended", "error", "closed"}
  PROVE  OrcInv'
<1>1. NothingRanUnagreed'
  BY DEF OrcInv, NothingRanUnagreed, Agreed, Working
<1>2. CallsWereMade'
  BY DEF OrcInv, CallsWereMade, ToldTruly
<1>3. ApprovalIsBacked'
  BY DEF OrcInv, ApprovalIsBacked, HasEvidence, BeforeConsent
<1> QED
  BY <1>1, <1>2, <1>3 DEF OrcInv

(* A step of the developer's or the designer's, with the task where it is. *)
LEMMA OrcStays ==
  ASSUME OrcInv, OrcTypes', UNCHANGED <<orc, results, consent>>,
         developer'.calls = "mutating" => developer'.mutated,
         developer'.calls = "absent" => developer.calls = "absent",
         (tooled' \/ developer'.at \in AtTools) => Agreed,
         orc.at \in BeforeConsent => ~tooled' /\ developer'.at \notin AtTools
  PROVE  OrcInv'
<1>1. NothingRanUnagreed'
  BY DEF OrcInv, NothingRanUnagreed, Agreed
<1>2. CallsWereMade'
  BY DEF OrcInv, CallsWereMade, ToldTruly, Step
<1>3. ApprovalIsBacked'
  BY DEF OrcInv, ApprovalIsBacked, HasEvidence
<1> QED
  BY <1>1, <1>2, <1>3 DEF OrcInv

LEMMA OrcInvInit == OrcInit => OrcInv
<1> SUFFICES ASSUME OrcInit PROVE OrcInv
  OBVIOUS
<1>0. <<>> \in Plans
  <2>1. 0 \in 0..MaxPlan
    BY OrchestratorConstants
  <2>2. <<>> \in [1..0 -> StepKind]
    OBVIOUS
  <2> QED
    BY <2>1, <2>2 DEF Plans
<1>1. orc \in OrcRecord
  <2>1. <<>> \in Seq(Confidence) /\ 1 \in Nat
    OBVIOUS
  <2>2. "received" \in OrcPhase
    BY DEF OrcPhase, BeforeConsent
  <2> QED
    BY <1>0, <2>1, <2>2 DEF OrcInit, OrcRecord
<1>2. OrcTypes
  BY <1>1, DutyFields DEF OrcInit, OrcTypes
<1>3. NothingRanUnagreed /\ CallsWereMade /\ ApprovalIsBacked
  BY DutyFields DEF OrcInit, NothingRanUnagreed, BeforeConsent, Working, AtTools, CallsWereMade,
     ToldTruly, ApprovalIsBacked
<1> QED
  BY <1>2, <1>3 DEF OrcInv

(* Up to the consent. *)
LEMMA AgreeingKeepsInv ==
  ASSUME OrcInv, ExecuteTask \/ CreateAdaptivePlan \/ GetSquadProposals
                 \/ ReachConsensus \/ ExecuteWithAutonomy
  PROVE  OrcInv'
<1> USE DEF OrcPhase, BeforeConsent, Working, AtTools
<1>0. /\ OrcTypes
      /\ orc.at \in BeforeConsent => orc.verdict # "approved" /\ results = {}
  BY DEF OrcInv, ApprovalIsBacked, CallsWereMade
<1>1. CASE ExecuteTask
  <2>1. PICK phase \in {"planning", "error"} : OrcGoes(phase)
    BY <1>1 DEF ExecuteTask
  <2>2. OrcTypes'
    BY <1>0, <1>1, <2>1, OrcGoesFields DEF OrcTypes, ExecuteTask
  <2> QED
    BY <1>0, <1>1, <2>1, <2>2, OrcGoesFields, OrcMovesOn DEF ExecuteTask
<1>2. CASE CreateAdaptivePlan
  <2>1. CASE \E p \in Plans : orc' = [orc EXCEPT !.at = "architect", !.plan = p]
    <3>0. PICK p \in Plans : orc' = [orc EXCEPT !.at = "architect", !.plan = p]
      BY <2>1
    <3>v. "architect" \in OrcPhase
      OBVIOUS
    <3>2. /\ orc' \in OrcRecord /\ orc'.at = "architect"
          /\ orc'.verdict = orc.verdict /\ orc'.roster = orc.roster /\ orc'.wire = orc.wire
      BY <1>0, <3>0, <3>v, PlanFields
    <3>1. OrcTypes'
      BY <1>0, <1>2, <3>2 DEF OrcTypes, CreateAdaptivePlan
    <3> QED
      BY <1>0, <1>2, <3>1, <3>2, OrcMovesOn DEF CreateAdaptivePlan
  <2>2. CASE Raises
    <3>1. OrcTypes'
      BY <1>0, <1>2, <2>2, RaisesFields DEF OrcTypes, CreateAdaptivePlan
    <3> QED
      BY <1>0, <1>2, <2>2, <3>1, RaisesFields, OrcMovesOn DEF CreateAdaptivePlan
  <2> QED
    BY <1>2, <2>1, <2>2 DEF CreateAdaptivePlan
<1>3. ASSUME NEW agent \in {"architect", "developer", "auditor"}, NEW next \in {"developer", "auditor", "agreeing"},
             Votes(agent, next), UNCHANGED <<developer, designer, results, consent, tooled>>
      PROVE  OrcInv'
  <2>1. CASE \E c \in Confidence : orc' = [orc EXCEPT !.at = next, !.votes = Append(@, c)]
    <3>0. PICK c \in Confidence : orc' = [orc EXCEPT !.at = next, !.votes = Append(@, c)]
      BY <2>1
    <3>v. Append(orc.votes, c) \in Seq(Confidence) /\ next \in OrcPhase
      BY <1>0 DEF OrcTypes, OrcRecord
    <3>2. /\ orc' \in OrcRecord /\ orc'.at = next
          /\ orc'.verdict = orc.verdict /\ orc'.roster = orc.roster /\ orc'.wire = orc.wire
      BY <1>0, <3>0, <3>v, VotesFields
    <3>1. OrcTypes'
      BY <1>0, <1>3, <3>2 DEF OrcTypes
    <3> QED
      BY <1>0, <1>3, <3>1, <3>2, OrcMovesOn DEF Votes
  <2>2. CASE Raises
    <3>1. OrcTypes'
      BY <1>0, <1>3, <2>2, RaisesFields DEF OrcTypes
    <3> QED
      BY <1>0, <1>3, <2>2, <3>1, RaisesFields, OrcMovesOn DEF Votes
  <2> QED
    BY <1>3, <2>1, <2>2 DEF Votes
<1>4. CASE ReachConsensus
  <2>1. /\ orc'.at \in {"asking", "stepping"} /\ (orc'.at = "stepping" => consent' = "strong")
        /\ orc'.verdict = orc.verdict /\ OrcTypes'
    <3>1. PICK phase \in {"asking", "stepping"} :
            /\ orc' = [orc EXCEPT !.at = phase, !.votes = <<>>]
            /\ phase = "stepping" => consent' = "strong"
      BY <1>4 DEF ReachConsensus
    <3>2. <<>> \in Seq(Confidence) /\ phase \in OrcPhase
      OBVIOUS
    <3>3. orc' \in OrcRecord /\ orc'.at = phase /\ orc'.verdict = orc.verdict
      BY <1>0, <3>1, <3>2, VotesFields
    <3> QED
      BY <1>0, <1>4, <3>1, <3>3 DEF OrcTypes, ReachConsensus
  <2>2. ~tooled /\ developer.at \notin AtTools /\ UNCHANGED <<developer, results, tooled>>
    BY <1>4 DEF OrcInv, NothingRanUnagreed, ReachConsensus
  <2>3. NothingRanUnagreed'
    BY <2>1, <2>2 DEF NothingRanUnagreed, Agreed
  <2>4. CallsWereMade' /\ ApprovalIsBacked'
    BY <1>0, <1>4, <2>1, <2>2 DEF OrcInv, CallsWereMade, ToldTruly, ApprovalIsBacked, ReachConsensus
  <2> QED
    BY <2>1, <2>3, <2>4 DEF OrcInv
<1>5. CASE ExecuteWithAutonomy
  <2>1. PICK phase \in {"stepping", "ended", "error"} :
          OrcGoes(phase) /\ (phase = "stepping" => consent' = "granted")
    BY <1>5, NewcomersAsk DEF ExecuteWithAutonomy, Raises
  <2>2. ~tooled /\ developer.at \notin AtTools /\ UNCHANGED <<developer, results, tooled>>
    BY <1>5 DEF OrcInv, NothingRanUnagreed, ExecuteWithAutonomy
  <2>3. orc'.at = phase /\ orc'.verdict = orc.verdict /\ OrcTypes'
    BY <1>0, <2>1, <2>2, OrcGoesFields DEF OrcTypes
  <2>4. NothingRanUnagreed'
    BY <2>1, <2>2, <2>3 DEF NothingRanUnagreed, Agreed
  <2>5. CallsWereMade' /\ ApprovalIsBacked'
    BY <1>0, <1>5, <2>1, <2>2, <2>3 DEF OrcInv, CallsWereMade, ToldTruly, ApprovalIsBacked, ExecuteWithAutonomy
  <2> QED
    BY <2>3, <2>4, <2>5 DEF OrcInv
<1> QED
  BY <1>1, <1>2, <1>3, <1>4, <1>5
     DEF GetSquadProposals, ArchitectProposes, DeveloperProposes, AuditorProposes

(* The agents at their steps. *)
LEMMA WorkKeepsInv ==
  ASSUME OrcInv, StartStep \/ OtherAgentStep \/ AuditStep \/ EndStep
  PROVE  OrcInv'
<1> USE DEF OrcPhase, BeforeConsent, Working, AtTools
<1>0. OrcTypes /\ (orc.at \in Working => Agreed) /\ (orc.at \in {"stepping", "working"} => orc.verdict # "approved")
  BY DEF OrcInv, ApprovalIsBacked, NothingRanUnagreed
<1>r. ASSUME NextStep \/ Raises
      PROVE  /\ orc' \in OrcRecord
             /\ orc'.at \in {"stepping", "error"}
             /\ orc'.verdict = orc.verdict /\ orc'.roster = orc.roster /\ orc'.wire = orc.wire
             /\ orc'.plan = orc.plan
  BY <1>0, <1>r, NextStepFields, RaisesFields
<1>1. CASE StartStep
  <2>1. PICK phase \in {"validating", "working"} : OrcGoes(phase)
    BY <1>1 DEF StartStep
  <2>2. \/ phase = "validating" /\ developer' = developer
        \/ /\ developer' \in {AtLoop, AtAnswer, OffDuty}
           /\ developer' = AtAnswer => Step \in Bare
    <3>1. CASE orc.step > Len(orc.plan)
      BY <1>0, <1>1, <2>1, <3>1, OrcGoesFields DEF StartStep
    <3>2. CASE ~(orc.step > Len(orc.plan))
      <4>1. developer' = IF Step \notin DeveloperSteps THEN OffDuty
                         ELSE IF Step \in Bare THEN AtAnswer ELSE AtLoop
        BY <1>1, <3>2 DEF StartStep
      <4>2. AtAnswer # AtLoop /\ AtAnswer # OffDuty
        BY DutyFields
      <4> QED
        BY <4>1, <4>2
    <3> QED
      BY <3>1, <3>2
  <2>3. /\ developer' \in DeveloperRecord
        /\ developer'.calls = "mutating" => developer'.mutated
        /\ phase = "working" /\ developer'.calls = "absent" => Step \in Bare
    BY <1>0, <2>2, DutyFields DEF OrcInv, OrcTypes, CallsWereMade
  <2>4. /\ orc'.at = phase /\ orc'.verdict = orc.verdict /\ OrcTypes'
        /\ orc'.plan = orc.plan /\ orc'.step = orc.step
    BY <1>0, <1>1, <2>1, <2>3, OrcGoesFields DEF OrcTypes, StartStep, OrcGoes
  <2>5. Agreed /\ UNCHANGED <<results, consent, tooled>> /\ orc.verdict # "approved"
    BY <1>0, <1>1 DEF StartStep, Working
  <2>6. NothingRanUnagreed'
    BY <2>4, <2>5 DEF NothingRanUnagreed, Agreed, BeforeConsent
  <2>7. CallsWereMade'
    BY <2>3, <2>4, <2>5 DEF OrcInv, CallsWereMade, ToldTruly, Step
  <2>8. ApprovalIsBacked'
    BY <2>4, <2>5 DEF ApprovalIsBacked
  <2> QED
    BY <2>4, <2>6, <2>7, <2>8 DEF OrcInv
<1>2. CASE OtherAgentStep \/ AuditStep
  <2>1. NextStep \/ Raises
    BY <1>2 DEF OtherAgentStep, AuditStep, ReplanFromPoint
  <2>2. OrcTypes'
    BY <1>0, <1>2, <1>r, <2>1 DEF OrcTypes, OtherAgentStep, AuditStep
  <2>3. orc.at = "working" /\ UNCHANGED <<developer, results, consent, tooled>>
    BY <1>2 DEF OtherAgentStep, AuditStep
  <2> QED
    BY <1>0, <1>r, <2>1, <2>2, <2>3, OrcMovesOn DEF BeforeConsent, Working
<1>3. CASE EndStep
  <2>1. /\ NextStep \/ Raises
        /\ developer' \in {developer, OffDuty}
        /\ results' \in {results, results \cup {DeveloperResult}}
        /\ UNCHANGED <<consent, tooled>> /\ orc.at = "working"
    BY <1>3 DEF EndStep
  <2>2. /\ developer' \in DeveloperRecord
        /\ developer'.calls = "mutating" => developer'.mutated
    BY <1>0, <2>1, DutyFields DEF OrcInv, OrcTypes, CallsWereMade
  <2>3. OrcTypes'
    BY <1>0, <1>r, <2>1, <2>2 DEF OrcTypes
  <2>4. Agreed /\ orc.verdict # "approved"
    BY <1>0, <2>1 DEF Working
  <2>5. NothingRanUnagreed'
    BY <1>r, <2>1, <2>4 DEF NothingRanUnagreed, Agreed, BeforeConsent
  <2>6. /\ DeveloperResult.calls \in {"absent", "idle", "mutating"}
        /\ DeveloperResult.calls = "mutating" => DeveloperResult.mutated
        /\ DeveloperResult.calls = "absent" => orc.plan[DeveloperResult.step] \in Bare
    BY <1>0, <2>1 DEF OrcInv, OrcTypes, DeveloperRecord, CallsWereMade, DeveloperResult, Step
  <2>7. CallsWereMade'
    <3>1. ToldTruly(results', orc'.plan)
      BY <1>r, <2>1, <2>6 DEF OrcInv, CallsWereMade, ToldTruly
    <3> QED
      BY <1>r, <2>1, <2>2, <3>1 DEF CallsWereMade, ToldTruly
  <2>8. ApprovalIsBacked'
    BY <1>r, <2>1, <2>4 DEF ApprovalIsBacked
  <2> QED
    BY <2>3, <2>5, <2>7, <2>8 DEF OrcInv
<1> QED
  BY <1>1, <1>2, <1>3

(* The developer's loop with its tools, and the designer. *)
LEMMA ToolsKeepInv ==
  ASSUME OrcInv, DesignerStep \/ ImplementTask
  PROVE  OrcInv'
<1> USE DEF DeveloperRecord, BeforeConsent, Working, AtTools
<1>0. /\ developer \in DeveloperRecord
      /\ (developer.calls = "mutating" => developer.mutated) /\ tooled \in BOOLEAN
      /\ (orc.at \in BeforeConsent => ~tooled /\ developer.at \notin AtTools)
      /\ (tooled \/ developer.at \in AtTools => Agreed)
  BY DEF OrcInv, OrcTypes, CallsWereMade, NothingRanUnagreed
<1>1. CASE DesignerStep
  <2>1. OrcTypes'
    BY <1>1 DEF OrcInv, OrcTypes, DesignerStep
  <2> QED
    BY <1>0, <1>1, <2>1, OrcStays DEF DesignerStep
<1>2. CASE DeveloperTurn \/ DeveloperTool \/ DeveloperTimeout
  <2>1. /\ developer' \in DeveloperRecord
        /\ developer'.calls = "mutating" => developer'.mutated
        /\ developer'.calls = "absent" => developer.calls = "absent"
        /\ tooled' \in BOOLEAN
        /\ developer.at \in AtTools
        /\ UNCHANGED <<orc, results, consent>>
    <3>1. CASE DeveloperTurn
      BY <1>0, <3>1 DEF DeveloperTurn, DeveloperIs, AtTools
    <3>2. CASE DeveloperTool
      <4>1. CASE developer' = [developer EXCEPT !.at = "model", !.turns = @ + 1]
        <5>0. PICK turns \in Nat : developer' = [developer EXCEPT !.at = "model", !.turns = turns]
          <6>1. developer.turns + 1 \in Nat
            BY <1>0
          <6> QED
            BY <4>1, <6>1
        <5>1. developer' \in DeveloperRecord /\ developer'.calls = developer.calls
              /\ developer'.mutated = developer.mutated
          BY <1>0, <5>0
        <5> QED
          BY <1>0, <3>2, <5>1 DEF DeveloperTool, AtTools
      <4>2. CASE developer' = [at |-> "model", turns |-> developer.turns + 1,
                               calls |-> "mutating", mutated |-> TRUE]
        <5>1. developer' \in DeveloperRecord /\ developer'.calls = "mutating" /\ developer'.mutated
          BY <1>0, <4>2
        <5> QED
          BY <1>0, <3>2, <5>1 DEF DeveloperTool, AtTools
      <4>3. CASE DeveloperIs("raised")
        BY <1>0, <3>2, <4>3 DEF DeveloperTool, DeveloperIs, AtTools
      <4> QED
        BY <3>2, <4>1, <4>2, <4>3 DEF DeveloperTool
    <3>3. CASE DeveloperTimeout
      BY <1>0, <3>3 DEF DeveloperTimeout, AtTools
    <3> QED
      BY <1>2, <3>1, <3>2, <3>3
  <2>2. Agreed /\ orc.at \notin BeforeConsent
    BY <1>0, <2>1
  <2>3. OrcTypes'
    BY <2>1 DEF OrcInv, OrcTypes
  <2> QED
    BY <2>1, <2>2, <2>3, OrcStays
<1>3. CASE ImplementWithoutTools
  <2>1. /\ developer' \in DeveloperRecord /\ developer'.at \in {"completed", "incomplete", "raised"}
        /\ developer'.calls = developer.calls /\ developer'.mutated = developer.mutated
        /\ UNCHANGED <<orc, results, consent, tooled>>
    BY <1>0, <1>3 DEF ImplementWithoutTools, DeveloperIs
  <2>2. OrcTypes'
    BY <2>1 DEF OrcInv, OrcTypes
  <2> QED
    BY <1>0, <2>1, <2>2, OrcStays
<1> QED
  BY <1>1, <1>2, <1>3 DEF ImplementTask

(* The verdict and the end. *)
LEMMA EndingKeepsInv ==
  ASSUME OrcInv, ValidateResults \/ RememberVerdict \/ CloseChannel
  PROVE  OrcInv'
<1> USE DEF OrcPhase, BeforeConsent, Working, AtTools
<1>0. OrcTypes
  BY DEF OrcInv
<1>1. CASE ValidateResults
  <2>0. /\ orc.at = "validating" /\ orc.verdict # "approved"
        /\ UNCHANGED <<developer, designer, results, consent, tooled>> /\ Agreed
    BY <1>1 DEF ValidateResults, OrcInv, ApprovalIsBacked, NothingRanUnagreed, Working
  <2>1. CASE orc' = [orc EXCEPT !.at = "remembering", !.verdict = "refused"]
    <3>0. "remembering" \in OrcPhase
      OBVIOUS
    <3>1. OrcTypes' /\ orc'.at = "remembering" /\ orc'.verdict = "refused" /\ orc'.plan = orc.plan
      BY <1>0, <2>0, <2>1, <3>0, VerdictFields DEF OrcTypes
    <3>2. NothingRanUnagreed' /\ CallsWereMade' /\ ApprovalIsBacked'
      BY <2>0, <3>1 DEF OrcInv, NothingRanUnagreed, CallsWereMade, ToldTruly, ApprovalIsBacked, BeforeConsent, Agreed
    <3> QED
      BY <3>1, <3>2 DEF OrcInv
  <2>2. CASE /\ HasEvidence \/ orc.roster
             /\ ~ClaimsCompletionWithoutWriteEvidence(results)
             /\ orc' = [orc EXCEPT !.at = "remembering", !.verdict = "approved"]
    <3>0. "remembering" \in OrcPhase
      OBVIOUS
    <3>1. /\ OrcTypes' /\ orc'.at = "remembering"
          /\ orc'.roster = orc.roster /\ orc'.wire = orc.wire /\ orc'.plan = orc.plan
      BY <1>0, <2>0, <2>2, <3>0, VerdictFields DEF OrcTypes
    <3>2. \A r \in results : r.said = "completed" => r.mutated \/ orc.plan[r.step] \in Bare
      BY <2>2 DEF OrcInv, CallsWereMade, ToldTruly, ClaimsCompletionWithoutWriteEvidence
    <3>3. NothingRanUnagreed' /\ CallsWereMade'
      BY <2>0, <3>1 DEF OrcInv, NothingRanUnagreed, CallsWereMade, ToldTruly, BeforeConsent, Agreed
    <3>4. ApprovalIsBacked'
      BY <2>0, <2>2, <3>1, <3>2 DEF ApprovalIsBacked, HasEvidence
    <3> QED
      BY <3>1, <3>3, <3>4 DEF OrcInv
  <2>3. CASE Raises
    <3>1. OrcTypes'
      BY <1>0, <2>0, <2>3, RaisesFields DEF OrcTypes
    <3> QED
      BY <1>0, <2>0, <2>3, <3>1, RaisesFields, OrcMovesOn
  <2> QED
    BY <1>1, <2>1, <2>2, <2>3 DEF ValidateResults
<1>2. CASE RememberVerdict
  <2>1. PICK phase \in {"ended", "error"} : OrcGoes(phase)
    BY <1>2 DEF RememberVerdict, Raises
  <2>2. OrcTypes'
    BY <1>0, <1>2, <2>1, OrcGoesFields DEF OrcTypes, RememberVerdict
  <2> QED
    BY <1>0, <1>2, <2>1, <2>2, OrcGoesFields, OrcMovesOn DEF RememberVerdict, BeforeConsent, Working
<1>3. CASE CloseChannel
  <2>1. /\ OrcGoes("closed") /\ developer' = OffDuty
        /\ UNCHANGED <<results, consent, tooled>>
    BY <1>3 DEF CloseChannel
  <2>2. OrcTypes' /\ orc'.at = "closed" /\ orc'.verdict = orc.verdict /\ orc'.roster = orc.roster
        /\ orc'.wire = orc.wire /\ orc'.plan = orc.plan
    BY <1>0, <2>1, OrcGoesFields, DutyFields DEF OrcTypes
  <2>3. NothingRanUnagreed' /\ CallsWereMade'
    BY <2>1, <2>2, DutyFields DEF OrcInv, NothingRanUnagreed, CallsWereMade, ToldTruly, BeforeConsent, Working, Agreed,
       AtTools
  <2>4. ApprovalIsBacked'
    BY <2>1, <2>2 DEF OrcInv, ApprovalIsBacked, HasEvidence
  <2> QED
    BY <2>2, <2>3, <2>4 DEF OrcInv
<1> QED
  BY <1>1, <1>2, <1>3

(* For every plan, every number of turns and every answer of a model: no   *)
(* tool runs before the plan is agreed, and in an approved task each claim *)
(* of completion has a mutating call of its own step's developer behind    *)
(* it, or comes from a step that names no action, where no tool could run. *)
THEOREM WorkStaysSanctioned == OrcSpec => []WorkIsSanctioned
<1>1. OrcInv /\ [OrcNext]_orcVars => OrcInv'
  <2> SUFFICES ASSUME OrcInv, [OrcNext]_orcVars PROVE OrcInv'
    OBVIOUS
  <2>1. CASE OrcNext
    BY <2>1, AgreeingKeepsInv, WorkKeepsInv, ToolsKeepInv, EndingKeepsInv
       DEF OrcNext, ExecuteComplexTask, ExecutePlanSteps
  <2>2. CASE UNCHANGED orcVars
    BY <2>2 DEF orcVars, OrcInv, OrcTypes, NothingRanUnagreed, Agreed, CallsWereMade, ToldTruly,
       Step, ApprovalIsBacked, HasEvidence
  <2> QED
    BY <2>1, <2>2
<1>2. OrcInv => WorkIsSanctioned
  BY DEF OrcInv, NothingRanUnagreed, Agreed, ApprovalIsBacked, WorkIsSanctioned
<1> QED
  BY <1>1, <1>2, OrcInvInit, PTL DEF OrcSpec

-----------------------------------------------------------------------------
(* The command on the terminal. *)

CallRecord ==
  [by : {"none", "squad", "agent"},
   at : {"none", "received", "asking", "running", "answered", "dropped", "orphan", "over"},
   tool : {"none", "read", "edit", "hitl", "nonesuch"},
   scope : CliScope \cup {"none"}, declared : CliScope \cup {"none"}, code : -1 .. 1]

CliStage ==
  [level : {"squad", "agent", "safe"},
   at : {"spawn", "session", "verify", "execute", "stream", "over", "boot", "turn"},
   profile : {"build", "plan", "unknown"}, turns : Nat]

CliTypes ==
  /\ cli \in CliStage
  /\ action \in [CliCall -> CallRecord]
  /\ prompts \in Seq(CliCall)
  /\ shown \in [CliCall -> CliScope \cup {"none"}]

(* A prompt is of a call that waits or has gone, one prompt to a call.     *)
PromptsWait ==
  /\ \A i \in DOMAIN prompts : action[prompts[i]].at \in {"asking", "dropped"}
  /\ \A i, j \in DOMAIN prompts : prompts[i] = prompts[j] => i = j

(* What a call was allowed, by the engine or by the human.                 *)
Permitted(c) ==
  /\ action[c].tool \in {"read", "edit"}
  /\ action[c].tool = "edit" =>
       /\ c \in agreed
       /\ shown[c] = action[c].scope
       /\ action[c].by = "agent" => cli.profile = "build"

(* What a call the human is asked about may become.                        *)
AskedRightly(c) ==
  /\ action[c].tool \in {"edit", "hitl"}
  /\ shown[c] = action[c].scope
  /\ action[c].by = "agent" => action[c].tool # "hitl" /\ cli.profile = "build"

(* Each call: the agent has no approval tool; who waits was shown its      *)
(* scope; who runs or ran was permitted; who has not run is not told so.   *)
CallIsSound(c) ==
  /\ action[c].at # "none" => action[c].tool # "none"
  /\ action[c].by = "agent" => action[c].tool # "hitl"
  /\ action[c].at = "asking" => AskedRightly(c)
  /\ action[c].at \in {"running", "orphan"} \/ c \in acted => Permitted(c)
  /\ c \in acted => action[c].at \in {"answered", "over"} /\ action[c].code # -1
  /\ action[c].code = -1 => action[c].at = "answered"
  /\ NotedAs("denied", c) \/ NotedAs("failed", c) => action[c].at = "answered" /\ c \notin acted
  /\ NotedAs("ran", c) => c \in acted

CallsAreSound == acted \subseteq CliCall /\ \A c \in CliCall : CallIsSound(c)

Concluded(l) == NotedAs("success", l) \/ NotedAs("failure", l)

(* The ledger's words about the two sessions, at each stage.               *)
SessionsAreTold ==
  /\ cli.level = "squad" =>
       /\ ~NotedAs("start", "agent")
       /\ ~NotedAs("failure", "squad")
       /\ cli.at # "over" => ~NotedAs("success", "squad")
       /\ cli.at \in {"verify", "execute", "stream", "over"} => NotedAs("start", "squad")
       /\ cli.at \in {"spawn", "session", "verify", "execute", "stream", "over"}
  /\ cli.level # "squad" => ~NotedAs("success", "squad")
  /\ cli.level = "squad" \/ cli.at # "over" => ~Concluded("agent")
  /\ cli.level = "agent" /\ cli.at = "turn" => NotedAs("start", "agent")
  /\ Concluded("squad") => NotedAs("start", "squad")
  /\ Concluded("agent") => NotedAs("start", "agent")
  /\ ~(NotedAs("success", "agent") /\ NotedAs("failure", "agent"))
  /\ cli.level = "safe" => cli.at = "over"

CliInv == CliTypes /\ PromptsWait /\ CallsAreSound /\ SessionsAreTold

(* An entry noted, or not, changes nothing else of the book. *)
LEMMA BookOf ==
  ASSUME NEW kind, NEW of, Noted(kind, of) \/ Written(kind, of)
  PROVE  /\ \A k, o : NotedAs(k, o) => NotedAs(k, o)'
         /\ \A k, o : NotedAs(k, o)' => NotedAs(k, o) \/ (k = kind /\ o = of)
<1>1. book' \in {book, book \cup {[kind |-> kind, of |-> of]}}
  BY DEF Noted, Written
<1>2. ASSUME NEW k, NEW o, [kind |-> k, of |-> o] = [kind |-> kind, of |-> of]
      PROVE  k = kind /\ o = of
  <2>1. [kind |-> k, of |-> o].kind = [kind |-> kind, of |-> of].kind
    BY <1>2
  <2>2. [kind |-> k, of |-> o].of = [kind |-> kind, of |-> of].of
    BY <1>2
  <2> QED
    BY <2>1, <2>2
<1> QED
  BY <1>1, <1>2 DEF NotedAs

LEMMA BookStays ==
  ASSUME UNCHANGED book
  PROVE  \A k, o : NotedAs(k, o)' <=> NotedAs(k, o)
  BY DEF NotedAs

(* The ledger says of the sessions what it said. *)
SameSessions == \A k \in {"start", "success", "failure"}, l \in {"squad", "agent"} :
                  NotedAs(k, l)' <=> NotedAs(k, l)
(* And of every call. *)
SameCalls == \A k \in {"denied", "failed", "ran"}, c \in CliCall : NotedAs(k, c)' <=> NotedAs(k, c)

LEMMA SessionsFrame ==
  ASSUME SessionsAreTold, UNCHANGED <<cli.level, cli.at>>, SameSessions
  PROVE  SessionsAreTold'
  BY DEF SessionsAreTold, SameSessions, Concluded

(* A call that is left alone stays sound. *)
LEMMA CallFrame ==
  ASSUME NEW c \in CliCall, CallIsSound(c), action'[c] = action[c],
         shown'[c] = shown[c], c \in agreed => c \in agreed', c \in acted' <=> c \in acted,
         cli'.profile = cli.profile,
         \A k \in {"denied", "failed", "ran"} : NotedAs(k, c)' <=> NotedAs(k, c)
  PROVE  CallIsSound(c)'
<1>1. Permitted(c) => Permitted(c)'
  BY DEF Permitted
<1>2. AskedRightly(c) => AskedRightly(c)'
  BY DEF AskedRightly
<1> QED
  BY <1>1, <1>2 DEF CallIsSound

(* A stage of the command touches no call. *)
LEMMA CallsFrame ==
  ASSUME CliTypes, PromptsWait, CallsAreSound, cli' \in CliStage, cli'.profile = cli.profile,
         UNCHANGED <<action, prompts, shown, agreed, acted>>, SameCalls
  PROVE  CliTypes' /\ PromptsWait' /\ CallsAreSound'
<1>1. CliTypes' /\ PromptsWait'
  BY DEF CliTypes, PromptsWait
<1>2. ASSUME NEW c \in CliCall PROVE CallIsSound(c)'
  BY <1>2, CallFrame DEF CallsAreSound, SameCalls
<1> QED
  BY <1>1, <1>2 DEF CallsAreSound

(* A step of one call. *)
LEMMA CallAtFields ==
  ASSUME CliTypes, NEW c \in CliCall, NEW code \in -1 .. 1,
         NEW stage \in {"none", "received", "asking", "running", "answered", "dropped", "orphan", "over"},
         CallAt(c, stage, code)
  PROVE  /\ action' \in [CliCall -> CallRecord]
         /\ action'[c].at = stage /\ action'[c].code = code
         /\ action'[c].by = action[c].by /\ action'[c].tool = action[c].tool
         /\ action'[c].scope = action[c].scope
         /\ \A d \in CliCall \ {c} : action'[d] = action[d]
<1> DEFINE r == [action[c] EXCEPT !.at = stage, !.code = code, !.declared = "none"]
<1>1. action[c] \in CallRecord /\ action \in [CliCall -> CallRecord]
  BY DEF CliTypes
<1>2. /\ r \in CallRecord /\ r.at = stage /\ r.code = code
      /\ r.by = action[c].by /\ r.tool = action[c].tool /\ r.scope = action[c].scope
  BY <1>1 DEF CallRecord
<1>3. action' = [action EXCEPT ![c] = r]
  BY <1>1 DEF CallAt, CallRecord
<1> HIDE DEF r
<1> QED
  BY <1>1, <1>2, <1>3

LEMMA AtFields ==
  ASSUME CliTypes, NEW level \in {"squad", "agent", "safe"},
         NEW stage \in {"spawn", "session", "verify", "execute", "stream", "over", "boot", "turn"},
         At(level, stage)
  PROVE  /\ cli' \in CliStage
         /\ cli'.level = level /\ cli'.at = stage /\ cli'.profile = cli.profile
  BY DEF CliTypes, At, CliStage

LEMMA CliInvInit == CliInit => CliInv
<1> SUFFICES ASSUME CliInit PROVE CliInv
  OBVIOUS
<1>1. CliTypes
  BY DEF CliInit, CliTypes, CliStage, NoAction, CallRecord
<1>2. PromptsWait
  BY DEF CliInit, PromptsWait
<1>3. CallsAreSound
  BY DEF CliInit, CallsAreSound, CallIsSound, NoAction, NotedAs
<1>4. SessionsAreTold
  BY DEF CliInit, SessionsAreTold, Concluded, NotedAs
<1> QED
  BY <1>1, <1>2, <1>3, <1>4 DEF CliInv

(* `TrySquad` and `CliRunOnce`: the stages of the command. *)
LEMMA StagesKeepInv ==
  ASSUME CliInv, TrySquad \/ CliRunOnce
  PROVE  CliInv'
<1>0. CliTypes /\ PromptsWait /\ CallsAreSound /\ SessionsAreTold
  BY DEF CliInv
<1>1. UNCHANGED <<action, prompts, shown, agreed, acted>>
  BY DEF TrySquad, PrepareSquad, PrepareFails, StreamCompletes, StreamFails, CliRunOnce, BootAgent,
     BootFails, AgentEnds
<1>2. ASSUME NEW kind \in {"start", "success", "failure"}, NEW l \in {"squad", "agent"},
             Noted(kind, l) \/ Written(kind, l) \/ UNCHANGED book,
             cli' \in CliStage, cli'.profile = cli.profile, SessionsAreTold'
      PROVE  CliInv'
  <2>1. SameCalls
    BY <1>2, BookOf, BookStays DEF SameCalls
  <2> QED
    BY <1>0, <1>1, <1>2, <2>1, CallsFrame DEF CliInv
<1>3. CASE PrepareSquad
  <2>1. PICK i \in 1 .. 4 : /\ cli.level = "squad" /\ cli.at = Stages[i] /\ At("squad", Stages[i + 1])
                             /\ IF cli.at = "session" THEN Written("start", "squad") ELSE UNCHANGED book
    BY <1>3 DEF PrepareSquad
  <2>2. \/ cli.at = "spawn" /\ At("squad", "session") /\ UNCHANGED book
        \/ cli.at = "session" /\ At("squad", "verify") /\ Written("start", "squad")
        \/ cli.at = "verify" /\ At("squad", "execute") /\ UNCHANGED book
        \/ cli.at = "execute" /\ At("squad", "stream") /\ UNCHANGED book
    BY <2>1 DEF Stages
  <2>3. PICK stage \in {"session", "verify", "execute", "stream"} :
          /\ At("squad", stage)
          /\ \/ stage = "session" /\ UNCHANGED book
             \/ stage = "verify" /\ Written("start", "squad")
             \/ stage \in {"execute", "stream"} /\ cli.at \in {"verify", "execute"} /\ UNCHANGED book
    BY <2>2
  <2>4. cli' \in CliStage /\ cli'.level = "squad" /\ cli'.at = stage /\ cli'.profile = cli.profile
    BY <1>0, <2>3, AtFields
  <2>5. NotedAs("start", "squad") => NotedAs("start", "squad")'
    BY <2>3, BookOf, BookStays
  <2>6. stage = "verify" => NotedAs("start", "squad")'
    BY <2>3 DEF Written, NotedAs
  <2>7. \A k, l : (k # "start" \/ l # "squad") => (NotedAs(k, l)' <=> NotedAs(k, l))
    BY <2>3, BookOf, BookStays
  <2>8. SessionsAreTold'
    BY <1>0, <2>1, <2>3, <2>4, <2>5, <2>6, <2>7, SMTT(30) DEF SessionsAreTold, Concluded, Stages
  <2> QED
    BY <1>2, <2>3, <2>4, <2>8
<1>4. CASE PrepareFails
  <2>1. cli.level = "squad" /\ At("agent", "boot") /\ UNCHANGED book /\ cli.at # "over"
    BY <1>4 DEF PrepareFails
  <2>2. cli' \in CliStage /\ cli'.level = "agent" /\ cli'.at = "boot" /\ cli'.profile = cli.profile
    BY <1>0, <2>1, AtFields
  <2>3. \A k, l : NotedAs(k, l)' <=> NotedAs(k, l)
    BY <2>1, BookStays
  <2>4. SessionsAreTold'
    BY <1>0, <2>1, <2>2, <2>3 DEF SessionsAreTold, Concluded
  <2> QED
    BY <1>2, <2>1, <2>2, <2>4
<1>5. CASE StreamCompletes
  <2>1. cli.level = "squad" /\ cli.at = "stream" /\ At("squad", "over") /\ Noted("success", "squad")
    BY <1>5 DEF StreamCompletes
  <2>2. cli' \in CliStage /\ cli'.level = "squad" /\ cli'.at = "over" /\ cli'.profile = cli.profile
    BY <1>0, <2>1, AtFields
  <2>3. \A k, l : (k # "success" \/ l # "squad") => (NotedAs(k, l)' <=> NotedAs(k, l))
    BY <2>1, BookOf
  <2>4. SessionsAreTold'
    BY <1>0, <2>1, <2>2, <2>3 DEF SessionsAreTold, Concluded
  <2> QED
    BY <1>2, <2>1, <2>2, <2>4
<1>6. CASE StreamFails
  <2>1. cli.level = "squad" /\ cli.at = "stream" /\ At("agent", "boot") /\ Noted("failure", "squad")
    BY <1>6 DEF StreamFails
  <2>2. cli' \in CliStage /\ cli'.level = "agent" /\ cli'.at = "boot" /\ cli'.profile = cli.profile
    BY <1>0, <2>1, AtFields
  <2>3. \A k, l : (k # "failure" \/ l # "squad") => (NotedAs(k, l)' <=> NotedAs(k, l))
    BY <2>1, BookOf
  <2>4. SessionsAreTold'
    BY <1>0, <2>1, <2>2, <2>3 DEF SessionsAreTold, Concluded
  <2> QED
    BY <1>2, <2>1, <2>2, <2>4
<1>7. CASE BootAgent
  <2>1. cli.level = "agent" /\ cli.at = "boot" /\ At("agent", "turn") /\ Written("start", "agent")
    BY <1>7 DEF BootAgent
  <2>2. cli' \in CliStage /\ cli'.level = "agent" /\ cli'.at = "turn" /\ cli'.profile = cli.profile
    BY <1>0, <2>1, AtFields
  <2>3. \A k, l : (k # "start" \/ l # "agent") => (NotedAs(k, l)' <=> NotedAs(k, l))
    BY <2>1, BookOf
  <2>4. NotedAs("start", "agent")'
    BY <2>1 DEF Written, NotedAs
  <2>5. SessionsAreTold'
    BY <1>0, <2>1, <2>2, <2>3, <2>4 DEF SessionsAreTold, Concluded
  <2> QED
    BY <1>2, <2>1, <2>2, <2>5
<1>8. CASE BootFails
  <2>1. /\ cli.level = "agent" /\ cli.at = "boot" /\ At("safe", "over")
        /\ UNCHANGED book \/ Noted("start", "agent")
    BY <1>8 DEF BootFails
  <2>2. cli' \in CliStage /\ cli'.level = "safe" /\ cli'.at = "over" /\ cli'.profile = cli.profile
    BY <1>0, <2>1, AtFields
  <2>3. \A k, l : (k # "start" \/ l # "agent") => (NotedAs(k, l)' <=> NotedAs(k, l))
    BY <2>1, BookOf, BookStays
  <2>4. SessionsAreTold'
    BY <1>0, <2>1, <2>2, <2>3 DEF SessionsAreTold, Concluded
  <2> QED
    BY <1>2, <2>1, <2>2, <2>4
<1>9. ASSUME NEW ok \in BOOLEAN, AgentEnds(ok) PROVE CliInv'
  <2>1. PICK kind \in {"success", "failure"}, level \in {"agent", "safe"} :
          At(level, "over") /\ (Written(kind, "agent") \/ UNCHANGED book)
    BY <1>9 DEF AgentEnds
  <2>2. cli.level = "agent" /\ cli.at = "turn"
    BY <1>9 DEF AgentEnds
  <2>3. cli' \in CliStage /\ cli'.level = level /\ cli'.at = "over" /\ cli'.profile = cli.profile
    BY <1>0, <2>1, AtFields
  <2>4. \A k, l : (k # kind \/ l # "agent") => (NotedAs(k, l)' <=> NotedAs(k, l))
    BY <2>1, BookOf, BookStays
  <2>5. SessionsAreTold'
    BY <1>0, <2>1, <2>2, <2>3, <2>4 DEF SessionsAreTold, Concluded
  <2> QED
    BY <1>2, <2>1, <2>3, <2>5
<1> QED
  BY <1>3, <1>4, <1>5, <1>6, <1>7, <1>8, <1>9 DEF TrySquad, CliRunOnce

(* A step of one call keeps the others, whatever it notes of itself. *)
LEMMA OneCallStep ==
  ASSUME CliInv, NEW c \in CliCall, NEW kind \in {"denied", "failed", "ran"},
         Noted(kind, c) \/ UNCHANGED book,
         action' \in [CliCall -> CallRecord], \A d \in CliCall \ {c} : action'[d] = action[d],
         cli' \in CliStage, UNCHANGED <<cli.level, cli.at, cli.profile>>,
         shown' \in [CliCall -> CliScope \cup {"none"}], \A d \in CliCall \ {c} : shown'[d] = shown[d],
         agreed \subseteq agreed', acted' \in {acted, acted \cup {c}},
         prompts' \in Seq(CliCall), PromptsWait', CallIsSound(c)'
  PROVE  CliInv'
<1>0. CliTypes /\ CallsAreSound /\ SessionsAreTold
  BY DEF CliInv
<1>1. \A k, o : (k # kind \/ o # c) => (NotedAs(k, o)' <=> NotedAs(k, o))
  BY BookOf, BookStays
<1>2. SameSessions
  BY <1>1 DEF SameSessions
<1>3. SessionsAreTold'
  BY <1>0, <1>2, SessionsFrame
<1>4. ASSUME NEW d \in CliCall \ {c} PROVE CallIsSound(d)'
  BY <1>0, <1>1, CallFrame DEF CallsAreSound
<1>5. CallsAreSound'
  BY <1>0, <1>4 DEF CallsAreSound
<1>6. CliTypes'
  BY DEF CliTypes
<1> QED
  BY <1>3, <1>5, <1>6 DEF CliInv

(* A call whose step leaves the prompts alone: who is at one stays there,  *)
(* or is dropped from it.                                                  *)
LEMMA PromptsFrame ==
  ASSUME CliTypes, PromptsWait, NEW c \in CliCall, UNCHANGED prompts,
         \A d \in CliCall \ {c} : action'[d] = action[d],
         action[c].at \in {"asking", "dropped"} => action'[c].at \in {"asking", "dropped"}
  PROVE  prompts' \in Seq(CliCall) /\ PromptsWait'
<1>1. prompts \in Seq(CliCall) /\ \A i \in DOMAIN prompts : prompts[i] \in CliCall
  BY DEF CliTypes
<1>2. ASSUME NEW i \in DOMAIN prompts
      PROVE  action'[prompts[i]].at \in {"asking", "dropped"}
  <2>1. CASE prompts[i] = c
    BY <2>1 DEF PromptsWait
  <2>2. CASE prompts[i] # c
    BY <1>1, <2>2 DEF PromptsWait
  <2>3. QED
    BY <2>1, <2>2
<1>3. QED
  BY <1>1, <1>2 DEF PromptsWait

(* A call comes in: of the squad over the socket, of the agent's turn. *)
LEMMA CallsForKeepsInv ==
  ASSUME CliInv, NEW c \in CliCall, NEW level \in {"squad", "agent"},
         NEW tools \in SUBSET {"read", "edit", "hitl", "nonesuch"},
         level = "agent" => "hitl" \notin tools,
         CallsFor(c, level, tools),
         UNCHANGED <<prompts, shown, agreed, acted, book>>,
         cli' \in CliStage, UNCHANGED <<cli.level, cli.at, cli.profile>>
  PROVE  CliInv'
<1>0. CliTypes /\ PromptsWait /\ CallIsSound(c) /\ action[c].at = "none"
      /\ shown' \in [CliCall -> CliScope \cup {"none"}]
  BY DEF CliInv, CallsAreSound, CallsFor, CliTypes
<1>1. PICK t \in tools, s \in CliScope, d \in CliScope :
        action' = [action EXCEPT ![c] =
          [NoAction EXCEPT !.by = level, !.at = "received", !.tool = t, !.scope = s, !.declared = d]]
  BY DEF CallsFor
<1> DEFINE r == [NoAction EXCEPT !.by = level, !.at = "received", !.tool = t, !.scope = s, !.declared = d]
<1>2. r \in CallRecord /\ r.by = level /\ r.at = "received" /\ r.tool = t /\ r.code = 0
  <2>1. t \in {"none", "read", "edit", "hitl", "nonesuch"}
    OBVIOUS
  <2>2. s \in CliScope \cup {"none"} /\ d \in CliScope \cup {"none"}
    OBVIOUS
  <2>3. 0 \in -1 .. 1
    OBVIOUS
  <2>4. NoAction \in CallRecord /\ NoAction.code = 0
    BY <2>3 DEF NoAction, CallRecord
  <2>5. QED
    BY <2>1, <2>2, <2>4 DEF CallRecord
<1> HIDE DEF r
<1>3. /\ action' \in [CliCall -> CallRecord] /\ action'[c] = r
      /\ \A e \in CliCall \ {c} : action'[e] = action[e]
  BY <1>0, <1>1, <1>2 DEF CliTypes, r
<1>4. \A k, o : NotedAs(k, o)' <=> NotedAs(k, o)
  BY BookStays
<1>5. CallIsSound(c)'
  BY <1>0, <1>2, <1>3, <1>4 DEF CallIsSound
<1>6. prompts' \in Seq(CliCall) /\ PromptsWait'
  BY <1>0, <1>3, PromptsFrame
<1> QED
  BY <1>0, <1>3, <1>5, <1>6, OneCallStep

(* The engine's word on a call. *)
LEMMA JudgeKeepsInv ==
  ASSUME CliInv, NEW c \in CliCall, Judge(c)
  PROVE  CliInv'
<1>0. CliTypes /\ PromptsWait /\ CallIsSound(c) /\ action[c].at = "received" /\ UNCHANGED <<cli, acted>>
  BY DEF CliInv, CallsAreSound, Judge
<1>t. /\ action[c] \in CallRecord /\ cli' \in CliStage /\ c \notin acted
      /\ shown \in [CliCall -> CliScope \cup {"none"}]
      /\ ~NotedAs("denied", c) /\ ~NotedAs("failed", c) /\ ~NotedAs("ran", c)
  BY <1>0 DEF CliTypes, CallIsSound
<1>1. ASSUME NEW code \in {1, -1}, CallAt(c, "answered", code), UNCHANGED <<prompts, shown, agreed>>,
             Noted("denied", c) \/ UNCHANGED book
      PROVE  CliInv'
  <2>1. /\ action' \in [CliCall -> CallRecord] /\ action'[c].at = "answered" /\ action'[c].by = action[c].by
        /\ action'[c].tool = action[c].tool
        /\ \A d \in CliCall \ {c} : action'[d] = action[d]
    BY <1>0, <1>1, CallAtFields
  <2>2. \A k : k # "denied" => (NotedAs(k, c)' <=> NotedAs(k, c))
    BY <1>1, BookOf, BookStays
  <2>3. CallIsSound(c)'
    BY <1>0, <1>t, <2>1, <2>2 DEF CallIsSound
  <2>4. prompts' \in Seq(CliCall) /\ PromptsWait'
    BY <1>0, <1>1, <2>1, PromptsFrame
  <2> QED
    BY <1>0, <1>1, <1>t, <2>1, <2>3, <2>4, OneCallStep
<1>2. ASSUME EvaluateScope(c) = "allow", CallAt(c, "running", 0), UNCHANGED <<prompts, shown, agreed, book>>
      PROVE  CliInv'
  <2>1. /\ action' \in [CliCall -> CallRecord] /\ action'[c].at = "running" /\ action'[c].by = action[c].by
        /\ action'[c].tool = action[c].tool /\ action'[c].code = 0
        /\ \A d \in CliCall \ {c} : action'[d] = action[d]
    BY <1>0, <1>2, CallAtFields
  <2>2. action[c].tool = "read"
    BY <1>2 DEF EvaluateScope
  <2>3. \A k, o : NotedAs(k, o)' <=> NotedAs(k, o)
    BY <1>2, BookStays
  <2>4. CallIsSound(c)'
    BY <1>0, <1>t, <2>1, <2>2, <2>3 DEF CallIsSound, Permitted
  <2>5. prompts' \in Seq(CliCall) /\ PromptsWait'
    BY <1>0, <1>2, <2>1, PromptsFrame
  <2> QED
    BY <1>0, <1>2, <1>t, <2>1, <2>4, <2>5, OneCallStep
<1>3. ASSUME EvaluateScope(c) = "ask", action[c].tool # "nonesuch",
             shown' = [shown EXCEPT ![c] = ScopeOf(c)], prompts' = Append(prompts, c),
             CallAt(c, "asking", 0), UNCHANGED <<agreed, book>>
      PROVE  CliInv'
  <2>1. /\ action' \in [CliCall -> CallRecord] /\ action'[c].at = "asking" /\ action'[c].by = action[c].by
        /\ action'[c].tool = action[c].tool /\ action'[c].scope = action[c].scope /\ action'[c].code = 0
        /\ \A d \in CliCall \ {c} : action'[d] = action[d]
    BY <1>0, <1>3, CallAtFields
  <2>2. AskedRightly(c)'
    <3>1. action[c].tool \in {"edit", "hitl"} /\ (action[c].by = "agent" => cli.profile = "build")
      BY <1>0, <1>3, <1>t DEF EvaluateScope, CallRecord, CallIsSound
    <3>2. shown'[c] = action[c].scope
      BY <1>0, <1>3 DEF CliTypes, ScopeOf
    <3> QED
      BY <1>0, <2>1, <3>1, <3>2 DEF AskedRightly, CallIsSound
  <2>3. \A k, o : NotedAs(k, o)' <=> NotedAs(k, o)
    BY <1>3, BookStays
  <2>4. CallIsSound(c)'
    BY <1>0, <1>t, <2>1, <2>2, <2>3 DEF CallIsSound
  <2>5. /\ Len(prompts') = Len(prompts) + 1 /\ prompts'[Len(prompts')] = c
        /\ \A i \in DOMAIN prompts : prompts'[i] = prompts[i] /\ prompts[i] \in CliCall /\ prompts[i] # c
        /\ prompts' \in Seq(CliCall) /\ Len(prompts) \in Nat
    BY <1>0, <1>3 DEF CliTypes, PromptsWait
  <2>6. PromptsWait'
    <3>1. \A i \in DOMAIN prompts' : i \in DOMAIN prompts \/ i = Len(prompts')
      BY <2>5
    <3>2. \A i \in DOMAIN prompts' : action'[prompts'[i]].at \in {"asking", "dropped"}
      BY <1>0, <2>1, <2>5, <3>1 DEF PromptsWait
    <3>3. \A i, j \in DOMAIN prompts' : prompts'[i] = prompts'[j] => i = j
      BY <1>0, <2>5, <3>1 DEF PromptsWait
    <3> QED
      BY <3>2, <3>3 DEF PromptsWait
  <2>7. /\ shown' \in [CliCall -> CliScope \cup {"none"}]
        /\ \A d \in CliCall \ {c} : shown'[d] = shown[d]
    <3>1. ScopeOf(c) \in CliScope \cup {"none"}
      BY <1>t DEF ScopeOf, CallRecord
    <3> QED
      BY <1>0, <1>3, <3>1 DEF CliTypes
  <2> QED
    BY <1>0, <1>3, <1>t, <2>1, <2>4, <2>5, <2>6, <2>7, OneCallStep
<1> QED
  BY <1>1, <1>2, <1>3 DEF Judge

(* A line typed: the first prompt takes it. *)
LEMMA TypeLineKeepsInv ==
  ASSUME CliInv, NEW yes \in BOOLEAN, TypeLine(yes)
  PROVE  CliInv'
<1>0. CliTypes /\ PromptsWait /\ prompts # << >> /\ UNCHANGED <<cli, shown, acted>> /\ prompts' = Tail(prompts)
  BY DEF CliInv, TypeLine
<1>1. /\ Len(prompts) \in Nat \ {0} /\ Head(prompts) = prompts[1] /\ 1 \in DOMAIN prompts
      /\ prompts[1] \in CliCall /\ prompts' \in Seq(CliCall) /\ Len(prompts') = Len(prompts) - 1
      /\ \A i \in DOMAIN prompts' : i + 1 \in DOMAIN prompts /\ prompts'[i] = prompts[i + 1] /\ i \in Nat
  BY <1>0 DEF CliTypes
<1>2. PICK c \in CliCall : c = Head(prompts) /\ c = prompts[1]
  BY <1>1
<1>3. \A i \in DOMAIN prompts' : prompts'[i] \in CliCall /\ prompts'[i] # c
  <2>1. \A i \in DOMAIN prompts' : i + 1 # 1
    BY <1>1
  <2> QED
    BY <1>0, <1>1, <1>2, <2>1 DEF PromptsWait, CliTypes
<1>4. /\ action[c].at \in {"asking", "dropped"} /\ CallIsSound(c) /\ cli' \in CliStage
      /\ shown' \in [CliCall -> CliScope \cup {"none"}] /\ action[c] \in CallRecord
  BY <1>0, <1>1, <1>2 DEF PromptsWait, CliInv, CallsAreSound, CliTypes
<1>5. ASSUME \A d \in CliCall \ {c} : action'[d] = action[d] PROVE PromptsWait'
  <2>1. \A i \in DOMAIN prompts' : action'[prompts'[i]].at \in {"asking", "dropped"}
    BY <1>0, <1>1, <1>3, <1>5 DEF PromptsWait
  <2>2. \A i, j \in DOMAIN prompts' : i + 1 = j + 1 => i = j
    BY <1>1
  <2>3. \A i, j \in DOMAIN prompts' : prompts'[i] = prompts'[j] => i = j
    BY <1>0, <1>1, <2>2 DEF PromptsWait
  <2> QED
    BY <2>1, <2>3 DEF PromptsWait
<1>6. CASE action[c].at = "dropped"
  <2>1. UNCHANGED <<action, agreed, book>>
    BY <1>2, <1>6 DEF TypeLine
  <2>2. PromptsWait'
    BY <1>5, <2>1
  <2>3. action' \in [CliCall -> CallRecord] /\ action'[c] = action[c]
    BY <1>0, <2>1 DEF CliTypes
  <2>4. \A k, o : NotedAs(k, o)' <=> NotedAs(k, o)
    BY <2>1, BookStays
  <2>5. CallIsSound(c)'
    BY <1>0, <1>4, <2>1, <2>4, CallFrame
  <2> QED
    BY <1>0, <1>1, <1>4, <2>1, <2>2, <2>3, <2>5, OneCallStep
<1>7. CASE action[c].at # "dropped" /\ yes
  <2>1. /\ CallAt(c, IF action[c].tool = "hitl" THEN "answered" ELSE "running", 0)
        /\ agreed' = agreed \cup {c} /\ UNCHANGED book
    BY <1>2, <1>7 DEF TypeLine
  <2>2. PICK stage \in {"answered", "running"} :
          CallAt(c, stage, 0) /\ (stage = "running" => action[c].tool # "hitl")
    BY <2>1
  <2>3. /\ action' \in [CliCall -> CallRecord] /\ action'[c].at = stage /\ action'[c].by = action[c].by
        /\ action'[c].tool = action[c].tool /\ action'[c].scope = action[c].scope /\ action'[c].code = 0
        /\ \A d \in CliCall \ {c} : action'[d] = action[d]
    BY <1>0, <2>2, CallAtFields
  <2>4. \A k, o : NotedAs(k, o)' <=> NotedAs(k, o)
    BY <2>1, BookStays
  <2>5. AskedRightly(c) /\ c \notin acted /\ ~NotedAs("denied", c) /\ ~NotedAs("failed", c) /\ ~NotedAs("ran", c)
    BY <1>4, <1>7 DEF CallIsSound
  <2>6. stage = "running" => Permitted(c)'
    BY <1>0, <1>4, <2>1, <2>2, <2>3, <2>5 DEF Permitted, AskedRightly
  <2>7. CallIsSound(c)'
    BY <1>0, <1>4, <2>3, <2>4, <2>5, <2>6 DEF CallIsSound
  <2>8. PromptsWait'
    BY <1>5, <2>3
  <2> QED
    BY <1>0, <1>1, <1>4, <2>1, <2>3, <2>7, <2>8, OneCallStep
<1>8. CASE action[c].at # "dropped" /\ ~yes
  <2>1. CallAt(c, "answered", -1) /\ UNCHANGED agreed /\ (UNCHANGED book \/ Noted("denied", c))
    BY <1>2, <1>8 DEF TypeLine
  <2>2. /\ action' \in [CliCall -> CallRecord] /\ action'[c].at = "answered" /\ action'[c].by = action[c].by
        /\ action'[c].tool = action[c].tool
        /\ \A d \in CliCall \ {c} : action'[d] = action[d]
    BY <1>0, <2>1, CallAtFields
  <2>3. \A k : k # "denied" => (NotedAs(k, c)' <=> NotedAs(k, c))
    BY <2>1, BookOf, BookStays
  <2>4. c \notin acted /\ ~NotedAs("denied", c) /\ ~NotedAs("failed", c) /\ ~NotedAs("ran", c)
    BY <1>4, <1>8 DEF CallIsSound
  <2>5. CallIsSound(c)'
    BY <1>0, <1>4, <2>2, <2>3, <2>4 DEF CallIsSound
  <2>6. PromptsWait'
    BY <1>5, <2>2
  <2> QED
    BY <1>0, <1>1, <1>4, <2>1, <2>2, <2>5, <2>6, OneCallStep
<1> QED
  BY <1>6, <1>7, <1>8

(* The tool runs, for a call that waits for it or has gone. *)
LEMMA ToolRunsKeepsInv ==
  ASSUME CliInv, NEW c \in CliCall, ToolRuns(c)
  PROVE  CliInv'
<1>0. CliTypes /\ PromptsWait /\ CallIsSound(c) /\ UNCHANGED <<cli, prompts, shown, agreed>>
  BY DEF CliInv, CallsAreSound, ToolRuns
<1>1. PICK ok \in BOOLEAN :
        /\ action[c].at \in {"running", "orphan"}
        /\ acted' = IF ok THEN acted \cup {c} ELSE acted
        /\ IF action[c].at = "orphan" THEN CallAt(c, "over", 0) /\ UNCHANGED book
           ELSE /\ CallAt(c, "answered", IF ok THEN 0 ELSE 1)
                /\ Noted(IF ok THEN "ran" ELSE "failed", c)
  BY DEF ToolRuns
<1>2. /\ Permitted(c) /\ c \notin acted /\ cli' \in CliStage
      /\ shown' \in [CliCall -> CliScope \cup {"none"}]
      /\ ~NotedAs("denied", c) /\ ~NotedAs("failed", c) /\ ~NotedAs("ran", c)
  BY <1>0, <1>1 DEF CallIsSound, CliTypes
<1>3. PICK stage \in {"answered", "over"}, code \in {0, 1}, kind \in {"ran", "failed"} :
        /\ CallAt(c, stage, code)
        /\ Noted(kind, c) \/ UNCHANGED book
        /\ stage = "over" => UNCHANGED book
        /\ kind = "ran" => ok
        /\ kind = "failed" /\ ok => UNCHANGED book
  <2>1. CASE action[c].at = "orphan"
    BY <1>1, <2>1
  <2>2. CASE action[c].at # "orphan" /\ ok
    BY <1>1, <2>2
  <2>3. CASE action[c].at # "orphan" /\ ~ok
    BY <1>1, <2>3
  <2> QED
    BY <2>1, <2>2, <2>3
<1>4. /\ action' \in [CliCall -> CallRecord] /\ action'[c].at = stage /\ action'[c].code = code
      /\ action'[c].by = action[c].by /\ action'[c].tool = action[c].tool /\ action'[c].scope = action[c].scope
      /\ \A d \in CliCall \ {c} : action'[d] = action[d]
  BY <1>0, <1>3, CallAtFields
<1>5. \A k, o : (k # kind \/ o # c) => (NotedAs(k, o)' <=> NotedAs(k, o))
  BY <1>3, BookOf, BookStays
<1>6. ~ok => c \notin acted'
  BY <1>1, <1>2
<1>7. ok => c \in acted'
  BY <1>1
<1>8. NotedAs("ran", c)' => c \in acted'
  BY <1>2, <1>3, <1>5, <1>7
<1>9. NotedAs("failed", c)' => c \notin acted' /\ stage = "answered"
  <2>1. CASE UNCHANGED book
    BY <1>2, <2>1, BookStays
  <2>2. CASE kind = "ran"
    BY <1>2, <1>5, <2>2
  <2>3. CASE kind = "failed" /\ ~UNCHANGED book
    BY <1>3, <1>6, <2>3
  <2> QED
    BY <2>1, <2>2, <2>3
<1>10. Permitted(c)'
  BY <1>0, <1>2, <1>4 DEF Permitted
<1>11. CallIsSound(c)'
  <2>1. ~NotedAs("denied", c)'
    BY <1>2, <1>5
  <2>2. code # -1
    OBVIOUS
  <2> QED
    BY <1>0, <1>1, <1>4, <1>8, <1>9, <1>10, <2>1, <2>2 DEF CallIsSound
<1>12. prompts' \in Seq(CliCall) /\ PromptsWait'
  BY <1>0, <1>1, <1>4, PromptsFrame
<1> QED
  BY <1>0, <1>1, <1>2, <1>3, <1>4, <1>11, <1>12, OneCallStep

(* The squad's process is gone. *)
LEMMA HangUpKeepsInv ==
  ASSUME CliInv, NEW c \in CliCall, HangUp(c)
  PROVE  CliInv'
<1>0. /\ CliTypes /\ PromptsWait /\ CallIsSound(c) /\ UNCHANGED <<cli, prompts, shown, agreed, acted, book>>
      /\ action[c].at \in {"received", "asking", "running"}
  BY DEF CliInv, CallsAreSound, HangUp
<1>1. PICK stage \in {"orphan", "dropped"} :
        CallAt(c, stage, 0) /\ (stage = "orphan" <=> action[c].at = "running")
  BY DEF HangUp
<1>2. /\ action' \in [CliCall -> CallRecord] /\ action'[c].at = stage /\ action'[c].code = 0
      /\ action'[c].by = action[c].by /\ action'[c].tool = action[c].tool /\ action'[c].scope = action[c].scope
      /\ \A d \in CliCall \ {c} : action'[d] = action[d]
  BY <1>0, <1>1, CallAtFields
<1>3. \A k, o : NotedAs(k, o)' <=> NotedAs(k, o)
  BY <1>0, BookStays
<1>4. c \notin acted /\ ~NotedAs("denied", c) /\ ~NotedAs("failed", c) /\ ~NotedAs("ran", c)
  BY <1>0 DEF CallIsSound
<1>5. stage = "orphan" => Permitted(c)'
  BY <1>0, <1>1, <1>2 DEF CallIsSound, Permitted
<1>6. CallIsSound(c)'
  BY <1>0, <1>2, <1>3, <1>4, <1>5 DEF CallIsSound
<1>7. prompts' \in Seq(CliCall) /\ PromptsWait'
  BY <1>0, <1>1, <1>2, PromptsFrame
<1>8. cli' \in CliStage /\ shown' \in [CliCall -> CliScope \cup {"none"}]
  BY <1>0 DEF CliTypes
<1> QED
  BY <1>0, <1>2, <1>6, <1>7, <1>8, OneCallStep

(* For any number of calls and turns, of the squad and of the agent after  *)
(* it: a tool that acted was permitted, for the scope the human was shown, *)
(* and the ledger's words about calls and sessions are so.                 *)
THEOREM EffectsArePermitted == CliSpec => []EffectsWerePermitted
<1>1. CliInv /\ [CliNext]_cliVars => CliInv'
  <2> SUFFICES ASSUME CliInv, [CliNext]_cliVars PROVE CliInv'
    OBVIOUS
  <2>1. ASSUME NEW c \in CliCall, SquadCalls(c) PROVE CliInv'
    <3>1. cli' \in CliStage /\ UNCHANGED <<cli.level, cli.at, cli.profile>>
      BY <2>1 DEF SquadCalls, CliInv, CliTypes
    <3> QED
      BY <2>1, <3>1, CallsForKeepsInv DEF SquadCalls
  <2>2. ASSUME NEW c \in CliCall, AgentCalls(c) PROVE CliInv'
    <3>1. cli' \in CliStage /\ UNCHANGED <<cli.level, cli.at, cli.profile>>
      BY <2>2 DEF AgentCalls, CliInv, CliTypes, CliStage
    <3> QED
      BY <2>2, <3>1, CallsForKeepsInv DEF AgentCalls
  <2>3. CASE UNCHANGED cliVars
    BY <2>3 DEF cliVars, CliInv, CliTypes, PromptsWait, CallsAreSound, CallIsSound, Permitted, AskedRightly,
       NotedAs, SessionsAreTold, Concluded
  <2> QED
    BY <2>1, <2>2, <2>3, StagesKeepInv, JudgeKeepsInv, TypeLineKeepsInv, ToolRunsKeepsInv, HangUpKeepsInv
       DEF CliNext, CoreRunTool
<1>2. CliInv => EffectsWerePermitted
  <2> SUFFICES ASSUME CliInv PROVE EffectsWerePermitted
    OBVIOUS
  <2>1. \A c \in acted : c \in CliCall /\ Permitted(c)
    BY DEF CliInv, CallsAreSound, CallIsSound
  <2>2. ASSUME NEW c \in CliCall
        PROVE  /\ action[c].code = -1 => c \notin acted
               /\ NotedAs("denied", c) \/ NotedAs("failed", c) => c \notin acted
               /\ NotedAs("ran", c) => c \in acted
    BY DEF CliInv, CallsAreSound, CallIsSound
  <2>3. /\ NotedAs("success", "squad") => ~NotedAs("start", "agent")
        /\ \A l \in {"squad", "agent"} :
             /\ ~(NotedAs("success", l) /\ NotedAs("failure", l))
             /\ NotedAs("success", l) \/ NotedAs("failure", l) => NotedAs("start", l)
    BY DEF CliInv, SessionsAreTold, Concluded
  <2> QED
    BY <2>1, <2>2, <2>3 DEF EffectsWerePermitted, Permitted
<1> QED
  BY <1>1, <1>2, CliInvInit, PTL DEF CliSpec

-----------------------------------------------------------------------------
(* The language server's client. *)

QueryStage == {"idle", "started", "opening", "polling", "asking", "waiting", "greeting",
               "answered", "failed"}
Saying == {"nothing", "found", "empty", "modified", "error", "ask", "diagnostics", "garbage"}
LspMessage == [id : Nat, says : Saying]
QueryRecord == [kind : LspQuery \cup {"none"}, at : QueryStage, id : Nat, has : LspMessage]
SharedRecord == [responses : SUBSET LspMessage, diagnostics : {"none", "some"}, dead : BOOLEAN]

LspTypes ==
  /\ server \in [alive : BOOLEAN, out : Seq(LspMessage), due : SUBSET Nat]
  /\ toServer \in Seq(Nat) /\ fromServer \in Seq(LspMessage)
  /\ nextId \in Nat
  /\ query \in QueryRecord
  /\ shared \in SharedRecord

(* The reader keeps the answers to requests only, and an answer taken is   *)
(* one to the request the query waits for.                                 *)
ResponsesHaveIds == \A r \in shared.responses : r.id # 0
AnswerIsOwn == query.at = "answered" => query.has.id = query.id /\ query.id # 0

(* Diagnostics are told of who asked for them.                             *)
PollersAskDiagnostics == query.at = "polling" => query.kind = "diagnostics"

LspInv ==
  LspTypes /\ ResponsesHaveIds /\ AnswerIsOwn /\ PollersAskDiagnostics /\ AnswersMatchRequests

(* What the reader leaves for the queries.                                 *)
LEMMA SharedFields ==
  ASSUME shared \in SharedRecord, NEW m \in LspMessage,
         \/ shared' = shared
         \/ shared' = [shared EXCEPT !.diagnostics = "some"]
         \/ m.id # 0 /\ shared' = [shared EXCEPT !.responses = @ \cup {m}]
         \/ shared' = [shared EXCEPT !.dead = TRUE]
  PROVE  /\ shared' \in SharedRecord
         /\ \A r \in shared'.responses : r \in shared.responses \/ (r = m /\ m.id # 0)
<1>1. CASE shared' = shared
  BY <1>1
<1>2. CASE shared' = [shared EXCEPT !.diagnostics = "some"]
  BY <1>2 DEF SharedRecord
<1>3. CASE m.id # 0 /\ shared' = [shared EXCEPT !.responses = @ \cup {m}]
  BY <1>3 DEF SharedRecord
<1>4. CASE shared' = [shared EXCEPT !.dead = TRUE]
  BY <1>4 DEF SharedRecord
<1>5. QED
  BY <1>1, <1>2, <1>3, <1>4

(* A query that goes on to another stage.                                  *)
LEMMA QueryGoes ==
  ASSUME query \in QueryRecord, NEW stage \in QueryStage, query' = [query EXCEPT !.at = stage]
  PROVE  /\ query' \in QueryRecord
         /\ query'.at = stage /\ query'.kind = query.kind
         /\ query'.id = query.id /\ query'.has = query.has
  BY DEF QueryRecord

LEMMA QueryBegins ==
  ASSUME query \in QueryRecord, NEW kind \in LspQuery, NEW stage \in QueryStage,
         query' = [query EXCEPT !.kind = kind, !.at = stage]
  PROVE  query' \in QueryRecord /\ query'.at = stage
  BY DEF QueryRecord

LEMMA QueryAsks ==
  ASSUME query \in QueryRecord, NEW id \in Nat,
         query' = [query EXCEPT !.at = "waiting", !.id = id, !.has = NoResponse]
  PROVE  query' \in QueryRecord /\ query'.at = "waiting"
  BY DEF QueryRecord, QueryStage, NoResponse, LspMessage, Saying

LEMMA QueryHas ==
  ASSUME query \in QueryRecord, NEW r \in LspMessage,
         query' = [query EXCEPT !.at = "answered", !.has = r]
  PROVE  /\ query' \in QueryRecord
         /\ query'.at = "answered" /\ query'.id = query.id /\ query'.has = r
  BY DEF QueryRecord, QueryStage

LEMMA NobodyAsks == NoQuery \in QueryRecord /\ NoQuery.at = "idle"
  BY DEF NoQuery, QueryRecord, QueryStage, NoResponse, LspMessage, Saying

LEMMA LspInvInit == LspInit => LspInv
<1>1. SUFFICES ASSUME LspInit PROVE LspInv
  OBVIOUS
<1>2. LspTypes
  BY <1>1, NobodyAsks DEF LspInit, LspTypes, NothingShared, SharedRecord
<1>3. shared.responses = {} /\ query.at = "idle" /\ lspTold.as = "error"
  BY <1>1, NobodyAsks DEF LspInit, NothingShared, ToldError
<1>4. QED
  BY <1>2, <1>3 DEF LspInv, ResponsesHaveIds, AnswerIsOwn, PollersAskDiagnostics, AnswersMatchRequests

(* The query's own steps up to what it is told.                            *)
LEMMA QueryKeepsInv ==
  ASSUME LspInv,
         Refused \/ EnsureStarted \/ EnsureOpen \/ QueryLocks \/ QueryWriteFails \/ GiveUp \/ Retry
           \/ Handshaken
  PROVE  LspInv'
<1> USE DEF LspInv, ResponsesHaveIds, AnswerIsOwn, PollersAskDiagnostics, AnswersMatchRequests
<1>1. CASE Refused
  BY <1>1 DEF Refused, LspTypes, ToldError
<1>2. CASE EnsureStarted
  <2>1. PICK kind \in LspQuery :
          IF lspProc = "up" THEN query' = [query EXCEPT !.kind = kind, !.at = "started"] /\ UNCHANGED server
          ELSE query' = [query EXCEPT !.kind = kind, !.at = "asking"]
               /\ server' = [alive |-> TRUE, out |-> << >>, due |-> {}]
    BY <1>2 DEF EnsureStarted
  <2>2. PICK stage \in {"started", "asking"} : query' = [query EXCEPT !.kind = kind, !.at = stage]
    BY <2>1
  <2>5. query' \in QueryRecord /\ query'.at = stage
    <3>1. stage \in QueryStage /\ query \in QueryRecord
      BY DEF QueryStage, LspInv, LspTypes
    <3>2. QED
      BY <2>2, <3>1, QueryBegins
  <2>3. server' \in [alive : BOOLEAN, out : Seq(LspMessage), due : SUBSET Nat]
    <3>1. << >> \in Seq(LspMessage)
      OBVIOUS
    <3>2. server' = server \/ server' = [alive |-> TRUE, out |-> << >>, due |-> {}]
      BY <2>1
    <3>3. server \in [alive : BOOLEAN, out : Seq(LspMessage), due : SUBSET Nat]
      BY DEF LspTypes
    <3>4. [alive |-> TRUE, out |-> << >>, due |-> {}]
            \in [alive : BOOLEAN, out : Seq(LspMessage), due : SUBSET Nat]
      BY <3>1
    <3>5. QED
      BY <3>2, <3>3, <3>4
  <2>4. QED
    BY <1>2, <2>2, <2>5, <2>3 DEF EnsureStarted, LspTypes
<1>3. CASE EnsureOpen
  <2>1. PICK stage \in {"opening", "polling", "asking"} :
          /\ query' = [query EXCEPT !.at = stage]
          /\ stage = "polling" => query.kind = "diagnostics"
    BY <1>3 DEF EnsureOpen
  <2>2. query' \in QueryRecord /\ query'.at = stage /\ query'.kind = query.kind
    BY <2>1, QueryGoes DEF QueryStage, LspTypes
  <2>3. QED
    BY <1>3, <2>1, <2>2 DEF EnsureOpen, LspTypes
<1>4. CASE QueryLocks
  BY <1>4 DEF QueryLocks, LspTypes
<1>5. CASE QueryWriteFails
  <2>1. query' \in QueryRecord /\ query'.at = "failed" /\ nextId' \in Nat
    BY <1>5, QueryGoes DEF QueryWriteFails, QueryStage, LspTypes
  <2>2. QED
    BY <1>5, <2>1 DEF QueryWriteFails, LspTypes
<1>6. CASE GiveUp
  <2>1. query' \in QueryRecord /\ query'.at = "failed"
    BY <1>6, QueryGoes DEF GiveUp, QueryStage, LspTypes
  <2>2. QED
    BY <1>6, <2>1 DEF GiveUp, LspTypes
<1>7. CASE Retry
  <2>1. query' \in QueryRecord /\ query'.at = "asking"
    BY <1>7, QueryGoes DEF Retry, QueryStage, LspTypes
  <2>2. QED
    BY <1>7, <2>1 DEF Retry, LspTypes
<1>8. CASE Handshaken
  <2>1. PICK stage \in {"failed", "greeting"} : query' = [query EXCEPT !.at = stage]
    BY <1>8 DEF Handshaken
  <2>2. query' \in QueryRecord /\ query'.at = stage
    BY <2>1, QueryGoes DEF QueryStage, LspTypes
  <2>3. QED
    BY <1>8, <2>1, <2>2 DEF Handshaken, LspTypes
<1>9. QED
  BY <1>1, <1>2, <1>3, <1>4, <1>5, <1>6, <1>7, <1>8

(* What it writes.                                                         *)
LEMMA WriteKeepsInv ==
  ASSUME LspInv, QueryWrites
  PROVE  LspInv'
<1> USE DEF LspInv, ResponsesHaveIds, AnswerIsOwn, PollersAskDiagnostics, AnswersMatchRequests
<1>1. CASE query.at = "asking"
  <2>1. /\ query' = [query EXCEPT !.at = "waiting", !.id = nextId + 1, !.has = NoResponse]
        /\ toServer' = Append(toServer, nextId + 1) /\ nextId' = nextId + 1
    BY <1>1 DEF QueryWrites, Sent
  <2>2. nextId + 1 \in Nat /\ query \in QueryRecord
    BY DEF LspTypes
  <2>3. query' \in QueryRecord /\ query'.at = "waiting"
    BY <2>1, <2>2, QueryAsks
  <2>4. toServer' \in Seq(Nat) /\ nextId' \in Nat
    BY <2>1, <2>2 DEF LspTypes
  <2>5. QED
    BY <2>4, <2>3 DEF QueryWrites, LspTypes
<1>2. CASE query.at # "asking"
  <2>1. query' = [query EXCEPT !.at = "started"] /\ toServer' = Append(toServer, 0) /\ nextId' = nextId
    BY <1>2 DEF QueryWrites, Sent
  <2>2. query' \in QueryRecord /\ query'.at = "started"
    BY <2>1, QueryGoes DEF QueryStage, LspTypes
  <2>3. toServer' \in Seq(Nat) /\ nextId' \in Nat
    BY <2>1 DEF LspTypes
  <2>4. QED
    BY <2>2, <2>3 DEF QueryWrites, LspTypes
<1>3. QED
  BY <1>1, <1>2

(* The response it takes is the one to its request.                        *)
LEMMA TakingKeepsInv ==
  ASSUME LspInv, TakeResponse
  PROVE  LspInv'
<1> USE DEF LspInv, ResponsesHaveIds, AnswerIsOwn, PollersAskDiagnostics, AnswersMatchRequests
<1>1. PICK r \in shared.responses : r.id = query.id /\ Takes(r)
  BY DEF TakeResponse
<1>2. r \in LspMessage /\ r.id # 0
  BY <1>1 DEF LspTypes, SharedRecord
<1>3. /\ query' \in QueryRecord
      /\ query'.at = "answered" /\ query'.id = query.id /\ query'.has = r
  BY <1>1, <1>2, QueryHas DEF Takes, LspTypes
<1>4. shared' \in SharedRecord /\ shared'.responses = shared.responses \ {r}
  BY <1>1 DEF Takes, LspTypes, SharedRecord
<1>5. QED
  BY <1>1, <1>2, <1>3, <1>4 DEF Takes, LspTypes

(* What the tool tells.                                                    *)
LEMMA TellingKeepsInv ==
  ASSUME LspInv, HandshakeFails \/ PollDiagnostics \/ QueryReturns
  PROVE  LspInv'
<1> USE NobodyAsks DEF LspInv, ResponsesHaveIds, AnswerIsOwn, PollersAskDiagnostics, AnswersMatchRequests
<1>1. CASE HandshakeFails
  <2>1. CASE server.alive
    <3>1. server' \in [alive : BOOLEAN, out : Seq(LspMessage), due : SUBSET Nat]
      BY <1>1, <2>1 DEF HandshakeFails, LspTypes
    <3>2. QED
      BY <1>1, <2>1, <3>1 DEF HandshakeFails, LspTypes
  <2>2. CASE ~server.alive
    <3>1. shared' \in SharedRecord /\ shared'.responses = {}
      <4>1. shared' = [responses |-> {}, diagnostics |-> "none", dead |-> FALSE]
        BY <1>1, <2>2 DEF HandshakeFails, NothingShared
      <4>2. QED
        BY <4>1 DEF SharedRecord
    <3>2. lspTold'.as = "error" /\ query' = NoQuery
      BY <1>1, <2>2 DEF HandshakeFails, ToolTells, ToldError
    <3>3. QED
      BY <1>1, <2>2, <3>1, <3>2 DEF HandshakeFails, LspTypes
  <2>3. QED
    BY <2>1, <2>2
<1>2. CASE PollDiagnostics
  <2>1. lspTold'.as = "error" \/ lspTold'.kind = "diagnostics"
    BY <1>2 DEF PollDiagnostics, ToolTells, ToldError
  <2>2. query' = NoQuery
    BY <1>2 DEF PollDiagnostics, ToolTells
  <2>3. QED
    BY <1>2, <2>1, <2>2 DEF PollDiagnostics, LspTypes
<1>3. CASE QueryReturns
  <2>1. CASE query.at = "answered" /\ query.has.says \notin {"modified", "error"}
    <3>1. lspTold' = [kind |-> query.kind, asked |-> query.id, from |-> query.has.id,
                      as |-> query.has.says]
      BY <1>3, <2>1 DEF QueryReturns, ToolTells
    <3>2. lspTold'.asked # 0 /\ lspTold'.from = lspTold'.asked
      BY <2>1, <3>1
    <3>3. query' = NoQuery
      BY <1>3 DEF QueryReturns, ToolTells
    <3>4. QED
      BY <1>3, <3>2, <3>3 DEF QueryReturns, LspTypes
  <2>2. CASE ~(query.at = "answered" /\ query.has.says \notin {"modified", "error"})
    <3>1. lspTold' = ToldError(query.kind) /\ query' = NoQuery
      BY <1>3, <2>2 DEF QueryReturns, ToolTells
    <3>2. lspTold'.as = "error"
      BY <3>1 DEF ToldError
    <3>3. QED
      BY <1>3, <3>1, <3>2 DEF QueryReturns, LspTypes
  <2>3. QED
    BY <2>1, <2>2
<1>4. QED
  BY <1>1, <1>2, <1>3

(* The reader and the server.                                              *)
LEMMA ReaderKeepsInv ==
  ASSUME LspInv, ReaderLoop
  PROVE  LspInv'
<1> USE DEF LspInv, ResponsesHaveIds, AnswerIsOwn, PollersAskDiagnostics, AnswersMatchRequests
<1>1. CASE ReaderReads
  <2> DEFINE m == Head(fromServer)
  <2>1. m \in LspMessage /\ fromServer' \in Seq(LspMessage)
    BY <1>1 DEF ReaderReads, LspTypes
  <2>2. \/ shared' = shared
        \/ shared' = [shared EXCEPT !.diagnostics = "some"]
        \/ m.id # 0 /\ shared' = [shared EXCEPT !.responses = @ \cup {m}]
        \/ shared' = [shared EXCEPT !.dead = TRUE]
    BY <1>1 DEF ReaderReads, ReaderStops
  <2> HIDE DEF m
  <2>3. /\ shared' \in SharedRecord
        /\ \A r \in shared'.responses : r \in shared.responses \/ (r = m /\ m.id # 0)
    BY <2>1, <2>2, SharedFields DEF LspTypes
  <2>4. \A r \in shared'.responses : r.id # 0
    BY <2>3
  <2>5. QED
    BY <1>1, <2>1, <2>3, <2>4 DEF ReaderReads, LspTypes
<1>2. CASE ReaderLocks
  BY <1>2 DEF ReaderLocks, LspTypes
<1>3. CASE ReaderAnswers
  <2>1. toServer' \in Seq(Nat)
    BY <1>3 DEF ReaderAnswers, LspTypes
  <2>2. QED
    BY <1>3, <2>1 DEF ReaderAnswers, LspTypes
<1>4. CASE ReaderEnds
  <2>1. shared' \in SharedRecord /\ shared'.responses = shared.responses
    BY <1>4 DEF ReaderEnds, ReaderStops, LspTypes, SharedRecord
  <2>2. QED
    BY <1>4, <2>1 DEF ReaderEnds, LspTypes
<1>5. QED
  BY <1>1, <1>2, <1>3, <1>4 DEF ReaderLoop

LEMMA ServerKeepsInv ==
  ASSUME LspInv, ServerReads \/ ServerSays \/ ServerWrites \/ ServerDies
  PROVE  LspInv'
<1> USE DEF LspInv, ResponsesHaveIds, AnswerIsOwn, PollersAskDiagnostics, AnswersMatchRequests
<1>1. CASE ServerReads
  <2>1. Head(toServer) \in Nat /\ toServer' \in Seq(Nat)
    BY <1>1 DEF ServerReads, LspTypes
  <2>2. server' \in [alive : BOOLEAN, out : Seq(LspMessage), due : SUBSET Nat]
    BY <1>1, <2>1 DEF ServerReads, LspTypes
  <2>3. QED
    BY <1>1, <2>1, <2>2 DEF ServerReads, LspTypes
<1>2. CASE ServerSays
  <2>1. PICK id \in Nat, says \in Saying, due \in SUBSET Nat :
          server' = [server EXCEPT !.out = <<[id |-> id, says |-> says]>>, !.due = due]
    <3>1. CASE \E id \in server.due, says \in {"found", "empty", "modified", "error"} :
                 server' = [server EXCEPT !.out = <<[id |-> id, says |-> says]>>, !.due = @ \ {id}]
      <4>1. PICK id \in server.due, says \in {"found", "empty", "modified", "error"} :
              server' = [server EXCEPT !.out = <<[id |-> id, says |-> says]>>, !.due = @ \ {id}]
        BY <3>1
      <4>2. id \in Nat /\ says \in Saying /\ server.due \ {id} \in SUBSET Nat
        BY DEF LspTypes, Saying
      <4>3. server' = [server EXCEPT !.out = <<[id |-> id, says |-> says]>>, !.due = server.due \ {id}]
        BY <4>1
      <4>4. QED
        BY <4>2, <4>3
    <3>2. CASE \E says \in {"ask", "diagnostics", "garbage"} :
                 server' = [server EXCEPT !.out = <<[id |-> 0, says |-> says]>>]
      <4>1. PICK says \in Saying : server' = [server EXCEPT !.out = <<[id |-> 0, says |-> says]>>]
        BY <3>2 DEF Saying
      <4>2. server' = [server EXCEPT !.out = <<[id |-> 0, says |-> says]>>, !.due = server.due]
        BY <4>1 DEF LspTypes
      <4>3. QED
        BY <4>2 DEF LspTypes
    <3>3. QED
      BY <1>2, <3>1, <3>2 DEF ServerSays
  <2>2. server' \in [alive : BOOLEAN, out : Seq(LspMessage), due : SUBSET Nat]
    <3>1. <<[id |-> id, says |-> says]>> \in Seq(LspMessage)
      BY DEF LspMessage
    <3>2. QED
      BY <2>1, <3>1 DEF LspTypes
  <2>3. QED
    BY <1>2, <2>2 DEF ServerSays, LspTypes
<1>3. CASE ServerWrites
  <2>1. fromServer' \in Seq(LspMessage)
    BY <1>3 DEF ServerWrites, LspTypes
  <2>2. server' \in [alive : BOOLEAN, out : Seq(LspMessage), due : SUBSET Nat]
    <3>1. << >> \in Seq(LspMessage) /\ server' = [server EXCEPT !.out = << >>]
      BY <1>3 DEF ServerWrites
    <3>2. QED
      BY <3>1 DEF LspTypes
  <2>3. QED
    BY <1>3, <2>1, <2>2 DEF ServerWrites, LspTypes
<1>4. CASE ServerDies
  <2>1. server' \in [alive : BOOLEAN, out : Seq(LspMessage), due : SUBSET Nat]
    BY <1>4 DEF ServerDies, LspTypes
  <2>2. QED
    BY <1>4, <2>1 DEF ServerDies, LspTypes
<1>5. QED
  BY <1>1, <1>2, <1>3, <1>4

(* Of any number of queries that time out, with whatever the server        *)
(* answers to them later, in any order, unasked or not at all: who is told *)
(* places or none is told so of its own request.                           *)
THEOREM AnswersAreOwn == LspSpec => []AnswersMatchRequests
<1>1. LspInv /\ [LspNext]_lspVars => LspInv'
  <2>1. CASE UNCHANGED lspVars
    BY <2>1 DEF lspVars, LspInv, LspTypes, ResponsesHaveIds, AnswerIsOwn, PollersAskDiagnostics,
       AnswersMatchRequests
  <2>2. CASE LspNext
    BY <2>2, QueryKeepsInv, WriteKeepsInv, TakingKeepsInv, TellingKeepsInv, ReaderKeepsInv,
       ServerKeepsInv DEF LspNext, Query
  <2>3. QED
    BY <2>1, <2>2
<1>2. QED
  BY LspInvInit, <1>1, PTL DEF LspSpec, LspInv

-----------------------------------------------------------------------------
(* Durable conversations. *)

EventRecord == [kind : Kinds \cup Marks, by : Writer]
MessageRecord == [kind : Kinds, by : Writer]
DurStage == {"closed", "new", "headed", "open", "summed", "compacted", "turn", "running",
             "answered", "broken", "kept", "lost"}
DurRecord == [at : DurStage, head : Nat, msgs : Seq(MessageRecord), persisted : Nat,
              steps : 0 .. MaxSteps]
Opening == {"closed", "new", "headed"}

DurTypes ==
  /\ events \in Seq(EventRecord)
  /\ dur \in [Writer -> DurRecord]

(* Where the replay of a log begins.  That there is such a place is kept   *)
(* from step to step: it needs no induction over logs.                     *)
LastMarkAt(log, k) ==
  /\ k \in 0 .. Len(log)
  /\ k # 0 => log[k].kind \in Marks
  /\ \A j \in DOMAIN log : log[j].kind \in Marks => j <= k
MarkIsThere == \E k \in Nat : LastMarkAt(events, k)

(* A history that may be gone on from: tools have their results.           *)
Whole(msgs) ==
  msgs # << >> => PairedIn(msgs) /\ msgs[Len(msgs)].kind # "tools"
ReplayIsWhole == Whole(Replay(events))

RecordFacts(r, log) ==
  /\ r.head <= Len(log)
  /\ r.persisted <= Len(r.msgs)
  /\ r.at \notin Opening /\ r.head = Len(log) => Replay(log) = SubSeq(r.msgs, 1, r.persisted)
  /\ r.at \in Opening => r.msgs = << >> /\ r.persisted = 0
  /\ r.at = "new" => r.head = 0
  /\ r.at # "running" => Whole(r.msgs)
  /\ r.at \in {"turn", "running"} => r.msgs # << >> /\ PairedIn(r.msgs)
  /\ r.at = "running" => r.msgs[Len(r.msgs)].kind = "tools"
  /\ r.at \in {"turn", "running"} => r.steps < MaxSteps
WritersAreSound == \A w \in Writer : RecordFacts(dur[w], events)

DurInv == DurTypes /\ MarkIsThere /\ ReplayIsWhole /\ WritersAreSound

LEMMA LastMarkIs ==
  ASSUME NEW log \in Seq(EventRecord), NEW k \in Nat, LastMarkAt(log, k)
  PROVE  LastMark(log) = k
<1>1. CASE k = 0
  <2>1. ~ \E i \in DOMAIN log : log[i].kind \in Marks
    <3>1. DOMAIN log = 1 .. Len(log) /\ Len(log) \in Nat
      BY LenProperties
    <3>2. QED
      BY <1>1, <3>1 DEF LastMarkAt
  <2>2. QED
    BY <1>1, <2>1 DEF LastMark
<1>2. CASE k # 0
  <2> DEFINE Last(i) == /\ log[i].kind \in Marks
                        /\ \A j \in DOMAIN log : log[j].kind \in Marks => j <= i
  <2>1. DOMAIN log = 1 .. Len(log) /\ Len(log) \in Nat
    BY LenProperties
  <2>2. k \in DOMAIN log /\ Last(k)
    BY <1>2, <2>1 DEF LastMarkAt
  <2>3. \A i \in DOMAIN log : Last(i) => i = k
    BY <2>1, <2>2
  <2>4. (CHOOSE i \in DOMAIN log : Last(i)) = k
    <3> HIDE DEF Last
    <3>1. QED
      BY <2>2, <2>3
  <2>5. LastMark(log) = CHOOSE i \in DOMAIN log : Last(i)
    BY <2>2 DEF LastMark
  <2>6. QED
    BY <2>4, <2>5
<1>3. QED
  BY <1>1, <1>2

(* A replay is a history of messages.                                      *)
LEMMA ReplayFields ==
  ASSUME NEW log \in Seq(EventRecord), NEW k \in Nat, LastMarkAt(log, k)
  PROVE  /\ Replay(log) = SubSeq(log, k + 1, Len(log))
         /\ Replay(log) \in Seq(MessageRecord)
         /\ Len(Replay(log)) = Len(log) - k
         /\ \A i \in 1 .. Len(log) - k : Replay(log)[i] = log[k + i]
<1>1. DOMAIN log = 1 .. Len(log) /\ Len(log) \in Nat /\ k \in 0 .. Len(log)
  BY LenProperties DEF LastMarkAt
<1>2. Replay(log) = SubSeq(log, k + 1, Len(log))
  BY LastMarkIs DEF Replay
<1>3. \A i \in k + 1 .. Len(log) : log[i] \in MessageRecord
  <2>1. SUFFICES ASSUME NEW i \in k + 1 .. Len(log) PROVE log[i] \in MessageRecord
    OBVIOUS
  <2>2. i \in 1 .. Len(log) /\ ~(i <= k)
    BY <1>1, <2>1
  <2>3. log[i] \in EventRecord
    BY <2>2, ElementOfSeq
  <2>4. log[i].kind \notin Marks
    BY <1>1, <2>2 DEF LastMarkAt
  <2>5. QED
    BY <2>3, <2>4 DEF EventRecord, MessageRecord
<1>4. k + 1 \in Int /\ Len(log) \in Int
  BY <1>1
<1>5. /\ SubSeq(log, k + 1, Len(log)) \in Seq(MessageRecord)
      /\ Len(SubSeq(log, k + 1, Len(log))) = IF k + 1 <= Len(log) THEN Len(log) - (k + 1) + 1 ELSE 0
      /\ \A i \in 1 .. Len(log) - (k + 1) + 1 :
           SubSeq(log, k + 1, Len(log))[i] = log[k + 1 + i - 1]
  BY <1>3, <1>4, SubSeqProperties
<1>6. Len(SubSeq(log, k + 1, Len(log))) = Len(log) - k
  <2> DEFINE rest == SubSeq(log, k + 1, Len(log))
  <2>1. Len(rest) = IF k + 1 <= Len(log) THEN Len(log) - (k + 1) + 1 ELSE 0
    BY <1>5
  <2> HIDE DEF rest
  <2>2. Len(rest) = Len(log) - k
    <3>1. k \in Nat /\ Len(log) \in Nat /\ k <= Len(log)
      BY <1>1
    <3>2. CASE k + 1 <= Len(log)
      <4>1. Len(rest) = Len(log) - (k + 1) + 1
        BY <2>1, <3>2
      <4>2. QED
        BY <3>1, <4>1
    <3>3. CASE ~(k + 1 <= Len(log))
      <4>1. Len(rest) = 0
        BY <2>1, <3>3
      <4>2. QED
        BY <3>1, <3>3, <4>1
    <3>4. QED
      BY <3>2, <3>3
  <2>3. QED
    BY <2>2 DEF rest
<1>7. \A i \in 1 .. Len(log) - k : SubSeq(log, k + 1, Len(log))[i] = log[k + i]
  <2>1. \A i \in 1 .. Len(log) - k : i \in 1 .. Len(log) - (k + 1) + 1 /\ k + 1 + i - 1 = k + i
    BY <1>1
  <2>2. QED
    BY <1>5, <2>1
<1>8. QED
  BY <1>2, <1>5, <1>6, <1>7

LEMMA MessagesAreEvents == \A s \in Seq(MessageRecord) : s \in Seq(EventRecord)
<1>1. MessageRecord \subseteq EventRecord
  BY DEF MessageRecord, EventRecord
<1>2. QED
  BY <1>1, SeqMonotonic

(* Messages appended to a log are appended to its replay.                  *)
LEMMA ReplayAppends ==
  ASSUME NEW log \in Seq(EventRecord), NEW k \in Nat, LastMarkAt(log, k),
         NEW new \in Seq(MessageRecord)
  PROVE  /\ log \o new \in Seq(EventRecord)
         /\ LastMarkAt(log \o new, k)
         /\ Replay(log \o new) = Replay(log) \o new
<1> DEFINE both == log \o new
<1>1. /\ Len(log) \in Nat /\ DOMAIN log = 1 .. Len(log) /\ Len(new) \in Nat
      /\ k \in 0 .. Len(log)
  BY LenProperties DEF LastMarkAt
<1>2. /\ both \in Seq(EventRecord)
      /\ Len(both) = Len(log) + Len(new)
      /\ \A i \in 1 .. Len(log) + Len(new) :
           both[i] = IF i <= Len(log) THEN log[i] ELSE new[i - Len(log)]
  BY MessagesAreEvents, ConcatProperties
<1>3. DOMAIN both = 1 .. Len(log) + Len(new)
  BY <1>2, LenProperties
<1>4. \A i \in 1 .. Len(new) : new[i].kind \notin Marks
  <2>1. \A i \in 1 .. Len(new) : new[i] \in MessageRecord
    BY ElementOfSeq
  <2>2. QED
    BY <2>1 DEF MessageRecord, Kinds, Marks
<1> HIDE DEF both
<1>5. LastMarkAt(both, k)
  <2>1. k \in 0 .. Len(both)
    BY <1>1, <1>2
  <2>2. k # 0 => both[k].kind \in Marks
    BY <1>1, <1>2 DEF LastMarkAt
  <2>3. ASSUME NEW j \in DOMAIN both, both[j].kind \in Marks PROVE j <= k
    <3>1. CASE j <= Len(log)
      BY <1>1, <1>2, <1>3, <2>3, <3>1 DEF LastMarkAt
    <3>2. CASE ~(j <= Len(log))
      <4>1. j - Len(log) \in 1 .. Len(new) /\ both[j] = new[j - Len(log)]
        BY <1>1, <1>2, <1>3, <2>3, <3>2
      <4>2. QED
        BY <1>4, <2>3, <4>1
    <3>3. QED
      BY <3>1, <3>2
  <2>4. QED
    BY <2>1, <2>2, <2>3 DEF LastMarkAt
<1>6. /\ Replay(both) \in Seq(MessageRecord)
      /\ Len(Replay(both)) = Len(both) - k
      /\ \A i \in 1 .. Len(both) - k : Replay(both)[i] = both[k + i]
  BY <1>2, <1>5, ReplayFields
<1>7. /\ Replay(log) \in Seq(MessageRecord)
      /\ Len(Replay(log)) = Len(log) - k
      /\ \A i \in 1 .. Len(log) - k : Replay(log)[i] = log[k + i]
  BY ReplayFields
<1>8. /\ Replay(log) \o new \in Seq(MessageRecord)
      /\ Len(Replay(log) \o new) = Len(log) - k + Len(new)
      /\ \A i \in 1 .. Len(log) - k + Len(new) : (Replay(log) \o new)[i] =
           IF i <= Len(log) - k THEN Replay(log)[i] ELSE new[i - (Len(log) - k)]
  <2> DEFINE old == Replay(log)
             whole == old \o new
  <2>1. /\ whole \in Seq(MessageRecord)
        /\ Len(whole) = Len(old) + Len(new)
        /\ \A i \in 1 .. Len(old) + Len(new) :
             whole[i] = IF i <= Len(old) THEN old[i] ELSE new[i - Len(old)]
    BY <1>7, ConcatProperties
  <2>2. Len(old) = Len(log) - k
    BY <1>7
  <2> HIDE DEF whole, old
  <2>3. /\ whole \in Seq(MessageRecord)
        /\ Len(whole) = Len(log) - k + Len(new)
        /\ \A i \in 1 .. Len(log) - k + Len(new) :
             whole[i] = IF i <= Len(log) - k THEN old[i] ELSE new[i - (Len(log) - k)]
    BY <2>1, <2>2
  <2>4. QED
    BY <2>3 DEF whole, old
<1>9. Len(Replay(both)) = Len(Replay(log) \o new)
  BY <1>1, <1>2, <1>6, <1>8
<1>10. ASSUME NEW i \in 1 .. Len(Replay(both)) PROVE Replay(both)[i] = (Replay(log) \o new)[i]
  <2>1. i \in 1 .. Len(log) - k + Len(new) /\ k + i \in 1 .. Len(log) + Len(new)
    BY <1>1, <1>2, <1>6, <1>10
  <2>2. Replay(both)[i] = both[k + i]
    BY <1>6, <1>10
  <2>3. CASE i <= Len(log) - k
    <3>1. k + i <= Len(log) /\ i \in 1 .. Len(log) - k
      BY <1>1, <2>1, <2>3
    <3>2. QED
      BY <1>2, <1>7, <1>8, <2>1, <2>2, <2>3, <3>1
  <2>4. CASE ~(i <= Len(log) - k)
    <3>1. ~(k + i <= Len(log)) /\ k + i - Len(log) = i - (Len(log) - k)
      BY <1>1, <2>1, <2>4
    <3>2. both[k + i] = new[k + i - Len(log)]
      BY <1>2, <2>1, <3>1
    <3>3. (Replay(log) \o new)[i] = new[i - (Len(log) - k)]
      BY <1>8, <2>1, <2>4
    <3>4. QED
      BY <2>2, <3>1, <3>2, <3>3
  <2>5. QED
    BY <2>3, <2>4
<1>11. Replay(both) = Replay(log) \o new
  BY <1>6, <1>8, <1>9, <1>10, SeqEqual
<1>12. QED
  BY <1>2, <1>5, <1>11 DEF both

(* A mark appended begins a replay of nothing.                             *)
LEMMA ReplayOfMark ==
  ASSUME NEW log \in Seq(EventRecord), NEW e \in EventRecord, e.kind \in Marks
  PROVE  /\ Append(log, e) \in Seq(EventRecord)
         /\ Len(Append(log, e)) = Len(log) + 1
         /\ LastMarkAt(Append(log, e), Len(log) + 1)
         /\ Replay(Append(log, e)) = << >>
<1>1. /\ Append(log, e) \in Seq(EventRecord)
      /\ Len(Append(log, e)) = Len(log) + 1
      /\ Append(log, e)[Len(log) + 1] = e
      /\ Len(log) \in Nat
  BY AppendProperties, LenProperties
<1>2. DOMAIN Append(log, e) = 1 .. Len(log) + 1
  BY <1>1, LenProperties
<1>3. LastMarkAt(Append(log, e), Len(log) + 1)
  BY <1>1, <1>2 DEF LastMarkAt
<1>4. Len(log) + 1 \in Nat
  BY <1>1
<1>5. Replay(Append(log, e)) = SubSeq(Append(log, e), Len(log) + 1 + 1, Len(log) + 1)
  BY <1>1, <1>3, <1>4, ReplayFields
<1>6. Len(log) + 1 + 1 \in Int /\ Len(log) + 1 \in Int /\ Len(log) + 1 < Len(log) + 1 + 1
  BY <1>1
<1>7. QED
  BY <1>1, <1>3, <1>5, <1>6, SubSeqEmpty

(* How a history goes on.                                                  *)
LEMMA PairsGoOn ==
  ASSUME NEW msgs \in Seq(MessageRecord), NEW m \in MessageRecord,
         \/ msgs = << >> /\ m.kind # "results"
         \/ /\ msgs # << >> /\ PairedIn(msgs)
            /\ msgs[Len(msgs)].kind = "tools" <=> m.kind = "results"
  PROVE  /\ Append(msgs, m) \in Seq(MessageRecord)
         /\ Len(Append(msgs, m)) = Len(msgs) + 1
         /\ Append(msgs, m) # << >> /\ PairedIn(Append(msgs, m))
         /\ Append(msgs, m)[Len(Append(msgs, m))] = m
<1> DEFINE more == Append(msgs, m)
<1>1. /\ more \in Seq(MessageRecord) /\ more # << >>
      /\ Len(more) = Len(msgs) + 1 /\ Len(msgs) \in Nat
      /\ \A i \in 1 .. Len(msgs) : more[i] = msgs[i]
      /\ more[Len(msgs) + 1] = m
  BY AppendProperties, LenProperties
<1> HIDE DEF more
<1>2. CASE msgs = << >> /\ m.kind # "results"
  <2>1. Len(msgs) = 0
    BY <1>2
  <2>2. QED
    BY <1>1, <1>2, <2>1 DEF PairedIn, more
<1>3. CASE /\ msgs # << >> /\ PairedIn(msgs)
           /\ msgs[Len(msgs)].kind = "tools" <=> m.kind = "results"
  <2>1. Len(msgs) \in Nat \ {0}
    BY <1>3, EmptySeq
  <2>2. more[1].kind # "results"
    BY <1>1, <1>3, <2>1 DEF PairedIn
  <2>3. ASSUME NEW i \in 1 .. Len(more) - 1
        PROVE  more[i].kind = "tools" <=> more[i + 1].kind = "results"
    <3>1. CASE i = Len(msgs)
      BY <1>1, <1>3, <2>1, <3>1
    <3>2. CASE i # Len(msgs)
      <4>1. i \in 1 .. Len(msgs) - 1 /\ i \in 1 .. Len(msgs) /\ i + 1 \in 1 .. Len(msgs)
        BY <1>1, <2>1, <2>3, <3>2
      <4>2. more[i] = msgs[i] /\ more[i + 1] = msgs[i + 1]
        BY <1>1, <4>1
      <4>3. msgs[i].kind = "tools" <=> msgs[i + 1].kind = "results"
        BY <1>3, <4>1 DEF PairedIn
      <4>4. QED
        BY <4>2, <4>3
    <3>3. QED
      BY <3>1, <3>2
  <2>4. PairedIn(more)
    BY <2>2, <2>3 DEF PairedIn
  <2>5. more[Len(more)] = m
    BY <1>1
  <2>6. QED
    BY <1>1, <2>4, <2>5 DEF more
<1>4. QED
  BY <1>2, <1>3

LEMMA WholeGoesOn ==
  ASSUME NEW msgs \in Seq(MessageRecord), Whole(msgs),
         NEW m \in MessageRecord, m.kind # "results"
  PROVE  /\ Append(msgs, m) \in Seq(MessageRecord)
         /\ Len(Append(msgs, m)) = Len(msgs) + 1
         /\ Append(msgs, m) # << >> /\ PairedIn(Append(msgs, m))
         /\ Append(msgs, m)[Len(Append(msgs, m))] = m
  BY PairsGoOn DEF Whole

LEMMA PrefixStays ==
  ASSUME NEW msgs \in Seq(MessageRecord), NEW m \in MessageRecord, NEW p \in Nat, p <= Len(msgs)
  PROVE  SubSeq(Append(msgs, m), 1, p) = SubSeq(msgs, 1, p)
<1>1. /\ Append(msgs, m) = msgs \o <<m>> /\ <<m>> \in Seq(MessageRecord)
      /\ Len(msgs) \in Nat
  BY AppendIsConcat, LenProperties
<1>2. CASE p = 0
  <2>1. p < 1 /\ p \in Int /\ 1 \in Int
    BY <1>2
  <2>2. QED
    BY <2>1, SubSeqEmpty
<1>3. CASE p # 0
  <2>1. 1 \in 1 .. Len(msgs) /\ p \in 1 .. Len(msgs)
    BY <1>1, <1>3
  <2>2. QED
    BY <1>1, <2>1, SubSeqOfConcat1
<1>4. QED
  BY <1>2, <1>3

(* What was kept and what is new are the history.                          *)
LEMMA KeptAndNew ==
  ASSUME NEW msgs \in Seq(MessageRecord), NEW p \in Nat, p <= Len(msgs)
  PROVE  LET new == SubSeq(msgs, p + 1, Len(msgs))
         IN  /\ new \in Seq(MessageRecord)
             /\ Len(new) = Len(msgs) - p
             /\ SubSeq(msgs, 1, p) \o new = msgs
<1> DEFINE new == SubSeq(msgs, p + 1, Len(msgs))
<1>1. Len(msgs) \in Nat
  BY LenProperties
<1>2. \A i \in p + 1 .. Len(msgs) : msgs[i] \in MessageRecord
  <2>1. \A i \in p + 1 .. Len(msgs) : i \in 1 .. Len(msgs)
    BY <1>1
  <2>2. QED
    BY <2>1, ElementOfSeq
<1>3. p + 1 \in Int /\ Len(msgs) \in Int
  BY <1>1
<1>4. new \in Seq(MessageRecord) /\ Len(new) = IF p + 1 <= Len(msgs) THEN Len(msgs) - (p + 1) + 1 ELSE 0
  BY <1>2, <1>3, SubSeqProperties
<1>5. SubSeq(msgs, 1, p) \o new = msgs
  <2>1. 1 \in 1 .. Len(msgs) + 1 /\ p \in 1 - 1 .. Len(msgs) /\ Len(msgs) \in p .. Len(msgs)
    BY <1>1
  <2>2. SubSeq(msgs, 1, p) \o SubSeq(msgs, p + 1, Len(msgs)) = SubSeq(msgs, 1, Len(msgs))
    BY <2>1, ConcatAdjacentSubSeq
  <2>3. SubSeq(msgs, 1, Len(msgs)) = msgs
    BY SubSeqFull
  <2>4. QED
    BY <2>2, <2>3
<1> HIDE DEF new
<1>6. Len(new) = Len(msgs) - p
  <2>1. CASE p + 1 <= Len(msgs)
    BY <1>1, <1>4, <2>1
  <2>2. CASE ~(p + 1 <= Len(msgs))
    BY <1>1, <1>4, <2>2
  <2>3. QED
    BY <2>1, <2>2
<1>7. QED
  BY <1>4, <1>5, <1>6 DEF new

(* A step of one writer: the log stays or grows.                           *)
LEMMA OneWriterSteps ==
  ASSUME DurInv, NEW w \in Writer,
         dur' \in [Writer -> DurRecord], \A v \in Writer \ {w} : dur'[v] = dur[v],
         RecordFacts(dur'[w], events'),
         events' \in Seq(EventRecord), MarkIsThere', ReplayIsWhole',
         events' = events \/ Len(events') > Len(events)
  PROVE  DurInv'
<1>1. ASSUME NEW v \in Writer PROVE RecordFacts(dur'[v], events')
  <2>1. CASE v = w
    BY <2>1
  <2>2. CASE v # w
    <3>1. dur'[v] = dur[v] /\ RecordFacts(dur[v], events) /\ dur[v] \in DurRecord
      BY <2>2 DEF DurInv, WritersAreSound, DurTypes
    <3>2. CASE events' = events
      BY <3>1, <3>2
    <3>3. CASE Len(events') > Len(events)
      <4>1. Len(events) \in Nat /\ Len(events') \in Nat /\ dur[v].head \in Nat
        BY <3>1, LenProperties DEF DurInv, DurTypes, DurRecord
      <4>2. dur[v].head <= Len(events') /\ dur[v].head # Len(events')
        BY <3>1, <3>3, <4>1 DEF RecordFacts
      <4>3. QED
        BY <3>1, <4>2 DEF RecordFacts
    <3>4. QED
      BY <3>2, <3>3
  <2>3. QED
    BY <2>1, <2>2
<1>2. QED
  BY <1>1 DEF DurInv, DurTypes, WritersAreSound

LEMMA QuietStep ==
  ASSUME DurInv, NEW w \in Writer, UNCHANGED events,
         dur' \in [Writer -> DurRecord], \A v \in Writer \ {w} : dur'[v] = dur[v],
         RecordFacts(dur'[w], events)
  PROVE  DurInv'
<1>1. RecordFacts(dur'[w], events')
  OBVIOUS
<1>2. events' \in Seq(EventRecord) /\ MarkIsThere' /\ ReplayIsWhole'
  BY DEF DurInv, DurTypes, MarkIsThere, ReplayIsWhole
<1>3. QED
  BY <1>1, <1>2, OneWriterSteps

LEMMA ClosedIsSound == Closed \in DurRecord /\ \A log \in Seq(EventRecord) : RecordFacts(Closed, log)
<1>1. Closed \in DurRecord
  <2>1. << >> \in Seq(MessageRecord) /\ 0 \in 0 .. MaxSteps
    BY EmptySeq, DurableConstants
  <2>2. QED
    BY <2>1 DEF Closed, DurRecord, DurStage
<1>2. ASSUME NEW log \in Seq(EventRecord) PROVE RecordFacts(Closed, log)
  <2>1. Len(log) \in Nat /\ Len(<< >>) = 0
    BY LenProperties
  <2>2. /\ Closed.at = "closed" /\ Closed.head = 0 /\ Closed.msgs = << >> /\ Closed.persisted = 0
    BY DEF Closed
  <2>3. QED
    BY <2>1, <2>2 DEF RecordFacts, Opening, Whole
<1>3. QED
  BY <1>1, <1>2

LEMMA CloseKeepsInv ==
  ASSUME DurInv, NEW w \in Writer, UNCHANGED events, dur' = [dur EXCEPT ![w] = Closed]
  PROVE  DurInv'
<1>1. /\ dur' \in [Writer -> DurRecord] /\ dur'[w] = Closed
      /\ \A v \in Writer \ {w} : dur'[v] = dur[v]
  BY ClosedIsSound DEF DurInv, DurTypes
<1>2. RecordFacts(dur'[w], events)
  BY <1>1, ClosedIsSound DEF DurInv, DurTypes
<1>3. QED
  BY <1>1, <1>2, QuietStep

LEMMA DurInvInit == DurInit => DurInv
<1>1. SUFFICES ASSUME DurInit PROVE DurInv
  OBVIOUS
<1>2. events = << >> /\ events \in Seq(EventRecord) /\ Len(events) = 0 /\ DOMAIN events = {}
  BY <1>1, EmptySeq DEF DurInit
<1>3. LastMarkAt(events, 0)
  BY <1>2 DEF LastMarkAt
<1>4. MarkIsThere
  BY <1>3 DEF MarkIsThere
<1>5. Replay(events) = << >>
  <2>1. 0 \in Nat
    OBVIOUS
  <2>2. Replay(events) = SubSeq(events, 0 + 1, Len(events))
    BY <1>2, <1>3, <2>1, ReplayFields
  <2>3. 0 + 1 \in Int /\ Len(events) \in Int /\ Len(events) < 0 + 1
    BY <1>2
  <2>4. QED
    BY <2>2, <2>3, SubSeqEmpty
<1>6. ReplayIsWhole
  BY <1>5 DEF ReplayIsWhole, Whole
<1>7. dur \in [Writer -> DurRecord] /\ WritersAreSound
  BY <1>1, <1>2, ClosedIsSound DEF DurInit, WritersAreSound
<1>8. QED
  BY <1>2, <1>4, <1>6, <1>7 DEF DurInv, DurTypes

(* The record of a writer, and what is so of it.                           *)
LEMMA WriterFields ==
  ASSUME DurInv, NEW w \in Writer
  PROVE  /\ dur \in [Writer -> DurRecord]
         /\ dur[w].at \in DurStage /\ dur[w].head \in Nat /\ dur[w].persisted \in Nat
         /\ dur[w].msgs \in Seq(MessageRecord) /\ dur[w].steps \in 0 .. MaxSteps
         /\ RecordFacts(dur[w], events)
         /\ events \in Seq(EventRecord) /\ Len(events) \in Nat
  BY LenProperties DEF DurInv, DurTypes, DurRecord, WritersAreSound

LEMMA WriterGoes ==
  ASSUME DurInv, NEW w \in Writer, NEW stage \in DurStage, dur' = [dur EXCEPT ![w].at = stage]
  PROVE  /\ dur' \in [Writer -> DurRecord] /\ \A v \in Writer \ {w} : dur'[v] = dur[v]
         /\ dur'[w].at = stage /\ dur'[w].head = dur[w].head
         /\ dur'[w].msgs = dur[w].msgs /\ dur'[w].persisted = dur[w].persisted
         /\ dur'[w].steps = dur[w].steps
  BY DEF DurInv, DurTypes, DurRecord

Spoken(r, stage, steps, msgs) == [r EXCEPT !.at = stage, !.steps = steps, !.msgs = msgs]

LEMMA SpokenFields ==
  ASSUME NEW r \in DurRecord, NEW stage \in DurStage, NEW msgs \in Seq(MessageRecord),
         NEW steps \in 0 .. MaxSteps
  PROVE  /\ Spoken(r, stage, steps, msgs) \in DurRecord
         /\ Spoken(r, stage, steps, msgs).at = stage
         /\ Spoken(r, stage, steps, msgs).head = r.head
         /\ Spoken(r, stage, steps, msgs).msgs = msgs
         /\ Spoken(r, stage, steps, msgs).persisted = r.persisted
         /\ Spoken(r, stage, steps, msgs).steps = steps
  BY DEF DurRecord, Spoken

Headed(r, stage, head) == [r EXCEPT !.at = stage, !.head = head]

Keeping(r, stage, head, msgs, persisted) ==
  [r EXCEPT !.at = stage, !.head = head, !.msgs = msgs, !.persisted = persisted]

LEMMA KeepingFields ==
  ASSUME NEW r \in DurRecord, NEW stage \in DurStage, NEW msgs \in Seq(MessageRecord),
         NEW head \in Nat, NEW persisted \in Nat
  PROVE  /\ Keeping(r, stage, head, msgs, persisted) \in DurRecord
         /\ Keeping(r, stage, head, msgs, persisted).at = stage
         /\ Keeping(r, stage, head, msgs, persisted).head = head
         /\ Keeping(r, stage, head, msgs, persisted).msgs = msgs
         /\ Keeping(r, stage, head, msgs, persisted).persisted = persisted
  BY DEF DurRecord, Keeping

LEMMA RecordIsPut ==
  ASSUME DurInv, NEW w \in Writer, NEW r \in DurRecord, dur' = [dur EXCEPT ![w] = r]
  PROVE  /\ dur' \in [Writer -> DurRecord] /\ \A v \in Writer \ {w} : dur'[v] = dur[v]
         /\ dur'[w] = r
  BY DEF DurInv, DurTypes

LEMMA MsgFields ==
  \A kind \in Kinds, w \in Writer :
    /\ Msg(kind, w) \in MessageRecord /\ Msg(kind, w).kind = kind
  BY DEF Msg, MessageRecord

(* `open`: what is read after the head may be newer, never older.          *)
LEMMA OpeningKeepsInv ==
  ASSUME DurInv, NEW w \in Writer, OpenDurable(w)
  PROVE  DurInv'
<1>1. CASE ReadHead(w)
  <2> DEFINE stage == IF Len(events) = 0 THEN "new" ELSE "headed"
             top == Len(events)
  <2>1. dur[w].at = "closed" /\ UNCHANGED events
    BY <1>1 DEF ReadHead
  <2>2. dur[w].msgs = << >> /\ dur[w].persisted = 0 /\ Whole(dur[w].msgs)
    BY <2>1, WriterFields DEF RecordFacts, Opening
  <2>3. /\ stage \in DurStage /\ top \in Nat /\ dur[w].msgs \in Seq(MessageRecord)
        /\ dur[w].persisted \in Nat
    BY WriterFields DEF DurStage
  <2>4. dur' = [dur EXCEPT ![w] = Headed(dur[w], stage, top)]
    BY <1>1, WriterFields DEF ReadHead, Headed, DurRecord
  <2>5. /\ dur' \in [Writer -> DurRecord] /\ \A v \in Writer \ {w} : dur'[v] = dur[v]
        /\ dur'[w].at = stage /\ dur'[w].head = top
        /\ dur'[w].msgs = dur[w].msgs /\ dur'[w].persisted = dur[w].persisted
    <3> HIDE DEF stage, top
    <3> DEFINE r == Headed(dur[w], stage, top)
    <3>1. dur[w] \in DurRecord
      BY DEF DurInv, DurTypes
    <3>2. /\ r \in DurRecord /\ r.at = stage /\ r.head = top
          /\ r.msgs = dur[w].msgs /\ r.persisted = dur[w].persisted
      BY <2>3, <3>1 DEF Headed, DurRecord
    <3> HIDE DEF r
    <3>3. dur' = [dur EXCEPT ![w] = r]
      BY <2>4 DEF r
    <3>4. QED
      BY <3>2, <3>3, RecordIsPut
  <2>6. RecordFacts(dur'[w], events)
    BY <2>2, <2>3, <2>5, WriterFields DEF RecordFacts, Opening
  <2>7. QED
    BY <2>1, <2>5, <2>6, QuietStep
<1>2. CASE CreateSession(w)
  <2>1. CASE dur' = [dur EXCEPT ![w] = Closed] /\ UNCHANGED events
    BY <2>1, CloseKeepsInv
  <2>2. CASE /\ Appends(0, <<Msg("started", w)>>)
             /\ dur' = [dur EXCEPT ![w].at = "open", ![w].head = 1]
    <3> DEFINE mark == Msg("started", w)
               one == 1
    <3>1. dur[w].at = "new"
      BY <1>2 DEF CreateSession
    <3>2. dur[w].msgs = << >> /\ dur[w].persisted = 0 /\ Whole(dur[w].msgs)
      BY <3>1, WriterFields DEF RecordFacts, Opening
    <3>3. mark \in EventRecord /\ mark.kind \in Marks
      BY DEF Msg, EventRecord, Marks
    <3>4. Len(events) = 0 /\ events' = Append(events, mark)
      BY <2>2, <3>3, WriterFields, AppendIsConcat DEF Appends
    <3>5. /\ events' \in Seq(EventRecord) /\ Len(events') = 1
          /\ LastMarkAt(events', 1) /\ Replay(events') = << >>
      <4>1. /\ events' \in Seq(EventRecord) /\ Len(events') = Len(events) + 1
            /\ LastMarkAt(events', Len(events) + 1) /\ Replay(events') = << >>
        BY <3>3, <3>4, WriterFields, ReplayOfMark
      <4>2. QED
        BY <3>4, <4>1
    <3>6. MarkIsThere'
      BY <3>5 DEF MarkIsThere
    <3>7. ReplayIsWhole'
      BY <3>5 DEF ReplayIsWhole, Whole
    <3>8. /\ dur' \in [Writer -> DurRecord] /\ \A v \in Writer \ {w} : dur'[v] = dur[v]
          /\ dur'[w].at = "open" /\ dur'[w].head = one
          /\ dur'[w].msgs = dur[w].msgs /\ dur'[w].persisted = dur[w].persisted
      <4>1. dur' = [dur EXCEPT ![w] = Headed(dur[w], "open", one)]
        BY <2>2, WriterFields DEF Headed, DurRecord
      <4>2. "open" \in DurStage /\ one \in Nat
        BY DEF DurStage
      <4>3. QED
        <5>1. dur[w].msgs \in Seq(MessageRecord) /\ dur[w].persisted \in Nat
          BY WriterFields
        <5> HIDE DEF one
        <5> DEFINE stage == "open"
                   r == Headed(dur[w], stage, one)
        <5>2. dur[w] \in DurRecord
          BY DEF DurInv, DurTypes
        <5>3. /\ r \in DurRecord /\ r.at = "open" /\ r.head = one
              /\ r.msgs = dur[w].msgs /\ r.persisted = dur[w].persisted
          <6>1. stage \in DurStage
            BY DEF DurStage
          <6>2. stage = "open"
            OBVIOUS
          <6> HIDE DEF stage
          <6>3. one \in Nat
            BY <4>2
          <6>4. /\ r \in DurRecord /\ r.at = stage /\ r.head = one
                /\ r.msgs = dur[w].msgs /\ r.persisted = dur[w].persisted
            BY <5>2, <6>1, <6>3 DEF Headed, DurRecord
          <6>5. QED
            BY <6>4, <6>2
        <5> HIDE DEF r
        <5>4. dur' = [dur EXCEPT ![w] = r]
          BY <4>1 DEF r
        <5>5. QED
          BY <5>3, <5>4, RecordIsPut
    <3>9. SubSeq(<< >>, 1, 0) = << >>
      BY SubSeqEmpty
    <3>10. RecordFacts(dur'[w], events')
      <4>1. Len(<< >>) = 0
        OBVIOUS
      <4>2. QED
        BY <3>2, <3>5, <3>8, <3>9, <4>1 DEF RecordFacts, Opening
    <3>11. Len(events') > Len(events)
      BY <3>4, <3>5
    <3>12. QED
      BY <3>5, <3>6, <3>7, <3>8, <3>10, <3>11, OneWriterSteps
  <2>3. QED
    BY <1>2, <2>1, <2>2 DEF CreateSession
<1>3. CASE ReadEvents(w)
  <2> DEFINE read == Replay(events)
  <2>1. PICK k \in Nat : LastMarkAt(events, k)
    BY DEF DurInv, MarkIsThere
  <2>2. read \in Seq(MessageRecord) /\ Len(read) \in Nat /\ SubSeq(read, 1, Len(read)) = read
    BY <2>1, WriterFields, ReplayFields, LenProperties, SubSeqFull
  <2>3. /\ dur' = [dur EXCEPT ![w] = Keeping(dur[w], "open", dur[w].head, read, Len(read))]
        /\ UNCHANGED events
    BY <1>3, WriterFields DEF ReadEvents, Keeping, DurRecord
  <2>4. "open" \in DurStage /\ dur[w].head \in Nat /\ dur[w].head <= Len(events)
    BY WriterFields DEF DurStage, RecordFacts
  <2>5. Whole(read)
    BY DEF DurInv, ReplayIsWhole
  <2> HIDE DEF read
  <2>6. /\ dur' \in [Writer -> DurRecord] /\ \A v \in Writer \ {w} : dur'[v] = dur[v]
        /\ dur'[w].at = "open" /\ dur'[w].head = dur[w].head
        /\ dur'[w].msgs = read /\ dur'[w].persisted = Len(read)
    <3> DEFINE head == dur[w].head
               count == Len(read)
               stage == "open"
               r == Keeping(dur[w], stage, head, read, count)
    <3>1. dur[w] \in DurRecord
      BY DEF DurInv, DurTypes
    <3>2. stage \in DurStage /\ head \in Nat /\ count \in Nat /\ read \in Seq(MessageRecord)
      BY <2>2, <2>4
    <3>3. dur' = [dur EXCEPT ![w] = r]
      BY <2>3
    <3>4. /\ r \in DurRecord /\ r.at = stage /\ r.head = head
          /\ r.msgs = read /\ r.persisted = count
      <4> HIDE DEF head, count, stage
      <4>1. QED
        BY <3>1, <3>2 DEF Keeping, DurRecord
    <3> HIDE DEF r
    <3>5. QED
      BY <3>3, <3>4, RecordIsPut
  <2>7. RecordFacts(dur'[w], events)
    BY <2>2, <2>4, <2>5, <2>6 DEF RecordFacts, Opening, read
  <2>8. QED
    BY <2>3, <2>6, <2>7, QuietStep
<1>4. QED
  BY <1>1, <1>2, <1>3 DEF OpenDurable

(* A compaction begins an epoch with its baseline, or finds it is not at   *)
(* the head.                                                               *)
LEMMA CompactingKeepsInv ==
  ASSUME DurInv, NEW w \in Writer, MaybeCompact(w)
  PROVE  DurInv'
<1>1. CASE Summarize(w)
  <2>1. CASE dur' = [dur EXCEPT ![w] = Closed] /\ UNCHANGED events
    BY <2>1, CloseKeepsInv
  <2>2. CASE dur' = [dur EXCEPT ![w].at = "summed"] /\ UNCHANGED events
    <3>1. dur[w].at = "open" /\ "summed" \in DurStage
      BY <1>1 DEF Summarize, DurStage
    <3>2. /\ dur' \in [Writer -> DurRecord] /\ \A v \in Writer \ {w} : dur'[v] = dur[v]
          /\ dur'[w].at = "summed" /\ dur'[w].head = dur[w].head
          /\ dur'[w].msgs = dur[w].msgs /\ dur'[w].persisted = dur[w].persisted
      BY <2>2, <3>1, WriterGoes
    <3>3. RecordFacts(dur'[w], events)
      BY <3>1, <3>2, WriterFields DEF RecordFacts, Opening
    <3>4. QED
      BY <2>2, <3>2, <3>3, QuietStep
  <2>3. QED
    BY <1>1, <2>1, <2>2 DEF Summarize
<1>2. CASE Compact(w)
  <2>1. CASE dur' = [dur EXCEPT ![w] = Closed] /\ UNCHANGED events
    BY <2>1, CloseKeepsInv
  <2>2. CASE /\ Appends(dur[w].head, <<Msg("epoch", w), Msg("summary", w)>>)
             /\ dur' = [dur EXCEPT ![w].at = "compacted", ![w].head = @ + 2,
                                   ![w].msgs = <<Msg("summary", w)>>, ![w].persisted = 1]
    <3> DEFINE mark == Msg("epoch", w)
               summary == Msg("summary", w)
               base == <<summary>>
               marked == Append(events, mark)
               head == dur[w].head + 2
               one == 1
    <3>1. mark \in EventRecord /\ mark.kind \in Marks
      BY DEF Msg, EventRecord, Marks
    <3>2. /\ summary \in MessageRecord /\ summary.kind = "summary"
          /\ base \in Seq(MessageRecord) /\ Len(base) = 1 /\ base # << >> /\ base[1] = summary
      BY MsgFields DEF Kinds
    <3>3. /\ marked \in Seq(EventRecord) /\ Len(marked) = Len(events) + 1
          /\ LastMarkAt(marked, Len(events) + 1) /\ Replay(marked) = << >>
      BY <3>1, WriterFields, ReplayOfMark
    <3>4. Len(events) = dur[w].head /\ events' = marked \o base
      <4>1. /\ <<mark>> \in Seq(EventRecord) /\ base \in Seq(EventRecord)
            /\ <<mark, summary>> = <<mark>> \o base
        <5>1. base \in Seq(EventRecord)
          BY <3>2, MessagesAreEvents
        <5> HIDE DEF mark, summary
        <5>2. <<mark>> \in Seq(EventRecord)
          BY <3>1
        <5>3. <<mark>> \o <<summary>> = <<mark, summary>>
          <6>1. summary \in EventRecord
            BY <3>2 DEF MessageRecord, EventRecord
          <6>2. <<summary>> \in Seq(EventRecord) /\ <<mark, summary>> \in Seq(EventRecord)
            BY <3>1, <6>1
          <6>3. /\ <<mark>> \o <<summary>> \in Seq(EventRecord)
                /\ Len(<<mark>> \o <<summary>>) = Len(<<mark>>) + Len(<<summary>>)
                /\ \A i \in 1 .. Len(<<mark>>) + Len(<<summary>>) :
                     (<<mark>> \o <<summary>>)[i] =
                       IF i <= Len(<<mark>>) THEN <<mark>>[i] ELSE <<summary>>[i - Len(<<mark>>)]
            BY <5>2, <6>2, ConcatProperties
          <6>4. /\ Len(<<mark>>) = 1 /\ Len(<<summary>>) = 1 /\ Len(<<mark, summary>>) = 2
                /\ <<mark>>[1] = mark /\ <<summary>>[1] = summary
                /\ <<mark, summary>>[1] = mark /\ <<mark, summary>>[2] = summary
            OBVIOUS
          <6>5. \A i \in 1 .. 2 : (<<mark>> \o <<summary>>)[i] = <<mark, summary>>[i]
            <7>1. (<<mark>> \o <<summary>>)[1] = mark
              BY <6>3, <6>4
            <7>2. (<<mark>> \o <<summary>>)[2] = summary
              BY <6>3, <6>4
            <7>3. QED
              BY <6>4, <7>1, <7>2
          <6> DEFINE joined == <<mark>> \o <<summary>>
                     pair == <<mark, summary>>
          <6>6. joined \in Seq(EventRecord) /\ pair \in Seq(EventRecord) /\ Len(joined) = Len(pair)
            BY <6>2, <6>3, <6>4
          <6>7. \A i \in 1 .. Len(joined) : joined[i] = pair[i]
            <7>1. Len(joined) = 2
              BY <6>3, <6>4
            <7>2. \A i \in 1 .. 2 : joined[i] = pair[i]
              BY <6>5
            <7> HIDE DEF joined, pair
            <7>3. QED
              BY <7>1, <7>2
          <6>8. joined = pair
            <7> HIDE DEF joined, pair
            <7>1. QED
              BY <6>6, <6>7, SeqEqual
          <6>9. QED
            BY <6>8
        <5>4. QED
          BY <5>1, <5>2, <5>3
      <4>2. events \o (<<mark>> \o base) = (events \o <<mark>>) \o base
        BY <4>1, WriterFields, ConcatAssociative
      <4>3. marked = events \o <<mark>>
        BY <3>1, WriterFields, AppendIsConcat
      <4>4. Len(events) = dur[w].head /\ events' = events \o <<mark, summary>>
        BY <2>2 DEF Appends
      <4>5. QED
        BY <4>1, <4>2, <4>3, <4>4
    <3> HIDE DEF marked, base, summary, mark
    <3>5. /\ events' \in Seq(EventRecord) /\ LastMarkAt(events', Len(events) + 1)
          /\ Replay(events') = Replay(marked) \o base
      <4>1. Len(events) + 1 \in Nat
        BY WriterFields
      <4>2. QED
        BY <3>2, <3>3, <3>4, <4>1, ReplayAppends
    <3>6. Replay(events') = base
      BY <3>2, <3>3, <3>5, ConcatEmptySeq
    <3>7. Len(events') = Len(events) + 2
      <4>1. Len(events') = Len(marked) + Len(base)
        BY <3>2, <3>3, <3>4, MessagesAreEvents, ConcatProperties
      <4>2. QED
        BY <3>2, <3>3, <4>1, WriterFields
    <3>8. Whole(base)
      BY <3>2 DEF Whole, PairedIn
    <3>9. MarkIsThere' /\ ReplayIsWhole'
      <4>1. Len(events) + 1 \in Nat
        BY WriterFields
      <4>2. QED
        BY <3>5, <3>6, <3>8, <4>1 DEF MarkIsThere, ReplayIsWhole
    <3>10. /\ dur' \in [Writer -> DurRecord] /\ \A v \in Writer \ {w} : dur'[v] = dur[v]
           /\ dur'[w].at = "compacted" /\ dur'[w].head = head
           /\ dur'[w].msgs = base /\ dur'[w].persisted = one
      <4>1. dur' = [dur EXCEPT ![w] = Keeping(dur[w], "compacted", head, base, one)]
        BY <2>2, WriterFields DEF Keeping, DurRecord, base, summary
      <4>2. "compacted" \in DurStage /\ head \in Nat /\ one \in Nat
        BY WriterFields DEF DurStage
      <4> HIDE DEF head, one
      <4> DEFINE r == Keeping(dur[w], "compacted", head, base, one)
      <4>3. dur[w] \in DurRecord
        BY DEF DurInv, DurTypes
      <4>4. r \in DurRecord /\ r.at = "compacted" /\ r.head = head /\ r.msgs = base /\ r.persisted = one
        BY <3>2, <4>2, <4>3, KeepingFields
      <4> HIDE DEF r
      <4>5. dur' = [dur EXCEPT ![w] = r]
        BY <4>1 DEF r
      <4>6. QED
        BY <4>4, <4>5, RecordIsPut
    <3>11. SubSeq(base, 1, 1) = base
      BY <3>2, SubSeqFull
    <3>12. RecordFacts(dur'[w], events')
      BY <3>2, <3>4, <3>6, <3>7, <3>8, <3>10, <3>11, WriterFields DEF RecordFacts, Opening
    <3>13. Len(events') > Len(events)
      BY <3>7, WriterFields
    <3>14. QED
      BY <3>5, <3>9, <3>10, <3>12, <3>13, OneWriterSteps
  <2>3. QED
    BY <1>2, <2>1, <2>2 DEF Compact
<1>3. QED
  BY <1>1, <1>2 DEF MaybeCompact

(* The turn. *)
LEMMA UserSpeaks ==
  ASSUME DurInv, NEW w \in Writer, PushUser(w)
  PROVE  DurInv'
<1> DEFINE m == Msg("user", w)
           msgs == Append(dur[w].msgs, m)
           none == 0
           stage == "turn"
<1>1. dur[w].at \in {"compacted", "open"} /\ UNCHANGED events
  BY DEF PushUser
<1>2. m \in MessageRecord /\ m.kind = "user"
  BY MsgFields DEF Kinds
<1>3. Whole(dur[w].msgs)
  BY <1>1, WriterFields DEF RecordFacts
<1>4. dur' = [dur EXCEPT ![w].at = stage, ![w].steps = none, ![w].msgs = msgs]
  BY DEF PushUser
<1> HIDE DEF m
<1>5. /\ msgs \in Seq(MessageRecord) /\ Len(msgs) = Len(dur[w].msgs) + 1
      /\ msgs # << >> /\ PairedIn(msgs) /\ msgs[Len(msgs)] = m
  BY <1>2, <1>3, WriterFields, WholeGoesOn
<1>6. dur[w].persisted <= Len(dur[w].msgs) /\ Len(dur[w].msgs) \in Nat
  BY WriterFields, LenProperties DEF RecordFacts
<1>7. SubSeq(msgs, 1, dur[w].persisted) = SubSeq(dur[w].msgs, 1, dur[w].persisted)
  BY <1>2, <1>6, WriterFields, PrefixStays
<1>8. none \in 0 .. MaxSteps /\ none < MaxSteps /\ stage \in DurStage
      /\ stage = "turn"
  BY DurableConstants DEF DurStage
<1> HIDE DEF msgs, none, stage
<1>9. /\ dur' \in [Writer -> DurRecord] /\ \A v \in Writer \ {w} : dur'[v] = dur[v]
      /\ dur'[w].at = stage /\ dur'[w].head = dur[w].head
      /\ dur'[w].msgs = msgs /\ dur'[w].persisted = dur[w].persisted
      /\ dur'[w].steps = none
  <2> DEFINE r == Spoken(dur[w], stage, none, msgs)
  <2>1. dur[w] \in DurRecord /\ dur \in [Writer -> DurRecord]
    BY DEF DurInv, DurTypes
  <2>2. /\ r \in DurRecord /\ r.at = stage /\ r.head = dur[w].head
        /\ r.msgs = msgs /\ r.persisted = dur[w].persisted /\ r.steps = none
    BY <1>5, <1>8, <2>1, SpokenFields
  <2>3. dur' = [dur EXCEPT ![w] = r]
    BY <1>4, <2>1 DEF Spoken, DurRecord
  <2> HIDE DEF r
  <2>4. QED
    BY <2>2, <2>3, RecordIsPut
<1>10. msgs[Len(msgs)].kind # "tools" /\ Whole(msgs)
  BY <1>2, <1>5 DEF Whole
<1>11. RecordFacts(dur'[w], events)
  <2>1. dur[w].persisted <= Len(msgs)
    BY <1>5, <1>6, WriterFields
  <2>2. dur[w].head = Len(events) => Replay(events) = SubSeq(msgs, 1, dur[w].persisted)
    BY <1>1, <1>7, WriterFields DEF RecordFacts, Opening
  <2>3. dur[w].head <= Len(events)
    BY WriterFields DEF RecordFacts
  <2>4. QED
    BY <1>5, <1>8, <1>9, <1>10, <2>1, <2>2, <2>3 DEF RecordFacts, Opening
<1>12. QED
  BY <1>1, <1>9, <1>11, QuietStep

(* An assistant's turn follows what is not a turn with tools.              *)
LEMMA AssistantSpeaks ==
  ASSUME DurInv, NEW w \in Writer, dur[w].at = "turn", UNCHANGED events,
         NEW kind \in {"text", "cut", "tools"},
         dur' = [dur EXCEPT ![w].at = IF kind = "tools" THEN "running" ELSE "answered",
                            ![w].msgs = Append(@, Msg(kind, w))]
  PROVE  DurInv'
<1> DEFINE m == Msg(kind, w)
           msgs == Append(dur[w].msgs, m)
           stage == IF kind = "tools" THEN "running" ELSE "answered"
           steps == dur[w].steps
<1>1. m \in MessageRecord /\ m.kind = kind /\ kind # "results"
  BY MsgFields DEF Kinds
<1>2. Whole(dur[w].msgs)
  BY WriterFields DEF RecordFacts
<1>3. dur' = [dur EXCEPT ![w].at = stage, ![w].steps = steps, ![w].msgs = msgs]
  <2>1. dur[w] \in DurRecord /\ dur \in [Writer -> DurRecord]
    BY DEF DurInv, DurTypes
  <2>2. QED
    BY <2>1 DEF DurRecord
<1> HIDE DEF m
<1>4. /\ msgs \in Seq(MessageRecord) /\ Len(msgs) = Len(dur[w].msgs) + 1
      /\ msgs # << >> /\ PairedIn(msgs) /\ msgs[Len(msgs)] = m
  BY <1>1, <1>2, WriterFields, WholeGoesOn
<1>5. dur[w].persisted <= Len(dur[w].msgs) /\ Len(dur[w].msgs) \in Nat
  BY WriterFields, LenProperties DEF RecordFacts
<1>6. SubSeq(msgs, 1, dur[w].persisted) = SubSeq(dur[w].msgs, 1, dur[w].persisted)
  BY <1>1, <1>5, WriterFields, PrefixStays
<1>7. stage \in DurStage /\ (stage = "running" <=> kind = "tools")
      /\ stage \in {"running", "answered"} /\ steps \in 0 .. MaxSteps
  BY WriterFields DEF DurStage
<1> HIDE DEF msgs, stage, steps
<1>8. /\ dur' \in [Writer -> DurRecord] /\ \A v \in Writer \ {w} : dur'[v] = dur[v]
      /\ dur'[w].at = stage /\ dur'[w].head = dur[w].head
      /\ dur'[w].msgs = msgs /\ dur'[w].persisted = dur[w].persisted
      /\ dur'[w].steps = steps
  <2> DEFINE r == Spoken(dur[w], stage, steps, msgs)
  <2>1. dur[w] \in DurRecord /\ dur \in [Writer -> DurRecord]
    BY DEF DurInv, DurTypes
  <2>2. /\ r \in DurRecord /\ r.at = stage /\ r.head = dur[w].head
        /\ r.msgs = msgs /\ r.persisted = dur[w].persisted /\ r.steps = steps
    BY <1>4, <1>7, <2>1, SpokenFields
  <2>3. dur' = [dur EXCEPT ![w] = r]
    BY <1>3, <2>1 DEF Spoken, DurRecord
  <2> HIDE DEF r
  <2>4. QED
    BY <2>2, <2>3, RecordIsPut
<1>9. RecordFacts(dur'[w], events)
  <2>1. dur[w].persisted <= Len(msgs)
    BY <1>4, <1>5, WriterFields
  <2>2. dur[w].head = Len(events) => Replay(events) = SubSeq(msgs, 1, dur[w].persisted)
    BY <1>6, WriterFields DEF RecordFacts, Opening
  <2>3. dur[w].head <= Len(events) /\ steps < MaxSteps
    BY WriterFields DEF RecordFacts, steps
  <2>4. stage # "running" => Whole(msgs)
    BY <1>1, <1>4, <1>7 DEF Whole
  <2>5. stage = "running" => msgs[Len(msgs)].kind = "tools"
    BY <1>1, <1>4, <1>7
  <2>6. dur'[w].at \notin Opening
    BY <1>7, <1>8 DEF Opening
  <2>7. QED
    BY <1>4, <1>8, <2>1, <2>2, <2>3, <2>4, <2>5, <2>6 DEF RecordFacts, Opening
<1>10. QED
  BY <1>8, <1>9, QuietStep

LEMMA TurnKeepsInv ==
  ASSUME DurInv, NEW w \in Writer, ContinueRun(w)
  PROVE  DurInv'
<1>1. CASE Generate(w)
  <2>1. dur[w].at = "turn" /\ UNCHANGED events
    BY <1>1 DEF Generate
  <2>2. CASE dur' = [dur EXCEPT ![w].at = "broken"]
    <3>1. /\ dur' \in [Writer -> DurRecord] /\ \A v \in Writer \ {w} : dur'[v] = dur[v]
          /\ dur'[w].at = "broken" /\ dur'[w].head = dur[w].head
          /\ dur'[w].msgs = dur[w].msgs /\ dur'[w].persisted = dur[w].persisted
      <4>1. "broken" \in DurStage
        BY DEF DurStage
      <4>2. QED
        BY <2>2, <4>1, WriterGoes
    <3>2. RecordFacts(dur'[w], events)
      BY <2>1, <3>1, WriterFields DEF RecordFacts, Opening
    <3>3. QED
      BY <2>1, <3>1, <3>2, QuietStep
  <2>3. ASSUME NEW kind \in {"text", "cut"},
               dur' = [dur EXCEPT ![w].at = "answered", ![w].msgs = Append(@, Msg(kind, w))]
        PROVE  DurInv'
    <3>1. kind \in {"text", "cut", "tools"} /\ kind # "tools"
      OBVIOUS
    <3>2. dur' = [dur EXCEPT ![w].at = IF kind = "tools" THEN "running" ELSE "answered",
                             ![w].msgs = Append(@, Msg(kind, w))]
      BY <2>3, <3>1
    <3>3. QED
      BY <2>1, <3>1, <3>2, AssistantSpeaks
  <2>4. CASE dur' = [dur EXCEPT ![w].at = "running", ![w].msgs = Append(@, Msg("tools", w))]
    <3> DEFINE kind == "tools"
    <3>1. kind \in {"text", "cut", "tools"} /\ kind = "tools"
      OBVIOUS
    <3>2. dur' = [dur EXCEPT ![w].at = IF kind = "tools" THEN "running" ELSE "answered",
                             ![w].msgs = Append(@, Msg(kind, w))]
      BY <2>4
    <3> HIDE DEF kind
    <3>3. QED
      BY <2>1, <3>1, <3>2, AssistantSpeaks
  <2>5. QED
    BY <1>1, <2>2, <2>3, <2>4 DEF Generate
<1>2. CASE RunTools(w)
  <2> DEFINE m == Msg("results", w)
             msgs == Append(dur[w].msgs, m)
             stage == IF dur[w].steps + 1 = MaxSteps THEN "broken" ELSE "turn"
             steps == dur[w].steps + 1
  <2>1. dur[w].at = "running" /\ UNCHANGED events
    BY <1>2 DEF RunTools
  <2>2. m \in MessageRecord /\ m.kind = "results"
    BY MsgFields DEF Kinds
  <2>3. dur' = [dur EXCEPT ![w].at = stage, ![w].steps = steps, ![w].msgs = msgs]
    BY <1>2 DEF RunTools
  <2> HIDE DEF m
  <2>4. /\ msgs \in Seq(MessageRecord) /\ Len(msgs) = Len(dur[w].msgs) + 1
        /\ msgs # << >> /\ PairedIn(msgs) /\ msgs[Len(msgs)] = m
    <3>1. /\ dur[w].msgs # << >> /\ PairedIn(dur[w].msgs)
          /\ dur[w].msgs[Len(dur[w].msgs)].kind = "tools"
      BY <2>1, WriterFields DEF RecordFacts
    <3>2. QED
      BY <2>2, <3>1, WriterFields, PairsGoOn
  <2>5. dur[w].persisted <= Len(dur[w].msgs) /\ Len(dur[w].msgs) \in Nat
    BY WriterFields, LenProperties DEF RecordFacts
  <2>6. SubSeq(msgs, 1, dur[w].persisted) = SubSeq(dur[w].msgs, 1, dur[w].persisted)
    BY <2>2, <2>5, WriterFields, PrefixStays
  <2>7. stage \in DurStage /\ stage \in {"broken", "turn"} /\ steps \in 0 .. MaxSteps
        /\ (stage = "turn" => steps < MaxSteps)
    <3>1. dur[w].steps \in 0 .. MaxSteps /\ dur[w].steps < MaxSteps
      BY <2>1, WriterFields DEF RecordFacts
    <3>2. steps \in 0 .. MaxSteps /\ (steps # MaxSteps => steps < MaxSteps)
      BY <3>1, DurableConstants
    <3>3. QED
      BY <3>2 DEF DurStage
  <2> HIDE DEF msgs, stage, steps
  <2>8. /\ dur' \in [Writer -> DurRecord] /\ \A v \in Writer \ {w} : dur'[v] = dur[v]
        /\ dur'[w].at = stage /\ dur'[w].head = dur[w].head
        /\ dur'[w].msgs = msgs /\ dur'[w].persisted = dur[w].persisted
        /\ dur'[w].steps = steps
    <3> DEFINE r == Spoken(dur[w], stage, steps, msgs)
    <3>1. dur[w] \in DurRecord /\ dur \in [Writer -> DurRecord]
      BY DEF DurInv, DurTypes
    <3>2. /\ r \in DurRecord /\ r.at = stage /\ r.head = dur[w].head
          /\ r.msgs = msgs /\ r.persisted = dur[w].persisted /\ r.steps = steps
      BY <2>4, <2>7, <3>1, SpokenFields
    <3>3. dur' = [dur EXCEPT ![w] = r]
      BY <2>3, <3>1 DEF Spoken, DurRecord
    <3> HIDE DEF r
    <3>4. QED
      BY <3>2, <3>3, RecordIsPut
  <2>9. Whole(msgs)
    BY <2>2, <2>4 DEF Whole
  <2>10. RecordFacts(dur'[w], events)
    <3>1. dur[w].persisted <= Len(msgs)
      BY <2>4, <2>5, WriterFields
    <3>2. dur[w].head = Len(events) => Replay(events) = SubSeq(msgs, 1, dur[w].persisted)
      BY <2>1, <2>6, WriterFields DEF RecordFacts, Opening
    <3>3. dur[w].head <= Len(events)
      BY WriterFields DEF RecordFacts
    <3>4. dur'[w].at \notin Opening /\ dur'[w].at # "running"
      BY <2>7, <2>8 DEF Opening
    <3>5. dur'[w].at \in {"turn", "running"} => dur'[w].steps < MaxSteps
      BY <2>7, <2>8
    <3>6. QED
      BY <2>4, <2>8, <2>9, <3>1, <3>2, <3>3, <3>4, <3>5 DEF RecordFacts, Opening
  <2>11. QED
    BY <2>1, <2>8, <2>10, QuietStep
<1>3. QED
  BY <1>1, <1>2 DEF ContinueRun

(* What is new is appended at the head that was read, or nothing is.       *)
LEMMA KeepingKeepsInv ==
  ASSUME DurInv, NEW w \in Writer, PersistNew(w)
  PROVE  DurInv'
<1> DEFINE msgs == dur[w].msgs
           p == dur[w].persisted
           new == SubSeq(msgs, p + 1, Len(msgs))
           stage == IF dur[w].at = "broken" THEN "lost" ELSE "kept"
           head == dur[w].head + Len(new)
           all == Len(msgs)
<1>1. /\ dur[w].at \in {"answered", "broken"} /\ dur[w].at \notin Opening /\ dur[w].at # "running"
      /\ stage \in {"kept", "lost"} /\ stage \in DurStage
  BY DEF PersistNew, Opening, DurStage
<1>2. /\ msgs \in Seq(MessageRecord) /\ p \in Nat /\ all \in Nat /\ p <= Len(msgs)
      /\ dur[w].head \in Nat /\ dur[w].head <= Len(events) /\ Len(events) \in Nat
      /\ Whole(msgs)
      /\ dur[w].head = Len(events) => Replay(events) = SubSeq(msgs, 1, p)
  BY <1>1, WriterFields, LenProperties DEF RecordFacts
<1>3. /\ new \in Seq(MessageRecord) /\ Len(new) = Len(msgs) - p /\ SubSeq(msgs, 1, p) \o new = msgs
  BY <1>2, KeptAndNew
<1>4. CASE /\ Appends(dur[w].head, new)
           /\ dur' = [dur EXCEPT ![w].at = IF @ = "broken" THEN "lost" ELSE "kept",
                                 ![w].head = @ + Len(new),
                                 ![w].persisted = Len(dur[w].msgs)]
  <2>1. Len(events) = dur[w].head /\ events' = events \o new
    BY <1>4 DEF Appends
  <2>2. dur' = [dur EXCEPT ![w] = Keeping(dur[w], stage, head, msgs, all)]
    <3>1. dur[w] \in DurRecord /\ dur \in [Writer -> DurRecord]
      BY DEF DurInv, DurTypes
    <3> HIDE DEF new
    <3>2. QED
      BY <1>4, <3>1 DEF Keeping, DurRecord
  <2>3. PICK k \in Nat : LastMarkAt(events, k)
    BY DEF DurInv, MarkIsThere
  <2> HIDE DEF new
  <2>4. /\ events' \in Seq(EventRecord) /\ LastMarkAt(events', k)
        /\ Replay(events') = Replay(events) \o new
    BY <1>3, <2>1, <2>3, WriterFields, ReplayAppends
  <2>5. Replay(events') = msgs
    BY <1>2, <1>3, <2>1, <2>4
  <2>6. MarkIsThere' /\ ReplayIsWhole'
    BY <1>2, <2>4, <2>5 DEF MarkIsThere, ReplayIsWhole
  <2>7. Len(events') = Len(events) + Len(new) /\ Len(new) \in Nat /\ head \in Nat
    <3>1. events \in Seq(EventRecord) /\ new \in Seq(EventRecord)
      BY <1>3, WriterFields, MessagesAreEvents
    <3>2. Len(events \o new) = Len(events) + Len(new) /\ Len(new) \in Nat
      BY <3>1, ConcatProperties, LenProperties
    <3>3. QED
      BY <1>2, <2>1, <3>2
  <2>8. events' = events \/ Len(events') > Len(events)
    <3>1. CASE Len(new) = 0
      <4>1. new = << >>
        BY <1>3, <3>1, EmptySeq
      <4>2. QED
        BY <2>1, <4>1, WriterFields, ConcatEmptySeq
    <3>2. CASE Len(new) # 0
      BY <2>7, <3>2, <1>2
    <3>3. QED
      BY <3>1, <3>2
  <2>9. head = Len(events')
    BY <2>1, <2>7
  <2>10. SubSeq(msgs, 1, all) = msgs
    BY <1>2, SubSeqFull
  <2> HIDE DEF stage, head, all
  <2>11. /\ dur' \in [Writer -> DurRecord] /\ \A v \in Writer \ {w} : dur'[v] = dur[v]
         /\ dur'[w].at = stage /\ dur'[w].head = head
         /\ dur'[w].msgs = msgs /\ dur'[w].persisted = all
    <3> DEFINE r == Keeping(dur[w], stage, head, msgs, all)
    <3>1. dur[w] \in DurRecord
      BY DEF DurInv, DurTypes
    <3> HIDE DEF msgs
    <3>2. msgs \in Seq(MessageRecord) /\ all \in Nat /\ head \in Nat /\ stage \in DurStage
      BY <1>1, <1>2, <2>7
    <3>3. /\ r \in DurRecord /\ r.at = stage /\ r.head = head
          /\ r.msgs = msgs /\ r.persisted = all
      <4>1. PICK d \in DurRecord : d = dur[w]
        BY <3>1
      <4>2. LET kept == Keeping(d, stage, head, msgs, all)
            IN  /\ kept \in DurRecord /\ kept.at = stage /\ kept.head = head
                /\ kept.msgs = msgs /\ kept.persisted = all
        BY <3>2, KeepingFields
      <4>3. QED
        BY <4>1, <4>2
    <3>4. dur' = [dur EXCEPT ![w] = r]
      BY <2>2
    <3> HIDE DEF r
    <3>5. QED
      BY <3>3, <3>4, RecordIsPut
  <2>12. RecordFacts(dur'[w], events')
    <3>1. all <= Len(msgs) /\ head <= Len(events')
      BY <1>2, <2>9, WriterFields DEF all
    <3>2. stage \notin Opening /\ stage \notin {"turn", "running"}
      BY <1>1 DEF Opening
    <3> HIDE DEF msgs
    <3>3. QED
      BY <1>2, <2>5, <2>10, <2>11, <3>1, <3>2 DEF RecordFacts, Opening
  <2>13. QED
    BY <2>4, <2>6, <2>8, <2>11, <2>12, OneWriterSteps
<1>5. CASE /\ Len(events) # dur[w].head
           /\ dur' = [dur EXCEPT ![w].at = IF @ = "broken" THEN "lost" ELSE "kept"]
           /\ UNCHANGED events
  <2>1. dur' = [dur EXCEPT ![w].at = stage]
    <3>1. dur \in [Writer -> DurRecord]
      BY DEF DurInv, DurTypes
    <3>2. QED
      BY <1>5, <3>1
  <2> HIDE DEF stage, msgs, p, new, all
  <2>2. /\ dur' \in [Writer -> DurRecord] /\ \A v \in Writer \ {w} : dur'[v] = dur[v]
        /\ dur'[w].at = stage /\ dur'[w].head = dur[w].head
        /\ dur'[w].msgs = dur[w].msgs /\ dur'[w].persisted = dur[w].persisted
    BY <1>1, <2>1, WriterGoes
  <2>3. RecordFacts(dur'[w], events)
    BY <1>1, <2>2, WriterFields DEF RecordFacts, Opening
  <2>4. QED
    BY <1>5, <2>2, <2>3, QuietStep
<1>6. QED
  <2>1. \/ /\ Appends(dur[w].head, new)
           /\ dur' = [dur EXCEPT ![w].at = IF @ = "broken" THEN "lost" ELSE "kept",
                                 ![w].head = @ + Len(new),
                                 ![w].persisted = Len(dur[w].msgs)]
        \/ /\ Len(events) # dur[w].head
           /\ dur' = [dur EXCEPT ![w].at = IF @ = "broken" THEN "lost" ELSE "kept"]
           /\ UNCHANGED events
    BY DEF PersistNew
  <2>2. QED
    BY <1>4, <1>5, <2>1

LEMMA DurInvStep == DurInv /\ [DurNext]_durVars => DurInv'
<1> SUFFICES ASSUME DurInv, [DurNext]_durVars PROVE DurInv'
  OBVIOUS
<1>1. ASSUME NEW w \in Writer, RunOnce(w) \/ WriterDies(w) PROVE DurInv'
  <2>1. CASE NextTurn(w)
    <3>1. CASE dur' = [dur EXCEPT ![w] = Closed]
      BY <2>1, <3>1, CloseKeepsInv DEF NextTurn
    <3>2. CASE dur[w].at = "kept" /\ dur' = [dur EXCEPT ![w].at = "open"]
      <4>1. "open" \in DurStage
        BY DEF DurStage
      <4>2. /\ dur' \in [Writer -> DurRecord] /\ \A v \in Writer \ {w} : dur'[v] = dur[v]
            /\ dur'[w].at = "open" /\ dur'[w].head = dur[w].head
            /\ dur'[w].msgs = dur[w].msgs /\ dur'[w].persisted = dur[w].persisted
        BY <3>2, <4>1, WriterGoes
      <4>3. RecordFacts(dur'[w], events)
        BY <3>2, <4>2, WriterFields DEF RecordFacts, Opening
      <4>4. QED
        BY <2>1, <4>2, <4>3, QuietStep DEF NextTurn
    <3>3. QED
      BY <2>1, <3>1, <3>2 DEF NextTurn
  <2>2. CASE WriterDies(w)
    BY <2>2, CloseKeepsInv DEF WriterDies
  <2>3. QED
    BY <1>1, <2>1, <2>2, OpeningKeepsInv, CompactingKeepsInv, UserSpeaks, TurnKeepsInv,
       KeepingKeepsInv DEF RunOnce
<1>2. CASE UNCHANGED durVars
  BY <1>2 DEF durVars, DurInv, DurTypes, MarkIsThere, ReplayIsWhole, WritersAreSound
<1>3. QED
  BY <1>1, <1>2 DEF DurNext

LEMMA DurInvHolds == DurSpec => []DurInv
<1>1. QED
  BY DurInvInit, DurInvStep, PTL DEF DurSpec

(* Whoever else writes to a session (`open`, `maybe_compact`, persist_new, *)
(* session.rs), a writer whose head is the store's has in memory what a    *)
(* replay gives, and tools are followed by their results.                  *)
THEOREM HistoriesAreCoherent == DurSpec => []HistoryIsCoherent
<1>1. DurInv => HistoryIsCoherent
  BY DEF DurInv, WritersAreSound, RecordFacts, Opening, HistoryIsCoherent
<1>2. QED
  BY <1>1, DurInvHolds, PTL

-----------------------------------------------------------------------------
(* The least of some numbers, by the well-foundedness of finite sets.      *)
LEMMA LeastNat ==
  ASSUME NEW T \in SUBSET Nat, T # {}
  PROVE  \E x \in T : \A y \in T : x <= y
<1>1. PICK b \in T : TRUE
  OBVIOUS
<1> DEFINE Below(x) == 1 .. x
           Family == {Below(x) : x \in T}
<1>2. Family \subseteq FiniteSubsetsOf(Nat) /\ Family # {}
  <2>1. \A x \in T : IsFiniteSet(Below(x)) /\ Below(x) \subseteq Nat
    BY FS_Interval
  <2>2. QED
    BY <1>1, <2>1 DEF FiniteSubsetsOf
<1>3. IsWellFoundedOn(StrictSubsetOrdering(Nat), FiniteSubsetsOf(Nat))
  BY FS_StrictSubsetOrderingWellFounded
<1>4. PICK m \in Family : \A o \in Family : ~(<<o, m>> \in StrictSubsetOrdering(Nat))
  <2> HIDE DEF Family
  <2>1. QED
    BY <1>2, <1>3, WFMin
<1>5. PICK x \in T : m = Below(x)
  OBVIOUS
<1>6. ASSUME NEW y \in T PROVE x <= y
  <2>1. SUFFICES ASSUME y < x PROVE FALSE
    OBVIOUS
  <2>2. Below(y) \subseteq Below(x) /\ Below(y) # Below(x)
    <3>1. x \in Below(x) /\ x \notin Below(y)
      BY <2>1
    <3>2. QED
      BY <2>1, <3>1
  <2>3. <<Below(y), m>> \in StrictSubsetOrdering(Nat)
    BY <1>5, <2>2 DEF StrictSubsetOrdering
  <2>4. QED
    BY <1>4, <2>3
<1>7. QED
  BY <1>6

-----------------------------------------------------------------------------
(* The rules: rows in their order.                                         *)
RuleScope == Prefix \cup {NoPrefix}
RuleRow == [id : Nat, profile : Profile, tool : Tool, scope : RuleScope, decision : Decision]
DefaultRow == [tool : Tool, scope : RuleScope, decision : Decision]
EditRow == [op : {"set", "revoke"}, rule : RuleRow]

LEMMA PrecedesIsOrder ==
  ASSUME NEW S \in SUBSET RuleRow, \A r, q \in S : r.id = q.id => r = q
  PROVE  /\ \A r \in S : ~Precedes(r, r)
         /\ \A r, q \in S : r = q \/ Precedes(r, q) \/ Precedes(q, r)
         /\ \A r, q, s \in S : Precedes(r, q) /\ Precedes(q, s) => Precedes(r, s)
<1>1. \A r \in S : r.id \in Nat
  BY DEF RuleRow
<1>2. \A r \in S : ~Precedes(r, r)
  BY <1>1 DEF Precedes
<1>3. \A r, q \in S : r = q \/ Precedes(r, q) \/ Precedes(q, r)
  BY <1>1 DEF Precedes
<1>4. \A r, q, s \in S : Precedes(r, q) /\ Precedes(q, s) => Precedes(r, s)
  BY <1>1 DEF Precedes
<1>5. QED
  BY <1>2, <1>3, <1>4

(* Each row's place, by how many precede it, is its own.                   *)
LEMMA PlacesAreTaken ==
  ASSUME NEW S \in SUBSET RuleRow, IsFiniteSet(S), \A r, q \in S : r.id = q.id => r = q
  PROVE  \E seq \in [1 .. Cardinality(S) -> S] :
           \A i, j \in 1 .. Cardinality(S) : i < j => Precedes(seq[i], seq[j])
<1> DEFINE N == Cardinality(S)
           Ahead(r) == {q \in S : Precedes(q, r)}
           Place(r) == Cardinality(Ahead(r)) + 1
<1>0. /\ \A r \in S : ~Precedes(r, r)
      /\ \A r, q \in S : r = q \/ Precedes(r, q) \/ Precedes(q, r)
      /\ \A r, q, s \in S : Precedes(r, q) /\ Precedes(q, s) => Precedes(r, s)
  BY PrecedesIsOrder
<1>1. N \in Nat /\ IsFiniteSet(1 .. N) /\ Cardinality(1 .. N) = N
  BY FS_CardinalityType, FS_Interval
<1>2. ASSUME NEW r \in S
      PROVE  IsFiniteSet(Ahead(r)) /\ Cardinality(Ahead(r)) \in Nat /\ Place(r) \in 1 .. N
  <2>1. Ahead(r) \in SUBSET (S \ {r})
    BY <1>0
  <2>2. IsFiniteSet(S \ {r}) /\ Cardinality(S \ {r}) = N - 1
    BY FS_RemoveElement
  <2>3. IsFiniteSet(Ahead(r)) /\ Cardinality(Ahead(r)) <= N - 1
    BY <2>1, <2>2, FS_Subset
  <2>4. Cardinality(Ahead(r)) \in Nat
    BY <2>3, FS_CardinalityType
  <2>5. QED
    BY <1>1, <2>3, <2>4
<1>3. ASSUME NEW r \in S, NEW q \in S, Precedes(r, q)
      PROVE  Place(r) < Place(q)
  <2>1. Ahead(r) \cup {r} \in SUBSET Ahead(q) /\ r \notin Ahead(r)
    BY <1>0, <1>3
  <2>2. Cardinality(Ahead(r) \cup {r}) = Cardinality(Ahead(r)) + 1
    BY <1>2, <2>1, FS_AddElement
  <2>3. Cardinality(Ahead(r) \cup {r}) <= Cardinality(Ahead(q))
    BY <1>2, <2>1, FS_Subset
  <2>4. Cardinality(Ahead(r)) \in Nat /\ Cardinality(Ahead(q)) \in Nat
    BY <1>2
  <2>5. Cardinality(Ahead(r)) + 1 <= Cardinality(Ahead(q))
    BY <2>2, <2>3
  <2> HIDE DEF Ahead
  <2>6. QED
    BY <2>4, <2>5
<1> DEFINE f == [r \in S |-> Place(r)]
<1> HIDE DEF N, Place
<1>4. f \in Injection(S, 1 .. N)
  <2>1. f \in [S -> 1 .. N]
    BY <1>2
  <2>2. ASSUME NEW r \in S, NEW q \in S, f[r] = f[q] PROVE r = q
    <3>1. Place(r) = Place(q) /\ Place(r) \in 1 .. N /\ Place(q) \in 1 .. N
      BY <1>2, <2>2
    <3>2. ~(Place(r) < Place(q)) /\ ~(Place(q) < Place(r))
      BY <1>1, <3>1
    <3>3. QED
      BY <1>0, <1>3, <3>2
  <2>3. QED
    BY <2>1, <2>2 DEF Injection, IsInjective
<1>5. f \in Surjection(S, 1 .. N)
  BY <1>1, <1>4, FS_Injection DEF N
<1>6. \A n \in 1 .. N : \E r \in S : Place(r) = n
  BY <1>5 DEF Surjection
<1> DEFINE seq == [n \in 1 .. N |-> CHOOSE r \in S : Place(r) = n]
<1>7. \A n \in 1 .. N : seq[n] \in S /\ Place(seq[n]) = n
  BY <1>6
<1>8. ASSUME NEW i \in 1 .. N, NEW j \in 1 .. N, i < j
      PROVE  Precedes(seq[i], seq[j])
  <2>1. PICK r \in S, q \in S : r = seq[i] /\ q = seq[j]
    BY <1>7
  <2>2. Place(r) = i /\ Place(q) = j
    BY <1>7, <2>1
  <2>3. ~(Place(q) < Place(r)) /\ r # q
    BY <1>1, <1>8, <2>2
  <2>4. Precedes(r, q)
    BY <1>0, <1>3, <2>3
  <2>5. QED
    BY <2>1, <2>4
<1>9. seq \in [1 .. N -> S]
  BY <1>7
<1>10. QED
  BY <1>8, <1>9 DEF N

(* What the query gives: all the rows of the profile, in that order.       *)
LEMMA RowsInOrder ==
  ASSUME NEW S \in SUBSET RuleRow, IsFiniteSet(S), \A r, q \in S : r.id = q.id => r = q,
         NEW seq \in [1 .. Cardinality(S) -> S],
         \A i, j \in DOMAIN seq : i < j => Precedes(seq[i], seq[j])
  PROVE  /\ Cardinality(S) \in Nat /\ seq \in [1 .. Cardinality(S) -> S]
         /\ \A i, j \in 1 .. Cardinality(S) : i < j => Precedes(seq[i], seq[j])
         /\ \A r \in S : \E i \in 1 .. Cardinality(S) : seq[i] = r
<1> DEFINE N == Cardinality(S)
<1>0. /\ \A r \in S : ~Precedes(r, r)
      /\ \A r, q \in S : r = q \/ Precedes(r, q) \/ Precedes(q, r)
      /\ \A r, q, s \in S : Precedes(r, q) /\ Precedes(q, s) => Precedes(r, s)
  BY PrecedesIsOrder
<1>1. N \in Nat /\ IsFiniteSet(1 .. N) /\ Cardinality(1 .. N) = N
  BY FS_CardinalityType, FS_Interval
<1>2. seq \in [1 .. N -> S] /\ \A i, j \in DOMAIN seq : i < j => Precedes(seq[i], seq[j])
  OBVIOUS
<1>3. seq \in Injection(1 .. N, S)
  <2>1. ASSUME NEW i \in 1 .. N, NEW j \in 1 .. N, seq[i] = seq[j] PROVE i = j
    <3>1. seq[i] \in S /\ ~Precedes(seq[i], seq[j]) /\ ~Precedes(seq[j], seq[i])
      BY <1>0, <1>2, <2>1
    <3>2. ~(i < j) /\ ~(j < i)
      BY <1>2, <3>1
    <3>3. QED
      BY <1>1, <3>2
  <2>2. QED
    BY <1>2, <2>1 DEF Injection, IsInjective
<1>4. seq \in Surjection(1 .. N, S)
  BY <1>1, <1>3, FS_Injection
<1>5. \A r \in S : \E i \in 1 .. N : seq[i] = r
  BY <1>4 DEF Surjection
<1>6. QED
  BY <1>1, <1>2, <1>5

-----------------------------------------------------------------------------
(* What is decided: the first rule that matches.                           *)
LEMMA FirstDecides ==
  ASSUME NEW engine, NEW tool, NEW scope, NEW n \in Nat, DOMAIN engine = 1 .. n
  PROVE  /\ (\A i \in 1 .. n : ~Matches(engine[i], tool, scope)) => Evaluate(engine, tool, scope) = "ask"
         /\ \A i \in 1 .. n :
              Matches(engine[i], tool, scope) /\ (\A j \in 1 .. n : j < i => ~Matches(engine[j], tool, scope))
              => Evaluate(engine, tool, scope) = engine[i].decision
<1> DEFINE hits == {i \in DOMAIN engine : Matches(engine[i], tool, scope)}
<1>1. Evaluate(engine, tool, scope) =
        IF hits = {} THEN "ask" ELSE engine[CHOOSE i \in hits : \A j \in hits : i <= j].decision
  BY DEF Evaluate
<1>2. ASSUME NEW i \in 1 .. n, Matches(engine[i], tool, scope),
             \A j \in 1 .. n : j < i => ~Matches(engine[j], tool, scope)
      PROVE  Evaluate(engine, tool, scope) = engine[i].decision
  <2>1. i \in hits /\ \A j \in hits : i <= j
    BY <1>2
  <2>2. \A k \in hits : (\A j \in hits : k <= j) => k = i
    BY <2>1
  <2>3. i = CHOOSE k \in hits : \A j \in hits : k <= j
    <3> HIDE DEF hits
    <3>1. QED
      BY <2>1, <2>2
  <2>4. QED
    BY <1>1, <2>1, <2>3
<1>3. QED
  BY <1>1, <1>2

LEMMA SomeMatchIsFirst ==
  ASSUME NEW engine, NEW tool, NEW scope, NEW n \in Nat,
         NEW k \in 1 .. n, Matches(engine[k], tool, scope)
  PROVE  \E i \in 1 .. n : /\ Matches(engine[i], tool, scope)
                           /\ \A j \in 1 .. n : j < i => ~Matches(engine[j], tool, scope)
<1> DEFINE T == {i \in 1 .. n : Matches(engine[i], tool, scope)}
<1>1. T \in SUBSET Nat /\ T # {}
  OBVIOUS
<1>2. PICK i \in T : \A j \in T : i <= j
  <2> HIDE DEF T
  <2>1. QED
    BY <1>1, LeastNat
<1>3. QED
  BY <1>2

(* The user's rows before the defaults.                                    *)
LEMMA OverlaidDecides ==
  ASSUME NEW own, NEW default, NEW S, NEW tool, NEW scope, own \in Seq(S), default \in Seq(S)
  PROVE  /\ \A i \in 1 .. Len(own) :
              Matches(own[i], tool, scope) /\ (\A j \in 1 .. Len(own) : j < i => ~Matches(own[j], tool, scope))
              => Evaluate(own \o default, tool, scope) = own[i].decision
         /\ (\A i \in 1 .. Len(own) : ~Matches(own[i], tool, scope)) =>
              Evaluate(own \o default, tool, scope) = Evaluate(default, tool, scope)
<1> DEFINE all == own \o default
           m == Len(own)
           n == Len(default)
<1>1. /\ m \in Nat /\ n \in Nat /\ m + n \in Nat /\ DOMAIN own = 1 .. m /\ DOMAIN default = 1 .. n
      /\ DOMAIN all = 1 .. m + n
      /\ \A i \in 1 .. m : all[i] = own[i]
      /\ \A i \in 1 .. n : all[m + i] = default[i]
  <2>1. /\ all \in Seq(S) /\ Len(all) = m + n
        /\ \A i \in 1 .. Len(all) : all[i] = IF i <= m THEN own[i] ELSE default[i - m]
    BY ConcatProperties
  <2>2. m \in Nat /\ n \in Nat /\ DOMAIN own = 1 .. m /\ DOMAIN default = 1 .. n
    BY LenProperties
  <2>3. DOMAIN all = 1 .. m + n
    BY <2>1, LenProperties
  <2>4. m + n \in Nat /\ \A i \in 1 .. m + n : all[i] = IF i <= m THEN own[i] ELSE default[i - m]
    BY <2>1, <2>2
  <2> HIDE DEF m, n, all
  <2>5. \A i \in 1 .. m : i \in 1 .. m + n /\ i <= m
    BY <2>2
  <2>6. \A i \in 1 .. m : all[i] = own[i]
    BY <2>4, <2>5
  <2>7. ASSUME NEW i \in 1 .. n PROVE all[m + i] = default[i]
    <3>1. PICK k \in 1 .. m + n : k = m + i
      BY <2>2
    <3>2. ~(k <= m) /\ k - m = i
      BY <2>2, <3>1
    <3>3. all[k] = default[k - m]
      BY <2>4, <3>2
    <3>4. QED
      BY <3>1, <3>2, <3>3
  <2>8. QED
    BY <2>2, <2>3, <2>4, <2>6, <2>7
<1> HIDE DEF all, m, n
<1>2. ASSUME NEW e, NEW k \in Nat, DOMAIN e = 1 .. k
      PROVE  /\ \A i \in 1 .. k :
                  Matches(e[i], tool, scope) /\ (\A j \in 1 .. k : j < i => ~Matches(e[j], tool, scope))
                  => Evaluate(e, tool, scope) = e[i].decision
             /\ (\A i \in 1 .. k : ~Matches(e[i], tool, scope)) => Evaluate(e, tool, scope) = "ask"
  BY <1>2, FirstDecides
<1>3. ASSUME NEW i \in 1 .. m, Matches(own[i], tool, scope),
             \A j \in 1 .. m : j < i => ~Matches(own[j], tool, scope)
      PROVE  Evaluate(all, tool, scope) = own[i].decision
  <2>1. i \in 1 .. m + n /\ Matches(all[i], tool, scope) /\ all[i] = own[i]
    BY <1>1, <1>3
  <2>2. \A j \in 1 .. m + n : j < i => j \in 1 .. m
    BY <1>1
  <2>3. \A j \in 1 .. m + n : j < i => ~Matches(all[j], tool, scope)
    BY <1>1, <1>3, <2>2
  <2>4. PICK t \in Nat : t = m + n
    BY <1>1
  <2>5. Evaluate(all, tool, scope) = all[i].decision
    <3>1. DOMAIN all = 1 .. t /\ i \in 1 .. t /\ \A j \in 1 .. t : j < i => ~Matches(all[j], tool, scope)
      BY <1>1, <2>1, <2>3, <2>4
    <3>2. QED
      BY <1>2, <2>1, <2>4, <3>1
  <2>6. QED
    BY <2>1, <2>5
<1>4. ASSUME \A i \in 1 .. m : ~Matches(own[i], tool, scope)
      PROVE  Evaluate(all, tool, scope) = Evaluate(default, tool, scope)
  <2>1. \A i \in 1 .. m + n : i \in 1 .. m \/ \E k \in 1 .. n : i = m + k
    <3>1. m \in Nat /\ n \in Nat
      BY <1>1
    <3>2. ASSUME NEW i \in 1 .. m + n, i \notin 1 .. m PROVE i - m \in 1 .. n /\ i = m + (i - m)
      BY <3>1, <3>2
    <3>3. QED
      BY <3>2
  <2>2. CASE \A k \in 1 .. n : ~Matches(default[k], tool, scope)
    <3>1. \A i \in 1 .. m + n : ~Matches(all[i], tool, scope)
      BY <1>1, <1>4, <2>1, <2>2
    <3>2. Evaluate(all, tool, scope) = "ask"
      BY <1>1, <1>2, <3>1
    <3>3. Evaluate(default, tool, scope) = "ask"
      BY <1>1, <1>2, <2>2
    <3>4. QED
      BY <3>2, <3>3
  <2>3. CASE \E k \in 1 .. n : Matches(default[k], tool, scope)
    <3>1. PICK k \in 1 .. n : /\ Matches(default[k], tool, scope)
                              /\ \A j \in 1 .. n : j < k => ~Matches(default[j], tool, scope)
      BY <1>1, <2>3, SomeMatchIsFirst
    <3>2. m + k \in 1 .. m + n /\ all[m + k] = default[k]
      BY <1>1
    <3>3. ASSUME NEW j \in 1 .. m + n, j < m + k PROVE ~Matches(all[j], tool, scope)
      <4>1. CASE j \in 1 .. m
        BY <1>1, <1>4, <4>1
      <4>2. CASE \E h \in 1 .. n : j = m + h
        <5>1. PICK h \in 1 .. n : j = m + h
          BY <4>2
        <5>2. h < k
          BY <1>1, <3>3, <5>1
        <5>3. QED
          BY <1>1, <3>1, <5>1, <5>2
      <4>3. QED
        BY <2>1, <4>1, <4>2
    <3>4. Evaluate(all, tool, scope) = all[m + k].decision
      BY <1>1, <1>2, <3>1, <3>2, <3>3
    <3>5. Evaluate(default, tool, scope) = default[k].decision
      BY <1>1, <1>2, <3>1
    <3>6. QED
      BY <3>2, <3>4, <3>5
  <2>4. QED
    BY <2>2, <2>3
<1>5. QED
  BY <1>3, <1>4 DEF all, m

-----------------------------------------------------------------------------
(* The table and what was done to it.                                      *)
IsSet(i) == edits[i].op = "set"
WasSet(r) == \E i \in DOMAIN edits : IsSet(i) /\ edits[i].rule = r

RuleTypes ==
  /\ rules \subseteq RuleRow /\ IsFiniteSet(rules) /\ ruleId \in Nat /\ edits \in Seq(EditRow)
  /\ editor \in [Editor -> {Idle} \cup [at : {"found", "telling"}, edit : EditRow]]

(* Ids are given in order.                                                 *)
IdsGrow ==
  /\ \A i \in DOMAIN edits : IsSet(i) => edits[i].rule.id <= ruleId
  /\ \A i, j \in DOMAIN edits : i < j /\ IsSet(i) /\ IsSet(j) => edits[i].rule.id < edits[j].rule.id

(* The rows are what stands.                                               *)
RowsStand ==
  /\ \A r \in rules : \E i \in Standing : edits[i].rule = r
  /\ \A i \in Standing : edits[i].rule \in rules

(* What a request tells was done, and is gone if it was revoked.           *)
Tells(e) == editor[e].at = "telling"
EditorsTell ==
  \A e \in Editor :
    /\ editor[e] # Idle => WasSet(editor[e].edit.rule)
    /\ editor[e].at = "found" => editor[e].edit.op = "revoke"
    /\ Tells(e) => /\ \E i \in DOMAIN edits : edits[i] = editor[e].edit
                   /\ editor[e].edit.op = "revoke" => editor[e].edit.rule \notin rules
                   /\ \A f \in Editor \ {e} : Tells(f) => editor[e].edit # editor[f].edit

RulesInv == RuleTypes /\ IdsGrow /\ RowsStand /\ EditorsTell

LEMMA IdsAreOwn ==
  ASSUME RulesInv
  PROVE  /\ \A r, q : WasSet(r) /\ WasSet(q) /\ r.id = q.id => r = q
         /\ \A r \in rules : WasSet(r)
         /\ \A r, q \in rules : r.id = q.id => r = q
         /\ \A r : WasSet(r) => r \in RuleRow /\ r.id \in Nat /\ r.id <= ruleId
<1>1. edits \in Seq(EditRow) /\ Len(edits) \in Nat /\ DOMAIN edits = 1 .. Len(edits)
  BY LenProperties DEF RulesInv, RuleTypes
<1>2. \A i \in DOMAIN edits : edits[i] \in EditRow
  BY <1>1, ElementOfSeq
<1>3. \A i \in DOMAIN edits : edits[i].rule \in RuleRow /\ edits[i].rule.id \in Nat
  BY <1>2 DEF EditRow, RuleRow
<1>4. ASSUME NEW i \in DOMAIN edits, NEW j \in DOMAIN edits, IsSet(i), IsSet(j),
             edits[i].rule.id = edits[j].rule.id
      PROVE  i = j
  <2>1. edits[i].rule.id \in Nat /\ edits[j].rule.id \in Nat
    BY <1>3
  <2>2. ~(i < j) /\ ~(j < i)
    BY <1>4, <2>1 DEF RulesInv, IdsGrow
  <2>3. QED
    BY <1>1, <2>2
<1>5. \A r, q : WasSet(r) /\ WasSet(q) /\ r.id = q.id => r = q
  BY <1>4 DEF WasSet
<1>6. \A r \in rules : WasSet(r)
  BY DEF RulesInv, RowsStand, Standing, WasSet, IsSet
<1>7. \A r : WasSet(r) => r \in RuleRow /\ r.id \in Nat /\ r.id <= ruleId
  BY <1>3 DEF RulesInv, IdsGrow, WasSet
<1>8. QED
  BY <1>5, <1>6, <1>7

LEMMA StandingAfter ==
  ASSUME edits \in Seq(EditRow), NEW x \in EditRow, edits' = Append(edits, x)
  PROVE  /\ edits' \in Seq(EditRow) /\ Len(edits) \in Nat
         /\ DOMAIN edits = 1 .. Len(edits) /\ DOMAIN edits' = 1 .. Len(edits) + 1
         /\ edits'[Len(edits) + 1] = x
         /\ \A i \in DOMAIN edits : edits'[i] = edits[i]
         /\ \A i \in DOMAIN edits : i \in Standing' <=>
              /\ i \in Standing
              /\ x.op = "set" => KeyOf(x.rule) # KeyOf(edits[i].rule)
              /\ x.op = "revoke" => x.rule # edits[i].rule
         /\ Len(edits) + 1 \in Standing' <=> x.op = "set"
<1>1. /\ edits' \in Seq(EditRow) /\ Len(edits) \in Nat /\ Len(edits') = Len(edits) + 1
      /\ DOMAIN edits = 1 .. Len(edits) /\ DOMAIN edits' = 1 .. Len(edits) + 1
      /\ edits'[Len(edits) + 1] = x
      /\ \A i \in DOMAIN edits : edits'[i] = edits[i]
  BY AppendProperties, LenProperties
<1>2. PICK n \in Nat : n = Len(edits)
  BY <1>1
<1>3. ASSUME NEW i \in DOMAIN edits
      PROVE  i \in Standing' <=>
              /\ i \in Standing
              /\ x.op = "set" => KeyOf(x.rule) # KeyOf(edits[i].rule)
              /\ x.op = "revoke" => x.rule # edits[i].rule
  <2>1. i \in 1 .. n /\ i \in DOMAIN edits' /\ edits'[i] = edits[i] /\ edits'[n + 1] = x
    BY <1>1, <1>2
  <2>2. \A j : j \in i + 1 .. n + 1 <=> j \in i + 1 .. n \/ j = n + 1
    BY <2>1
  <2>3. \A j \in i + 1 .. n : edits'[j] = edits[j]
    BY <1>1, <1>2, <2>1
  <2>4. i \in Standing' <=>
          /\ edits[i].op = "set"
          /\ \A j \in i + 1 .. n + 1 :
               /\ edits'[j].op = "set" => KeyOf(edits'[j].rule) # KeyOf(edits[i].rule)
               /\ edits'[j].op = "revoke" => edits'[j].rule # edits[i].rule
    BY <1>1, <1>2, <2>1 DEF Standing, KeyOf
  <2>5. i \in Standing <=>
          /\ edits[i].op = "set"
          /\ \A j \in i + 1 .. n :
               /\ edits[j].op = "set" => KeyOf(edits[j].rule) # KeyOf(edits[i].rule)
               /\ edits[j].op = "revoke" => edits[j].rule # edits[i].rule
    BY <1>2 DEF Standing
  <2> HIDE DEF KeyOf
  <2>6. QED
    BY <2>1, <2>2, <2>3, <2>4, <2>5
<1>4. Len(edits) + 1 \in Standing' <=> x.op = "set"
  <2>1. \A j \in (n + 1) + 1 .. n + 1 : FALSE
    BY <1>2
  <2>2. n + 1 \in DOMAIN edits' /\ edits'[n + 1] = x /\ Len(edits') = n + 1
    BY <1>1, <1>2
  <2>3. QED
    BY <1>2, <2>1, <2>2 DEF Standing
<1>5. QED
  BY <1>1, <1>3, <1>4

-----------------------------------------------------------------------------
(* The handlers.                                                           *)
EditorRow == {Idle} \cup [at : {"found", "telling"}, edit : EditRow]

LEMMA EditorBecomes ==
  ASSUME RulesInv, NEW e \in Editor, NEW v \in EditorRow, editor' = [editor EXCEPT ![e] = v]
  PROVE  /\ editor' \in [Editor -> EditorRow] /\ editor'[e] = v
         /\ \A f \in Editor \ {e} : editor'[f] = editor[f]
BY DEF RulesInv, RuleTypes, EditorRow

LEMMA EditorFields ==
  ASSUME NEW v \in EditorRow
  PROVE  /\ v = Idle <=> v.at = "idle"
         /\ v # Idle => /\ v.edit \in EditRow /\ v.edit.rule \in RuleRow /\ v.edit.op \in {"set", "revoke"}
                        /\ v.at \in {"found", "telling"} /\ v = [at |-> v.at, edit |-> v.edit]
BY DEF EditorRow, Idle, EditRow

LEMMA EditFields ==
  ASSUME NEW r \in RuleRow, NEW op \in {"set", "revoke"}
  PROVE  Edit(op, r) \in EditRow /\ Edit(op, r).op = op /\ Edit(op, r).rule = r
BY DEF Edit, EditRow

LEMMA SetRuleKeeps ==
  ASSUME RulesInv, NEW e \in Editor, SetRule(e)
  PROVE  RulesInv'
<1>0. PICK key \in Key, decision \in Decision :
        \E new : /\ new = Rule(ruleId + 1, key, decision)
                 /\ rules' = {r \in rules : KeyOf(r) # key} \cup {new}
                 /\ edits' = Append(edits, Edit("set", new))
                 /\ editor' = [editor EXCEPT ![e] = [at |-> "telling", edit |-> Edit("set", new)]]
                 /\ ruleId' = ruleId + 1 /\ editor[e] = Idle
  BY DEF SetRule
<1>1. PICK new :
        /\ new = Rule(ruleId + 1, key, decision)
        /\ rules' = {r \in rules : KeyOf(r) # key} \cup {new}
        /\ edits' = Append(edits, Edit("set", new))
        /\ editor' = [editor EXCEPT ![e] = [at |-> "telling", edit |-> Edit("set", new)]]
        /\ ruleId' = ruleId + 1 /\ editor[e] = Idle
  BY <1>0
<1>2. ruleId \in Nat /\ edits \in Seq(EditRow) /\ rules \subseteq RuleRow /\ IsFiniteSet(rules)
  BY DEF RulesInv, RuleTypes
<1>3. new \in RuleRow /\ new.id = ruleId + 1 /\ KeyOf(new) = key
  BY <1>1, <1>2 DEF Rule, Key, RuleRow, RuleScope, KeyOf
<1>4. PICK x \in EditRow : x = Edit("set", new) /\ x.op = "set" /\ x.rule = new
  BY <1>3, EditFields
<1>5. PICK n \in Nat : n = Len(edits)
  BY <1>2, LenProperties
<1>6. /\ edits' \in Seq(EditRow) /\ DOMAIN edits = 1 .. n /\ DOMAIN edits' = 1 .. n + 1 /\ edits'[n + 1] = x
      /\ \A i \in 1 .. n : edits'[i] = edits[i]
      /\ \A i \in 1 .. n : i \in Standing' <=> i \in Standing /\ key # KeyOf(edits[i].rule)
      /\ n + 1 \in Standing'
  BY <1>1, <1>2, <1>3, <1>4, <1>5, StandingAfter
<1>7. [at |-> "telling", edit |-> x] \in EditorRow
  BY DEF EditorRow
<1>8. /\ editor' \in [Editor -> EditorRow] /\ editor'[e] = [at |-> "telling", edit |-> x]
      /\ \A f \in Editor \ {e} : editor'[f] = editor[f]
  BY <1>1, <1>4, <1>7, EditorBecomes
<1>9. /\ \A r \in rules : WasSet(r)
      /\ \A r : WasSet(r) => r \in RuleRow /\ r.id \in Nat /\ r.id <= ruleId
  BY IdsAreOwn
<1>10. \A i \in 1 .. n + 1 : i \in 1 .. n \/ i = n + 1
  OBVIOUS
<1>11. RuleTypes'
  <2>1. IsFiniteSet({r \in rules : KeyOf(r) # key})
    BY <1>2, FS_Subset
  <2>2. IsFiniteSet(rules') /\ rules' \subseteq RuleRow
    BY <1>1, <1>2, <1>3, <2>1, FS_AddElement
  <2>3. QED
    BY <1>1, <1>2, <1>6, <1>8, <2>2 DEF RuleTypes, EditorRow
<1>12. \A r : WasSet(r) => WasSet(r)'
  BY <1>6 DEF WasSet, IsSet
<1>13. IdsGrow'
  <2>1. \A i \in 1 .. n : IsSet(i)' <=> IsSet(i)
    BY <1>6 DEF IsSet
  <2>2. \A i \in 1 .. n : IsSet(i) => edits[i].rule.id \in Nat /\ edits[i].rule.id <= ruleId
    BY <1>6, <1>9 DEF WasSet
  <2>3. ASSUME NEW i \in 1 .. n + 1, IsSet(i)' PROVE edits'[i].rule.id <= ruleId'
    <3>1. CASE i \in 1 .. n
      BY <1>1, <1>2, <1>6, <2>1, <2>2, <2>3, <3>1
    <3>2. CASE i = n + 1
      BY <1>1, <1>2, <1>3, <1>4, <1>6, <3>2
    <3>3. QED
      BY <1>10, <3>1, <3>2
  <2>4. ASSUME NEW i \in 1 .. n + 1, NEW j \in 1 .. n + 1, i < j, IsSet(i)', IsSet(j)'
        PROVE  edits'[i].rule.id < edits'[j].rule.id
    <3>1. i \in 1 .. n
      BY <2>4
    <3>2. CASE j \in 1 .. n
      BY <1>6, <2>1, <2>4, <3>1, <3>2 DEF RulesInv, IdsGrow
    <3>3. CASE j = n + 1
      <4>1. edits'[j].rule.id = ruleId + 1
        BY <1>3, <1>4, <1>6, <3>3
      <4>2. edits'[i].rule.id \in Nat /\ edits'[i].rule.id <= ruleId
        BY <1>6, <2>1, <2>2, <2>4, <3>1
      <4>3. QED
        BY <1>2, <4>1, <4>2
    <3>4. QED
      BY <1>10, <3>2, <3>3
  <2>5. QED
    BY <1>6, <2>3, <2>4 DEF IdsGrow
<1>14. RowsStand'
  <2>1. ASSUME NEW r \in rules' PROVE \E i \in Standing' : edits'[i].rule = r
    <3>1. CASE r = new
      BY <1>4, <1>6, <3>1
    <3>2. CASE r \in rules /\ KeyOf(r) # key
      <4>1. PICK i \in Standing : edits[i].rule = r
        BY <3>2 DEF RulesInv, RowsStand
      <4>2. i \in 1 .. n
        BY <1>6 DEF Standing
      <4>3. QED
        BY <1>6, <3>2, <4>1, <4>2
    <3>3. QED
      BY <1>1, <3>1, <3>2
  <2>2. ASSUME NEW i \in Standing' PROVE edits'[i].rule \in rules'
    <3>1. i \in 1 .. n + 1
      BY <1>6, <2>2 DEF Standing
    <3>2. CASE i = n + 1
      BY <1>1, <1>4, <1>6, <3>2
    <3>3. CASE i \in 1 .. n
      BY <1>1, <1>6, <2>2, <3>3 DEF RulesInv, RowsStand
    <3>4. QED
      BY <1>10, <3>1, <3>2, <3>3
  <2>3. QED
    BY <2>1, <2>2 DEF RowsStand
<1>15. EditorsTell'
  <2>1. WasSet(new)'
    BY <1>4, <1>6 DEF WasSet, IsSet
  <2>2. ~WasSet(new) /\ new \notin rules
    BY <1>2, <1>3, <1>9
  <2>3. ASSUME NEW f \in Editor \ {e}
        PROVE  /\ editor[f] # Idle => WasSet(editor[f].edit.rule)'
               /\ editor[f].at = "found" => editor[f].edit.op = "revoke"
               /\ Tells(f) => /\ \E i \in 1 .. n + 1 : edits'[i] = editor[f].edit
                              /\ editor[f].edit.op = "revoke" => editor[f].edit.rule \notin rules'
                              /\ editor[f].edit # x
                              /\ \A g \in Editor \ {e, f} : Tells(g) => editor[f].edit # editor[g].edit
    <3>1. PICK r : r = editor[f].edit.rule
      OBVIOUS
    <3>2. /\ editor[f] # Idle => WasSet(r)
          /\ editor[f].at = "found" => editor[f].edit.op = "revoke"
          /\ Tells(f) => /\ \E i \in 1 .. n : edits[i] = editor[f].edit
                         /\ editor[f].edit.op = "revoke" => r \notin rules
                         /\ \A g \in Editor \ {f} : Tells(g) => editor[f].edit # editor[g].edit
      BY <1>6, <3>1 DEF RulesInv, EditorsTell
    <3>3. Tells(f) => editor[f] # Idle
      BY DEF Tells, Idle
    <3>4. editor[f] # Idle => WasSet(r)' /\ r # new
      BY <1>12, <2>2, <3>2
    <3>5. WasSet(r)' => WasSet(editor[f].edit.rule)'
      BY <1>8, <3>1 DEF WasSet, IsSet
    <3>6. Tells(f) => \E i \in 1 .. n + 1 : edits'[i] = editor[f].edit
      BY <1>6, <3>2
    <3>7. Tells(f) => editor[f].edit # x
      BY <1>4, <3>1, <3>3, <3>4
    <3>8. QED
      BY <1>1, <3>1, <3>2, <3>3, <3>4, <3>5, <3>6, <3>7
  <2>4. \A f \in Editor \ {e} : Tells(f)' <=> Tells(f)
    BY <1>8 DEF Tells
  <2>5. editor'[e].at = "telling" /\ editor'[e].edit = x
    BY <1>8
  <2>6. QED
    BY <1>4, <1>6, <1>8, <2>1, <2>3, <2>4, <2>5 DEF EditorsTell, WasSet, IsSet
<1>16. QED
  BY <1>11, <1>13, <1>14, <1>15 DEF RulesInv

(* A request that stops telling, or looks up a rule, leaves the table.     *)
LEMMA TableStays ==
  ASSUME RulesInv, UNCHANGED <<rules, ruleId, edits>>, editor' \in [Editor -> EditorRow]
  PROVE  RuleTypes' /\ IdsGrow' /\ RowsStand'
<1>1. \A i : IsSet(i)' <=> IsSet(i)
  BY DEF IsSet
<1>2. RuleTypes'
  BY DEF RulesInv, RuleTypes, EditorRow
<1>3. IdsGrow'
  BY <1>1 DEF RulesInv, IdsGrow
<1>4. Standing' = Standing
  BY DEF Standing, KeyOf
<1>5. RowsStand'
  BY <1>4 DEF RulesInv, RowsStand
<1>6. QED
  BY <1>2, <1>3, <1>5

LEMMA LookUpKeeps ==
  ASSUME RulesInv, NEW e \in Editor, LookUp(e)
  PROVE  RulesInv'
<1>1. PICK r \in rules : editor' = [editor EXCEPT ![e] = [at |-> "found", edit |-> Edit("revoke", r)]]
  BY DEF LookUp
<1>2. r \in RuleRow /\ WasSet(r)
  BY <1>1, IdsAreOwn DEF RulesInv, RuleTypes
<1>3. PICK x \in EditRow : x = Edit("revoke", r) /\ x.op = "revoke" /\ x.rule = r
  BY <1>2, EditFields
<1>4. [at |-> "found", edit |-> x] \in EditorRow
  BY DEF EditorRow
<1>5. /\ editor' \in [Editor -> EditorRow] /\ editor'[e] = [at |-> "found", edit |-> x]
      /\ \A f \in Editor \ {e} : editor'[f] = editor[f]
  BY <1>1, <1>3, <1>4, EditorBecomes
<1>6. UNCHANGED <<rules, ruleId, edits>>
  BY DEF LookUp
<1>7. RuleTypes' /\ IdsGrow' /\ RowsStand'
  BY <1>5, <1>6, TableStays
<1>8. EditorsTell'
  <2>1. \A q : WasSet(q)' <=> WasSet(q)
    BY <1>6 DEF WasSet, IsSet
  <2>2. \A f \in Editor \ {e} : Tells(f)' <=> Tells(f)
    BY <1>5 DEF Tells
  <2>3. ~Tells(e)' /\ editor'[e].at = "found" /\ editor'[e].edit = x
    BY <1>5 DEF Tells
  <2>4. ASSUME NEW f \in Editor \ {e}, editor[f] # Idle PROVE WasSet(editor[f].edit.rule)'
    <3>1. PICK q : q = editor[f].edit.rule
      OBVIOUS
    <3>2. WasSet(q)'
      BY <2>1, <2>4, <3>1 DEF RulesInv, EditorsTell
    <3>3. QED
      BY <1>5, <3>1, <3>2 DEF WasSet, IsSet
  <2>5. WasSet(editor[e].edit.rule)'
    <3>1. WasSet(r)'
      BY <1>2, <2>1
    <3>2. QED
      BY <1>3, <2>3, <3>1 DEF WasSet, IsSet
  <2>6. QED
    BY <1>2, <1>3, <1>5, <1>6, <2>2, <2>3, <2>4, <2>5 DEF RulesInv, EditorsTell
<1>9. QED
  BY <1>7, <1>8 DEF RulesInv

LEMMA EditorRests ==
  ASSUME RulesInv, NEW e \in Editor, editor' = [editor EXCEPT ![e] = Idle],
         UNCHANGED <<rules, ruleId, edits>>
  PROVE  RulesInv'
<1>1. Idle \in EditorRow /\ Idle.at = "idle"
  BY DEF EditorRow, Idle
<1>2. /\ editor' \in [Editor -> EditorRow] /\ editor'[e] = Idle
      /\ \A f \in Editor \ {e} : editor'[f] = editor[f]
  BY <1>1, EditorBecomes
<1>3. RuleTypes' /\ IdsGrow' /\ RowsStand'
  BY <1>2, TableStays
<1>4. EditorsTell'
  <2>1. \A q : WasSet(q)' <=> WasSet(q)
    BY DEF WasSet, IsSet
  <2>2. \A f \in Editor \ {e} : Tells(f)' <=> Tells(f)
    BY <1>2 DEF Tells
  <2>3. ~Tells(e)' /\ editor'[e].at = "idle"
    BY <1>1, <1>2 DEF Tells
  <2>4. ASSUME NEW f \in Editor \ {e}, editor[f] # Idle PROVE WasSet(editor[f].edit.rule)'
    <3>1. PICK q : q = editor[f].edit.rule
      OBVIOUS
    <3>2. WasSet(q)'
      BY <2>1, <2>4, <3>1 DEF RulesInv, EditorsTell
    <3>3. QED
      BY <1>2, <3>1, <3>2 DEF WasSet, IsSet
  <2>5. QED
    BY <1>2, <2>2, <2>3, <2>4 DEF RulesInv, EditorsTell
<1>5. QED
  BY <1>3, <1>4 DEF RulesInv

(* Of two that revoke one rule, the second finds it gone.                  *)
LEMMA RevokeKeeps ==
  ASSUME RulesInv, NEW e \in Editor, Revoke(e)
  PROVE  RulesInv'
<1>0. editor[e] \in EditorRow /\ editor[e].at = "found" /\ editor[e] # Idle
  BY DEF Revoke, RulesInv, RuleTypes, EditorRow, Idle
<1>1. PICK x \in EditRow, r \in RuleRow :
        /\ x = editor[e].edit /\ r = x.rule /\ x.op = "revoke" /\ WasSet(r)
        /\ editor[e] = [at |-> "found", edit |-> x]
  <2>1. editor[e].edit \in EditRow /\ editor[e].edit.rule \in RuleRow
        /\ editor[e] = [at |-> "found", edit |-> editor[e].edit]
    BY <1>0, EditorFields
  <2>2. editor[e].edit.op = "revoke" /\ WasSet(editor[e].edit.rule)
    BY <1>0 DEF RulesInv, EditorsTell
  <2>3. QED
    BY <2>1, <2>2
<1>2. /\ \A q \in rules : q.id = r.id => q = r
      /\ \A q \in rules : q \in RuleRow
  BY <1>1, IdsAreOwn
<1>3. CASE r \notin rules
  <2>1. editor[e].edit.rule.id \notin {q.id : q \in rules}
    BY <1>1, <1>2, <1>3
  <2>2. editor' = [editor EXCEPT ![e] = Idle] /\ edits' = edits /\ ruleId' = ruleId
    BY <2>1 DEF Revoke
  <2>3. rules' = rules
    <3>1. rules' = {q \in rules : q.id # editor[e].edit.rule.id}
      BY DEF Revoke
    <3>2. QED
      BY <2>1, <3>1
  <2>4. QED
    BY <2>2, <2>3, EditorRests
<1>4. CASE r \in rules
  <2>1. editor[e].edit.rule.id \in {q.id : q \in rules}
    BY <1>1, <1>4
  <2>2. [at |-> "telling", edit |-> x] \in EditorRow
    BY DEF EditorRow
  <2>3. editor' = [editor EXCEPT ![e] = [at |-> "telling", edit |-> x]]
    <3>1. editor' = [editor EXCEPT ![e] = [editor[e] EXCEPT !.at = "telling"]]
      BY <2>1, <1>0 DEF Revoke, RulesInv, RuleTypes
    <3>2. [editor[e] EXCEPT !.at = "telling"] = [at |-> "telling", edit |-> x]
      BY <1>1
    <3>3. QED
      BY <3>1, <3>2
  <2>4. edits' = Append(edits, x) /\ ruleId' = ruleId
    BY <1>1, <2>1 DEF Revoke
  <2>5. rules' = rules \ {r}
    <3>1. rules' = {q \in rules : q.id # r.id}
      BY <1>1 DEF Revoke
    <3>2. QED
      BY <1>2, <3>1
  <2>6. edits \in Seq(EditRow) /\ ruleId \in Nat /\ rules \subseteq RuleRow /\ IsFiniteSet(rules)
    BY DEF RulesInv, RuleTypes
  <2>7. PICK n \in Nat : n = Len(edits)
    BY <2>6, LenProperties
  <2>8. /\ edits' \in Seq(EditRow) /\ DOMAIN edits = 1 .. n /\ DOMAIN edits' = 1 .. n + 1 /\ edits'[n + 1] = x
        /\ \A i \in 1 .. n : edits'[i] = edits[i]
        /\ \A i \in 1 .. n : i \in Standing' <=> i \in Standing /\ r # edits[i].rule
        /\ n + 1 \notin Standing'
    BY <1>1, <2>4, <2>6, <2>7, StandingAfter
  <2>9. /\ editor' \in [Editor -> EditorRow] /\ editor'[e] = [at |-> "telling", edit |-> x]
        /\ \A f \in Editor \ {e} : editor'[f] = editor[f]
    BY <2>2, <2>3, EditorBecomes
  <2>10. \A i \in 1 .. n + 1 : i \in 1 .. n \/ i = n + 1
    OBVIOUS
  <2>11. RuleTypes'
    <3>1. IsFiniteSet(rules') /\ rules' \subseteq RuleRow
      BY <2>5, <2>6, FS_Subset
    <3>2. QED
      BY <2>4, <2>6, <2>8, <2>9, <3>1 DEF RuleTypes, EditorRow
  <2>12. \A i \in 1 .. n : IsSet(i)' <=> IsSet(i)
    BY <2>8 DEF IsSet
  <2>13. ~IsSet(n + 1)'
    BY <1>1, <2>8 DEF IsSet
  <2>14. \A i \in 1 .. n + 1 : IsSet(i)' => i \in 1 .. n /\ IsSet(i)
    BY <2>10, <2>12, <2>13
  <2>15. IdsGrow'
    BY <2>4, <2>8, <2>14 DEF RulesInv, IdsGrow
  <2>16. RowsStand'
    <3>1. \A i \in Standing' : i \in 1 .. n
      BY <2>8, <2>10 DEF Standing
    <3>2. \A i \in Standing : i \in 1 .. n
      BY <2>8 DEF Standing
    <3>3. QED
      BY <2>5, <2>8, <3>1, <3>2 DEF RulesInv, RowsStand
  <2>17. \A q : WasSet(q) => WasSet(q)'
    BY <2>8, <2>12 DEF WasSet
  <2>18. EditorsTell'
    <3>1. ASSUME NEW f \in Editor \ {e}, Tells(f) PROVE editor[f].edit # x
      BY <1>1, <1>4, <3>1 DEF RulesInv, EditorsTell
    <3>2. \A f \in Editor \ {e} : Tells(f)' <=> Tells(f)
      BY <2>9 DEF Tells
    <3>3. editor'[e].at = "telling" /\ editor'[e].edit = x
      BY <2>9
    <3>4. /\ \E i \in DOMAIN edits' : edits'[i] = x
          /\ \A f \in Editor : (\E i \in DOMAIN edits : edits[i] = editor[f].edit)
                            => \E i \in DOMAIN edits' : edits'[i] = editor[f].edit
      BY <2>8
    <3>5. WasSet(r)' /\ x.rule = r /\ r \notin rules' /\ rules' \subseteq rules
      BY <1>1, <2>5, <2>17
    <3>6. ASSUME NEW f \in Editor \ {e}
          PROVE  /\ editor'[f] # Idle => WasSet(editor[f].edit.rule)'
                 /\ editor'[f].at = "found" => editor'[f].edit.op = "revoke"
                 /\ Tells(f)' => /\ \E i \in DOMAIN edits' : edits'[i] = editor'[f].edit
                                 /\ editor'[f].edit.op = "revoke" => editor'[f].edit.rule \notin rules'
                                 /\ \A g \in Editor \ {f} : Tells(g)' => editor'[f].edit # editor'[g].edit
      <4>1. editor'[f] = editor[f]
        BY <2>9
      <4>2. PICK v : v = editor[f]
        OBVIOUS
      <4>3. /\ v # Idle => WasSet(v.edit.rule)
            /\ v.at = "found" => v.edit.op = "revoke"
            /\ Tells(f) => /\ \E i \in DOMAIN edits : edits[i] = v.edit
                           /\ v.edit.op = "revoke" => v.edit.rule \notin rules
                           /\ \A g \in Editor \ {f} : Tells(g) => v.edit # editor[g].edit
        BY <4>2 DEF RulesInv, EditorsTell
      <4>4. v # Idle => WasSet(v.edit.rule)'
        BY <2>17, <4>3
      <4>5. Tells(f) => \A g \in Editor \ {f} : Tells(g)' => v.edit # editor'[g].edit
        BY <2>9, <3>1, <3>2, <3>3, <4>2, <4>3
      <4>6. Tells(f) => \E i \in DOMAIN edits' : edits'[i] = v.edit
        BY <3>4, <4>2, <4>3
      <4>7. editor'[f] = v
        BY <4>1, <4>2
      <4>8. QED
        BY <3>2, <3>5, <4>3, <4>4, <4>5, <4>6, <4>7 DEF WasSet, IsSet
    <3>7. \A g \in Editor \ {e} : Tells(g)' => editor'[e].edit # editor'[g].edit
      BY <2>9, <3>1, <3>2, <3>3
    <3>8. WasSet(editor[e].edit.rule)'
      BY <3>3, <3>5 DEF WasSet, IsSet
    <3>9. QED
      BY <3>3, <3>4, <3>5, <3>6, <3>7, <3>8 DEF EditorsTell
  <2>19. QED
    BY <2>11, <2>15, <2>16, <2>18 DEF RulesInv
<1>5. QED
  BY <1>3, <1>4

(* THEOREM: ids, rows and requests stay as the inductive invariant says.   *)
LEMMA RulesStand == RuleSpec => []RulesInv
<1>1. RuleInit => RulesInv
  <2>1. SUFFICES ASSUME RuleInit PROVE RulesInv
    OBVIOUS
  <2>2. DOMAIN <<>> = {} /\ <<>> \in Seq(EditRow)
    OBVIOUS
  <2>3. edits = <<>> /\ rules = {} /\ ruleId = 0 /\ Standing = {}
    <3>1. DOMAIN edits = {}
      BY <2>1, <2>2 DEF RuleInit
    <3>2. QED
      BY <2>1, <3>1 DEF RuleInit, Standing
  <2>4. RuleTypes
    <3>1. IsFiniteSet({}) /\ {} \subseteq RuleRow /\ 0 \in Nat
      BY FS_EmptySet
    <3>2. editor \in [Editor -> {Idle} \cup [at : {"found", "telling"}, edit : EditRow]]
      BY <2>1 DEF RuleInit
    <3>3. QED
      BY <2>2, <2>3, <3>1, <3>2 DEF RuleTypes
  <2>5. EditorsTell
    <3>1. \A e \in Editor : editor[e] = Idle /\ Idle.at = "idle"
      BY <2>1 DEF RuleInit, Idle
    <3>2. QED
      BY <3>1 DEF EditorsTell, Tells
  <2>6. IdsGrow /\ RowsStand
    <3>1. DOMAIN edits = {}
      BY <2>2, <2>3
    <3>2. QED
      BY <2>3, <3>1 DEF IdsGrow, RowsStand
  <2>7. QED
    BY <2>4, <2>5, <2>6 DEF RulesInv
<1>2. RulesInv /\ [RuleNext]_ruleVars => RulesInv'
  <2>1. SUFFICES ASSUME RulesInv, [RuleNext]_ruleVars PROVE RulesInv'
    OBVIOUS
  <2>2. ASSUME NEW e \in Editor, SetRule(e) PROVE RulesInv'
    BY <2>1, <2>2, SetRuleKeeps
  <2>3. ASSUME NEW e \in Editor, LookUp(e) PROVE RulesInv'
    BY <2>1, <2>3, LookUpKeeps
  <2>4. ASSUME NEW e \in Editor, Revoke(e) PROVE RulesInv'
    BY <2>1, <2>4, RevokeKeeps
  <2>5. ASSUME NEW e \in Editor, TellLedger(e) PROVE RulesInv'
    <3>1. editor' = [editor EXCEPT ![e] = Idle] /\ UNCHANGED <<rules, ruleId, edits>>
      BY <2>5 DEF TellLedger
    <3>2. QED
      BY <2>1, <3>1, EditorRests
  <2>6. CASE UNCHANGED ruleVars
    <3>1. UNCHANGED <<rules, ruleId, editor, edits>>
      BY <2>6 DEF ruleVars
    <3>2. RuleTypes' /\ IdsGrow' /\ RowsStand'
      BY <2>1, <3>1, TableStays DEF RulesInv, RuleTypes, EditorRow
    <3>3. EditorsTell'
      BY <2>1, <3>1 DEF RulesInv, EditorsTell, WasSet, IsSet, Tells
    <3>4. QED
      BY <3>2, <3>3 DEF RulesInv
  <2>7. QED
    BY <2>1, <2>2, <2>3, <2>4, <2>5, <2>6 DEF RuleNext, SetRuleHandler, RevokeRuleHandler
<1>3. QED
  BY <1>1, <1>2, PTL DEF RuleSpec

-----------------------------------------------------------------------------
(* The first row that matches is the last word.                            *)
LEMMA LatestIs ==
  ASSUME NEW I \in SUBSET Nat, NEW i \in I, \A j \in I : j <= i
  PROVE  LatestOf(I) = i
<1>1. \A k \in I : (\A j \in I : j <= k) => k = i
  OBVIOUS
<1>2. QED
  BY <1>1 DEF LatestOf

LEMMA OverlayIsLastWord ==
  ASSUME RulesInv, NEW profile \in Profile, NEW tool, NEW scope
  PROVE  Evaluate(Overlay(profile), tool, scope) = LastWord(profile, tool, scope)
<1> DEFINE S == RowsOf(profile)
           N == Cardinality(S)
           said == {i \in Standing : /\ edits[i].rule.profile = profile
                                     /\ Matches(edits[i].rule, tool, scope)}
           scoped == {i \in said : edits[i].rule.scope # NoPrefix}
<1>1. PICK own, default : own = OverridesFor(profile) /\ default = DefaultRules(profile)
  OBVIOUS
<1>2. S \in SUBSET RuleRow /\ IsFiniteSet(S) /\ (\A r, q \in S : r.id = q.id => r = q) /\ S \subseteq rules
  <2>1. S \subseteq rules
    BY DEF RowsOf
  <2>2. rules \subseteq RuleRow /\ IsFiniteSet(rules)
    BY DEF RulesInv, RuleTypes
  <2>3. IsFiniteSet(S)
    BY <2>1, <2>2, FS_Subset
  <2>4. \A r, q \in rules : r.id = q.id => r = q
    BY IdsAreOwn
  <2>5. QED
    BY <2>1, <2>2, <2>3, <2>4
<1>3. /\ N \in Nat /\ own \in [1 .. N -> S]
      /\ \A i, j \in 1 .. N : i < j => Precedes(own[i], own[j])
      /\ \A r \in S : \E i \in 1 .. N : own[i] = r
  <2>1. own = CHOOSE s \in [1 .. Cardinality(S) -> S] : \A i, j \in DOMAIN s : i < j => Precedes(s[i], s[j])
    BY <1>1 DEF OverridesFor, InOrder
  <2> HIDE DEF S
  <2>2. \E s \in [1 .. Cardinality(S) -> S] : \A i, j \in DOMAIN s : i < j => Precedes(s[i], s[j])
    <3>1. \E s \in [1 .. Cardinality(S) -> S] :
            \A i, j \in 1 .. Cardinality(S) : i < j => Precedes(s[i], s[j])
      BY <1>2, PlacesAreTaken
    <3>2. QED
      BY <3>1
  <2>3. own \in [1 .. N -> S] /\ \A i, j \in DOMAIN own : i < j => Precedes(own[i], own[j])
    BY <2>1, <2>2
  <2>4. QED
    BY <1>2, <2>3, RowsInOrder
<1>4. LastWord(profile, tool, scope) =
        IF scoped # {} THEN edits[LatestOf(scoped)].rule.decision
        ELSE IF said # {} THEN edits[LatestOf(said)].rule.decision
        ELSE Evaluate(default, tool, scope)
  BY <1>1 DEF LastWord
<1>5. \A i \in said : i \in Nat /\ i \in DOMAIN edits /\ IsSet(i) /\ edits[i].rule \in S
  <2>1. DOMAIN edits = 1 .. Len(edits) /\ Len(edits) \in Nat
    BY LenProperties DEF RulesInv, RuleTypes
  <2>2. \A i \in Standing : i \in DOMAIN edits /\ IsSet(i) /\ edits[i].rule \in rules
    BY DEF Standing, IsSet, RulesInv, RowsStand
  <2>3. \A i \in Standing : i \in Nat
    BY <2>1, <2>2
  <2>4. QED
    BY <2>2, <2>3 DEF RowsOf
<1>6. \A r \in S : r.profile = profile /\ \E i \in Standing : edits[i].rule = r
  BY <1>2 DEF RowsOf, RulesInv, RowsStand
<1> HIDE DEF S, N
<1>7. /\ \A i \in 1 .. N :
           Matches(own[i], tool, scope) /\ (\A j \in 1 .. N : j < i => ~Matches(own[j], tool, scope))
           => Evaluate(Overlay(profile), tool, scope) = own[i].decision
      /\ (\A i \in 1 .. N : ~Matches(own[i], tool, scope)) =>
           Evaluate(Overlay(profile), tool, scope) = Evaluate(default, tool, scope)
  <2>1. default \in Seq(DefaultRow)
    BY <1>1, RuleConstants DEF DefaultRow, RuleScope
  <2>2. PICK U : U = S \cup DefaultRow
    OBVIOUS
  <2>3. default \in Seq(U)
    BY <2>1, <2>2, LenProperties, SeqDef
  <2>4. own \in [1 .. N -> U]
    BY <1>3, <2>2
  <2>5. own \in Seq(U) /\ Len(own) = N
    BY <1>3, <2>4, SeqDef, LenProperties
  <2>6. Overlay(profile) = own \o default
    BY <1>1 DEF Overlay
  <2>7. /\ \A i \in 1 .. Len(own) :
              Matches(own[i], tool, scope) /\ (\A j \in 1 .. Len(own) : j < i => ~Matches(own[j], tool, scope))
              => Evaluate(own \o default, tool, scope) = own[i].decision
        /\ (\A i \in 1 .. Len(own) : ~Matches(own[i], tool, scope)) =>
              Evaluate(own \o default, tool, scope) = Evaluate(default, tool, scope)
    BY <2>3, <2>5, OverlaidDecides
  <2>8. QED
    BY <2>5, <2>6, <2>7
<1>8. CASE \A k \in 1 .. N : ~Matches(own[k], tool, scope)
  <2>1. said = {}
    BY <1>3, <1>5, <1>8
  <2>2. scoped = {}
    BY <2>1
  <2>3. QED
    BY <1>4, <1>7, <1>8, <2>1, <2>2
<1>9. CASE \E k \in 1 .. N : Matches(own[k], tool, scope)
  <2>1. PICK k \in 1 .. N : /\ Matches(own[k], tool, scope)
                            /\ \A j \in 1 .. N : j < k => ~Matches(own[j], tool, scope)
    BY <1>3, <1>9, SomeMatchIsFirst
  <2>2. PICK r \in S : r = own[k]
    BY <1>3
  <2>3. Evaluate(Overlay(profile), tool, scope) = r.decision
    BY <1>7, <2>1, <2>2
  <2>4. PICK i \in said : edits[i].rule = r
    BY <1>6, <2>1, <2>2
  <2>5. ASSUME NEW j \in said
        PROVE  edits[j].rule = r \/ Precedes(r, edits[j].rule)
    <3>1. PICK q \in S : q = edits[j].rule /\ Matches(q, tool, scope)
      BY <1>5, <2>5
    <3>2. PICK m \in 1 .. N : own[m] = q
      BY <1>3, <3>1
    <3>3. ~(m < k)
      BY <2>1, <3>1, <3>2
    <3>4. m = k \/ k < m
      BY <1>3, <3>3
    <3>5. QED
      BY <1>3, <2>2, <3>1, <3>2, <3>4
  <2>6. ASSUME NEW j \in said, (edits[j].rule.scope = NoPrefix) = (r.scope = NoPrefix)
        PROVE  j <= i
    <3>1. SUFFICES ASSUME i < j PROVE FALSE
      BY <1>5, <2>4
    <3>2. edits[i].rule.id < edits[j].rule.id
      BY <1>5, <2>4, <3>1 DEF RulesInv, IdsGrow
    <3>3. PICK q \in S : q = edits[j].rule
      BY <1>5
    <3>4. r.id \in Nat /\ q.id \in Nat
      BY <1>2, <2>2, <3>3 DEF RuleRow
    <3>5. r.id < q.id
      BY <2>4, <3>2, <3>3
    <3>6. ~(q.id < r.id) /\ q # r
      BY <3>4, <3>5
    <3>7. QED
      BY <2>5, <2>6, <3>3, <3>6 DEF Precedes
  <2>7. CASE r.scope # NoPrefix
    <3>1. i \in scoped /\ scoped \in SUBSET Nat
      BY <1>5, <2>4, <2>7
    <3>2. \A j \in scoped : j <= i
      BY <2>6, <2>7
    <3>3. LatestOf(scoped) = i
      <4> HIDE DEF scoped
      <4>1. QED
        BY <3>1, <3>2, LatestIs
    <3>4. QED
      BY <1>4, <2>3, <2>4, <3>1, <3>3
  <2>8. CASE r.scope = NoPrefix
    <3>1. \A j \in said : edits[j].rule.scope = NoPrefix
      BY <2>5, <2>8 DEF Precedes
    <3>2. scoped = {}
      BY <3>1
    <3>3. i \in said /\ said \in SUBSET Nat /\ \A j \in said : j <= i
      BY <1>5, <2>4, <2>6, <2>8, <3>1
    <3>4. LatestOf(said) = i
      <4> HIDE DEF said
      <4>1. QED
        BY <3>3, LatestIs
    <3>5. QED
      BY <1>4, <2>3, <2>4, <3>2, <3>3, <3>4
  <2>9. QED
    BY <2>7, <2>8
<1>10. QED
  BY <1>8, <1>9

LEMMA RulesDecide == RulesInv => LastWordWins
<1>1. SUFFICES ASSUME RulesInv PROVE LastWordWins
  OBVIOUS
<1>2. \A profile \in Profile, tool \in Tool, scope \in Scope :
        Evaluate(Overlay(profile), tool, scope) = LastWord(profile, tool, scope)
  BY <1>1, OverlayIsLastWord
<1>3. \A profile \in Profile, tool \in Tool : MatrixRow(profile, tool) = LastWord(profile, tool, EmptyScope)
  BY <1>1, OverlayIsLastWord DEF MatrixRow
<1>4. \A e \in Editor : editor[e].at = "telling" =>
        /\ \E i \in DOMAIN edits : edits[i] = editor[e].edit
        /\ \A f \in Editor \ {e} : editor[f].at = "telling" => editor[e].edit # editor[f].edit
  BY <1>1 DEF RulesInv, EditorsTell, Tells
<1>5. QED
  BY <1>2, <1>3, <1>4 DEF LastWordWins

(* A session decides by the last word the user has standing, whatever the  *)
(* profiles, tools, prefixes and defaults, and however many rules are set, *)
(* set again and revoked by however many requests (`list_for_profile`,     *)
(* `overlay`, `evaluate`, the handlers of the rules): the ids of the rules *)
(* set are in the order of the history, the rows are the rules that stand, *)
(* and so the first row that matches is the latest said of its kind.       *)
THEOREM LastWordDecides == RuleSpec => []LastWordWins
BY RulesStand, RulesDecide, PTL
=============================================================================
