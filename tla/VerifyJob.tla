------------------------------- MODULE VerifyJob -------------------------------
(***************************************************************************)
(* The dashboard's `/verify` (crates/btv-server/src/handlers/verify.rs     *)
(* over crates/btv-verify): a POST reserves the one slot and spawns a      *)
(* thread that reads the project's btv.toml, runs its steps in order,      *)
(* tells the slot its progress and settles it; GETs poll the slot by run   *)
(* id.  The file is edited and the tree changes meanwhile.                 *)
(***************************************************************************)
EXTENDS Naturals, Sequences, SequencesExt

CONSTANTS
  Run,             \* bound: the run ids that are given, each once
  NoRun,
  ConfiguredSteps, \* what btv.toml configures when it is there and valid
  DefaultSteps     \* `default_steps`

ASSUME VerifyConstants ==
  NoRun \notin Run /\ ConfiguredSteps \in Seq(STRING) /\ DefaultSteps \in Seq(STRING)

VARIABLES
  btvToml,   \* "absent", "valid" or "invalid"
  vslot,     \* `verify_job`
  thread,    \* per run: its `spawn_blocking` thread
  truth,     \* history, per run: what became of each of its processes, in order
  shown      \* history: the last answer to a poll, per run; the unfinished ones alike

verifyVars == <<btvToml, vslot, thread, truth, shown>>

EmptySlot == [run |-> NoRun, status |-> "none", step |-> 0, total |-> 0, evidence |-> << >>]
NoThread == [at |-> "none", steps |-> << >>, done |-> << >>]
NoAnswer == [kind |-> "none"]

VerifyInit ==
  /\ btvToml \in {"absent", "valid", "invalid"}
  /\ vslot = EmptySlot
  /\ thread = [r \in Run |-> NoThread]
  /\ truth = [r \in Run |-> << >>]
  /\ shown = [r \in Run |-> NoAnswer]

EditToml ==
  /\ btvToml' \in {"absent", "valid", "invalid"} \ {btvToml}
  /\ UNCHANGED <<vslot, thread, truth, shown>>

-----------------------------------------------------------------------------
(* `run_verify_start`. *)

Reserved(r) == [EmptySlot EXCEPT !.run = r, !.status = "running"]
Fresh(r) == thread[r].at = "none"

(* Bug (before the single lock): the slot is looked at in one critical     *)
(* section and reserved in another; here the look was long ago.            *)
ReserveBlind(r) ==
  /\ Fresh(r)
  /\ vslot' = Reserved(r)
  /\ thread' = [thread EXCEPT ![r].at = "spawned"]
  /\ UNCHANGED <<btvToml, truth, shown>>

(* Check and reserve under one lock, and spawn; otherwise 409. *)
Reserve(r) ==
  /\ Fresh(r)
  /\ vslot.status # "running"
  /\ vslot' = Reserved(r)
  /\ thread' = [thread EXCEPT ![r].at = "spawned"]
  /\ UNCHANGED <<btvToml, truth, shown>>

(* `load_config`: an error is taken for an absent file. *)
StepsNow == IF btvToml = "valid" THEN ConfiguredSteps ELSE DefaultSteps

LoadSteps(r) ==
  /\ thread[r].at = "spawned"
  /\ thread' = [thread EXCEPT ![r] = [@ EXCEPT !.at = "running", !.steps = StepsNow]]
  /\ UNCHANGED <<btvToml, vslot, truth, shown>>

-----------------------------------------------------------------------------
(* `run_pipeline_with_progress`. *)

(* What a step's process does: exits with 0 or not, runs out of time, or   *)
(* has no code of its own (killed by a signal, not started).               *)
Outcomes == {"zero", "nonzero", "late", "none"}

(* `run_step`: the exit code it records, and the severities it finds, its  *)
(* own or the parser's.                                                    *)
ExitCode(o) ==
  CASE o = "zero" -> 0 [] o = "nonzero" -> 1 [] o = "late" -> 124 [] OTHER -> -1

FindingsOf(o) ==
  IF o = "zero" THEN {<< >>, <<"warning", "error", "error">>} ELSE {<<"error">>}

(* The step runs, and the callback tells the slot, whosever it is. *)
RunStep(r) ==
  /\ thread[r].at = "running"
  /\ Len(thread[r].done) < Len(thread[r].steps)
  /\ \E o \in Outcomes : \E findings \in FindingsOf(o) :
       LET step == [name |-> thread[r].steps[Len(thread[r].done) + 1], exit |-> ExitCode(o), findings |-> findings]
       IN /\ thread' = [thread EXCEPT ![r].done = Append(@, step)]
          /\ truth' = [truth EXCEPT ![r] = Append(@, o)]
  /\ vslot' = IF vslot.run = NoRun THEN vslot
              ELSE [vslot EXCEPT !.status = "running", !.step = Len(thread'[r].done),
                                 !.total = Len(thread[r].steps)]
  /\ UNCHANGED <<btvToml, shown>>

(* `settle_verify_job`, whosever the slot is: the evidence, or the message *)
(* of a panic caught on the way.                                           *)
Settle(r) ==
  /\ thread[r].at = "running"
  /\ \/ /\ Len(thread[r].done) = Len(thread[r].steps)
        /\ vslot' = [vslot EXCEPT !.status = "done", !.evidence = thread[r].done]
     \/ vslot' = [vslot EXCEPT !.status = "failed", !.evidence = << >>]
  /\ thread' = [thread EXCEPT ![r].at = "over"]
  /\ UNCHANGED <<btvToml, truth, shown>>

-----------------------------------------------------------------------------
(* `get_verify_status`. *)

(* `derive_verdict`. *)
Verdict(evidence) == IF \E i \in DOMAIN evidence : evidence[i].exit # 0 THEN "fail" ELSE "pass"

(* `ValueReview::from_evidence`, in twentieths: an error costs 8, a warning 2; *)
(* the first gate that closes is named.                                        *)
Penalty(severity) == CASE severity \in {"critical", "error"} -> 8 [] severity = "warning" -> 2 [] OTHER -> 1
Severities(evidence) == FlattenSeq([i \in DOMAIN evidence |-> evidence[i].findings])
Security(evidence) ==
  LET lost == FoldLeft(LAMBDA sum, severity : sum + Penalty(severity), 0, Severities(evidence))
  IN IF evidence = << >> THEN 10 ELSE IF lost > 20 THEN 0 ELSE 20 - lost

GateClosed(evidence) ==
  IF Contains(Severities(evidence), "critical") THEN "critical_finding"
  ELSE IF Verdict(evidence) = "fail" THEN "verify_fail"
  ELSE IF Security(evidence) < 10 THEN "security_floor"
  ELSE "none"

PollStatus(r) ==
  /\ ~Fresh(r)
  /\ shown' = [shown EXCEPT ![r] =
       IF vslot.run # r \/ vslot.status # "done" THEN NoAnswer
       ELSE [kind |-> "done", evidence |-> vslot.evidence, verdict |-> Verdict(vslot.evidence),
             gate |-> GateClosed(vslot.evidence)]]
  /\ UNCHANGED <<btvToml, vslot, thread, truth>>

VerifyNext ==
  \/ EditToml
  \/ \E r \in Run : Reserve(r) \/ LoadSteps(r) \/ RunStep(r) \/ Settle(r) \/ PollStatus(r)

VerifySpec == VerifyInit /\ [][VerifyNext]_verifyVars

(* What a poll of a run answers is of that run: "done" comes with all its  *)
(* own steps in order, each as its process ended, a verdict that passes    *)
(* only if every process exited with 0 in time, and open gates only with   *)
(* that verdict; "running" means its thread is at work, the only one ("só  *)
(* 1 job por vez", "dois pipelines disputando o mesmo target/").           *)
PollsTellTheRun ==
  /\ \A r, s \in Run : thread[r].at \in {"spawned", "running"} /\ thread[s].at \in {"spawned", "running"} => r = s
  /\ vslot.status = "running" => thread[vslot.run].at \in {"spawned", "running"}
  /\ \A r \in Run : shown[r].kind = "done" =>
       /\ thread[r].at = "over"
       /\ [i \in DOMAIN shown[r].evidence |-> shown[r].evidence[i].name] = thread[r].steps
       /\ [i \in DOMAIN shown[r].evidence |-> shown[r].evidence[i].exit] = [i \in DOMAIN truth[r] |-> ExitCode(truth[r][i])]
       /\ shown[r].verdict = "pass" => \A i \in DOMAIN truth[r] : truth[r][i] = "zero"
       /\ shown[r].gate = "none" => shown[r].verdict = "pass"
=============================================================================
