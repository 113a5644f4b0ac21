------------------------------ MODULE StoreProofs ------------------------------
(***************************************************************************)
(* Proofs about what several connections, callers or processes share, for  *)
(* any number of them: the slot of `/verify`, the PostgreSQL profiles, the *)
(* sessions at the border of the tenants, what the ledger tells of the     *)
(* profiles, and the rows of runs and deliverables.                        *)
(***************************************************************************)
EXTENDS VerifyJob, PgProfiles, TenantBorder, Profiles, RunStore, SequenceTheorems,
        FiniteSetTheorems, Integers, TLAPS

(* The one slot of `/verify`, for any runs, steps and edits of btv.toml.    *)

Severity == {"error", "warning"}
Step == [name : STRING, exit : Int, findings : Seq(Severity)]
Thread == [at : {"none", "spawned", "running", "over"}, steps : Seq(STRING), done : Seq(Step)]
Slot == [run : Run \cup {NoRun}, status : {"none", "running", "done", "failed"}, step : Nat,
         total : Nat, evidence : Seq(Step)]

AtWork(r) == thread[r].at \in {"spawned", "running"}

JobTypes ==
  /\ vslot \in Slot
  /\ thread \in [Run -> Thread]
  /\ truth \in [Run -> Seq(Outcomes)]
  /\ DOMAIN shown = Run

(* The slot is the run's whose thread is at work. *)
SlotIsTaken ==
  /\ \A r \in Run : AtWork(r) => vslot.run = r /\ vslot.status = "running"
  /\ vslot.status = "running" => vslot.run \in Run /\ AtWork(vslot.run)

(* What a thread has done is what its processes did, in the steps' order. *)
DoneIsTrue ==
  \A r \in Run :
    /\ Len(thread[r].done) = Len(truth[r]) /\ Len(thread[r].done) <= Len(thread[r].steps)
    /\ thread[r].at \in {"none", "spawned"} =>
         thread[r].done = << >> /\ thread[r].steps = << >> /\ truth[r] = << >>
    /\ \A i \in 1 .. Len(truth[r]) : /\ thread[r].done[i].name = thread[r].steps[i]
                                     /\ thread[r].done[i].exit = ExitCode(truth[r][i])

Complete(r, evidence) ==
  /\ thread[r].at = "over" /\ evidence = thread[r].done
  /\ Len(thread[r].done) = Len(thread[r].steps)

(* And what the slot keeps, or a poll was answered, is all of it. *)
EvidenceIsWhole ==
  /\ vslot.status = "done" => vslot.run \in Run /\ Complete(vslot.run, vslot.evidence)
  /\ \A r \in Run : shown[r].kind = "done" =>
       /\ Complete(r, shown[r].evidence)
       /\ shown[r].verdict = Verdict(shown[r].evidence) /\ shown[r].gate = GateClosed(shown[r].evidence)

JobInv == JobTypes /\ SlotIsTaken /\ DoneIsTrue /\ EvidenceIsWhole

-----------------------------------------------------------------------------

(* A thread's record is replaced, the others' stay. *)
LEMMA ThreadFields ==
  ASSUME JobTypes, NEW r \in Run, NEW t \in Thread, thread' = [thread EXCEPT ![r] = t]
  PROVE  /\ thread' \in [Run -> Thread] /\ thread'[r] = t
         /\ \A q \in Run \ {r} : thread'[q] = thread[q]
  BY DEF JobTypes

(* What was told of the other runs, and of one that is over, stays true. *)
LEMMA AnswersStay ==
  ASSUME JobTypes, EvidenceIsWhole, NEW r \in Run, thread[r].at # "over", shown' = shown,
         \A q \in Run \ {r} : thread'[q] = thread[q]
  PROVE  \A q \in Run : shown'[q].kind = "done" =>
           /\ thread'[q].at = "over" /\ shown'[q].evidence = thread'[q].done
           /\ Len(thread'[q].done) = Len(thread'[q].steps)
           /\ shown'[q].verdict = Verdict(shown'[q].evidence)
           /\ shown'[q].gate = GateClosed(shown'[q].evidence)
  BY DEF EvidenceIsWhole, Complete

LEMMA ThreeInSeq == ASSUME NEW S, NEW a \in S, NEW b \in S, NEW c \in S PROVE <<a, b, c>> \in Seq(S)
  OBVIOUS

LEMMA FindingsAreGraded == ASSUME NEW o, NEW findings \in FindingsOf(o) PROVE findings \in Seq(Severity)
<1>1. findings = << >> \/ findings = <<"warning", "error", "error">> \/ findings = <<"error">>
  BY DEF FindingsOf
<1>2. "warning" \in Severity /\ "error" \in Severity
  BY DEF Severity
<1>3. CASE findings = << >>
  BY <1>3
<1>4. CASE findings = <<"error">>
  BY <1>2, <1>4
<1>5. CASE findings = <<"warning", "error", "error">>
  <2>1. <<"warning", "error", "error">> \in Seq(Severity)
    BY <1>2, ThreeInSeq
  <2> QED
    BY <1>5, <2>1
<1> QED
  BY <1>1, <1>3, <1>4, <1>5

(* A sequence is the function of its elements. *)
LEMMA SeqIsItsFunction ==
  ASSUME NEW S, NEW seq \in Seq(S) PROVE seq = [i \in 1 .. Len(seq) |-> seq[i]]
  OBVIOUS

LEMMA InitJob == VerifyInit => JobInv
<1> SUFFICES ASSUME VerifyInit PROVE JobInv
  OBVIOUS
<1>1. /\ vslot = EmptySlot /\ truth = [r \in Run |-> << >>] /\ thread = [r \in Run |-> NoThread]
      /\ shown = [r \in Run |-> NoAnswer]
  BY DEF VerifyInit
<1>2. /\ EmptySlot \in Slot /\ EmptySlot.status = "none"
      /\ NoThread \in Thread /\ NoThread.at = "none" /\ NoThread.done = << >> /\ NoThread.steps = << >>
      /\ NoAnswer.kind = "none"
  BY DEF EmptySlot, Slot, NoThread, Thread, NoAnswer
<1>3. JobTypes
  BY <1>1, <1>2 DEF JobTypes
<1>4. SlotIsTaken /\ EvidenceIsWhole
  BY <1>1, <1>2 DEF SlotIsTaken, EvidenceIsWhole, AtWork
<1>5. DoneIsTrue
  BY <1>1, <1>2 DEF DoneIsTrue
<1> QED
  BY <1>3, <1>4, <1>5 DEF JobInv

LEMMA ReserveKeepsInv == ASSUME JobInv, NEW r \in Run, Reserve(r) PROVE JobInv'
<1> DEFINE t == [thread[r] EXCEPT !.at = "spawned"]
<1>0. JobTypes /\ thread[r] \in Thread /\ thread[r].at = "none" /\ vslot.status # "running"
  BY DEF JobInv, JobTypes, Reserve, Fresh
<1>1. t \in Thread /\ t.at = "spawned" /\ t.done = thread[r].done /\ t.steps = thread[r].steps
  BY <1>0 DEF Thread
<1>2. thread' = [thread EXCEPT ![r] = t] /\ vslot' = Reserved(r) /\ truth' = truth /\ shown' = shown
  BY DEF Reserve
<1> HIDE DEF t
<1>3. /\ thread' \in [Run -> Thread] /\ thread'[r] = t
      /\ \A q \in Run \ {r} : thread'[q] = thread[q]
  BY <1>0, <1>1, <1>2, ThreadFields
<1>4. vslot' \in Slot /\ vslot'.run = r /\ vslot'.status = "running"
  <2> DEFINE empty == [run |-> NoRun, status |-> "none", step |-> 0, total |-> 0, evidence |-> << >>]
  <2>1. Reserved(r) = [run |-> r, status |-> "running", step |-> 0, total |-> 0, evidence |-> << >>]
    <3>1. Reserved(r) = [[empty EXCEPT !.run = r] EXCEPT !.status = "running"]
      BY DEF Reserved, EmptySlot
    <3>2. [empty EXCEPT !.run = r] = [run |-> r, status |-> "none", step |-> 0, total |-> 0, evidence |-> << >>]
      OBVIOUS
    <3> QED
      BY <3>1, <3>2
  <2>2. << >> \in Seq(Step) /\ 0 \in Nat
    OBVIOUS
  <2> QED
    BY <1>2, <2>1, <2>2 DEF Slot
<1>5. JobTypes'
  BY <1>0, <1>2, <1>3, <1>4 DEF JobTypes
<1>6. SlotIsTaken'
  BY <1>0, <1>1, <1>3, <1>4 DEF JobInv, SlotIsTaken, AtWork
<1>7. DoneIsTrue'
  BY <1>0, <1>1, <1>2, <1>3 DEF JobInv, DoneIsTrue, ExitCode
<1>8. EvidenceIsWhole'
  BY <1>0, <1>2, <1>3, <1>4, AnswersStay DEF JobInv, EvidenceIsWhole, Complete
<1> QED
  BY <1>5, <1>6, <1>7, <1>8 DEF JobInv

LEMMA LoadKeepsInv == ASSUME JobInv, NEW r \in Run, LoadSteps(r) PROVE JobInv'
<1> DEFINE t == [thread[r] EXCEPT !.at = "running", !.steps = StepsNow]
<1>0. JobTypes /\ thread[r] \in Thread /\ thread[r].at = "spawned"
  BY DEF JobInv, JobTypes, LoadSteps
<1>1. /\ StepsNow \in Seq(STRING)
      /\ t \in Thread /\ t.at = "running" /\ t.done = thread[r].done /\ t.steps = StepsNow
  BY <1>0, VerifyConstants DEF Thread, StepsNow
<1>2. thread' = [thread EXCEPT ![r] = t] /\ vslot' = vslot /\ truth' = truth /\ shown' = shown
  BY DEF LoadSteps
<1> HIDE DEF t
<1>3. /\ thread' \in [Run -> Thread] /\ thread'[r] = t
      /\ \A q \in Run \ {r} : thread'[q] = thread[q]
  BY <1>0, <1>1, <1>2, ThreadFields
<1>4. JobTypes'
  BY <1>0, <1>2, <1>3 DEF JobTypes
<1>5. SlotIsTaken'
  BY <1>0, <1>1, <1>2, <1>3 DEF JobInv, SlotIsTaken, AtWork
<1>6. DoneIsTrue'
  <2>1. thread[r].done = << >> /\ truth[r] = << >> /\ Len(StepsNow) \in Nat /\ Len(<< >>) = 0
    BY <1>0, <1>1 DEF JobInv, DoneIsTrue
  <2>2. /\ Len(thread'[r].done) = Len(truth'[r]) /\ Len(thread'[r].done) <= Len(thread'[r].steps)
        /\ \A i \in 1 .. Len(truth'[r]) : FALSE
    BY <1>1, <1>2, <1>3, <2>1
  <2> QED
    BY <1>1, <1>2, <1>3, <2>2 DEF JobInv, DoneIsTrue, ExitCode
<1>7. EvidenceIsWhole'
  <2>1. vslot.status # "done"
    BY <1>0 DEF JobInv, SlotIsTaken, AtWork
  <2> QED
    BY <1>0, <1>2, <1>3, <2>1, AnswersStay DEF JobInv, EvidenceIsWhole, Complete
<1> QED
  BY <1>4, <1>5, <1>6, <1>7 DEF JobInv

LEMMA StepKeepsInv == ASSUME JobInv, NEW r \in Run, RunStep(r) PROVE JobInv'
<1> DEFINE n == Len(thread[r].done)
<1>0. /\ JobTypes /\ thread[r] \in Thread /\ thread[r].at = "running"
      /\ n < Len(thread[r].steps) /\ n \in Nat /\ Len(thread[r].steps) \in Nat
      /\ truth[r] \in Seq(Outcomes) /\ n = Len(truth[r])
      /\ vslot.run = r /\ vslot.status = "running"
  <2>1. /\ JobTypes /\ thread[r] \in Thread /\ thread[r].at = "running"
        /\ n < Len(thread[r].steps) /\ truth[r] \in Seq(Outcomes)
    BY DEF JobInv, JobTypes, RunStep
  <2>2. n \in Nat /\ Len(thread[r].steps) \in Nat
    BY <2>1 DEF Thread
  <2>3. n = Len(truth[r])
    BY DEF JobInv, DoneIsTrue
  <2>4. vslot.run = r /\ vslot.status = "running"
    BY <2>1 DEF JobInv, SlotIsTaken, AtWork
  <2> QED
    BY <2>1, <2>2, <2>3, <2>4
<1>1. PICK o \in Outcomes : \E findings \in FindingsOf(o) :
        /\ thread' = [thread EXCEPT ![r].done = Append(@, [name |-> thread[r].steps[n + 1],
                                                          exit |-> ExitCode(o), findings |-> findings])]
        /\ truth' = [truth EXCEPT ![r] = Append(@, o)]
  BY DEF RunStep
<1>1a. PICK findings \in FindingsOf(o) :
        /\ thread' = [thread EXCEPT ![r].done = Append(@, [name |-> thread[r].steps[n + 1],
                                                          exit |-> ExitCode(o), findings |-> findings])]
        /\ truth' = [truth EXCEPT ![r] = Append(@, o)]
  BY <1>1
<1> DEFINE step == [name |-> thread[r].steps[n + 1], exit |-> ExitCode(o), findings |-> findings]
           t == [thread[r] EXCEPT !.done = Append(thread[r].done, step)]
<1>2. step \in Step /\ step.name = thread[r].steps[n + 1] /\ step.exit = ExitCode(o)
  <2>1. ExitCode(o) \in Int
    BY DEF ExitCode, Outcomes
  <2>2. findings \in Seq(Severity)
    BY FindingsAreGraded
  <2>3. thread[r].steps[n + 1] \in STRING
    BY <1>0 DEF Thread
  <2> QED
    BY <2>1, <2>2, <2>3 DEF Step
<1>3. thread' = [thread EXCEPT ![r] = t]
  BY <1>1a
<1> HIDE DEF step
<1>4. /\ t \in Thread /\ t.at = "running" /\ t.done = Append(thread[r].done, step)
      /\ t.steps = thread[r].steps
  <2>1. thread[r].done \in Seq(Step)
    BY <1>0 DEF Thread
  <2>2. Append(thread[r].done, step) \in Seq(Step)
    BY <1>2, <2>1
  <2> QED
    BY <1>0, <2>2 DEF Thread
<1> HIDE DEF t
<1>5. /\ thread' \in [Run -> Thread] /\ thread'[r] = t
      /\ \A q \in Run \ {r} : thread'[q] = thread[q]
  BY <1>0, <1>3, <1>4, ThreadFields
<1>6. /\ vslot' = [vslot EXCEPT !.status = "running", !.step = Len(thread'[r].done),
                                !.total = Len(thread[r].steps)]
      /\ shown' = shown
  BY <1>0, VerifyConstants DEF RunStep
<1>7. Len(thread'[r].done) = n + 1 /\ n + 1 \in Nat /\ n + 1 <= Len(thread[r].steps)
  BY <1>0, <1>2, <1>4, <1>5 DEF Thread
<1>8. vslot' \in Slot /\ vslot'.run = r /\ vslot'.status = "running"
  BY <1>0, <1>6, <1>7 DEF JobTypes, Slot
<1>9. JobTypes'
  BY <1>0, <1>1a, <1>5, <1>6, <1>8 DEF JobTypes
<1>10. SlotIsTaken'
  BY <1>0, <1>4, <1>5, <1>8 DEF JobInv, SlotIsTaken, AtWork
<1>11. DoneIsTrue'
  <2>1. /\ Len(truth'[r]) = n + 1 /\ truth'[r][n + 1] = o
        /\ \A i \in 1 .. n : truth'[r][i] = truth[r][i]
        /\ \A q \in Run \ {r} : truth'[q] = truth[q]
    BY <1>0, <1>1a DEF JobTypes
  <2>2. /\ thread'[r].done[n + 1] = step /\ \A i \in 1 .. n : thread'[r].done[i] = thread[r].done[i]
    BY <1>0, <1>2, <1>4, <1>5 DEF Thread
  <2>3. \A i \in 1 .. Len(truth'[r]) : /\ thread'[r].done[i].name = thread'[r].steps[i]
                                       /\ thread'[r].done[i].exit = ExitCode(truth'[r][i])
    <3>1. \A i \in 1 .. n : /\ thread[r].done[i].name = thread[r].steps[i]
                            /\ thread[r].done[i].exit = ExitCode(truth[r][i])
      BY <1>0 DEF JobInv, DoneIsTrue
    <3>2. \A i \in 1 .. n + 1 : i \in 1 .. n \/ i = n + 1
      BY <1>0
    <3> QED
      BY <1>2, <1>4, <1>5, <2>1, <2>2, <3>1, <3>2
  <2>4. /\ Len(thread'[r].done) = Len(truth'[r]) /\ Len(thread'[r].done) <= Len(thread'[r].steps)
        /\ thread'[r].at = "running"
    BY <1>4, <1>5, <1>7, <2>1
  <2>5. ASSUME NEW q \in Run \ {r}
        PROVE  /\ Len(thread'[q].done) = Len(truth'[q]) /\ Len(thread'[q].done) <= Len(thread'[q].steps)
               /\ thread'[q].at \in {"none", "spawned"} =>
                    thread'[q].done = << >> /\ thread'[q].steps = << >> /\ truth'[q] = << >>
               /\ \A i \in 1 .. Len(truth'[q]) : /\ thread'[q].done[i].name = thread'[q].steps[i]
                                                /\ thread'[q].done[i].exit = ExitCode(truth'[q][i])
    <3>1. thread'[q] = thread[q] /\ truth'[q] = truth[q]
      BY <1>5, <2>1
    <3> QED
      BY <3>1 DEF JobInv, DoneIsTrue
  <2>6. \A outcome : ExitCode(outcome)' = ExitCode(outcome)
    BY DEF ExitCode
  <2> QED
    BY <2>3, <2>4, <2>5, <2>6 DEF DoneIsTrue, ExitCode
<1>12. EvidenceIsWhole'
  BY <1>0, <1>5, <1>6, <1>8, AnswersStay DEF JobInv, EvidenceIsWhole, Complete
<1> QED
  BY <1>9, <1>10, <1>11, <1>12 DEF JobInv

LEMMA SettleKeepsInv == ASSUME JobInv, NEW r \in Run, Settle(r) PROVE JobInv'
<1> DEFINE t == [thread[r] EXCEPT !.at = "over"]
<1>0. /\ JobTypes /\ thread[r] \in Thread /\ thread[r].at = "running"
      /\ vslot \in Slot /\ vslot.run = r
  BY DEF JobInv, JobTypes, Settle, SlotIsTaken, AtWork
<1>1. t \in Thread /\ t.at = "over" /\ t.done = thread[r].done /\ t.steps = thread[r].steps
  BY <1>0 DEF Thread
<1>2. thread' = [thread EXCEPT ![r] = t] /\ truth' = truth /\ shown' = shown
  BY DEF Settle
<1> HIDE DEF t
<1>3. /\ thread' \in [Run -> Thread] /\ thread'[r] = t
      /\ \A q \in Run \ {r} : thread'[q] = thread[q]
  BY <1>0, <1>1, <1>2, ThreadFields
<1>4. /\ vslot' \in Slot /\ vslot'.run = r
      /\ \/ /\ Len(thread[r].done) = Len(thread[r].steps)
            /\ vslot'.status = "done" /\ vslot'.evidence = thread[r].done
         \/ vslot'.status = "failed"
  <2>1. thread[r].done \in Seq(Step) /\ << >> \in Seq(Step)
    BY <1>0 DEF Thread
  <2>2. CASE /\ Len(thread[r].done) = Len(thread[r].steps)
             /\ vslot' = [vslot EXCEPT !.status = "done", !.evidence = thread[r].done]
    BY <1>0, <2>1, <2>2 DEF Slot
  <2>3. CASE vslot' = [vslot EXCEPT !.status = "failed", !.evidence = << >>]
    BY <1>0, <2>1, <2>3 DEF Slot
  <2> QED
    BY <2>2, <2>3 DEF Settle
<1>5. JobTypes'
  BY <1>0, <1>2, <1>3, <1>4 DEF JobTypes
<1>6. SlotIsTaken'
  BY <1>0, <1>1, <1>3, <1>4 DEF JobInv, SlotIsTaken, AtWork
<1>7. DoneIsTrue'
  BY <1>0, <1>1, <1>2, <1>3 DEF JobInv, DoneIsTrue, ExitCode
<1>8. EvidenceIsWhole'
  <2>1. vslot'.status = "done" => Complete(vslot.run, vslot.evidence)'
    BY <1>1, <1>3, <1>4 DEF Complete
  <2> QED
    BY <1>0, <1>2, <1>3, <1>4, <2>1, AnswersStay DEF JobInv, EvidenceIsWhole, Complete
<1> QED
  BY <1>5, <1>6, <1>7, <1>8 DEF JobInv

LEMMA PollKeepsInv == ASSUME JobInv, NEW r \in Run, PollStatus(r) PROVE JobInv'
<1>1. /\ JobTypes /\ DOMAIN shown = Run
      /\ vslot' = vslot /\ thread' = thread /\ truth' = truth
  BY DEF JobInv, JobTypes, PollStatus
<1>2. JobTypes' /\ SlotIsTaken' /\ DoneIsTrue'
  BY <1>1 DEF JobInv, JobTypes, SlotIsTaken, AtWork, DoneIsTrue, ExitCode, PollStatus
<1>3. /\ \A q \in Run \ {r} : shown'[q] = shown[q]
      /\ shown'[r].kind = "done" =>
           /\ vslot.run = r /\ vslot.status = "done" /\ shown'[r].evidence = vslot.evidence
           /\ shown'[r].verdict = Verdict(vslot.evidence) /\ shown'[r].gate = GateClosed(vslot.evidence)
  BY <1>1 DEF PollStatus, NoAnswer
<1>4. EvidenceIsWhole'
  BY <1>1, <1>3 DEF JobInv, EvidenceIsWhole, Complete
<1> QED
  BY <1>2, <1>4 DEF JobInv

LEMMA NextJob == JobInv /\ [VerifyNext]_verifyVars => JobInv'
<1> SUFFICES ASSUME JobInv, [VerifyNext]_verifyVars PROVE JobInv'
  OBVIOUS
<1>1. CASE EditToml \/ UNCHANGED verifyVars
  BY <1>1 DEF EditToml, verifyVars, JobInv, JobTypes, SlotIsTaken, AtWork, DoneIsTrue, ExitCode,
              EvidenceIsWhole, Complete
<1>2. ASSUME NEW r \in Run, Reserve(r) PROVE JobInv'
  BY <1>2, ReserveKeepsInv
<1>3. ASSUME NEW r \in Run, LoadSteps(r) PROVE JobInv'
  BY <1>3, LoadKeepsInv
<1>4. ASSUME NEW r \in Run, RunStep(r) PROVE JobInv'
  BY <1>4, StepKeepsInv
<1>5. ASSUME NEW r \in Run, Settle(r) PROVE JobInv'
  BY <1>5, SettleKeepsInv
<1>6. ASSUME NEW r \in Run, PollStatus(r) PROVE JobInv'
  BY <1>6, PollKeepsInv
<1> QED
  BY <1>1, <1>2, <1>3, <1>4, <1>5, <1>6 DEF VerifyNext

(* `run_verify_start` and `settle_verify_job`: one pipeline at a time, and *)
(* a poll answered "done" is of all the steps of its own run, as their     *)
(* processes ended, with the verdict they deserve; for any runs and steps. *)
THEOREM PollsAreTrue == VerifySpec => []PollsTellTheRun
<1>1. ASSUME JobInv PROVE PollsTellTheRun
  <2>1. \A r, s \in Run : thread[r].at \in {"spawned", "running"} /\ thread[s].at \in {"spawned", "running"} => r = s
    BY <1>1 DEF JobInv, SlotIsTaken, AtWork
  <2>2. vslot.status = "running" => thread[vslot.run].at \in {"spawned", "running"}
    BY <1>1 DEF JobInv, SlotIsTaken, AtWork
  <2>3. ASSUME NEW r \in Run, shown[r].kind = "done"
        PROVE  /\ thread[r].at = "over"
               /\ [i \in DOMAIN shown[r].evidence |-> shown[r].evidence[i].name] = thread[r].steps
               /\ [i \in DOMAIN shown[r].evidence |-> shown[r].evidence[i].exit] = [i \in DOMAIN truth[r] |-> ExitCode(truth[r][i])]
               /\ shown[r].verdict = "pass" => \A i \in DOMAIN truth[r] : truth[r][i] = "zero"
               /\ shown[r].gate = "none" => shown[r].verdict = "pass"
    <3> DEFINE done == thread[r].done
    <3>1. /\ thread[r].at = "over" /\ shown[r].evidence = done
          /\ shown[r].verdict = Verdict(done) /\ shown[r].gate = GateClosed(done)
          /\ Len(done) = Len(thread[r].steps) /\ Len(done) = Len(truth[r])
      BY <1>1, <2>3 DEF JobInv, EvidenceIsWhole, Complete, DoneIsTrue
    <3>2. /\ done \in Seq(Step) /\ thread[r].steps \in Seq(STRING) /\ truth[r] \in Seq(Outcomes)
          /\ DOMAIN done = 1 .. Len(done) /\ DOMAIN truth[r] = 1 .. Len(truth[r])
          /\ \A i \in 1 .. Len(truth[r]) : truth[r][i] \in Outcomes
      BY <1>1 DEF JobInv, JobTypes, Thread
    <3>3. \A i \in 1 .. Len(truth[r]) : done[i].name = thread[r].steps[i] /\ done[i].exit = ExitCode(truth[r][i])
      BY <1>1 DEF JobInv, DoneIsTrue
    <3> HIDE DEF done
    <3>4. [i \in DOMAIN done |-> done[i].name] = thread[r].steps
      <4> DEFINE names == [i \in DOMAIN done |-> done[i].name]
      <4>1. DOMAIN done = 1 .. Len(thread[r].steps) /\ Len(thread[r].steps) = Len(truth[r])
        BY <3>1, <3>2
      <4>2. \A i \in 1 .. Len(thread[r].steps) : done[i].name = thread[r].steps[i]
        BY <3>3, <4>1
      <4>3. names = [i \in 1 .. Len(thread[r].steps) |-> thread[r].steps[i]]
        BY <4>1, <4>2
      <4>4. thread[r].steps = [i \in 1 .. Len(thread[r].steps) |-> thread[r].steps[i]]
        BY <3>2, SeqIsItsFunction
      <4> QED
        BY <4>3, <4>4
    <3>5. [i \in DOMAIN done |-> done[i].exit] = [i \in DOMAIN truth[r] |-> ExitCode(truth[r][i])]
      BY <3>1, <3>2, <3>3
    <3>6. Verdict(done) = "pass" => \A i \in DOMAIN truth[r] : truth[r][i] = "zero"
      <4>1. \A o \in Outcomes : ExitCode(o) = 0 => o = "zero"
        BY DEF Outcomes, ExitCode
      <4> QED
        BY <3>1, <3>2, <3>3, <4>1 DEF Verdict
    <3>7. GateClosed(done) = "none" => Verdict(done) = "pass"
      BY DEF GateClosed, Verdict
    <3> QED
      BY <3>1, <3>4, <3>5, <3>6, <3>7
  <2> QED
    BY <2>1, <2>2, <2>3 DEF PollsTellTheRun
<1> QED
  BY <1>1, InitJob, NextJob, PTL DEF VerifySpec

-----------------------------------------------------------------------------
(* The transactions of PgProfiles, for any connections, tenants, keys and   *)
(* values and any number of calls.                                          *)

Stored == Value \cup {Absent}
CallNames == {"none"} \cup Inserts \cup Upserts \cup Updates \cup Deletes \cup Clears \cup Reads
Tx == [at : {"none", "begun", "read", "missed", "salted", "written"}, op : CallNames,
       row : Row \cup {NoTx.row}, value : Stored, found : Stored, span : SUBSET Stored]

CallTypes ==
  /\ ppTable \in {"users", "custom_personas", "persona_overrides", "template_pub"}
  /\ stored \in [Row -> Stored]
  /\ tx \in [PpConn -> Tx]

(* Something its row held while the call was under way explains how far    *)
(* it is.                                                                  *)
Explained(t) ==
  /\ t.at = "read" => t.op # "set_pin" /\ t.found \in t.span
  /\ t.at = "missed" => t.op = "set_pin" /\ Absent \in t.span
  /\ t.at = "salted" => t.op = "set_pin" /\ \E value \in t.span : value # Absent
  /\ t.at = "written" /\ t.op = "set_pin" => \E value \in t.span : value # Absent
  /\ t.at = "written" /\ t.op # "set_pin" => t.found \in t.span \/ t.op \in Inserts \cup Upserts

(* What its row holds now is among what a call has seen it hold. *)
Seen == \A c \in PpConn : tx[c].at # "none" =>
  tx[c].row \in Row /\ stored[tx[c].row] \in tx[c].span /\ Explained(tx[c])

CallInv == CallTypes /\ Seen /\ CallsLookAtomic

-----------------------------------------------------------------------------

(* A transaction's record is replaced, the others' stay. *)
LEMMA TxFields ==
  ASSUME CallTypes, NEW c \in PpConn, NEW t \in Tx, tx' = [tx EXCEPT ![c] = t]
  PROVE  tx' \in [PpConn -> Tx] /\ tx'[c] = t /\ \A d \in PpConn \ {c} : tx'[d] = tx[d]
  BY DEF CallTypes

(* A statement that leaves the committed rows alone and what it found      *)
(* explained.                                                              *)
LEMMA StatementKeepsInv ==
  ASSUME CallInv, NEW c \in PpConn, NEW t \in Tx, tx' = [tx EXCEPT ![c] = t],
         t.at # "none", t.row \in Row, stored[t.row] \in t.span, Explained(t),
         UNCHANGED <<ppTable, stored, answered>>
  PROVE  CallInv'
<1>1. tx' \in [PpConn -> Tx] /\ tx'[c] = t /\ \A d \in PpConn \ {c} : tx'[d] = tx[d]
  BY TxFields DEF CallInv
<1>2. CallTypes' /\ CallsLookAtomic'
  BY <1>1 DEF CallInv, CallTypes, CallsLookAtomic, AnswerTo
<1>3. ASSUME NEW d \in PpConn, tx'[d].at # "none"
      PROVE  tx'[d].row \in Row /\ stored'[tx'[d].row] \in tx'[d].span /\ Explained(tx'[d])
  <2>1. CASE d = c
    BY <1>1, <2>1
  <2>2. CASE d # c
    BY <1>1, <1>3, <2>2 DEF CallInv, Seen
  <2> QED
    BY <2>1, <2>2
<1>4. Seen'
  BY <1>3 DEF Seen, Explained
<1> QED
  BY <1>2, <1>4 DEF CallInv

(* What is known of a call at its next statement. *)
LEMMA CallUnderWay ==
  ASSUME CallInv, NEW c \in PpConn, tx[c].at # "none"
  PROVE  /\ tx[c] \in Tx /\ tx[c].row \in Row /\ stored[tx[c].row] \in tx[c].span
         /\ Explained(tx[c]) /\ stored[tx[c].row] \in Stored
  BY DEF CallInv, CallTypes, Seen

LEMMA WriteKeepsInv ==
  ASSUME CallInv, NEW c \in PpConn, tx[c].at # "none", NEW found \in Stored, Wrote(c, found),
         IF tx[c].op = "set_pin" THEN \E value \in tx[c].span : value # Absent
         ELSE found \in tx[c].span \/ tx[c].op \in Inserts \cup Upserts
  PROVE  CallInv'
<1> DEFINE t == [tx[c] EXCEPT !.at = "written", !.found = found]
<1>1. /\ t \in Tx /\ t.at = "written" /\ t.found = found
      /\ t.op = tx[c].op /\ t.row = tx[c].row /\ t.span = tx[c].span
  BY CallUnderWay DEF Tx
<1>2. tx' = [tx EXCEPT ![c] = t] /\ UNCHANGED <<ppTable, stored, answered>>
  BY DEF Wrote
<1> HIDE DEF t
<1>3. Explained(t)
  BY <1>1 DEF Explained
<1> QED
  BY <1>1, <1>2, <1>3, CallUnderWay, StatementKeepsInv

LEMMA SelectKeepsInv ==
  ASSUME CallInv, NEW c \in PpConn, NEW op, NEW next, SelectsRow(c, op, next),
         \/ next = "read" /\ op # "set_pin"
         \/ op = "set_pin" /\ next = IF stored[tx[c].row] = Absent THEN "missed" ELSE "salted"
  PROVE  CallInv'
<1> DEFINE t == [tx[c] EXCEPT !.at = next, !.found = stored[tx[c].row]]
<1>0. tx[c].at # "none" /\ tx[c].op = op
  BY DEF SelectsRow, Begun
<1>1. /\ t \in Tx /\ t.at = next /\ t.found = stored[tx[c].row]
      /\ t.op = op /\ t.row = tx[c].row /\ t.span = tx[c].span
  BY <1>0, CallUnderWay DEF Tx
<1>2. tx' = [tx EXCEPT ![c] = t] /\ UNCHANGED <<ppTable, stored, answered>>
  BY DEF SelectsRow
<1>3. t.at # "none"
  BY <1>1
<1> HIDE DEF t
<1>4. Explained(t)
  BY <1>0, <1>1, CallUnderWay DEF Explained
<1> QED
  BY <1>0, <1>1, <1>2, <1>3, <1>4, CallUnderWay, StatementKeepsInv

LEMMA TouchKeepsInv ==
  ASSUME CallInv, NEW c \in PpConn, NEW op, op # "set_pin", TouchesRow(c, op)
  PROVE  CallInv'
<1>1. tx[c].at # "none" /\ tx[c].op # "set_pin" /\ Wrote(c, stored[tx[c].row])
  BY DEF TouchesRow, Begun
<1> QED
  BY <1>1, CallUnderWay, WriteKeepsInv

LEMMA PutKeepsInv ==
  ASSUME CallInv, NEW c \in PpConn, NEW op \in Inserts \cup Upserts,
         InsertsRow(c, op) \/ UpsertsRow(c, op)
  PROVE  CallInv'
<1>1. tx[c].at # "none" /\ tx[c].op = op /\ Wrote(c, tx[c].value)
  BY DEF InsertsRow, UpsertsRow, Begun
<1>2. tx[c].value \in Stored
  BY <1>1, CallUnderWay DEF Tx
<1>3. op # "set_pin"
  BY DEF Inserts, Upserts
<1> QED
  BY <1>1, <1>2, <1>3, WriteKeepsInv

LEMMA SetPinKeepsInv == ASSUME CallInv, NEW c \in PpConn, PgSetPin(c) PROVE CallInv'
<1>1. CASE SelectsRow(c, "set_pin", IF stored[tx[c].row] = Absent THEN "missed" ELSE "salted")
  BY <1>1, SelectKeepsInv
<1>2. CASE tx[c].at = "salted" /\ Wrote(c, stored[tx[c].row])
  <2>1. tx[c].op = "set_pin" /\ \E value \in tx[c].span : value # Absent
    BY <1>2, CallUnderWay DEF Explained
  <2> QED
    BY <1>2, <2>1, CallUnderWay, WriteKeepsInv
<1> QED
  BY <1>1, <1>2 DEF PgSetPin

LEMMA BeginKeepsInv == ASSUME CallInv, NEW c \in PpConn, PgBegin(c) PROVE CallInv'
<1>1. PICK op \in CallsOn[ppTable] : \E row \in Row, value \in Value :
        tx' = [tx EXCEPT ![c] = [at |-> "begun", op |-> op, row |-> row, value |-> value,
                                 found |-> Absent, span |-> {stored[row]}]]
  BY DEF PgBegin
<1>2. PICK row \in Row, value \in Value :
        tx' = [tx EXCEPT ![c] = [at |-> "begun", op |-> op, row |-> row, value |-> value,
                                 found |-> Absent, span |-> {stored[row]}]]
  BY <1>1
<1> DEFINE t == [at |-> "begun", op |-> op, row |-> row, value |-> value,
                 found |-> Absent, span |-> {stored[row]}]
<1>3. op \in CallNames
  BY DEF CallInv, CallTypes, CallsOn, CallNames, Inserts, Upserts, Updates, Deletes, Clears, Reads
<1>4. stored[row] \in Stored
  BY DEF CallInv, CallTypes
<1>5. /\ t \in Tx /\ t.at = "begun" /\ t.row = row /\ t.span = {stored[row]}
  BY <1>3, <1>4 DEF Tx, Stored
<1>6. UNCHANGED <<ppTable, stored, answered>> /\ tx' = [tx EXCEPT ![c] = t]
  BY <1>2 DEF PgBegin
<1> HIDE DEF t
<1>7. Explained(t) /\ t.at # "none" /\ stored[t.row] \in t.span
  BY <1>5 DEF Explained
<1> QED
  BY <1>5, <1>6, <1>7, StatementKeepsInv

LEMMA FailKeepsInv == ASSUME CallInv, NEW c \in PpConn, PgTxFails(c) PROVE CallInv'
<1>1. NoTx \in Tx /\ NoTx.at = "none"
  BY DEF NoTx, Tx, CallNames, Stored
<1>2. tx' \in [PpConn -> Tx] /\ tx'[c] = NoTx /\ \A d \in PpConn \ {c} : tx'[d] = tx[d]
  BY <1>1, TxFields DEF CallInv, PgTxFails
<1>3. UNCHANGED <<ppTable, stored, answered>>
  BY DEF PgTxFails
<1>4. CallTypes' /\ CallsLookAtomic'
  BY <1>2, <1>3 DEF CallInv, CallTypes, CallsLookAtomic, AnswerTo
<1>5. ASSUME NEW d \in PpConn, tx'[d].at # "none"
      PROVE  tx'[d].row \in Row /\ stored'[tx'[d].row] \in tx'[d].span /\ Explained(tx'[d])
  BY <1>1, <1>2, <1>3, <1>5 DEF CallInv, Seen
<1>6. Seen'
  BY <1>5 DEF Seen, Explained
<1> QED
  BY <1>4, <1>6 DEF CallInv

(* The answer is one the row explains. *)
LEMMA AnswerIsExplained ==
  ASSUME NEW c, tx[c].at \in {"read", "missed", "written"}, Explained(tx[c]), tx[c].span # {}
  PROVE  \E value \in tx[c].span : PgAnswer(c) = AnswerTo(tx[c].op, value)
<1>1. CASE tx[c].op = "set_pin" /\ tx[c].at = "missed"
  <2>1. PgAnswer(c) = "NotFound" /\ AnswerTo("set_pin", Absent) = "NotFound"
    BY <1>1 DEF PgAnswer, AnswerTo, Reads, Updates
  <2> QED
    BY <1>1, <2>1 DEF Explained
<1>2. CASE tx[c].op = "set_pin" /\ tx[c].at # "missed"
  <2>1. PICK value \in tx[c].span : value # Absent
    BY <1>2 DEF Explained
  <2>2. PgAnswer(c) = "Ok" /\ AnswerTo("set_pin", value) = "Ok"
    BY <1>2, <2>1 DEF PgAnswer, AnswerTo, Reads, Updates
  <2> QED
    BY <1>2, <2>2
<1>3. CASE tx[c].op # "set_pin" /\ tx[c].found \in tx[c].span
  <2>1. PgAnswer(c) = AnswerTo(tx[c].op, tx[c].found)
    BY <1>3 DEF PgAnswer
  <2> QED
    BY <1>3, <2>1
<1>4. CASE tx[c].op # "set_pin" /\ tx[c].op \in Inserts \cup Upserts
  <2>1. PICK value \in tx[c].span : TRUE
    OBVIOUS
  <2>2. \A any : AnswerTo(tx[c].op, any) = "Ok"
    BY <1>4 DEF AnswerTo, Inserts, Upserts, Reads, Updates, Deletes
  <2> QED
    BY <1>4, <2>1, <2>2 DEF PgAnswer
<1> QED
  BY <1>1, <1>2, <1>3, <1>4 DEF Explained

LEMMA EndKeepsInv == ASSUME CallInv, NEW c \in PpConn, EndTx(c) PROVE CallInv'
<1> DEFINE row == tx[c].row
           new == IF Holds(c) THEN Left(tx[c].op, tx[c].value, stored[row]) ELSE stored[row]
<1>1. /\ tx[c].at \in {"read", "missed", "written"} /\ tx[c].at # "none"
      /\ stored' = [stored EXCEPT ![row] = new]
      /\ answered' = [op |-> tx[c].op, row |-> row, answer |-> PgAnswer(c), span |-> tx[c].span]
      /\ tx' = [d \in PpConn |->
           IF d = c THEN NoTx
           ELSE IF tx[d].at # "none" /\ tx[d].row = row THEN [tx[d] EXCEPT !.span = @ \cup {new}]
           ELSE tx[d]]
      /\ ppTable' = ppTable
  BY DEF EndTx
<1>2. row \in Row /\ stored[row] \in tx[c].span /\ Explained(tx[c]) /\ tx[c] \in Tx /\ stored[row] \in Stored
  BY <1>1, CallUnderWay
<1>3. new \in Stored
  <2>1. tx[c].value \in Stored /\ Absent \in Stored
    BY <1>2 DEF Tx, Stored
  <2>2. Left(tx[c].op, tx[c].value, stored[row]) \in Stored
    BY <1>2, <2>1 DEF Left
  <2> QED
    BY <1>2, <2>2
<1> HIDE DEF new
<1>4. CallsLookAtomic'
  <2>1. PICK value \in tx[c].span : PgAnswer(c) = AnswerTo(tx[c].op, value)
    BY <1>1, <1>2, AnswerIsExplained
  <2>2. answered'.span = tx[c].span /\ answered'.answer = PgAnswer(c) /\ answered'.op = tx[c].op
    BY <1>1
  <2> QED
    BY <2>1, <2>2 DEF CallsLookAtomic, AnswerTo
<1>5. stored' \in [Row -> Stored] /\ stored'[row] = new /\ \A r \in Row \ {row} : stored'[r] = stored[r]
  BY <1>1, <1>2, <1>3 DEF CallInv, CallTypes
<1>6. NoTx \in Tx /\ NoTx.at = "none"
  BY DEF NoTx, Tx, CallNames, Stored
<1>7. ASSUME NEW d \in PpConn
      PROVE  /\ tx'[d] \in Tx
             /\ tx'[d].at # "none" =>
                  tx'[d].row \in Row /\ stored'[tx'[d].row] \in tx'[d].span /\ Explained(tx'[d])
  <2>0. tx[d] \in Tx
    BY DEF CallInv, CallTypes
  <2>1. CASE d = c
    BY <1>1, <1>6, <2>1
  <2>2. CASE d # c /\ tx[d].at # "none" /\ tx[d].row = row
    <3> DEFINE t == [tx[d] EXCEPT !.span = @ \cup {new}]
    <3>1. /\ t \in Tx /\ t.at = tx[d].at /\ t.op = tx[d].op /\ t.row = row /\ t.found = tx[d].found
          /\ t.span = tx[d].span \cup {new}
      BY <1>3, <2>0, <2>2 DEF Tx
    <3>2. tx'[d] = t
      BY <1>1, <2>2
    <3> HIDE DEF t
    <3>3. Explained(t)
      <4>1. Explained(tx[d])
        BY <2>2, CallUnderWay
      <4>2. \A value \in tx[d].span : value \in t.span
        BY <3>1
      <4> QED
        BY <3>1, <4>1, <4>2 DEF Explained
    <3> QED
      BY <1>2, <1>5, <3>1, <3>2, <3>3
  <2>3. CASE d # c /\ ~(tx[d].at # "none" /\ tx[d].row = row)
    <3>1. tx'[d] = tx[d]
      BY <1>1, <2>3
    <3>2. tx[d].at # "none" => tx[d].row \in Row /\ stored[tx[d].row] \in tx[d].span /\ Explained(tx[d])
      BY CallUnderWay
    <3> QED
      BY <1>5, <2>0, <2>3, <3>1, <3>2
  <2> QED
    BY <2>1, <2>2, <2>3
<1>8. Seen'
  BY <1>7 DEF Seen, Explained
<1>9. tx' \in [PpConn -> Tx]
  BY <1>1, <1>7
<1>10. CallTypes'
  BY <1>1, <1>5, <1>9 DEF CallInv, CallTypes
<1> QED
  BY <1>4, <1>8, <1>10 DEF CallInv

LEMMA InitCalls == PpInit => CallInv
<1> SUFFICES ASSUME PpInit PROVE CallInv
  OBVIOUS
<1>1. NoTx \in Tx /\ NoTx.at = "none"
  BY DEF NoTx, Tx, CallNames, Stored
<1>2. CallTypes /\ \A c \in PpConn : tx[c].at = "none"
  BY <1>1 DEF PpInit, CallTypes, Stored
<1> QED
  BY <1>2 DEF PpInit, CallInv, Seen, CallsLookAtomic

LEMMA NextCall == CallInv /\ [PpNext]_ppVars => CallInv'
<1> SUFFICES ASSUME CallInv, [PpNext]_ppVars PROVE CallInv'
  OBVIOUS
<1>1. CASE UNCHANGED ppVars
  BY <1>1 DEF ppVars, CallInv, CallTypes, Seen, Explained, CallsLookAtomic, AnswerTo
<1>2. ASSUME NEW c \in PpConn, PgBegin(c) \/ EndTx(c) \/ PgTxFails(c) PROVE CallInv'
  BY <1>2, BeginKeepsInv, EndKeepsInv, FailKeepsInv
<1>3. ASSUME NEW c \in PpConn, PgCreate(c) \/ PgInsertCustom(c) \/ PgSetOverride(c) \/ PgSetPublished(c)
      PROVE  CallInv'
  <2>1. {"create", "insert_custom", "set_override", "set_published"} \subseteq Inserts \cup Upserts
    BY DEF Inserts, Upserts
  <2> QED
    BY <1>3, <2>1, PutKeepsInv DEF PgCreate, PgInsertCustom, PgSetOverride, PgSetPublished
<1>4. ASSUME NEW c \in PpConn, \/ PgRemove(c) \/ PgSetActive(c) \/ PgUpdateCustom(c)
                               \/ PgDeleteCustom(c) \/ PgDeleteOverride(c) \/ PgClearOverrides(c)
      PROVE  CallInv'
  BY <1>4, TouchKeepsInv DEF PgRemove, PgSetActive, PgUpdateCustom, PgDeleteCustom, PgDeleteOverride,
                             PgClearOverrides
<1>5. ASSUME NEW c \in PpConn, \/ PgVerifyPin(c) \/ PgListUsers(c) \/ PgListCustom(c)
                               \/ PgListOverrides(c) \/ PgListPublished(c)
      PROVE  CallInv'
  BY <1>5, SelectKeepsInv DEF PgVerifyPin, PgListUsers, PgListCustom, PgListOverrides, PgListPublished
<1>6. ASSUME NEW c \in PpConn, PgSetPin(c) PROVE CallInv'
  BY <1>6, SetPinKeepsInv
<1> QED
  BY <1>1, <1>2, <1>3, <1>4, <1>5, <1>6 DEF PpNext

(* However many processes call the repositories of users, personas and     *)
(* publications, on any rows: each call is answered as one that had been   *)
(* alone with its row at a moment between its begin and its answer.        *)
THEOREM CallsAreAtomic == PpSpec => []CallsLookAtomic
<1>1. CallInv => CallsLookAtomic
  BY DEF CallInv
<1> QED
  BY <1>1, InitCalls, NextCall, PTL DEF PpSpec

-----------------------------------------------------------------------------
(* The sessions and the border, for any tokens, requests, tenants, lifetimes. *)

Session == [tenant : BrTenant \cup {BrLocal}, issued : Nat, absolute : Nat, idle : Nat,
            revokedAt : Nat]
Phase == {"new", "admitted", "guarded", "running", "answered", "forbidden", "unauthorized",
          "misconfigured"}
Arrived == [at : Phase, declares : BOOLEAN, mutates : BOOLEAN, origin : Host \cup {NoHost},
            bearer : Token \cup {NoToken}, cookie : Token \cup {NoToken},
            tenant : BrTenant \cup {BrLocal}]

BorderTypes ==
  /\ mode \in {"local", "saas", "unplugged"}
  /\ now \in 1 .. MaxNow
  /\ table \in [Token -> Session]
  /\ request \in [Request -> Arrived]
  /\ usedAt \in [Token -> SUBSET Nat]
  /\ askedBy \subseteq Request
  /\ ranAs \subseteq [by : Request, tenant : BrTenant \cup {BrLocal}, wrote : BOOLEAN]

(* A session issued keeps its deadlines: the absolute one for good, the     *)
(* idle one from some use, or the issue, that was before.                  *)
DeadlinesHold ==
  \A k \in Token :
    /\ table[k].revokedAt = 0 => table[k] = Unissued /\ usedAt[k] = {}
    /\ table[k].revokedAt # 0 =>
         /\ table[k].issued <= now
         /\ table[k].absolute = table[k].issued + AbsTtl
         /\ \E b \in {table[k].issued} \cup usedAt[k] : table[k].idle <= b + IdleTtl
         /\ table[k].revokedAt = NotRevoked \/ table[k].revokedAt <= now

(* Each use was within them. *)
UsesWereActive ==
  \A k \in Token : \A u \in usedAt[k] :
    /\ u <= now
    /\ table[k].issued <= u /\ u < table[k].issued + AbsTtl
    /\ u <= table[k].revokedAt
    /\ \E b \in {table[k].issued} \cup {b \in usedAt[k] : b < u} : u < b + IdleTtl

(* The tenant a handler may run for: a token was resolved for its request   *)
(* where sessions count, and tells the tenant where the route asks.        *)
RunsFor(r, tenant) ==
  /\ mode = "local" \/ (mode = "saas" /\ r \in askedBy)
  /\ tenant = IF request[r].declares THEN ContextOf(r) ELSE BrLocal

RunsAreTold ==
  /\ \A r \in Request : request[r].at = "running" => RunsFor(r, request[r].tenant)
  /\ \A h \in ranAs : RunsFor(h.by, h.tenant)

(* Past the layer in saas mode a token has been resolved for the request.  *)
LayerAsked ==
  /\ \A r \in Request : request[r].at = "guarded" => mode = "local" \/ (mode = "saas" /\ r \in askedBy)
  /\ \A r \in askedBy : TokenOf(r) \in Token /\ usedAt[TokenOf(r)] # {}

(* What is past the outermost layer comes from a page allowed to write. *)
WritesAreLocal ==
  /\ \A r \in Request : request[r].at \in {"admitted", "guarded", "running"} => AtHome(r)
  /\ \A r \in askedBy : AtHome(r)
  /\ \A h \in ranAs : AtHome(h.by)

BorderInv ==
  /\ BorderTypes /\ DeadlinesHold /\ UsesWereActive /\ RunsAreTold /\ LayerAsked /\ WritesAreLocal

-----------------------------------------------------------------------------

LEMMA UnissuedType == Unissued \in Session /\ Unissued.revokedAt = 0
  BY DEF Unissued, Session

LEMMA InitBorder == BorderInit => BorderInv
<1> SUFFICES ASSUME BorderInit PROVE BorderInv
  OBVIOUS
<1> USE UnissuedType, TenantBorderConstants DEF BorderInit
<1>1. \A r \in Request : request[r].at = "new"
  OBVIOUS
<1>2. BorderTypes
  BY DEF BorderTypes, Arrived, Phase
<1>3. DeadlinesHold
  BY DEF DeadlinesHold
<1>4. UsesWereActive /\ RunsAreTold /\ LayerAsked /\ WritesAreLocal
  BY <1>1 DEF UsesWereActive, RunsAreTold, LayerAsked, WritesAreLocal
<1> QED
  BY <1>2, <1>3, <1>4 DEF BorderInv

(* A request moves on, and nothing else does. *)
LEMMA MovesKeepInv ==
  ASSUME BorderInv, NEW r \in Request, NEW phase \in Phase, NEW tenant \in BrTenant \cup {BrLocal},
         Answer(r, phase, tenant),
         phase = "running" => RunsFor(r, tenant),
         phase = "guarded" => mode = "local" \/ (mode = "saas" /\ r \in askedBy),
         phase \in {"admitted", "guarded", "running"} => AtHome(r),
         UNCHANGED <<mode, now, table, usedAt, askedBy, ranAs>>
  PROVE  BorderInv'
<1>1. request \in [Request -> Arrived]
  BY DEF BorderInv, BorderTypes
<1>2. /\ request'[r] = [request[r] EXCEPT !.at = phase, !.tenant = tenant]
      /\ \A q \in Request \ {r} : request'[q] = request[q]
      /\ request' \in [Request -> Arrived]
  <2> DEFINE gives == [request[r] EXCEPT !.at = phase, !.tenant = tenant]
  <2>1. request' = [request EXCEPT ![r] = gives]
    BY <1>1 DEF Answer
  <2>2. request[r] \in Arrived
    BY <1>1
  <2>3. gives \in Arrived
    BY <2>2 DEF Arrived
  <2> HIDE DEF gives
  <2>4. /\ request'[r] = gives /\ request' \in [Request -> Arrived]
        /\ \A q \in Request \ {r} : request'[q] = request[q]
    BY <1>1, <2>1, <2>3
  <2> QED
    BY <2>4 DEF gives
<1>3. /\ request'[r].at = phase /\ request'[r].tenant = tenant
      /\ \A q \in Request : /\ request'[q].mutates = request[q].mutates
                            /\ request'[q].declares = request[q].declares
                            /\ request'[q].origin = request[q].origin
                            /\ TokenOf(q)' = TokenOf(q)
  <2>1. request[r] \in Arrived
    BY <1>1
  <2>2. /\ request'[r].at = phase /\ request'[r].tenant = tenant
        /\ request'[r].mutates = request[r].mutates /\ request'[r].origin = request[r].origin
        /\ request'[r].bearer = request[r].bearer /\ request'[r].cookie = request[r].cookie
        /\ request'[r].declares = request[r].declares
    BY <1>2, <2>1 DEF Arrived
  <2>3. \A q \in Request : /\ request'[q].bearer = request[q].bearer
                           /\ request'[q].cookie = request[q].cookie
    BY <1>2, <2>2
  <2>4. \A q \in Request : TokenOf(q)' = TokenOf(q)
    BY <2>3 DEF TokenOf
  <2> QED
    BY <1>2, <2>2, <2>4
<1>4. BorderTypes' /\ DeadlinesHold' /\ UsesWereActive'
  <2>1. BorderTypes'
    BY <1>2 DEF BorderInv, BorderTypes
  <2>2. DeadlinesHold'
    BY DEF BorderInv, DeadlinesHold, Unissued, NotRevoked
  <2>3. UsesWereActive'
    BY DEF BorderInv, UsesWereActive
  <2> QED
    BY <2>1, <2>2, <2>3
<1>5. RunsAreTold'
  <2>1. \A q \in Request : ContextOf(q)' = ContextOf(q)
    BY <1>3 DEF ContextOf
  <2>2. \A q \in Request : \A t : RunsFor(q, t) => RunsFor(q, t)'
    BY <1>3, <2>1 DEF RunsFor
  <2>3. ASSUME NEW q \in Request, request'[q].at = "running" PROVE RunsFor(q, request'[q].tenant)
    BY <1>2, <1>3, <2>3 DEF BorderInv, RunsAreTold
  <2>4. ASSUME NEW q \in Request, request'[q].at = "running" PROVE RunsFor(q, request[q].tenant)'
    <3>1. \E t : t = request'[q].tenant /\ RunsFor(q, t)'
      BY <2>2, <2>3, <2>4
    <3> QED
      BY <3>1 DEF RunsFor
  <2>5. \A h \in ranAs' : RunsFor(h.by, h.tenant)'
    BY <2>2 DEF BorderInv, BorderTypes, RunsAreTold
  <2> QED
    BY <2>4, <2>5 DEF RunsAreTold
<1>6. LayerAsked'
  BY <1>2, <1>3 DEF BorderInv, BorderTypes, LayerAsked
<1>7. WritesAreLocal'
  BY <1>2, <1>3 DEF BorderInv, BorderTypes, WritesAreLocal, AtHome
<1> QED
  BY <1>4, <1>5, <1>6, <1>7 DEF BorderInv

(* A session that resolves is renewed: the use is within its deadlines, and *)
(* so is what it is renewed to.                                            *)
LEMMA UseKeepsSession ==
  ASSUME BorderInv, NEW k \in Token, Resolves(k),
         table' = Renew(k), usedAt' = [usedAt EXCEPT ![k] = @ \cup {now}], now' = now
  PROVE  /\ table' \in [Token -> Session] /\ usedAt' \in [Token -> SUBSET Nat]
         /\ \A j \in Token : table'[j].tenant = table[j].tenant /\ usedAt[j] \subseteq usedAt'[j]
         /\ usedAt'[k] # {}
         /\ DeadlinesHold' /\ UsesWereActive'
<1>1. /\ table \in [Token -> Session] /\ usedAt \in [Token -> SUBSET Nat] /\ now \in Nat
      /\ now <= MaxNow /\ 0 < now /\ AbsTtl \in Nat /\ IdleTtl \in Nat /\ MaxNow \in Nat
  BY TenantBorderConstants DEF BorderInv, BorderTypes
<1>2. /\ table[k] \in Session /\ table[k].revokedAt = NotRevoked
      /\ now < table[k].absolute /\ now < table[k].idle
  BY <1>1 DEF Resolves
<1> DEFINE idle == Least(now + IdleTtl, table[k].absolute)
<1>3. idle \in Nat /\ idle <= now + IdleTtl /\ idle <= table[k].absolute
  BY <1>1, <1>2 DEF Least, Session
<1>4. /\ table'[k] = [table[k] EXCEPT !.idle = idle]
      /\ \A j \in Token \ {k} : table'[j] = table[j] /\ usedAt'[j] = usedAt[j]
      /\ usedAt'[k] = usedAt[k] \cup {now}
      /\ table' = [table EXCEPT ![k].idle = idle]
  BY <1>1 DEF Renew
<1> HIDE DEF idle
<1>5. /\ table'[k] \in Session /\ table'[k].tenant = table[k].tenant
      /\ table'[k].issued = table[k].issued /\ table'[k].absolute = table[k].absolute
      /\ table'[k].revokedAt = table[k].revokedAt /\ table'[k].idle = idle
  BY <1>2, <1>3, <1>4 DEF Session
<1>6. table' \in [Token -> Session] /\ usedAt' \in [Token -> SUBSET Nat]
  BY <1>1, <1>4, <1>5
<1>7. NotRevoked \in Nat /\ NotRevoked # 0 /\ now < NotRevoked
  BY <1>1 DEF NotRevoked
<1>8. /\ table[k].issued <= now /\ table[k].absolute = table[k].issued + AbsTtl
      /\ \E b \in {table[k].issued} \cup usedAt[k] : table[k].idle <= b + IdleTtl
      /\ \A u \in usedAt[k] : u <= now
  BY <1>2, <1>7 DEF BorderInv, DeadlinesHold, UsesWereActive
<1>9. DeadlinesHold'
  <2>1. /\ table'[k].revokedAt # 0 /\ table'[k].issued <= now'
        /\ table'[k].absolute = table'[k].issued + AbsTtl
        /\ table'[k].revokedAt = NotRevoked
    BY <1>2, <1>3, <1>5, <1>7, <1>8
  <2>2. \E b \in {table'[k].issued} \cup usedAt'[k] : table'[k].idle <= b + IdleTtl
    BY <1>3, <1>4, <1>5
  <2> QED
    BY <1>4, <2>1, <2>2 DEF BorderInv, DeadlinesHold, NotRevoked
<1>10. UsesWereActive'
  <2>1. ASSUME NEW u \in usedAt[k]
        PROVE  /\ u <= now' /\ table'[k].issued <= u /\ u < table'[k].issued + AbsTtl
               /\ u <= table'[k].revokedAt
               /\ \E b \in {table'[k].issued} \cup {b \in usedAt'[k] : b < u} : u < b + IdleTtl
    BY <1>4, <1>5, <2>1 DEF BorderInv, UsesWereActive
  <2>2. ASSUME now \notin usedAt[k]
        PROVE  \E b \in {table'[k].issued} \cup {b \in usedAt'[k] : b < now} : now < b + IdleTtl
    <3>1. PICK b \in {table[k].issued} \cup usedAt[k] : table[k].idle <= b + IdleTtl
      BY <1>8
    <3>2. b \in Nat /\ now < b + IdleTtl
      BY <1>1, <1>2, <3>1 DEF Session
    <3>3. b = table[k].issued \/ (b \in usedAt'[k] /\ b < now)
      BY <1>1, <1>4, <1>8, <2>2, <3>1, <3>2
    <3> QED
      BY <1>5, <3>2, <3>3
  <2>3. /\ table'[k].issued <= now /\ now < table'[k].issued + AbsTtl /\ now <= table'[k].revokedAt
    BY <1>1, <1>2, <1>5, <1>7, <1>8
  <2>4. \A u \in usedAt'[k] :
          /\ u <= now' /\ table'[k].issued <= u /\ u < table'[k].issued + AbsTtl
          /\ u <= table'[k].revokedAt
          /\ \E b \in {table'[k].issued} \cup {b \in usedAt'[k] : b < u} : u < b + IdleTtl
    BY <1>1, <1>4, <2>1, <2>2, <2>3
  <2> QED
    BY <1>4, <2>4 DEF BorderInv, UsesWereActive
<1> QED
  BY <1>4, <1>5, <1>6, <1>9, <1>10

LEMMA HourKeepsInv == ASSUME BorderInv, Hour PROVE BorderInv'
<1>1. /\ now \in Nat /\ now' = now + 1 /\ now' \in 1 .. MaxNow
      /\ table \in [Token -> Session] /\ usedAt \in [Token -> SUBSET Nat]
  BY TenantBorderConstants DEF BorderInv, BorderTypes, Hour
<1>2. BorderTypes'
  BY <1>1 DEF BorderInv, BorderTypes, Hour
<1>3. \A n \in Nat : n <= now => n <= now'
  BY <1>1
<1>4. DeadlinesHold'
  <2>1. ASSUME NEW k \in Token, table[k].revokedAt # 0
        PROVE  table[k].issued <= now' /\ (table[k].revokedAt = NotRevoked \/ table[k].revokedAt <= now')
    BY <1>1, <1>3, <2>1 DEF BorderInv, DeadlinesHold, Session
  <2> QED
    BY <2>1 DEF BorderInv, DeadlinesHold, Hour, Unissued, NotRevoked
<1>5. UsesWereActive'
  BY <1>1, <1>3 DEF BorderInv, UsesWereActive, Hour
<1>6. RunsAreTold' /\ LayerAsked' /\ WritesAreLocal'
  BY DEF BorderInv, RunsAreTold, LayerAsked, WritesAreLocal, RunsFor, ContextOf, TokenOf, AtHome, Hour
<1> QED
  BY <1>2, <1>4, <1>5, <1>6 DEF BorderInv

LEMMA IssueKeepsInv == ASSUME BorderInv, NEW k \in Token, IssueSession(k) PROVE BorderInv'
<1>1. /\ table \in [Token -> Session] /\ usedAt \in [Token -> SUBSET Nat] /\ now \in Nat
      /\ now <= MaxNow /\ AbsTtl \in Nat /\ IdleTtl \in Nat /\ MaxNow \in Nat
  BY TenantBorderConstants DEF BorderInv, BorderTypes
<1>2. table[k] = Unissued /\ usedAt[k] = {}
  BY UnissuedType DEF IssueSession, NewToken, BorderInv, DeadlinesHold
<1>3. PICK t \in BrTenant :
         table' = [table EXCEPT ![k] = [tenant |-> t, issued |-> now, absolute |-> now + AbsTtl,
                                        idle |-> now + IdleTtl, revokedAt |-> NotRevoked]]
  BY DEF IssueSession
<1>4. NotRevoked \in Nat /\ NotRevoked # 0 /\ now + AbsTtl \in Nat /\ now + IdleTtl \in Nat
  BY <1>1 DEF NotRevoked
<1>5. /\ table'[k] \in Session /\ table'[k].issued = now /\ table'[k].absolute = now + AbsTtl
      /\ table'[k].idle = now + IdleTtl /\ table'[k].revokedAt = NotRevoked
      /\ \A j \in Token \ {k} : table'[j] = table[j]
      /\ table' \in [Token -> Session]
  BY <1>1, <1>3, <1>4 DEF Session
<1>6. BorderTypes'
  BY <1>5 DEF BorderInv, BorderTypes, IssueSession
<1>7. DeadlinesHold'
  <2>1. /\ table'[k].revokedAt # 0 /\ table'[k].issued <= now'
        /\ table'[k].absolute = table'[k].issued + AbsTtl
        /\ \E b \in {table'[k].issued} \cup usedAt'[k] : table'[k].idle <= b + IdleTtl
        /\ table'[k].revokedAt = NotRevoked
    BY <1>1, <1>4, <1>5 DEF IssueSession
  <2> QED
    BY <1>5, <2>1 DEF BorderInv, DeadlinesHold, IssueSession, NotRevoked
<1>8. UsesWereActive'
  BY <1>2, <1>5 DEF BorderInv, UsesWereActive, IssueSession
<1>9. RunsAreTold' /\ LayerAsked' /\ WritesAreLocal'
  <2>1. \A j \in Token : usedAt[j] # {} => table'[j] = table[j]
    BY <1>2, <1>5
  <2>2. \A r \in Request : \A u : RunsFor(r, u) => RunsFor(r, u)'
    <3> SUFFICES ASSUME NEW r \in Request, NEW u, RunsFor(r, u) PROVE RunsFor(r, u)'
      OBVIOUS
    <3>1. mode = "local" \/ table'[TokenOf(r)] = table[TokenOf(r)]
      BY <2>1 DEF BorderInv, LayerAsked, RunsFor
    <3> QED
      BY <3>1 DEF RunsFor, ContextOf, TokenOf, IssueSession
  <2>3. RunsAreTold'
    BY <2>2 DEF BorderInv, BorderTypes, RunsAreTold, RunsFor, ContextOf, TokenOf, IssueSession
  <2> QED
    BY <2>3 DEF BorderInv, LayerAsked, WritesAreLocal, TokenOf, AtHome, IssueSession
<1> QED
  BY <1>6, <1>7, <1>8, <1>9 DEF BorderInv

LEMMA RevokeKeepsInv ==
  ASSUME BorderInv, NEW k \in Token, NEW t \in BrTenant, RevokeSession(k, t)
  PROVE  BorderInv'
<1>1. /\ table \in [Token -> Session] /\ now \in Nat /\ now # 0 /\ MaxNow \in Nat
      /\ now <= MaxNow /\ usedAt \in [Token -> SUBSET Nat]
  BY TenantBorderConstants DEF BorderInv, BorderTypes
<1>2. NotRevoked \in Nat /\ NotRevoked # 0
  BY <1>1 DEF NotRevoked
<1>3. /\ table[k] \in Session /\ table[k].revokedAt = NotRevoked
      /\ table' = [table EXCEPT ![k].revokedAt = now]
  BY <1>1 DEF RevokeSession
<1>4. /\ table'[k] \in Session /\ table'[k].revokedAt = now
      /\ table'[k].tenant = table[k].tenant /\ table'[k].issued = table[k].issued
      /\ table'[k].absolute = table[k].absolute /\ table'[k].idle = table[k].idle
      /\ \A j \in Token \ {k} : table'[j] = table[j]
      /\ table' \in [Token -> Session]
  BY <1>1, <1>3 DEF Session
<1>5. BorderTypes'
  BY <1>4 DEF BorderInv, BorderTypes, RevokeSession
<1>6. DeadlinesHold'
  <2>1. /\ table'[k].revokedAt # 0 /\ table'[k].issued <= now
        /\ table'[k].absolute = table'[k].issued + AbsTtl
        /\ \E b \in {table'[k].issued} \cup usedAt[k] : table'[k].idle <= b + IdleTtl
        /\ table'[k].revokedAt <= now
    BY <1>1, <1>2, <1>3, <1>4 DEF BorderInv, DeadlinesHold
  <2> QED
    BY <1>4, <2>1 DEF BorderInv, DeadlinesHold, RevokeSession, NotRevoked
<1>7. UsesWereActive'
  <2>1. \A u \in usedAt[k] : u <= table'[k].revokedAt
    BY <1>4 DEF BorderInv, UsesWereActive
  <2> QED
    BY <1>4, <2>1 DEF BorderInv, UsesWereActive, RevokeSession
<1>8. RunsAreTold' /\ LayerAsked' /\ WritesAreLocal'
  <2>1. \A j \in Token : table'[j].tenant = table[j].tenant
    BY <1>4
  <2>2. \A r \in Request : \A u : RunsFor(r, u) => RunsFor(r, u)'
    BY <2>1 DEF BorderInv, LayerAsked, RunsFor, ContextOf, TokenOf, RevokeSession
  <2>3. RunsAreTold'
    BY <2>2 DEF BorderInv, BorderTypes, RunsAreTold, RunsFor, ContextOf, TokenOf, RevokeSession
  <2> QED
    BY <2>3 DEF BorderInv, LayerAsked, WritesAreLocal, TokenOf, AtHome, RevokeSession
<1> QED
  BY <1>5, <1>6, <1>7, <1>8 DEF BorderInv

LEMMA OriginKeepsInv ==
  ASSUME BorderInv, NEW r \in Request, RequireLocalOrigin(r) PROVE BorderInv'
<1> DEFINE foreign == request[r].mutates /\ request[r].origin # NoHost
                      /\ ~OriginAllowed(request[r].origin)
<1>1. CASE foreign
  <2>1. Answer(r, "forbidden", BrLocal) /\ UNCHANGED <<mode, now, table, usedAt, askedBy, ranAs>>
    BY <1>1 DEF RequireLocalOrigin
  <2> QED
    BY <2>1, MovesKeepInv DEF Phase
<1>2. CASE ~foreign
  <2>1. Answer(r, "admitted", BrLocal) /\ UNCHANGED <<mode, now, table, usedAt, askedBy, ranAs>>
    BY <1>2 DEF RequireLocalOrigin
  <2>2. AtHome(r)
    BY <1>2 DEF AtHome, OriginAllowed
  <2> QED
    BY <2>1, <2>2, MovesKeepInv DEF Phase
<1> QED
  BY <1>1, <1>2

(* The layer and the extractor resolve alike. *)
LEMMA ResolveKeepsInv ==
  ASSUME BorderInv, NEW r \in Request, NEW from \in {"admitted", "guarded"},
         NEW to \in {"guarded", "running"}, NEW tenant,
         Resolve(r, from, to, tenant),
         mode = "local" => tenant = BrLocal,
         mode = "saas" /\ TokenOf(r) \in Token => tenant \in {BrLocal, table[TokenOf(r)].tenant},
         to = "running" => tenant = IF request[r].declares THEN ContextOf(r) ELSE BrLocal
  PROVE  BorderInv'
<1> DEFINE k == TokenOf(r)
<1>1. /\ request \in [Request -> Arrived] /\ table \in [Token -> Session]
      /\ usedAt \in [Token -> SUBSET Nat] /\ now \in Nat
      /\ AtHome(r) /\ to \in Phase
  BY TenantBorderConstants DEF BorderInv, BorderTypes, WritesAreLocal, Resolve, Phase
<1>2. CASE mode = "local" /\ Answer(r, to, tenant) /\ UNCHANGED <<table, usedAt, askedBy>>
  <2>1. /\ to = "running" => RunsFor(r, tenant)
        /\ tenant = BrLocal /\ UNCHANGED <<mode, now, table, usedAt, askedBy, ranAs>>
    BY <1>2 DEF RunsFor, Resolve
  <2> QED
    BY <1>1, <1>2, <2>1, MovesKeepInv
<1>3. CASE /\ mode # "local" /\ UNCHANGED <<table, usedAt, askedBy>>
           /\ Answer(r, IF mode = "saas" THEN "unauthorized" ELSE "misconfigured", BrLocal)
  <2>1. UNCHANGED <<mode, now, table, usedAt, askedBy, ranAs>>
    BY <1>3 DEF Resolve
  <2>2. PICK refused \in {"unauthorized", "misconfigured"} : Answer(r, refused, BrLocal)
    BY <1>3
  <2>3. refused \in Phase /\ refused \notin {"running", "admitted", "guarded"}
    BY <2>2 DEF Phase
  <2> QED
    BY <2>1, <2>2, <2>3, MovesKeepInv
<1>4. CASE /\ mode = "saas" /\ k # NoToken /\ Resolves(k) /\ table' = Renew(k)
           /\ usedAt' = [usedAt EXCEPT ![k] = @ \cup {now}] /\ askedBy' = askedBy \cup {r}
           /\ Answer(r, to, tenant)
  <2>1. /\ request[r] \in Arrived /\ k \in Token
        /\ tenant \in BrTenant \cup {BrLocal}
    BY <1>1, <1>4 DEF Arrived, TokenOf, Session
  <2>2. mode' = mode /\ now' = now /\ ranAs' = ranAs
    BY <1>4 DEF Resolve
  <2>3. /\ table' \in [Token -> Session] /\ usedAt' \in [Token -> SUBSET Nat]
        /\ \A j \in Token : table'[j].tenant = table[j].tenant /\ usedAt[j] \subseteq usedAt'[j]
        /\ usedAt'[k] # {}
        /\ DeadlinesHold' /\ UsesWereActive'
    BY <1>4, <2>1, <2>2, UseKeepsSession
  <2>4. /\ request' \in [Request -> Arrived]
        /\ request'[r].at = to /\ request'[r].tenant = tenant
        /\ request'[r].declares = request[r].declares
        /\ request'[r].mutates = request[r].mutates /\ request'[r].origin = request[r].origin
        /\ request'[r].bearer = request[r].bearer /\ request'[r].cookie = request[r].cookie
        /\ \A q \in Request \ {r} : request'[q] = request[q]
    <3>1. request' = [request EXCEPT ![r].at = to, ![r].tenant = tenant]
      BY <1>4 DEF Answer
    <3>2. request'[r] = [request[r] EXCEPT !.at = to, !.tenant = tenant]
      BY <1>1, <3>1
    <3> QED
      BY <1>1, <2>1, <3>1, <3>2 DEF Arrived
  <2>5. \A q \in Request : /\ TokenOf(q)' = TokenOf(q)
                           /\ request'[q].mutates = request[q].mutates
                           /\ request'[q].declares = request[q].declares
                           /\ request'[q].origin = request[q].origin
    <3>1. \A q \in Request : /\ request'[q].bearer = request[q].bearer
                             /\ request'[q].cookie = request[q].cookie
                             /\ request'[q].mutates = request[q].mutates
                             /\ request'[q].declares = request[q].declares
                             /\ request'[q].origin = request[q].origin
      BY <2>4
    <3> QED
      BY <3>1 DEF TokenOf
  <2>6. \A q \in Request : \A t : RunsFor(q, t) => RunsFor(q, t)'
    BY <1>4, <2>2, <2>3, <2>5 DEF BorderInv, LayerAsked, RunsFor, ContextOf
  <2>7. to = "running" => RunsFor(r, tenant)'
    BY <1>4, <2>1, <2>2, <2>3, <2>5 DEF RunsFor, ContextOf
  <2>8. BorderTypes' /\ LayerAsked'
    <3>1. BorderTypes'
      BY <1>4, <2>2, <2>3, <2>4 DEF BorderInv, BorderTypes
    <3>2. \A q \in Request : request'[q].at = "guarded" => q = r \/ request[q].at = "guarded"
      BY <2>4
    <3>3. \A q \in askedBy' : TokenOf(q)' \in Token /\ usedAt'[TokenOf(q)'] # {}
      <4>1. \A q \in askedBy : q \in Request /\ TokenOf(q) \in Token /\ usedAt[TokenOf(q)] # {}
        BY DEF BorderInv, BorderTypes, LayerAsked
      <4>2. \A q \in askedBy : TokenOf(q) \in Token /\ usedAt'[TokenOf(q)] # {}
        BY <2>3, <4>1
      <4>3. k \in Token /\ usedAt'[k] # {} /\ askedBy' = askedBy \cup {r}
        BY <1>4, <2>1, <2>3
      <4>4. \A q \in askedBy' : TokenOf(q) \in Token /\ usedAt'[TokenOf(q)] # {}
        BY <4>2, <4>3
      <4>5. \A q \in askedBy' : TokenOf(q)' = TokenOf(q)
        BY <2>5, <4>1, <4>3
      <4> HIDE DEF k
      <4> QED
        BY <4>4, <4>5
    <3>4. LayerAsked'
      BY <1>4, <2>2, <3>2, <3>3 DEF BorderInv, LayerAsked
    <3> QED
      BY <3>1, <3>4
  <2>9. RunsAreTold'
    <3>1. ASSUME NEW q \in Request, request'[q].at = "running"
          PROVE  RunsFor(q, request[q].tenant)'
      <4>1. \E t : t = request'[q].tenant /\ RunsFor(q, t)'
        <5>1. CASE q = r
          BY <2>4, <2>7, <3>1, <5>1
        <5>2. CASE q # r
          BY <2>4, <2>6, <3>1, <5>2 DEF BorderInv, RunsAreTold
        <5> QED
          BY <5>1, <5>2
      <4> QED
        BY <4>1 DEF RunsFor
    <3>2. \A h \in ranAs' : RunsFor(h.by, h.tenant)'
      BY <2>2, <2>6 DEF BorderInv, BorderTypes, RunsAreTold
    <3> QED
      BY <3>1, <3>2 DEF RunsAreTold
  <2>10. WritesAreLocal'
    BY <1>1, <1>4, <2>2, <2>4, <2>5 DEF BorderInv, BorderTypes, WritesAreLocal, AtHome
  <2> QED
    BY <2>3, <2>8, <2>9, <2>10 DEF BorderInv
<1> QED
  BY <1>2, <1>3, <1>4 DEF Resolve

(* A route that asks for no context gets none. *)
LEMMA SkipKeepsInv ==
  ASSUME BorderInv, NEW r \in Request, SkipExtractor(r) PROVE BorderInv'
<1>1. /\ Answer(r, "running", BrLocal) /\ AtHome(r) /\ RunsFor(r, BrLocal)
      /\ UNCHANGED <<mode, now, table, usedAt, askedBy, ranAs>>
  BY DEF SkipExtractor, BorderInv, LayerAsked, WritesAreLocal, RunsFor
<1> QED
  BY <1>1, MovesKeepInv DEF Phase

LEMMA HandlerKeepsInv ==
  ASSUME BorderInv, NEW r \in Request, RunHandler(r) PROVE BorderInv'
<1>1. /\ request \in [Request -> Arrived] /\ request[r] \in Arrived
      /\ request[r].tenant \in BrTenant \cup {BrLocal} /\ request[r].mutates \in BOOLEAN
      /\ RunsFor(r, request[r].tenant) /\ AtHome(r)
  BY DEF BorderInv, BorderTypes, Arrived, RunsAreTold, WritesAreLocal, RunHandler
<1>2. UNCHANGED <<mode, now, table, usedAt, askedBy>> /\ Answer(r, "answered", request[r].tenant)
  BY DEF RunHandler
<1>3. /\ request' \in [Request -> Arrived] /\ request'[r].at = "answered"
      /\ request'[r].mutates = request[r].mutates /\ request'[r].origin = request[r].origin
      /\ request'[r].bearer = request[r].bearer /\ request'[r].cookie = request[r].cookie
      /\ request'[r].declares = request[r].declares
      /\ \A q \in Request \ {r} : request'[q] = request[q]
  <2>1. request' = [request EXCEPT ![r].at = "answered", ![r].tenant = request[r].tenant]
    BY <1>2 DEF Answer
  <2>2. request'[r] = [request[r] EXCEPT !.at = "answered", !.tenant = request[r].tenant]
    BY <1>1, <2>1
  <2> QED
    BY <1>1, <2>1, <2>2 DEF Arrived, Phase
<1>4. PICK wrote \in BOOLEAN :
        ranAs' = ranAs \cup {[by |-> r, tenant |-> request[r].tenant, wrote |-> wrote]}
  BY <1>1 DEF RunHandler
<1>5. BorderTypes'
  BY <1>1, <1>2, <1>3, <1>4 DEF BorderInv, BorderTypes
<1>6. DeadlinesHold' /\ UsesWereActive'
  BY <1>2 DEF BorderInv, DeadlinesHold, UsesWereActive, Unissued, NotRevoked
<1>7. \A q \in Request : TokenOf(q)' = TokenOf(q) /\ request'[q].declares = request[q].declares
  <2>1. \A q \in Request : /\ request'[q].bearer = request[q].bearer
                           /\ request'[q].cookie = request[q].cookie
                           /\ request'[q].declares = request[q].declares
    BY <1>3
  <2> QED
    BY <2>1 DEF TokenOf
<1>8. RunsAreTold'
  <2>1. \A q \in Request : \A t : RunsFor(q, t) => RunsFor(q, t)'
    BY <1>2, <1>7 DEF RunsFor, ContextOf
  <2>2. ASSUME NEW q \in Request, request'[q].at = "running"
        PROVE  RunsFor(q, request[q].tenant)'
    <3>1. \E t : t = request'[q].tenant /\ RunsFor(q, t)'
      BY <1>3, <2>1, <2>2 DEF BorderInv, RunsAreTold
    <3> QED
      BY <3>1 DEF RunsFor
  <2>3. \A h \in ranAs' : RunsFor(h.by, h.tenant)'
    BY <1>1, <1>4, <2>1 DEF BorderInv, BorderTypes, RunsAreTold
  <2> QED
    BY <2>2, <2>3 DEF RunsAreTold
<1>9. LayerAsked'
  BY <1>2, <1>3, <1>7 DEF BorderInv, BorderTypes, LayerAsked
<1>10. WritesAreLocal'
  BY <1>1, <1>2, <1>3, <1>4 DEF BorderInv, BorderTypes, WritesAreLocal, AtHome
<1> QED
  BY <1>5, <1>6, <1>8, <1>9, <1>10 DEF BorderInv

LEMMA NextBorder == BorderInv /\ [BorderNext]_borderVars => BorderInv'
<1> SUFFICES ASSUME BorderInv, [BorderNext]_borderVars PROVE BorderInv'
  OBVIOUS
<1>1. CASE Hour
  BY <1>1, HourKeepsInv
<1>2. ASSUME NEW k \in Token, IssueSession(k) PROVE BorderInv'
  BY <1>2, IssueKeepsInv
<1>3. ASSUME NEW k \in Token, NEW t \in BrTenant, RevokeSession(k, t) PROVE BorderInv'
  BY <1>3, RevokeKeepsInv
<1>4. ASSUME NEW r \in Request, RequireLocalOrigin(r) PROVE BorderInv'
  BY <1>4, OriginKeepsInv
<1>5. ASSUME NEW r \in Request, GuardaTenant(r) PROVE BorderInv'
  BY <1>5, ResolveKeepsInv DEF GuardaTenant
<1>6. ASSUME NEW r \in Request, ExtractTenant(r) PROVE BorderInv'
  <2>1. /\ request[r].declares /\ Resolve(r, "guarded", "running", ContextOf(r))
        /\ mode = "local" => ContextOf(r) = BrLocal
        /\ mode = "saas" => ContextOf(r) = table[TokenOf(r)].tenant
    BY <1>6 DEF ExtractTenant, ContextOf
  <2> QED
    BY <2>1, ResolveKeepsInv
<1>9. ASSUME NEW r \in Request, SkipExtractor(r) PROVE BorderInv'
  BY <1>9, SkipKeepsInv
<1>7. ASSUME NEW r \in Request, RunHandler(r) PROVE BorderInv'
  BY <1>7, HandlerKeepsInv
<1>8. CASE UNCHANGED borderVars
  BY <1>8 DEF borderVars, BorderInv, BorderTypes, DeadlinesHold, UsesWereActive, RunsAreTold,
              LayerAsked, WritesAreLocal, RunsFor, ContextOf, TokenOf, AtHome, Unissued, NotRevoked
<1> QED
  BY <1>1, <1>2, <1>3, <1>4, <1>5, <1>6, <1>7, <1>8, <1>9 DEF BorderNext

(* `resolve_session` and the border over it: a token counts only within    *)
(* its deadlines and until it is revoked, no handler runs in saas mode but *)
(* for a request whose own token was accepted, a handler that declares the *)
(* extractor runs and writes for that token's tenant and the others for    *)
(* LOCAL, and a foreign page's write reaches neither; for any number of    *)
(* tokens, requests and tenants, LOCAL among them.                         *)
THEOREM SessionsHold == BorderSpec => []SessionsAreEnforced
<1>1. BorderInv => SessionsAreEnforced
  BY TenantBorderConstants DEF BorderInv, BorderTypes, UsesWereActive, RunsAreTold, RunsFor,
         LayerAsked, WritesAreLocal, SessionsAreEnforced
<1> QED
  BY <1>1, InitBorder, NextBorder, PTL DEF BorderSpec

-----------------------------------------------------------------------------
(* The trail of a tenant's profiles. *)

Member == (Role \X (Prompt \cup {PromptPadrao})) \cup ({"custom"} \X Nat \X Prompt)
Fact ==
  [kind : {"UserRemoved"}, id : Nat] \cup [kind : {"PersonaUpdated"}, prompt : Prompt]
    \cup [kind : {"TemplatePublished"}, published : Prompt] \cup [kind : {"FlowSaved"}]
    \cup [kind : {"SquadActivated"}, run : Nat, roster : SUBSET Member]
Entry == {EntryDeDominio(f) : f \in Fact}
CallerTenant == PfTenant \cup {Idle.tenant}
PfAnswer ==
  {"none", "200", "201", "202", "404", "422", "500", "503", "editado", "empty", "no_pin", "ok",
   "wrong", "builtin"} \cup Prompt
CallerRecord ==
  [at : {"idle", "saving", "telling", "done"}, tenant : CallerTenant, fact : Fact \cup {NoFact},
   answer : PfAnswer]
UserRow == [tenant : PfTenant, alive : BOOLEAN, active : BOOLEAN, pin : Pin]
CustomRow == [tenant : PfTenant, alive : BOOLEAN, prompt : Prompt]
SquadRow == [tenant : PfTenant, roster : SUBSET Member, team : SUBSET (Prompt \cup {PromptPadrao})]

TrailTypes ==
  /\ users \in Seq(UserRow) /\ customs \in Seq(CustomRow) /\ squads \in Seq(SquadRow)
  /\ published \in [PfTenant -> {"builtin"} \cup Prompt]
  /\ overrides \subseteq [tenant : PfTenant, role : Role, prompt : Prompt]
  /\ caller \in [Caller -> CallerRecord]
  /\ told \in [PfTenant -> Seq(Entry)]

(* What has still to be told is so, was not told, and by nobody else.      *)
Pending(c) == caller[c].at \in {"saving", "telling"}
Removal(f) == f.kind = "UserRemoved"
Activation(f) == f.kind = "SquadActivated"
Removes(e, id) == e.kind = "btv.user_removed" /\ e.payload.id = id
Starts(e, run) == e.kind = "btv.squad_activated" /\ e.payload.run_id = run

Gone(t, id) == id \in DOMAIN users /\ users[id].tenant = t /\ ~users[id].alive
Works(t, run) == run \in DOMAIN squads /\ squads[run].tenant = t

FactIsSo(t, f) ==
  /\ t \in PfTenant /\ f \in Fact
  /\ Removal(f) => Gone(t, f.id)
  /\ Activation(f) => Works(t, f.run) /\ squads[f.run].roster = f.roster
FactIsNew(f) ==
  \A t \in PfTenant : \A i \in DOMAIN told[t] :
    /\ Removal(f) => ~Removes(told[t][i], f.id)
    /\ Activation(f) => ~Starts(told[t][i], f.run)
Differ(f, g) ==
  /\ Removal(f) /\ Removal(g) => f.id # g.id
  /\ Activation(f) /\ Activation(g) => f.run # g.run
PendingIsOwn ==
  \A c \in Caller : Pending(c) =>
    /\ FactIsSo(caller[c].tenant, caller[c].fact) /\ FactIsNew(caller[c].fact)
    /\ \A d \in Caller \ {c} : Pending(d) => Differ(caller[c].fact, caller[d].fact)

(* What was told is so, and once.                                          *)
EntryIsSo(t, e) ==
  /\ e.kind = "btv.user_removed" => Gone(t, e.payload.id)
  /\ e.kind = "btv.squad_activated" =>
       /\ Works(t, e.payload.run_id)
       /\ e.payload.prompt_hashes = PromptHashes(squads[e.payload.run_id].roster)
Same(e, o) ==
  \/ e.kind = "btv.user_removed" /\ Removes(o, e.payload.id)
  \/ e.kind = "btv.squad_activated" /\ Starts(o, e.payload.run_id)
ToldIsSo ==
  \A t \in PfTenant : \A i \in DOMAIN told[t] :
    /\ EntryIsSo(t, told[t][i])
    /\ \A j \in DOMAIN told[t] : Same(told[t][i], told[t][j]) => i = j

TeamsAreHashed ==
  \A k \in DOMAIN squads : {h.sha : h \in PromptHashes(squads[k].roster)} = squads[k].team

TrailInv == TrailTypes /\ PendingIsOwn /\ ToldIsSo /\ TeamsAreHashed

(* What a fact is told as.                                                 *)
LEMMA EntryFacts ==
  ASSUME NEW f \in Fact
  PROVE  LET e == EntryDeDominio(f)
         IN  /\ e \in Entry
             /\ e.kind = "btv.user_removed" <=> Removal(f)
             /\ Removal(f) => e.payload.id = f.id
             /\ e.kind = "btv.squad_activated" <=> Activation(f)
             /\ Activation(f) => e.payload.run_id = f.run /\ e.payload.prompt_hashes = PromptHashes(f.roster)
<1> DEFINE e == EntryDeDominio(f)
<1>1. e \in Entry /\ e.kind = WireKind[f.kind] /\ e.payload = PayloadWire(f)
  BY DEF Entry, EntryDeDominio
<1> HIDE DEF e
<1>2. f.kind \in {"UserRemoved", "PersonaUpdated", "TemplatePublished", "FlowSaved", "SquadActivated"}
  BY DEF Fact
<1>3. /\ e.kind = "btv.user_removed" <=> Removal(f)
      /\ e.kind = "btv.squad_activated" <=> Activation(f)
  BY <1>1, <1>2 DEF WireKind, Removal, Activation
<1>4. Removal(f) => e.payload.id = f.id
  BY <1>1 DEF PayloadWire, Removal
<1>5. Activation(f) => e.payload.run_id = f.run /\ e.payload.prompt_hashes = PromptHashes(f.roster)
  BY <1>1 DEF PayloadWire, ActivationPayload, Activation
<1>6. QED
  BY <1>1, <1>3, <1>4, <1>5 DEF e

(* A squad's team says the prompts that are hashed.                        *)
LEMMA OverrideIsPrompt ==
  ASSUME TrailTypes, NEW t \in PfTenant, NEW role \in Role
  PROVE  PromptEfetivo(t, role) \in Prompt \cup {PromptPadrao}
<1> DEFINE Those == OverridesOf(t, {role})
<1>1. \A o \in Those : o.prompt \in Prompt
  BY DEF TrailTypes, OverridesOf, ListOverrides
<1>2. CASE Those = {}
  BY <1>2 DEF PromptEfetivo
<1>3. CASE Those # {}
  <2> HIDE DEF Those
  <2>1. (CHOOSE o \in Those : TRUE) \in Those
    BY <1>3
  <2>2. PromptEfetivo(t, role) = (CHOOSE o \in Those : TRUE).prompt
    BY <1>3 DEF PromptEfetivo, Those
  <2>3. QED
    BY <1>1, <2>1, <2>2
<1>4. QED
  BY <1>2, <1>3

LEMMA RosterIsHashed ==
  ASSUME TrailTypes, NEW t \in PfTenant
  PROVE  /\ Roster(t) \in SUBSET Member
         /\ MontarDescricao(Roster(t)) \in SUBSET (Prompt \cup {PromptPadrao})
         /\ {h.sha : h \in PromptHashes(Roster(t))} = MontarDescricao(Roster(t))
<1>1. ASSUME NEW m \in Roster(t) PROVE m \in Member
  <2>1. CASE \E role \in Role : m = <<role, PromptEfetivo(t, role)>>
    BY <2>1, OverrideIsPrompt DEF Member
  <2>2. CASE \E id \in ListCustom(t) : m = <<"custom", id, customs[id].prompt>>
    <3>1. PICK id \in ListCustom(t) : m = <<"custom", id, customs[id].prompt>>
      BY <2>2
    <3>2. id \in DOMAIN customs /\ DOMAIN customs = 1 .. Len(customs) /\ Len(customs) \in Nat
      BY <3>1, LenProperties DEF ListCustom, TrailTypes
    <3>3. id \in Nat /\ customs[id] \in CustomRow
      BY <3>2, ElementOfSeq DEF TrailTypes
    <3>4. customs[id].prompt \in Prompt
      BY <3>3 DEF CustomRow
    <3>5. QED
      BY <3>1, <3>3, <3>4 DEF Member
  <2>3. QED
    BY <1>1, <2>1, <2>2 DEF Roster
<1>2. ASSUME NEW m \in Member
      PROVE  /\ m[Len(m)] \in Prompt \cup {PromptPadrao}
             /\ (IF m[1] = "custom" THEN [papel |-> m[2], custom |-> TRUE, sha |-> m[3]]
                 ELSE [papel |-> m[1], sha |-> m[2]]).sha = m[Len(m)]
  <2>1. CASE m \in Role \X (Prompt \cup {PromptPadrao})
    <3>1. PICK role \in Role, prompt \in Prompt \cup {PromptPadrao} : m = <<role, prompt>>
      BY <2>1
    <3>2. m[Len(m)] = prompt /\ m[2] = prompt /\ m[1] = role /\ role # "custom"
      BY <3>1 DEF Role
    <3>3. QED
      BY <3>2
  <2>2. CASE m \in {"custom"} \X Nat \X Prompt
    <3>1. PICK id \in Nat, prompt \in Prompt : m = <<"custom", id, prompt>>
      BY <2>2
    <3>2. m[Len(m)] = prompt /\ m[3] = prompt /\ m[1] = "custom"
      BY <3>1
    <3>3. QED
      BY <3>2
  <2>3. QED
    BY <1>2, <2>1, <2>2 DEF Member
<1>3. \A m \in Roster(t) : m \in Member
  BY <1>1
<1>4. MontarDescricao(Roster(t)) \in SUBSET (Prompt \cup {PromptPadrao})
  BY <1>2, <1>3 DEF MontarDescricao
<1>5. {h.sha : h \in PromptHashes(Roster(t))} = {member[Len(member)] : member \in Roster(t)}
  <2> DEFINE Hash(m) == IF m[1] = "custom" THEN [papel |-> m[2], custom |-> TRUE, sha |-> m[3]]
                        ELSE [papel |-> m[1], sha |-> m[2]]
             Word(m) == m[Len(m)]
  <2>1. \A m \in Roster(t) : Hash(m).sha = Word(m)
    BY <1>2, <1>3
  <2>2. PromptHashes(Roster(t)) = {Hash(m) : m \in Roster(t)}
    BY DEF PromptHashes
  <2> HIDE DEF Hash, Word
  <2>3. {h.sha : h \in {Hash(m) : m \in Roster(t)}} = {Word(m) : m \in Roster(t)}
    BY <2>1
  <2>4. QED
    BY <2>2, <2>3 DEF Word
<1>6. QED
  BY <1>3, <1>4, <1>5 DEF MontarDescricao

(* Users stay whose they are and removed users removed; squads stay.       *)
UsersGoOn ==
  /\ users' \in Seq(UserRow) /\ DOMAIN users \subseteq DOMAIN users'
  /\ \A id \in DOMAIN users :
       users'[id].tenant = users[id].tenant /\ (~users[id].alive => ~users'[id].alive)
SquadsGoOn ==
  /\ squads' \in Seq(SquadRow) /\ TeamsAreHashed'
  /\ DOMAIN squads \subseteq DOMAIN squads' /\ \A k \in DOMAIN squads : squads'[k] = squads[k]

LEMMA FactStaysSo ==
  ASSUME UsersGoOn, SquadsGoOn, NEW t, NEW f, FactIsSo(t, f)
  PROVE  FactIsSo(t, f)'
  BY DEF UsersGoOn, SquadsGoOn, FactIsSo, Gone, Works

LEMMA EntryStaysSo ==
  ASSUME UsersGoOn, SquadsGoOn, NEW t, NEW e, EntryIsSo(t, e)
  PROVE  EntryIsSo(t, e)'
<1>1. e.kind = "btv.user_removed" => Gone(t, e.payload.id)'
  BY DEF UsersGoOn, EntryIsSo, Gone
<1>2. e.kind = "btv.squad_activated" =>
        /\ Works(t, e.payload.run_id)'
        /\ e.payload.prompt_hashes = PromptHashes(squads'[e.payload.run_id].roster)
  BY DEF SquadsGoOn, EntryIsSo, Works
<1>3. QED
  BY <1>1, <1>2 DEF EntryIsSo

(* One request goes on, and tells nothing yet.                             *)
LEMMA RequestGoesOn ==
  ASSUME TrailInv, TrailTypes', UsersGoOn, SquadsGoOn, told' = told,
         NEW c \in Caller, \A d \in Caller \ {c} : caller'[d] = caller[d],
         Pending(c)' =>
           /\ FactIsSo(caller[c].tenant, caller[c].fact)' /\ FactIsNew(caller'[c].fact)
           /\ \A d \in Caller \ {c} : Pending(d) => Differ(caller'[c].fact, caller[d].fact)
  PROVE  TrailInv'
<1>1. ASSUME NEW d \in Caller, Pending(d)'
      PROVE  /\ FactIsSo(caller[d].tenant, caller[d].fact)' /\ FactIsNew(caller[d].fact)'
             /\ \A b \in Caller \ {d} : Pending(b)' => Differ(caller'[d].fact, caller'[b].fact)
  <2>1. \A f : FactIsNew(f)' <=> FactIsNew(f)
    BY DEF FactIsNew
  <2>2. CASE d = c
    <3>1. \A b \in Caller \ {c} : Pending(b)' => Pending(b) /\ caller'[b] = caller[b]
      BY DEF Pending
    <3>2. QED
      BY <1>1, <2>1, <2>2, <3>1
  <2>3. CASE d # c
    <3>1. caller'[d] = caller[d] /\ Pending(d)
      BY <1>1, <2>3 DEF Pending
    <3>2. /\ FactIsSo(caller[d].tenant, caller[d].fact) /\ FactIsNew(caller[d].fact)
          /\ \A b \in Caller \ {d} : Pending(b) => Differ(caller[d].fact, caller[b].fact)
      BY <3>1 DEF TrailInv, PendingIsOwn
    <3>3. FactIsSo(caller[d].tenant, caller[d].fact)'
      <4>1. PICK t, f : t = caller[d].tenant /\ f = caller[d].fact
        OBVIOUS
      <4>2. FactIsSo(t, f)'
        BY <3>2, <4>1, FactStaysSo
      <4>3. QED
        BY <3>1, <4>1, <4>2 DEF FactIsSo, Gone, Works
    <3>4. ASSUME NEW b \in Caller \ {d}, Pending(b)' PROVE Differ(caller'[d].fact, caller'[b].fact)
      <4>1. CASE b = c
        BY <2>3, <3>1, <3>4, <4>1 DEF Differ
      <4>2. CASE b # c
        <5>1. caller'[b] = caller[b] /\ Pending(b)
          BY <3>4, <4>2 DEF Pending
        <5>2. QED
          BY <3>1, <3>2, <3>4, <5>1
      <4>3. QED
        BY <4>1, <4>2
    <3>5. QED
      BY <2>1, <3>1, <3>2, <3>3, <3>4
  <2>4. QED
    BY <2>2, <2>3
<1>2. PendingIsOwn'
  BY <1>1 DEF PendingIsOwn, Pending
<1>3. ToldIsSo'
  <2>1. \A t, e : EntryIsSo(t, e) => EntryIsSo(t, e)'
    BY EntryStaysSo
  <2>2. QED
    BY <2>1 DEF TrailInv, ToldIsSo
<1>4. QED
  BY <1>2, <1>3 DEF TrailInv, SquadsGoOn

(* One request tells its fact, or a flow that has no other place.          *)
LEMMA FactIsTold ==
  ASSUME TrailInv, TrailTypes', UNCHANGED <<users, squads>>,
         NEW c \in Caller, \A d \in Caller \ {c} : caller'[d] = caller[d], ~Pending(c)',
         NEW t \in PfTenant, NEW f \in Fact, FactIsSo(t, f), FactIsNew(f),
         \A d \in Caller \ {c} : Pending(d) => Differ(caller[d].fact, f),
         told' = [told EXCEPT ![t] = Append(@, EntryDeDominio(f))]
  PROVE  TrailInv'
<1> DEFINE e == EntryDeDominio(f)
<1>1. /\ e \in Entry
      /\ e.kind = "btv.user_removed" <=> Removal(f)
      /\ Removal(f) => e.payload.id = f.id
      /\ e.kind = "btv.squad_activated" <=> Activation(f)
      /\ Activation(f) => e.payload.run_id = f.run /\ e.payload.prompt_hashes = PromptHashes(f.roster)
  BY EntryFacts
<1>2. told' = [told EXCEPT ![t] = Append(told[t], e)]
  OBVIOUS
<1> HIDE DEF e
<1>3. told \in [PfTenant -> Seq(Entry)] /\ told' \in [PfTenant -> Seq(Entry)]
  BY DEF TrailInv, TrailTypes
<1>4. /\ told'[t] = Append(told[t], e) /\ \A u \in PfTenant \ {t} : told'[u] = told[u]
  BY <1>2, <1>3
<1>5. /\ Len(told[t]) \in Nat /\ DOMAIN told[t] = 1 .. Len(told[t])
      /\ DOMAIN told'[t] = 1 .. Len(told[t]) + 1
      /\ told'[t][Len(told[t]) + 1] = e
      /\ \A i \in 1 .. Len(told[t]) : told'[t][i] = told[t][i]
  BY <1>1, <1>3, <1>4, AppendProperties, LenProperties
<1>6. ASSUME NEW u \in PfTenant, NEW i \in DOMAIN told'[u]
      PROVE  \/ i \in DOMAIN told[u] /\ told'[u][i] = told[u][i]
             \/ u = t /\ i = Len(told[t]) + 1 /\ told'[u][i] = e
  BY <1>4, <1>5, <1>6
<1>7. ASSUME NEW d \in Caller, Pending(d)'
      PROVE  /\ FactIsSo(caller[d].tenant, caller[d].fact)' /\ FactIsNew(caller[d].fact)'
             /\ \A b \in Caller \ {d} : Pending(b)' => Differ(caller'[d].fact, caller'[b].fact)
  <2>1. d # c /\ caller'[d] = caller[d] /\ Pending(d)
    BY <1>7 DEF Pending
  <2>2. /\ FactIsSo(caller[d].tenant, caller[d].fact) /\ FactIsNew(caller[d].fact)
        /\ \A b \in Caller \ {d} : Pending(b) => Differ(caller[d].fact, caller[b].fact)
    BY <2>1 DEF TrailInv, PendingIsOwn
  <2>3. PICK g : g = caller[d].fact
    OBVIOUS
  <2>4. Differ(g, f) /\ FactIsNew(g)
    BY <2>1, <2>2, <2>3
  <2>5. FactIsNew(g)'
    <3>1. SUFFICES ASSUME NEW u \in PfTenant, NEW i \in DOMAIN told'[u]
                   PROVE  /\ Removal(g) => ~Removes(told'[u][i], g.id)
                          /\ Activation(g) => ~Starts(told'[u][i], g.run)
      BY DEF FactIsNew
    <3>2. CASE i \in DOMAIN told[u] /\ told'[u][i] = told[u][i]
      BY <2>4, <3>2 DEF FactIsNew
    <3>3. CASE told'[u][i] = e
      BY <1>1, <2>4, <3>3 DEF Differ, Removes, Starts
    <3>4. QED
      BY <1>6, <3>2, <3>3
  <2>6. FactIsSo(caller[d].tenant, caller[d].fact)'
    BY <2>1, <2>2 DEF FactIsSo, Gone, Works
  <2>7. \A b \in Caller \ {d} : Pending(b)' => caller'[b] = caller[b] /\ Pending(b)
    BY DEF Pending
  <2>8. QED
    BY <2>1, <2>2, <2>3, <2>5, <2>6, <2>7
<1>8. PendingIsOwn'
  BY <1>7 DEF PendingIsOwn, Pending
<1>9. EntryIsSo(t, e)
  BY <1>1 DEF FactIsSo, EntryIsSo, Works
<1>10. ASSUME NEW i \in DOMAIN told[t] PROVE ~Same(told[t][i], e) /\ ~Same(e, told[t][i])
  BY <1>1 DEF FactIsNew, Same, Removes, Starts
<1>11. ASSUME NEW u \in PfTenant, NEW i \in DOMAIN told'[u]
       PROVE  /\ EntryIsSo(u, told'[u][i])
              /\ \A j \in DOMAIN told'[u] : Same(told'[u][i], told'[u][j]) => i = j
  <2>1. EntryIsSo(u, told'[u][i])
    BY <1>6, <1>9 DEF TrailInv, ToldIsSo
  <2>2. ASSUME NEW j \in DOMAIN told'[u], Same(told'[u][i], told'[u][j]) PROVE i = j
    <3>1. CASE i \in DOMAIN told[u] /\ told'[u][i] = told[u][i]
      <4>1. CASE j \in DOMAIN told[u] /\ told'[u][j] = told[u][j]
        BY <2>2, <3>1, <4>1 DEF TrailInv, ToldIsSo
      <4>2. CASE u = t /\ told'[u][j] = e
        BY <1>10, <2>2, <3>1, <4>2
      <4>3. QED
        BY <1>6, <4>1, <4>2
    <3>2. CASE u = t /\ i = Len(told[t]) + 1 /\ told'[u][i] = e
      <4>1. CASE j \in DOMAIN told[u] /\ told'[u][j] = told[u][j]
        BY <1>10, <2>2, <3>2, <4>1
      <4>2. CASE u = t /\ j = Len(told[t]) + 1
        BY <3>2, <4>2
      <4>3. QED
        BY <1>6, <4>1, <4>2
    <3>3. QED
      BY <1>6, <3>1, <3>2
  <2>3. QED
    BY <2>1, <2>2
<1>12. ASSUME NEW u \in PfTenant, NEW i \in DOMAIN told'[u]
       PROVE  /\ EntryIsSo(u, told[u][i])'
              /\ \A j \in DOMAIN told'[u] : Same(told'[u][i], told'[u][j]) => i = j
  <2>1. EntryIsSo(u, told'[u][i])
    BY <1>11
  <2>2. EntryIsSo(u, told[u][i])'
    BY <2>1 DEF EntryIsSo, Gone, Works
  <2>3. QED
    BY <1>11, <2>2
<1>13. ToldIsSo'
  BY <1>12 DEF ToldIsSo, Same, Removes, Starts
<1>14. QED
  BY <1>8, <1>13 DEF TrailInv, TeamsAreHashed

-----------------------------------------------------------------------------
(* What a request becomes.                                                 *)
LEMMA Answered ==
  ASSUME caller \in [Caller -> CallerRecord], NEW c \in Caller, NEW t \in CallerTenant,
         NEW status \in PfAnswer, Answers(c, t, status)
  PROVE  /\ caller' \in [Caller -> CallerRecord] /\ ~Pending(c)'
         /\ \A d \in Caller \ {c} : caller'[d] = caller[d]
<1> DEFINE r == [at |-> "done", tenant |-> t, fact |-> NoFact, answer |-> status]
<1>1. r \in CallerRecord /\ r.at = "done"
  BY DEF CallerRecord
<1>2. caller' = [caller EXCEPT ![c] = r]
  BY DEF Answers
<1> HIDE DEF r
<1>3. caller'[c] = r
  BY <1>2
<1>4. QED
  BY <1>1, <1>2, <1>3 DEF Pending

(* One request has a fact to tell.                                         *)
LEMMA FactComes ==
  ASSUME TrailInv, UsersGoOn, SquadsGoOn, told' = told,
         customs' \in Seq(CustomRow), published' \in [PfTenant -> {"builtin"} \cup Prompt],
         overrides' \subseteq [tenant : PfTenant, role : Role, prompt : Prompt],
         NEW c \in Caller, NEW t \in PfTenant, NEW f \in Fact, NEW at \in {"saving", "telling"},
         NEW answer \in PfAnswer,
         caller' = [caller EXCEPT ![c] = [at |-> at, tenant |-> t, fact |-> f, answer |-> answer]],
         FactIsSo(t, f)', FactIsNew(f),
         \A d \in Caller \ {c} : Pending(d) => Differ(f, caller[d].fact)
  PROVE  TrailInv'
<1> DEFINE r == [at |-> at, tenant |-> t, fact |-> f, answer |-> answer]
<1>1. r \in CallerRecord /\ r.tenant = t /\ r.fact = f
  BY DEF CallerRecord, CallerTenant
<1>2. caller' = [caller EXCEPT ![c] = r]
  OBVIOUS
<1> HIDE DEF r
<1>3. caller \in [Caller -> CallerRecord] /\ told \in [PfTenant -> Seq(Entry)]
  BY DEF TrailInv, TrailTypes
<1>4. /\ caller'[c] = r /\ caller' \in [Caller -> CallerRecord]
      /\ \A d \in Caller \ {c} : caller'[d] = caller[d]
  BY <1>1, <1>2, <1>3
<1>5. TrailTypes'
  BY <1>3, <1>4 DEF TrailTypes, UsersGoOn, SquadsGoOn
<1>6. FactIsSo(caller[c].tenant, caller[c].fact)'
  BY <1>1, <1>4 DEF FactIsSo, Gone, Works
<1>7. FactIsNew(caller'[c].fact)
  BY <1>1, <1>4
<1>8. \A d \in Caller \ {c} : Pending(d) => Differ(caller'[c].fact, caller[d].fact)
  BY <1>1, <1>4
<1>9. QED
  BY <1>4, <1>5, <1>6, <1>7, <1>8, RequestGoesOn

(* One request is answered.                                                *)
LEMMA AnswerComes ==
  ASSUME TrailInv, UsersGoOn, SquadsGoOn, told' = told,
         customs' \in Seq(CustomRow), published' \in [PfTenant -> {"builtin"} \cup Prompt],
         overrides' \subseteq [tenant : PfTenant, role : Role, prompt : Prompt],
         NEW c \in Caller, NEW t \in CallerTenant, NEW status \in PfAnswer, Answers(c, t, status)
  PROVE  TrailInv'
<1>1. caller \in [Caller -> CallerRecord] /\ told \in [PfTenant -> Seq(Entry)]
  BY DEF TrailInv, TrailTypes
<1>2. /\ caller' \in [Caller -> CallerRecord] /\ ~Pending(c)'
      /\ \A d \in Caller \ {c} : caller'[d] = caller[d]
  BY <1>1, Answered
<1>3. TrailTypes'
  BY <1>1, <1>2 DEF TrailTypes, UsersGoOn, SquadsGoOn
<1>4. QED
  BY <1>2, <1>3, RequestGoesOn

LEMMA NothingGoes ==
  ASSUME TrailInv
  PROVE  /\ UNCHANGED users => UsersGoOn
         /\ UNCHANGED squads => SquadsGoOn
         /\ UNCHANGED customs => customs' \in Seq(CustomRow)
         /\ UNCHANGED published => published' \in [PfTenant -> {"builtin"} \cup Prompt]
         /\ UNCHANGED overrides => overrides' \subseteq [tenant : PfTenant, role : Role, prompt : Prompt]
  BY DEF TrailInv, TrailTypes, UsersGoOn, SquadsGoOn, TeamsAreHashed

(* A row of a user is written.                                             *)
LEMMA UserWritten ==
  ASSUME TrailInv, NEW id \in DOMAIN users, NEW r \in UserRow, r.tenant = users[id].tenant,
         ~users[id].alive => ~r.alive, users' = [users EXCEPT ![id] = r]
  PROVE  UsersGoOn /\ users'[id] = r /\ DOMAIN users' = DOMAIN users
<1>1. users \in Seq(UserRow)
  BY DEF TrailInv, TrailTypes
<1>2. DOMAIN users = 1 .. Len(users)
  BY <1>1, LenProperties
<1>3. users' \in Seq(UserRow)
  BY <1>1, <1>2, ExceptSeq
<1>4. QED
  BY <1>3 DEF UsersGoOn
LEMMA UserRows ==
  ASSUME TrailInv, NEW id \in DOMAIN users
  PROVE  users[id] \in UserRow
<1>1. users \in Seq(UserRow)
  BY DEF TrailInv, TrailTypes
<1>2. DOMAIN users = 1 .. Len(users)
  BY <1>1, LenProperties
<1>3. QED
  BY <1>1, <1>2, ElementOfSeq
LEMMA CustomWritten ==
  ASSUME TrailInv, NEW id \in DOMAIN customs
  PROVE  /\ \A prompt \in Prompt : UpdateCustom(id, prompt) => customs' \in Seq(CustomRow)
         /\ DeleteCustom(id) => customs' \in Seq(CustomRow)
<1>1. customs \in Seq(CustomRow)
  BY DEF TrailInv, TrailTypes
<1>2. DOMAIN customs = 1 .. Len(customs)
  BY <1>1, LenProperties
<1>3. customs[id] \in CustomRow
  BY <1>1, <1>2, ElementOfSeq
<1>4. ASSUME NEW r \in CustomRow PROVE [customs EXCEPT ![id] = r] \in Seq(CustomRow)
  BY <1>1, <1>2, ExceptSeq
<1>5. ASSUME NEW prompt \in Prompt, UpdateCustom(id, prompt) PROVE customs' \in Seq(CustomRow)
  <2>1. [customs[id] EXCEPT !.prompt = prompt] \in CustomRow
    BY <1>3 DEF CustomRow
  <2>2. customs' = [customs EXCEPT ![id] = [customs[id] EXCEPT !.prompt = prompt]]
    BY <1>5 DEF UpdateCustom
  <2>3. QED
    BY <1>4, <2>1, <2>2
<1>6. ASSUME DeleteCustom(id) PROVE customs' \in Seq(CustomRow)
  <2>1. [customs[id] EXCEPT !.alive = FALSE] \in CustomRow
    BY <1>3 DEF CustomRow
  <2>2. customs' = [customs EXCEPT ![id] = [customs[id] EXCEPT !.alive = FALSE]]
    BY <1>6 DEF DeleteCustom
  <2>3. QED
    BY <1>4, <2>1, <2>2
<1>7. QED
  BY <1>5, <1>6

-----------------------------------------------------------------------------
(* The handlers that tell nothing.                                         *)
LEMMA CreateUserKeeps ==
  ASSUME TrailInv, NEW c \in Caller, NEW t \in PfTenant, CreateUserHandler(c, t)
  PROVE  TrailInv'
<1>1. PICK pin \in Pin : Create(t, pin)
  BY DEF CreateUserHandler
<1> DEFINE r == [tenant |-> t, alive |-> TRUE, active |-> TRUE, pin |-> PinHash(pin)]
<1>2. r \in UserRow
  BY ProfilesConstants DEF UserRow, PinHash
<1>3. users' = Append(users, r) /\ users \in Seq(UserRow)
  BY <1>1 DEF Create, TrailInv, TrailTypes
<1> HIDE DEF r
<1>4. /\ users' \in Seq(UserRow) /\ DOMAIN users \subseteq DOMAIN users'
      /\ \A id \in DOMAIN users : users'[id] = users[id]
  BY <1>2, <1>3, AppendProperties, LenProperties
<1>5. UsersGoOn
  BY <1>4 DEF UsersGoOn
<1>6. QED
  BY <1>5, NothingGoes, AnswerComes DEF CreateUserHandler, CallerTenant, PfAnswer

LEMMA EditUserKeeps ==
  ASSUME TrailInv, NEW c \in Caller, NEW t \in PfTenant,
         SetUserAtivoHandler(c, t) \/ SetUserPinHandler(c, t)
  PROVE  TrailInv'
<1>1. /\ told' = told /\ squads' = squads /\ customs' = customs
      /\ published' = published /\ overrides' = overrides
  BY DEF SetUserAtivoHandler, SetUserPinHandler
<1>2. ASSUME NEW id \in DOMAIN users, NEW active \in BOOLEAN, SetActive(id, active) PROVE UsersGoOn
  <2> DEFINE r == [users[id] EXCEPT !.active = active]
  <2>1. r \in UserRow /\ r.tenant = users[id].tenant /\ r.alive = users[id].alive
    BY UserRows DEF UserRow
  <2>2. users' = [users EXCEPT ![id] = r]
    BY <1>2 DEF SetActive
  <2> HIDE DEF r
  <2>3. QED
    BY <2>1, <2>2, UserWritten
<1>3. ASSUME NEW id \in DOMAIN users, NEW pin \in Pin, SetPin(id, pin) PROVE UsersGoOn
  <2> DEFINE r == [users[id] EXCEPT !.pin = PinHash(pin)]
  <2>1. PinHash(pin) \in Pin
    BY ProfilesConstants DEF PinHash
  <2>2. r \in UserRow /\ r.tenant = users[id].tenant /\ r.alive = users[id].alive
    BY <2>1, UserRows DEF UserRow
  <2>3. users' = [users EXCEPT ![id] = r]
    BY <1>3 DEF SetPin
  <2> HIDE DEF r
  <2>4. QED
    BY <2>2, <2>3, UserWritten
<1>4. UsersGoOn
  BY <1>2, <1>3, NothingGoes DEF SetUserAtivoHandler, SetUserPinHandler
<1>5. \E status \in PfAnswer : Answers(c, t, status)
  BY DEF SetUserAtivoHandler, SetUserPinHandler, PfAnswer
<1>6. QED
  BY <1>1, <1>4, <1>5, NothingGoes, AnswerComes DEF CallerTenant

LEMMA CustomsKeep ==
  ASSUME TrailInv, NEW c \in Caller, NEW t \in PfTenant,
         CreateCustomHandler(c, t) \/ UpdateCustomHandler(c, t) \/ DeleteCustomHandler(c, t)
  PROVE  TrailInv'
<1>1. /\ told' = told /\ squads' = squads /\ users' = users
      /\ published' = published /\ overrides' = overrides
  BY DEF CreateCustomHandler, UpdateCustomHandler, DeleteCustomHandler
<1>2. ASSUME NEW prompt \in Prompt, InsertCustom(t, prompt) PROVE customs' \in Seq(CustomRow)
  <2>1. [tenant |-> t, alive |-> TRUE, prompt |-> prompt] \in CustomRow
    BY DEF CustomRow
  <2>2. QED
    BY <1>2, <2>1, AppendProperties DEF InsertCustom, TrailInv, TrailTypes
<1>3. customs' \in Seq(CustomRow)
  BY <1>2, CustomWritten, NothingGoes DEF CreateCustomHandler, UpdateCustomHandler, DeleteCustomHandler
<1>4. \E status \in PfAnswer : Answers(c, t, status)
  BY DEF CreateCustomHandler, UpdateCustomHandler, DeleteCustomHandler, PfAnswer
<1>5. QED
  BY <1>1, <1>3, <1>4, NothingGoes, AnswerComes DEF CallerTenant

LEMMA PagesKeep ==
  ASSUME TrailInv, NEW c \in Caller, NEW t \in PfTenant,
         \/ VerifyUserPinHandler(c, t) \/ ListPersonasHandler(c, t) \/ ListUsersHandler(c, t)
         \/ ListPublicacaoHandler(c, t) \/ StoreFails(c, t)
         \/ DeleteOverrideHandler(c, t) \/ ClearOverridesHandler(c, t)
  PROVE  TrailInv'
<1>1. /\ told' = told /\ squads' = squads /\ users' = users
      /\ published' = published /\ customs' = customs /\ overrides' \subseteq overrides
  BY DEF VerifyUserPinHandler, ListPersonasHandler, ListUsersHandler, ListPublicacaoHandler, StoreFails,
    DeleteOverrideHandler, ClearOverridesHandler, DeleteOverride, ClearOverrides
<1>2. \A id \in DOMAIN users, pin \in Pin : PinCheck(id, pin) \in PfAnswer
  BY DEF PinCheck, PfAnswer
<1>3. ListPublished(t) \in PfAnswer
  BY DEF ListPublished, TrailInv, TrailTypes, PfAnswer
<1>4. \E status \in PfAnswer : Answers(c, t, status)
  <2>1. CASE VerifyUserPinHandler(c, t)
    <3>1. PICK id \in DOMAIN users, pin \in Pin :
            Answers(c, t, IF Found(users, t, id) THEN PinCheck(id, pin) ELSE "404")
      BY <2>1 DEF VerifyUserPinHandler
    <3>2. (IF Found(users, t, id) THEN PinCheck(id, pin) ELSE "404") \in PfAnswer
      BY <1>2 DEF PfAnswer
    <3>3. QED
      BY <3>1, <3>2
  <2>2. CASE ListPersonasHandler(c, t)
    <3>1. /\ "editado" \in PfAnswer /\ "200" \in PfAnswer /\ "404" \in PfAnswer
      BY DEF PfAnswer
    <3>2. QED
      BY <2>2, <3>1 DEF ListPersonasHandler
  <2>3. CASE ListUsersHandler(c, t)
    <3>1. "empty" \in PfAnswer /\ "200" \in PfAnswer
      BY DEF PfAnswer
    <3>2. QED
      BY <2>3, <3>1 DEF ListUsersHandler
  <2>4. CASE ListPublicacaoHandler(c, t)
    BY <1>3, <2>4 DEF ListPublicacaoHandler
  <2>5. CASE StoreFails(c, t) \/ DeleteOverrideHandler(c, t) \/ ClearOverridesHandler(c, t)
    <3>1. "500" \in PfAnswer /\ "200" \in PfAnswer
      BY DEF PfAnswer
    <3>2. QED
      BY <2>5, <3>1 DEF StoreFails, DeleteOverrideHandler, ClearOverridesHandler
  <2>6. QED
    BY <2>1, <2>2, <2>3, <2>4, <2>5
<1>5. overrides' \subseteq [tenant : PfTenant, role : Role, prompt : Prompt]
  BY <1>1 DEF TrailInv, TrailTypes
<1>6. QED
  BY <1>1, <1>4, <1>5, NothingGoes, AnswerComes DEF CallerTenant

-----------------------------------------------------------------------------
(* The handlers that tell: the first two of what is no one's but theirs.   *)
LEMMA DeleteUserKeeps ==
  ASSUME TrailInv, NEW c \in Caller, NEW t \in PfTenant, DeleteUserHandler(c, t)
  PROVE  TrailInv'
<1>1. /\ told' = told /\ squads' = squads /\ customs' = customs
      /\ published' = published /\ overrides' = overrides
  BY DEF DeleteUserHandler
<1>2. PICK id \in DOMAIN users :
        \/ Found(users, t, id) /\ RemoveUser(id) /\ Tells(c, t, [kind |-> "UserRemoved", id |-> id])
        \/ ~Found(users, t, id) /\ UNCHANGED users /\ Answers(c, t, "404")
  BY DEF DeleteUserHandler
<1>3. CASE UNCHANGED users /\ Answers(c, t, "404")
  BY <1>1, <1>3, NothingGoes, AnswerComes DEF CallerTenant, PfAnswer
<1>4. CASE Found(users, t, id) /\ RemoveUser(id) /\ Tells(c, t, [kind |-> "UserRemoved", id |-> id])
  <2> DEFINE r == [users[id] EXCEPT !.alive = FALSE]
             f == [kind |-> "UserRemoved", id |-> id]
  <2>1. r \in UserRow /\ r.tenant = users[id].tenant /\ ~r.alive
    BY UserRows DEF UserRow
  <2>2. users' = [users EXCEPT ![id] = r]
    BY <1>4 DEF RemoveUser
  <2>3. id \in Nat
    BY LenProperties DEF TrailInv, TrailTypes
  <2>4. f \in Fact /\ Removal(f) /\ ~Activation(f) /\ f.id = id
    BY <2>3 DEF Fact, Removal, Activation
  <2>5. caller' = [caller EXCEPT ![c] = [at |-> "telling", tenant |-> t, fact |-> f, answer |-> "200"]]
    BY <1>4 DEF Tells
  <2> HIDE DEF r, f
  <2>6. UsersGoOn /\ users'[id] = r /\ DOMAIN users' = DOMAIN users
    BY <2>1, <2>2, UserWritten
  <2>7. users[id].tenant = t /\ users[id].alive
    BY <1>4 DEF Found
  <2>8. FactIsSo(t, f)'
    BY <2>1, <2>4, <2>6, <2>7 DEF FactIsSo, Gone
  <2>9. FactIsNew(f)
    <3>1. SUFFICES ASSUME NEW u \in PfTenant, NEW i \in DOMAIN told[u], Removes(told[u][i], id)
                   PROVE  FALSE
      BY <2>4 DEF FactIsNew
    <3>2. EntryIsSo(u, told[u][i])
      BY DEF TrailInv, ToldIsSo
    <3>3. QED
      BY <2>7, <3>1, <3>2 DEF EntryIsSo, Removes, Gone
  <2>10. ASSUME NEW d \in Caller, Pending(d) PROVE Differ(f, caller[d].fact)
    <3>1. FactIsSo(caller[d].tenant, caller[d].fact)
      BY <2>10 DEF TrailInv, PendingIsOwn
    <3>2. QED
      BY <2>4, <2>7, <3>1 DEF FactIsSo, Gone, Differ
  <2>11. "200" \in PfAnswer /\ "telling" \in {"saving", "telling"}
    BY DEF PfAnswer
  <2>12. QED
    BY <1>1, <2>4, <2>5, <2>6, <2>8, <2>9, <2>10, <2>11, NothingGoes, FactComes
<1>5. QED
  BY <1>2, <1>3, <1>4

LEMMA EditsAreTold ==
  ASSUME TrailInv, NEW c \in Caller, NEW t \in PfTenant,
         SetPublicacaoHandler(c, t) \/ SetOverrideHandler(c, t)
  PROVE  TrailInv'
<1>1. told' = told /\ squads' = squads /\ customs' = customs /\ users' = users
  BY DEF SetPublicacaoHandler, SetOverrideHandler
<1>2. published' \in [PfTenant -> {"builtin"} \cup Prompt]
  <2>1. published \in [PfTenant -> {"builtin"} \cup Prompt]
    BY DEF TrailInv, TrailTypes
  <2>2. QED
    BY <2>1 DEF SetPublicacaoHandler, SetOverrideHandler, SetPublished
<1>3. overrides' \subseteq [tenant : PfTenant, role : Role, prompt : Prompt]
  <2>1. overrides \subseteq [tenant : PfTenant, role : Role, prompt : Prompt]
    BY DEF TrailInv, TrailTypes
  <2>2. ASSUME NEW role \in Role, NEW prompt \in Prompt, SetOverride(t, role, prompt) PROVE overrides' \subseteq [tenant : PfTenant, role : Role, prompt : Prompt]
    <3>1. [tenant |-> t, role |-> role, prompt |-> prompt] \in [tenant : PfTenant, role : Role, prompt : Prompt]
      OBVIOUS
    <3>2. QED
      BY <2>1, <2>2, <3>1 DEF SetOverride
  <2>3. QED
    BY <2>1, <2>2 DEF SetPublicacaoHandler, SetOverrideHandler
<1>4. PICK f \in Fact : ~Removal(f) /\ ~Activation(f) /\ Tells(c, t, f)
  <2>1. \A p \in Prompt : /\ [kind |-> "TemplatePublished", published |-> p] \in Fact
                          /\ [kind |-> "PersonaUpdated", prompt |-> p] \in Fact
    BY DEF Fact
  <2>2. CASE SetPublicacaoHandler(c, t)
    BY <2>1, <2>2 DEF SetPublicacaoHandler, Removal, Activation
  <2>3. CASE SetOverrideHandler(c, t)
    BY <2>1, <2>3 DEF SetOverrideHandler, Removal, Activation
  <2>4. QED
    BY <2>2, <2>3
<1>5. FactIsSo(t, f)' /\ FactIsNew(f) /\ \A d \in Caller : Differ(f, caller[d].fact)
  BY <1>4 DEF FactIsSo, FactIsNew, Differ
<1>6. caller' = [caller EXCEPT ![c] = [at |-> "telling", tenant |-> t, fact |-> f, answer |-> "200"]]
  BY <1>4 DEF Tells
<1>7. "200" \in PfAnswer /\ "telling" \in {"saving", "telling"}
  BY DEF PfAnswer
<1>8. QED
  BY <1>1, <1>2, <1>3, <1>5, <1>6, <1>7, NothingGoes, FactComes

LEMMA SaveFlowKeeps ==
  ASSUME TrailInv, NEW c \in Caller, NEW t \in PfTenant, caller[c].at = "idle", SalvarFluxoHandler(c, t)
  PROVE  TrailInv'
<1>1. /\ squads' = squads /\ customs' = customs /\ users' = users
      /\ published' = published /\ overrides' = overrides
  BY DEF SalvarFluxoHandler
<1>2. "422" \in PfAnswer /\ "500" \in PfAnswer /\ "201" \in PfAnswer
  BY DEF PfAnswer
<1>3. CASE UNCHANGED told /\ \E status \in {"422", "500"} : Answers(c, t, status)
  BY <1>1, <1>2, <1>3, NothingGoes, AnswerComes DEF CallerTenant
<1> DEFINE f == [kind |-> "FlowSaved"]
<1>4. CASE told' = [told EXCEPT ![t] = Append(@, EntryDeDominio(f))] /\ Answers(c, t, "201")
  <2>1. f \in Fact /\ ~Removal(f) /\ ~Activation(f)
    BY DEF Fact, Removal, Activation
  <2> HIDE DEF f
  <2>2. FactIsSo(t, f) /\ FactIsNew(f) /\ \A d \in Caller : Differ(caller[d].fact, f)
    BY <2>1 DEF FactIsSo, FactIsNew, Differ
  <2>3. caller \in [Caller -> CallerRecord] /\ told \in [PfTenant -> Seq(Entry)]
    BY DEF TrailInv, TrailTypes
  <2>4. /\ caller' \in [Caller -> CallerRecord] /\ ~Pending(c)'
        /\ \A d \in Caller \ {c} : caller'[d] = caller[d]
    BY <1>2, <1>4, <2>3, Answered DEF CallerTenant
  <2>5. told' \in [PfTenant -> Seq(Entry)]
    BY <1>4, <2>1, <2>3, EntryFacts, AppendProperties
  <2>6. TrailTypes'
    BY <1>1, <2>4, <2>5 DEF TrailTypes, TrailInv
  <2>7. QED
    BY <1>1, <1>4, <2>1, <2>2, <2>4, <2>6, FactIsTold
<1>5. QED
  BY <1>3, <1>4 DEF SalvarFluxoHandler

LEMMA ActivateKeeps ==
  ASSUME TrailInv, NEW c \in Caller, NEW t \in PfTenant, AtivarSquadHandler(c, t)
  PROVE  TrailInv'
<1>1. /\ told' = told /\ customs' = customs /\ users' = users
      /\ published' = published /\ overrides' = overrides
  BY DEF AtivarSquadHandler
<1>2. CASE UNCHANGED squads /\ \E status \in {"404", "422", "503"} : Answers(c, t, status)
  <2>1. {"404", "422", "503"} \subseteq PfAnswer
    BY DEF PfAnswer
  <2>2. QED
    BY <1>1, <1>2, <2>1, NothingGoes, AnswerComes DEF CallerTenant
<1> DEFINE s == [tenant |-> t, roster |-> Roster(t), team |-> MontarDescricao(Roster(t))]
           f == [kind |-> "SquadActivated", run |-> Len(squads) + 1, roster |-> Roster(t)]
<1>3. CASE /\ squads' = Append(squads, s)
           /\ caller' = [caller EXCEPT ![c] = [at |-> "saving", tenant |-> t, answer |-> "202", fact |-> f]]
  <2>1. TrailTypes
    BY DEF TrailInv
  <2>2. /\ Roster(t) \in SUBSET Member
        /\ MontarDescricao(Roster(t)) \in SUBSET (Prompt \cup {PromptPadrao})
        /\ {h.sha : h \in PromptHashes(Roster(t))} = MontarDescricao(Roster(t))
    BY <2>1, RosterIsHashed
  <2>3. s \in SquadRow /\ s.tenant = t /\ s.roster = Roster(t) /\ s.team = MontarDescricao(Roster(t))
    BY <2>2 DEF SquadRow
  <2>4. squads \in Seq(SquadRow)
    BY <2>1 DEF TrailTypes
  <2>5. Len(squads) \in Nat /\ DOMAIN squads = 1 .. Len(squads)
    BY <2>4, LenProperties
  <2>6. PICK g : g = f
    OBVIOUS
  <2>7. /\ g \in Fact /\ ~Removal(g) /\ Activation(g) /\ g.run = Len(squads) + 1 /\ g.roster = Roster(t)
        /\ caller' = [caller EXCEPT ![c] = [at |-> "saving", tenant |-> t, fact |-> g, answer |-> "202"]]
    BY <1>3, <2>2, <2>5, <2>6 DEF Fact, Removal, Activation
  <2>8. squads' = Append(squads, s)
    BY <1>3
  <2> HIDE DEF s, f
  <2>9. /\ squads' \in Seq(SquadRow) /\ DOMAIN squads' = 1 .. Len(squads) + 1
        /\ \A k \in DOMAIN squads : squads'[k] = squads[k]
        /\ squads'[Len(squads) + 1] = s
    BY <2>3, <2>4, <2>5, <2>8, AppendProperties, LenProperties
  <2>10. TeamsAreHashed'
    <3>1. SUFFICES ASSUME NEW k \in DOMAIN squads'
                   PROVE  {h.sha : h \in PromptHashes(squads'[k].roster)} = squads'[k].team
      BY DEF TeamsAreHashed
    <3>2. CASE k \in DOMAIN squads
      BY <2>9, <3>2 DEF TrailInv, TeamsAreHashed
    <3>3. CASE k = Len(squads) + 1
      <4>1. squads'[k].roster = Roster(t) /\ squads'[k].team = MontarDescricao(Roster(t))
        BY <2>3, <2>9, <3>3
      <4>2. QED
        BY <2>2, <4>1
    <3>4. QED
      BY <2>5, <2>9, <3>1, <3>2, <3>3
  <2>11. SquadsGoOn
    BY <2>5, <2>9, <2>10 DEF SquadsGoOn
  <2>12. FactIsSo(t, g)'
    BY <2>3, <2>5, <2>7, <2>9 DEF FactIsSo, Works
  <2>13. Len(squads) + 1 \notin DOMAIN squads
    BY <2>5
  <2>14. FactIsNew(g)
    <3>1. SUFFICES ASSUME NEW u \in PfTenant, NEW i \in DOMAIN told[u], Starts(told[u][i], Len(squads) + 1)
                   PROVE  FALSE
      BY <2>7 DEF FactIsNew
    <3>2. EntryIsSo(u, told[u][i])
      BY DEF TrailInv, ToldIsSo
    <3>3. QED
      BY <2>13, <3>1, <3>2 DEF EntryIsSo, Starts, Works
  <2>15. ASSUME NEW d \in Caller, Pending(d) PROVE Differ(g, caller[d].fact)
    <3>1. FactIsSo(caller[d].tenant, caller[d].fact)
      BY <2>15 DEF TrailInv, PendingIsOwn
    <3>2. QED
      BY <2>7, <2>13, <3>1 DEF FactIsSo, Works, Differ
  <2>16. "202" \in PfAnswer /\ "saving" \in {"saving", "telling"}
    BY DEF PfAnswer
  <2>17. QED
    BY <1>1, <2>7, <2>11, <2>12, <2>14, <2>15, <2>16, NothingGoes, FactComes
<1>4. QED
  BY <1>2, <1>3 DEF AtivarSquadHandler

(* A pending request's parts.                                              *)
LEMMA PendingFacts ==
  ASSUME TrailInv, NEW c \in Caller
  PROVE  /\ caller[c] \in CallerRecord
         /\ Pending(c) =>
              /\ caller[c].tenant \in PfTenant /\ caller[c].fact \in Fact
              /\ FactIsSo(caller[c].tenant, caller[c].fact) /\ FactIsNew(caller[c].fact)
              /\ \A d \in Caller \ {c} : Pending(d) =>
                   /\ Differ(caller[c].fact, caller[d].fact) /\ Differ(caller[d].fact, caller[c].fact)
  BY DEF TrailInv, TrailTypes, PendingIsOwn, FactIsSo, Differ

LEMMA SaveKeeps ==
  ASSUME TrailInv, NEW c \in Caller, SaveActivation(c)
  PROVE  TrailInv'
<1>1. /\ told' = told /\ squads' = squads /\ customs' = customs /\ users' = users
      /\ published' = published /\ overrides' = overrides /\ Pending(c)
  BY DEF SaveActivation, Pending
<1>2. PICK t, f, answer : t = caller[c].tenant /\ f = caller[c].fact /\ answer = caller[c].answer
  OBVIOUS
<1>3. /\ t \in PfTenant /\ f \in Fact /\ FactIsSo(t, f) /\ FactIsNew(f) /\ answer \in PfAnswer
      /\ \A d \in Caller \ {c} : Pending(d) => Differ(f, caller[d].fact)
  BY <1>1, <1>2, PendingFacts DEF CallerRecord
<1>4. CASE caller' = [caller EXCEPT ![c].at = "telling"]
  <2> DEFINE r == [at |-> "telling", tenant |-> t, fact |-> f, answer |-> answer]
  <2>1. [caller[c] EXCEPT !.at = "telling"] = r
    BY <1>2, PendingFacts DEF CallerRecord
  <2>2. caller' = [caller EXCEPT ![c] = r]
    BY <1>4, <2>1
  <2>3. FactIsSo(t, f)'
    BY <1>1, <1>3 DEF FactIsSo, Gone, Works
  <2>4. "telling" \in {"saving", "telling"}
    OBVIOUS
  <2>5. QED
    BY <1>1, <1>3, <2>2, <2>3, <2>4, NothingGoes, FactComes
<1>5. CASE \E status \in {"422", "500"} : Answers(c, caller[c].tenant, status)
  <2>1. {"422", "500"} \subseteq PfAnswer
    BY DEF PfAnswer
  <2>2. QED
    BY <1>1, <1>2, <1>3, <1>5, <2>1, NothingGoes, AnswerComes DEF CallerTenant
<1>6. QED
  BY <1>4, <1>5 DEF SaveActivation

LEMMA TellKeeps ==
  ASSUME TrailInv, NEW c \in Caller, Tell(c)
  PROVE  TrailInv'
<1>1. /\ squads' = squads /\ customs' = customs /\ users' = users
      /\ published' = published /\ overrides' = overrides /\ Pending(c)
  BY DEF Tell, Pending
<1>2. PICK t, f, answer : t = caller[c].tenant /\ f = caller[c].fact /\ answer = caller[c].answer
  OBVIOUS
<1>3. /\ t \in PfTenant /\ f \in Fact /\ FactIsSo(t, f) /\ FactIsNew(f) /\ answer \in PfAnswer
      /\ \A d \in Caller \ {c} : Pending(d) => Differ(caller[d].fact, f)
  BY <1>1, <1>2, PendingFacts DEF CallerRecord
<1>4. Answers(c, t, answer) /\ told' \in {told, [told EXCEPT ![t] = Append(@, EntryDeDominio(f))]}
  BY <1>2 DEF Tell
<1>5. CASE told' = told
  BY <1>1, <1>3, <1>4, <1>5, NothingGoes, AnswerComes DEF CallerTenant
<1>6. CASE told' = [told EXCEPT ![t] = Append(@, EntryDeDominio(f))]
  <2>1. caller \in [Caller -> CallerRecord] /\ told \in [PfTenant -> Seq(Entry)]
    BY DEF TrailInv, TrailTypes
  <2>2. /\ caller' \in [Caller -> CallerRecord] /\ ~Pending(c)'
        /\ \A d \in Caller \ {c} : caller'[d] = caller[d]
    BY <1>3, <1>4, <2>1, Answered DEF CallerTenant
  <2>3. told' \in [PfTenant -> Seq(Entry)]
    BY <1>3, <1>6, <2>1, EntryFacts, AppendProperties
  <2>4. TrailTypes'
    BY <1>1, <2>2, <2>3 DEF TrailTypes, TrailInv
  <2>5. QED
    BY <1>1, <1>3, <1>6, <2>2, <2>4, FactIsTold
<1>7. QED
  BY <1>4, <1>5, <1>6

LEMMA TrailStarts == ProfilesInit => TrailInv
<1> SUFFICES ASSUME ProfilesInit PROVE TrailInv
  OBVIOUS
<1>1. \A c \in Caller : caller[c] = Idle /\ ~Pending(c)
  BY DEF ProfilesInit, Pending, Idle
<1>2. Idle \in CallerRecord
  BY DEF Idle, CallerRecord, CallerTenant, PfAnswer
<1>3. /\ << >> \in Seq(UserRow) /\ << >> \in Seq(CustomRow) /\ << >> \in Seq(SquadRow)
      /\ << >> \in Seq(Entry)
  BY EmptySeq
<1>4. TrailTypes
  BY <1>2, <1>3 DEF ProfilesInit, TrailTypes
<1>5. PendingIsOwn
  BY <1>1 DEF PendingIsOwn
<1>6. ToldIsSo /\ TeamsAreHashed
  BY DEF ProfilesInit, ToldIsSo, TeamsAreHashed
<1>7. QED
  BY <1>4, <1>5, <1>6 DEF TrailInv

LEMMA TrailGoesOn ==
  ASSUME TrailInv, [ProfilesNext]_profileVars
  PROVE  TrailInv'
<1>1. CASE UNCHANGED profileVars
  BY <1>1 DEF profileVars, TrailInv, TrailTypes, PendingIsOwn, Pending, FactIsSo, FactIsNew, Gone, Works,
    ToldIsSo, EntryIsSo, TeamsAreHashed
<1>2. ASSUME NEW c \in Caller, NEW t \in PfTenant, Handles(c, t) PROVE TrailInv'
  <2>1. CASE CreateUserHandler(c, t)
    BY <2>1, CreateUserKeeps
  <2>2. CASE DeleteUserHandler(c, t)
    BY <2>2, DeleteUserKeeps
  <2>3. CASE SetUserAtivoHandler(c, t) \/ SetUserPinHandler(c, t)
    BY <2>3, EditUserKeeps
  <2>4. CASE SetPublicacaoHandler(c, t) \/ SetOverrideHandler(c, t)
    BY <2>4, EditsAreTold
  <2>5. CASE CreateCustomHandler(c, t) \/ UpdateCustomHandler(c, t) \/ DeleteCustomHandler(c, t)
    BY <2>5, CustomsKeep
  <2>6. CASE SalvarFluxoHandler(c, t)
    BY <1>2, <2>6, SaveFlowKeeps DEF Handles
  <2>7. CASE AtivarSquadHandler(c, t)
    BY <2>7, ActivateKeeps
  <2>8. CASE \/ VerifyUserPinHandler(c, t) \/ ListPersonasHandler(c, t) \/ ListUsersHandler(c, t)
             \/ ListPublicacaoHandler(c, t) \/ StoreFails(c, t)
             \/ DeleteOverrideHandler(c, t) \/ ClearOverridesHandler(c, t)
    BY <2>8, PagesKeep
  <2>9. QED
    BY <1>2, <2>1, <2>2, <2>3, <2>4, <2>5, <2>6, <2>7, <2>8 DEF Handles
<1>3. QED
  BY <1>1, <1>2, SaveKeeps, TellKeeps DEF ProfilesNext

LEMMA TrailInvIsTrue ==
  ASSUME TrailInv
  PROVE  TrailIsTrue
<1>1. SUFFICES ASSUME NEW t \in PfTenant, NEW i \in DOMAIN told[t], NEW j \in DOMAIN told[t]
               PROVE  LET entry == told[t][i]
                          of == entry.payload
                      IN  /\ entry.kind = "btv.user_removed" =>
                               /\ users[of.id].tenant = t
                               /\ ~users[of.id].alive
                               /\ entry = told[t][j] => i = j
                          /\ entry.kind = "btv.squad_activated" =>
                               /\ squads[of.run_id].tenant = t
                               /\ of.prompt_hashes = PromptHashes(squads[of.run_id].roster)
                               /\ {h.sha : h \in of.prompt_hashes} = squads[of.run_id].team
                               /\ told[t][j].kind = entry.kind /\ told[t][j].payload.run_id = of.run_id => i = j
  BY DEF TrailIsTrue
<1>2. EntryIsSo(t, told[t][i]) /\ (Same(told[t][i], told[t][j]) => i = j)
  BY DEF TrailInv, ToldIsSo
<1>3. PICK e, o : e = told[t][i] /\ o = told[t][j]
  OBVIOUS
<1>4. ASSUME e.kind = "btv.user_removed"
      PROVE  /\ users[e.payload.id].tenant = t /\ ~users[e.payload.id].alive
             /\ e = o => i = j
  BY <1>2, <1>3, <1>4 DEF EntryIsSo, Gone, Same, Removes
<1>5. ASSUME e.kind = "btv.squad_activated"
      PROVE  /\ squads[e.payload.run_id].tenant = t
             /\ e.payload.prompt_hashes = PromptHashes(squads[e.payload.run_id].roster)
             /\ {h.sha : h \in e.payload.prompt_hashes} = squads[e.payload.run_id].team
             /\ o.kind = e.kind /\ o.payload.run_id = e.payload.run_id => i = j
  <2>1. /\ squads[e.payload.run_id].tenant = t /\ e.payload.run_id \in DOMAIN squads
        /\ e.payload.prompt_hashes = PromptHashes(squads[e.payload.run_id].roster)
    BY <1>2, <1>3, <1>5 DEF EntryIsSo, Works
  <2>2. {h.sha : h \in e.payload.prompt_hashes} = squads[e.payload.run_id].team
    BY <2>1 DEF TrailInv, TeamsAreHashed
  <2>3. o.kind = e.kind /\ o.payload.run_id = e.payload.run_id => i = j
    BY <1>2, <1>3, <1>5 DEF Same, Starts
  <2>4. QED
    BY <2>1, <2>2, <2>3
<1>6. QED
  BY <1>3, <1>4, <1>5

(* What is told of a removal is of a user of the tenant who is gone, once, *)
(* and what is told of an activation is of the squad that runs and of its  *)
(* own prompts (`delete_user_handler`, `ativar_squad_handler`).            *)
THEOREM TrailsAreTrue == ProfilesSpec => []TrailIsTrue
<1>1. ProfilesInit => TrailInv
  BY TrailStarts
<1>2. TrailInv /\ [ProfilesNext]_profileVars => TrailInv'
  BY TrailGoesOn
<1>3. TrailInv => TrailIsTrue
  BY TrailInvIsTrue
<1>4. QED
  BY <1>1, <1>2, <1>3, PTL DEF ProfilesSpec

-----------------------------------------------------------------------------
(* The rows of runs and of what they deliver.                              *)

RsTasks == RsTask \cup {CHOOSE k \in RsTask : TRUE}
RsOwner == RsTenant \cup {NoOwner}
RunRow == [tenant : RsOwner, task : RsTasks, id : Nat, by : Nat]
Delivery == [tenant : RsOwner, run : Nat, task : RsTasks, by : Nat, n : Nat]
SaveRow == [tenant : RsTenant, task : RsTask, items : Seq(RsTenant)]
ClientRow ==
  [at : {"closed", "created", "migrating", "open", "asked", "writing", "inserting"}, save : Nat,
   run : SUBSET RunRow, made : SUBSET Delivery]
PageRow ==
  [tenant : RsOwner, items : SUBSET Delivery, runs : SUBSET RunRow,
   at : {"blank", "items", "both", "not_found", "file_missing", "not_exportable", "served"}]

RsTypes ==
  /\ adapter \in {"sqlite", "postgres"} /\ shape \in {"none", "old", "new"}
  /\ runRows \subseteq RunRow /\ deliveries \subseteq Delivery
  /\ client \in [RsConn -> ClientRow]
  /\ saves \in Seq(SaveRow) /\ savedOk \subseteq DOMAIN saves /\ ids \in Nat
  /\ page \in PageRow

(* The rows: one of each tenant's task, and who wrote them.                *)
RowsAreOne == \A r, o \in runRows : r.tenant = o.tenant /\ r.task = o.task => r = o
ItemsHaveRuns == \A v \in deliveries : \E r \in runRows : r.id = v.run /\ r.task = v.task /\ r.tenant = v.tenant
WritersAreKnown ==
  /\ \A r \in runRows : r.by \in 0 .. Len(saves)
  /\ \A v \in deliveries : v.by \in 0 .. Len(saves)
StoreRows == RowsAreOne /\ ItemsHaveRuns /\ WritersAreKnown

(* A save is all there, or nothing of it.                                  *)
Made(s) == {v \in deliveries : v.by = s}
WroteRow(s) == \E r \in runRows : r.by = s
Committed(s) == Made(s) # {} \/ s \in savedOk \/ WroteRow(s)
IsWhole(s) ==
  /\ IsFiniteSet(Made(s)) /\ Cardinality(Made(s)) = Len(saves[s].items)
  /\ \A i \in DOMAIN saves[s].items : saves[s].items[i] = saves[s].tenant
SavesAreDone ==
  \A s \in DOMAIN saves : /\ Committed(s) => IsWhole(s)
                          /\ s \in savedOk => RunRowsOf(saves[s]) # {}

(* A connection at a save that is not there yet, and nobody else's.        *)
Busy(c) == client[c].at \in {"asked", "writing", "inserting"}
Writing(c) == client[c].at = "writing"
SaversAreOne ==
  \A c \in RsConn : Busy(c) =>
    /\ client[c].save \in DOMAIN saves /\ ~Committed(client[c].save)
    /\ \A d \in RsConn \ {c} : Busy(d) => client[d].save # client[c].save
    /\ client[c].at = "inserting" => adapter = "sqlite" /\ Save(c).items = << >>

(* Outside a transaction nothing is made.                                  *)
AtRest == \A c \in RsConn : ~Writing(c) => client[c].made = {}

(* What a transaction has written of its run and its deliverables.         *)
RunIsSaves(s, run) ==
  /\ run # {} /\ \A r, o \in run : r = o
  /\ \A r \in run : r.tenant = saves[s].tenant /\ r.task = saves[s].task /\ r.by = s
MadeIsSaves(s, run, made) ==
  /\ IsFiniteSet(made) /\ Cardinality(made) <= Len(saves[s].items)
  /\ \A i \in 1 .. Cardinality(made) : saves[s].items[i] = saves[s].tenant
  /\ \A v \in made :
       /\ v.tenant = saves[s].tenant /\ v.task = saves[s].task /\ v.by = s
       /\ v.n \in 1 .. Cardinality(made) /\ \E r \in run : r.id = v.run
Apart(s, o) ==
  adapter = "postgres" /\ ~(saves[s].tenant = saves[o].tenant /\ saves[s].task = saves[o].task)
TransactionsAreWhole ==
  \A c \in RsConn : Writing(c) =>
    /\ RunIsSaves(client[c].save, client[c].run)
    /\ \A q \in RunRowsOf(Save(c)) : \E r \in client[c].run : r.id = q.id
    /\ MadeIsSaves(client[c].save, client[c].run, client[c].made)
    /\ \A d \in RsConn \ {c} : Writing(d) => Apart(client[c].save, client[d].save)

(* Nobody saves in a file that is not migrated.                            *)
FileIsMigrated ==
  /\ shape # "new" =>
       /\ adapter = "sqlite" /\ saves = << >> /\ page = NoPage
       /\ \A c \in RsConn : client[c].at \in {"closed", "created", "migrating"}
       /\ \A r \in runRows : r.tenant = NoOwner
  /\ shape = "none" => runRows = {} /\ \A c \in RsConn : client[c].at = "closed"
  /\ shape = "new" => \A r \in runRows : r.tenant \in RsTenant
  /\ \A v, w \in deliveries : v.by = 0 /\ w.by = 0 =>
       v = w /\ v.tenant = IF shape = "old" THEN NoOwner ELSE RsLocal

PagesAreTrue ==
  /\ page.items \subseteq deliveries
  /\ page.at \in {"items", "both"} => \A v \in page.items : v.tenant = page.tenant
  /\ page.at = "both" => \A v \in page.items : \E r \in page.runs : r.id = v.run
  /\ page.at \notin {"blank", "items", "both"} =>
       \A v \in page.items : v.tenant = page.tenant <=> page.at # "not_found"

SavesInv ==
  /\ RsTypes /\ StoreRows /\ SavesAreDone /\ SaversAreOne /\ AtRest /\ TransactionsAreWhole
  /\ FileIsMigrated /\ PagesAreTrue

-----------------------------------------------------------------------------
(* Frames.                                                                 *)
RowsStay == UNCHANGED <<runRows, deliveries, saves, savedOk>>
OnlyClient(c) == client' \in [RsConn -> ClientRow] /\ \A d \in RsConn \ {c} : client'[d] = client[d]
KeyRows(rows, save) == {r \in rows : r.tenant = save.tenant /\ r.task = save.task}

LEMMA StoreStays ==
  ASSUME SavesInv, RowsStay
  PROVE  /\ StoreRows' /\ SavesAreDone' /\ \A s : Committed(s)' <=> Committed(s)
         /\ \A save : RunRowsOf(save)' = RunRowsOf(save)
<1>1. \A s : (Committed(s)' <=> Committed(s)) /\ Made(s)' = Made(s)
  BY DEF RowsStay, Committed, Made, WroteRow
<1>2. \A save : RunRowsOf(save)' = RunRowsOf(save)
  BY DEF RowsStay, RunRowsOf
<1>3. StoreRows'
  BY DEF RowsStay, SavesInv, StoreRows, RowsAreOne, ItemsHaveRuns, WritersAreKnown
<1>4. saves' = saves /\ savedOk' = savedOk
  BY DEF RowsStay
<1>5. \A s : IsWhole(s) => IsWhole(s)'
  BY <1>1, <1>4 DEF IsWhole
<1>6. SavesAreDone'
  BY <1>1, <1>2, <1>4, <1>5 DEF SavesInv, SavesAreDone
<1>7. QED
  BY <1>1, <1>2, <1>3, <1>6

(* A connection goes on with the save it has, or has none now.             *)
LEMMA SaversStay ==
  ASSUME SavesInv, RowsStay, adapter' = adapter, NEW c \in RsConn, OnlyClient(c),
         Busy(c)' => /\ Busy(c) /\ client'[c].save = client[c].save
                     /\ client'[c].at = "inserting" => adapter = "sqlite" /\ Save(c).items = << >>
  PROVE  SaversAreOne'
<1>1. \A s : Committed(s)' <=> Committed(s)
  BY StoreStays
<1>2. saves' = saves
  BY DEF RowsStay
<1>3. ASSUME NEW d \in RsConn, Busy(d)'
      PROVE  /\ client'[d].save \in DOMAIN saves /\ ~Committed(client'[d].save)
             /\ \A b \in RsConn \ {d} : Busy(b)' => client'[b].save # client'[d].save
             /\ client'[d].at = "inserting" => adapter = "sqlite" /\ saves[client'[d].save].items = << >>
  <2>1. \A b \in RsConn : Busy(b)' => Busy(b) /\ client'[b].save = client[b].save
    BY DEF OnlyClient, Busy
  <2>2. /\ client[d].save \in DOMAIN saves /\ ~Committed(client[d].save)
        /\ \A b \in RsConn \ {d} : Busy(b) => client[b].save # client[d].save
        /\ client[d].at = "inserting" => adapter = "sqlite" /\ Save(d).items = << >>
    BY <1>3, <2>1 DEF SavesInv, SaversAreOne
  <2>3. client'[d].at = "inserting" => adapter = "sqlite" /\ saves[client'[d].save].items = << >>
    BY <1>3, <2>1, <2>2 DEF OnlyClient, Save
  <2>4. QED
    BY <1>3, <2>1, <2>2, <2>3
<1>4. \A s : Committed(s)' => Committed(s)
  BY <1>1
<1>5. ASSUME NEW d \in RsConn, Busy(d)' PROVE ~Committed(client[d].save)'
  <2>1. PICK s : s = client'[d].save
    OBVIOUS
  <2>2. ~Committed(s)'
    BY <1>3, <1>4, <1>5, <2>1
  <2>3. QED
    BY <2>1, <2>2 DEF Committed, Made, WroteRow
<1>6. QED
  BY <1>2, <1>3, <1>5 DEF SaversAreOne, Busy, Save

(* One is done with its save, and what there is of others' is as it was.   *)
LEMMA SaverIsDone ==
  ASSUME SavesInv, adapter' = adapter, saves' = saves, NEW c \in RsConn, OnlyClient(c), ~Busy(c)', Busy(c),
         \A s \in DOMAIN saves : s # client[c].save /\ Committed(s)' => Committed(s)
  PROVE  SaversAreOne'
<1>1. ASSUME NEW d \in RsConn, Busy(d)'
      PROVE  /\ client'[d].save \in DOMAIN saves /\ ~Committed(client[d].save)'
             /\ \A b \in RsConn \ {d} : Busy(b)' => client'[b].save # client'[d].save
             /\ client'[d].at = "inserting" => adapter = "sqlite" /\ saves[client'[d].save].items = << >>
  <2>1. \A b \in RsConn : Busy(b)' => b # c /\ Busy(b) /\ client'[b] = client[b]
    BY DEF OnlyClient, Busy
  <2>2. /\ client[d].save \in DOMAIN saves /\ ~Committed(client[d].save)
        /\ \A b \in RsConn \ {d} : Busy(b) => client[b].save # client[d].save
        /\ client[d].at = "inserting" => adapter = "sqlite" /\ Save(d).items = << >>
    BY <1>1, <2>1 DEF SavesInv, SaversAreOne
  <2>3. PICK s : s = client[d].save
    OBVIOUS
  <2>4. ~Committed(s)'
    BY <1>1, <2>1, <2>2, <2>3
  <2>5. ~Committed(client[d].save)'
    BY <1>1, <2>1, <2>3, <2>4 DEF Committed, Made, WroteRow
  <2>6. QED
    BY <1>1, <2>1, <2>2, <2>5 DEF Save
<1>2. QED
  BY <1>1 DEF SaversAreOne, Busy, Save

(* The transactions of the others.                                         *)
LEMMA TransactionsStay ==
  ASSUME SavesInv, adapter' = adapter, saves' = saves, NEW c \in RsConn, OnlyClient(c),
         \A d \in RsConn \ {c} : Writing(d) =>
           \A q \in KeyRows(runRows', Save(d)) : q \in runRows,
         Writing(c)' =>
           /\ RunIsSaves(client'[c].save, client'[c].run)
           /\ \A q \in KeyRows(runRows', saves[client'[c].save]) : \E r \in client'[c].run : r.id = q.id
           /\ MadeIsSaves(client'[c].save, client'[c].run, client'[c].made)
           /\ \A d \in RsConn \ {c} : Writing(d) => Apart(client'[c].save, client[d].save)
  PROVE  TransactionsAreWhole'
<1>1. /\ \A s, run : RunIsSaves(s, run)' <=> RunIsSaves(s, run)
      /\ \A s, run, made : MadeIsSaves(s, run, made)' <=> MadeIsSaves(s, run, made)
      /\ \A s, o : (Apart(s, o)' <=> Apart(s, o)) /\ (Apart(s, o) <=> Apart(o, s))
  BY DEF RunIsSaves, MadeIsSaves, Apart
<1>2. ASSUME NEW d \in RsConn, Writing(d)'
      PROVE  /\ RunIsSaves(client'[d].save, client'[d].run)
             /\ \A q \in KeyRows(runRows', saves[client'[d].save]) : \E r \in client'[d].run : r.id = q.id
             /\ MadeIsSaves(client'[d].save, client'[d].run, client'[d].made)
             /\ \A b \in RsConn \ {d} : Writing(b)' => Apart(client'[d].save, client'[b].save)
  <2>1. \A b \in RsConn \ {c} : Writing(b)' => Writing(b) /\ client'[b] = client[b]
    BY DEF OnlyClient, Writing
  <2>2. CASE d = c
    BY <1>2, <2>1, <2>2
  <2>3. CASE d # c
    <3>1. Writing(d) /\ client'[d] = client[d]
      BY <1>2, <2>1, <2>3
    <3>2. /\ RunIsSaves(client[d].save, client[d].run)
          /\ \A q \in RunRowsOf(Save(d)) : \E r \in client[d].run : r.id = q.id
          /\ MadeIsSaves(client[d].save, client[d].run, client[d].made)
          /\ \A b \in RsConn \ {d} : Writing(b) => Apart(client[d].save, client[b].save)
      BY <3>1 DEF SavesInv, TransactionsAreWhole
    <3>3. \A q \in KeyRows(runRows', Save(d)) : q \in RunRowsOf(Save(d))
      BY <2>3, <3>1 DEF KeyRows, RunRowsOf
    <3>4. ASSUME NEW b \in RsConn \ {d}, Writing(b)' PROVE Apart(client'[d].save, client'[b].save)
      <4>1. CASE b = c
        BY <1>1, <2>3, <3>1, <3>4, <4>1
      <4>2. CASE b # c
        BY <2>1, <3>1, <3>2, <3>4, <4>2
      <4>3. QED
        BY <4>1, <4>2
    <3>5. QED
      BY <3>1, <3>2, <3>3, <3>4 DEF Save
  <2>4. QED
    BY <2>2, <2>3
<1>3. QED
  BY <1>1, <1>2 DEF TransactionsAreWhole, Writing, Save, RunRowsOf, KeyRows, RunIsSaves, MadeIsSaves, Apart

(* What a page shows stays so as long as no deliverable goes.              *)
LEMMA PageStays ==
  ASSUME SavesInv, page' = page, deliveries \subseteq deliveries'
  PROVE  PagesAreTrue'
  BY DEF SavesInv, PagesAreTrue

(* A row that is there has a place in the transactions' frame.             *)
LEMMA NoNewRows ==
  ASSUME RowsStay
  PROVE  \A d \in RsConn : \A q \in KeyRows(runRows', Save(d)) : q \in runRows
  BY DEF RowsStay, KeyRows

-----------------------------------------------------------------------------
(* What is committed: the run and all of its deliverables.                 *)
LEMMA RunIsWritten ==
  ASSUME SavesInv, NEW s \in DOMAIN saves, ~Committed(s), NEW R \in SUBSET RunRow, NEW M \in SUBSET Delivery,
         RunIsSaves(s, R), \A q \in RunRowsOf(saves[s]) : \E r \in R : r.id = q.id,
         MadeIsSaves(s, R, M), Cardinality(M) = Len(saves[s].items), saves' = saves,
         runRows' = (runRows \ RunRowsOf(saves[s])) \cup R, deliveries' = deliveries \cup M,
         savedOk \subseteq savedOk', savedOk' \subseteq savedOk \cup {s}
  PROVE  /\ StoreRows' /\ SavesAreDone'
         /\ \A o \in DOMAIN saves : o # s /\ Committed(o)' => Committed(o)
<1>1. \A r \in runRows' : (r \in runRows /\ r \notin RunRowsOf(saves[s])) \/ r \in R
  OBVIOUS
<1>2. s \in Nat /\ s \in 0 .. Len(saves) /\ s # 0
  <2>1. saves \in Seq(SaveRow)
    BY DEF SavesInv, RsTypes
  <2>2. DOMAIN saves = 1 .. Len(saves) /\ Len(saves) \in Nat
    BY <2>1, LenProperties
  <2>3. QED
    BY <2>2
<1>3. RowsAreOne'
  <2>1. SUFFICES ASSUME NEW r \in runRows', NEW o \in runRows', r.tenant = o.tenant, r.task = o.task
                 PROVE  r = o
    BY DEF RowsAreOne
  <2>2. \A q \in R : q.tenant = saves[s].tenant /\ q.task = saves[s].task
    BY DEF RunIsSaves
  <2>3. CASE r \in R /\ o \in R
    BY <2>3 DEF RunIsSaves
  <2>4. CASE r \in runRows /\ r \notin RunRowsOf(saves[s]) /\ o \in R
    BY <2>1, <2>2, <2>4 DEF RunRowsOf
  <2>5. CASE r \in R /\ o \in runRows /\ o \notin RunRowsOf(saves[s])
    BY <2>1, <2>2, <2>5 DEF RunRowsOf
  <2>6. CASE r \in runRows /\ o \in runRows
    BY <2>1, <2>6 DEF SavesInv, StoreRows, RowsAreOne
  <2>7. QED
    BY <1>1, <2>3, <2>4, <2>5, <2>6
<1>4. ItemsHaveRuns'
  <2>1. SUFFICES ASSUME NEW v \in deliveries'
                 PROVE  \E r \in runRows' : r.id = v.run /\ r.task = v.task /\ r.tenant = v.tenant
    BY DEF ItemsHaveRuns
  <2>2. \A r \in R : r.tenant = saves[s].tenant /\ r.task = saves[s].task /\ r \in runRows'
    BY DEF RunIsSaves
  <2>3. CASE v \in M
    BY <2>2, <2>3 DEF MadeIsSaves
  <2>4. CASE v \in deliveries
    <3>1. PICK q \in runRows : q.id = v.run /\ q.task = v.task /\ q.tenant = v.tenant
      BY <2>4 DEF SavesInv, StoreRows, ItemsHaveRuns
    <3>2. CASE q \in RunRowsOf(saves[s])
      <4>1. q.tenant = saves[s].tenant /\ q.task = saves[s].task
        BY <3>2 DEF RunRowsOf
      <4>2. PICK r \in R : r.id = q.id
        BY <3>2
      <4>3. QED
        BY <2>2, <3>1, <4>1, <4>2
    <3>3. CASE q \notin RunRowsOf(saves[s])
      BY <3>1, <3>3
    <3>4. QED
      BY <3>2, <3>3
  <2>5. QED
    BY <2>3, <2>4
<1>5. WritersAreKnown'
  <2>1. \A r \in R : r.by = s
    BY DEF RunIsSaves
  <2>2. \A v \in M : v.by = s
    BY DEF MadeIsSaves
  <2>3. QED
    BY <1>1, <1>2, <2>1, <2>2 DEF SavesInv, StoreRows, WritersAreKnown
<1>6. ASSUME NEW o \in DOMAIN saves, o # s
      PROVE  /\ Made(o)' = Made(o) /\ (Committed(o)' => Committed(o))
             /\ RunRowsOf(saves[o]) # {} => RunRowsOf(saves[o])' # {}
  <2>1. Made(o)' = Made(o)
    BY <1>6 DEF MadeIsSaves, Made
  <2>2. WroteRow(o)' => WroteRow(o)
    BY <1>1, <1>6 DEF WroteRow, RunIsSaves
  <2>3. o \in savedOk' => o \in savedOk
    BY <1>6
  <2>4. ASSUME NEW q \in RunRowsOf(saves[o]) PROVE RunRowsOf(saves[o])' # {}
    <3>1. q \in runRows /\ q.tenant = saves[o].tenant /\ q.task = saves[o].task
      BY <2>4 DEF RunRowsOf
    <3>2. CASE q \in RunRowsOf(saves[s])
      <4>1. q.tenant = saves[s].tenant /\ q.task = saves[s].task
        BY <3>2 DEF RunRowsOf
      <4>2. PICK r \in R : r.tenant = saves[s].tenant /\ r.task = saves[s].task
        BY DEF RunIsSaves
      <4>3. r \in runRows' /\ r.tenant = saves[o].tenant /\ r.task = saves[o].task
        BY <3>1, <4>1, <4>2
      <4>4. QED
        BY <4>3 DEF RunRowsOf
    <3>3. CASE q \notin RunRowsOf(saves[s])
      BY <3>1, <3>3 DEF RunRowsOf
    <3>4. QED
      BY <3>2, <3>3
  <2>5. QED
    BY <2>1, <2>2, <2>3, <2>4 DEF Committed
<1>7. Made(s)' = M
  <2>1. Made(s) = {}
    BY DEF Committed
  <2>2. \A v \in M : v.by = s
    BY DEF MadeIsSaves
  <2>3. QED
    BY <2>1, <2>2 DEF Made
<1>8. IsWhole(s)'
  <2>1. Len(saves[s].items) \in Nat /\ DOMAIN saves[s].items = 1 .. Len(saves[s].items)
    <3>1. saves[s] \in SaveRow
      BY <1>2, ElementOfSeq, LenProperties DEF SavesInv, RsTypes
    <3>2. saves[s].items \in Seq(RsTenant)
      BY <3>1 DEF SaveRow
    <3>3. QED
      BY <3>2, LenProperties
  <2>2. IsFiniteSet(M) /\ \A i \in 1 .. Len(saves[s].items) : saves[s].items[i] = saves[s].tenant
    BY DEF MadeIsSaves
  <2>3. QED
    BY <1>7, <2>1, <2>2 DEF IsWhole
<1>9. RunRowsOf(saves[s])' # {}
  BY DEF RunIsSaves, RunRowsOf
<1>10. ASSUME NEW o \in DOMAIN saves
       PROVE  (Committed(o)' => IsWhole(o)') /\ (o \in savedOk' => RunRowsOf(saves[o])' # {})
  <2>1. CASE o = s
    BY <1>8, <1>9, <2>1
  <2>2. CASE o # s
    <3>1. (Committed(o) => IsWhole(o)) /\ (o \in savedOk => RunRowsOf(saves[o]) # {})
      BY DEF SavesInv, SavesAreDone
    <3>2. IsWhole(o) => IsWhole(o)'
      BY <1>6, <2>2 DEF IsWhole
    <3>3. o \in savedOk' => o \in savedOk
      BY <2>2
    <3>4. QED
      BY <1>6, <2>2, <3>1, <3>2, <3>3
  <2>3. QED
    BY <2>1, <2>2
<1>11. SavesAreDone'
  BY <1>10 DEF SavesAreDone
<1>12. QED
  BY <1>3, <1>4, <1>5, <1>6, <1>11 DEF StoreRows

-----------------------------------------------------------------------------
(* What is not opening works on a file with tenants.                       *)
LEMMA SaversFile ==
  ASSUME SavesInv, NEW c \in RsConn, client[c].at \notin {"closed", "created", "migrating"}
  PROVE  shape = "new"
  BY DEF SavesInv, FileIsMigrated

LEMMA FileStays ==
  ASSUME SavesInv, adapter' = adapter, shape = "new", shape' = shape,
         \A r \in runRows' : r \in runRows \/ r.tenant \in RsTenant,
         \A v \in deliveries' : v \in deliveries \/ v.by # 0
  PROVE  FileIsMigrated'
  BY DEF SavesInv, FileIsMigrated

LEMMA ClientFields ==
  ASSUME SavesInv, NEW c \in RsConn
  PROVE  /\ client[c] \in ClientRow
         /\ Busy(c) => Save(c) \in SaveRow /\ client[c].save \in DOMAIN saves
<1>1. client[c] \in ClientRow
  BY DEF SavesInv, RsTypes
<1>2. ASSUME Busy(c) PROVE Save(c) \in SaveRow /\ client[c].save \in DOMAIN saves
  <2>1. client[c].save \in DOMAIN saves /\ saves \in Seq(SaveRow)
    BY <1>2 DEF SavesInv, SaversAreOne, RsTypes
  <2>2. QED
    BY <2>1, ElementOfSeq, LenProperties DEF Save
<1>3. QED
  BY <1>1, <1>2

LEMMA ClientBecomes ==
  ASSUME SavesInv, NEW c \in RsConn, NEW r \in ClientRow, client' = [client EXCEPT ![c] = r]
  PROVE  OnlyClient(c) /\ client'[c] = r
  BY DEF SavesInv, RsTypes, OnlyClient

LEMMA ClientMoves ==
  ASSUME SavesInv, NEW c \in RsConn,
         NEW at \in {"closed", "created", "migrating", "open", "asked", "writing", "inserting"},
         ClientAt(c, at)
  PROVE  /\ OnlyClient(c) /\ client'[c].at = at /\ client'[c].save = client[c].save
         /\ client'[c].made = client[c].made
<1> DEFINE r == [client[c] EXCEPT !.at = at]
<1>1. r \in ClientRow /\ r.at = at /\ r.save = client[c].save /\ r.made = client[c].made
  BY ClientFields DEF ClientRow
<1>2. client' = [client EXCEPT ![c] = r]
  BY DEF ClientAt
<1> HIDE DEF r
<1>3. QED
  BY <1>1, <1>2, ClientBecomes

LEMMA ShutIsRow ==
  /\ Shut \in ClientRow /\ Shut.at = "closed" /\ Shut.made = {}
  /\ [Shut EXCEPT !.at = "open"] \in ClientRow /\ [Shut EXCEPT !.at = "open"].at = "open"
  /\ [Shut EXCEPT !.at = "open"].made = {}
  BY DEF Shut, ClientRow

LEMMA ClientRests ==
  ASSUME SavesInv, NEW c \in RsConn, RsIdle(c) \/ client' = [client EXCEPT ![c] = Shut]
  PROVE  /\ OnlyClient(c) /\ client'[c].at \in {"open", "closed"} /\ (RsIdle(c) => client'[c].at = "open")
         /\ client'[c].made = {}
<1>1. CASE RsIdle(c)
  <2> DEFINE r == [Shut EXCEPT !.at = "open"]
  <2>1. client' = [client EXCEPT ![c] = r]
    BY <1>1 DEF RsIdle
  <2>2. r \in ClientRow /\ r.at = "open" /\ r.made = {}
    BY ShutIsRow
  <2> HIDE DEF r
  <2>3. QED
    BY <2>1, <2>2, ClientBecomes
<1>2. CASE client' = [client EXCEPT ![c] = Shut] /\ ~RsIdle(c)
  BY <1>2, ShutIsRow, ClientBecomes
<1>3. QED
  BY <1>1, <1>2

LEMMA RestsStay ==
  ASSUME SavesInv, NEW c \in RsConn, OnlyClient(c), ~Writing(c)' => client'[c].made = {}
  PROVE  AtRest'
  BY DEF SavesInv, AtRest, OnlyClient, Writing

(* A connection that opens, or ends its save with nothing.                 *)
LEMMA NothingIsSaved ==
  ASSUME SavesInv, RowsStay, adapter' = adapter, ids' = ids, page' = page, NEW c \in RsConn, OnlyClient(c),
         ~Busy(c)', client'[c].made = {}, shape' \in {"none", "old", "new"}, FileIsMigrated'
  PROVE  SavesInv'
<1>1. StoreRows' /\ SavesAreDone'
  BY StoreStays
<1>2. SaversAreOne'
  BY SaversStay
<1>3. ~Writing(c)'
  BY DEF Busy, Writing
<1>4. saves' = saves
  BY DEF RowsStay
<1>5. TransactionsAreWhole'
  BY <1>3, <1>4, NoNewRows, TransactionsStay
<1>6. PagesAreTrue'
  BY PageStays DEF RowsStay
<1>7. RsTypes'
  BY DEF SavesInv, RsTypes, RowsStay, OnlyClient
<1>8. QED
  BY <1>1, <1>2, <1>5, <1>6, <1>7, RestsStay DEF SavesInv

LEMMA OpenKeeps ==
  ASSUME SavesInv, NEW c \in RsConn, CreateTables(c) \/ LookAtSchema(c), page' = page
  PROVE  SavesInv'
<1>1. RowsStay /\ adapter' = adapter /\ ids' = ids
  BY DEF CreateTables, LookAtSchema, RowsStay
<1>2. CASE CreateTables(c)
  <2>1. OnlyClient(c) /\ client'[c].at = "created" /\ client'[c].made = {}
    <3>1. ClientAt(c, "created") /\ client[c].at = "closed"
      BY <1>2 DEF CreateTables
    <3>2. client[c].made = {}
      BY <3>1 DEF SavesInv, AtRest, Writing
    <3>3. QED
      BY <3>1, <3>2, ClientMoves
  <2>2. shape' = IF shape = "none" THEN "new" ELSE shape
    BY <1>2 DEF CreateTables
  <2>3. CASE shape = "none"
    <3>1. runRows = {} /\ deliveries = {}
      BY <2>3 DEF SavesInv, FileIsMigrated, StoreRows, ItemsHaveRuns
    <3>2. FileIsMigrated'
      BY <1>1, <2>2, <2>3, <3>1 DEF FileIsMigrated, RowsStay
    <3>3. QED
      BY <1>1, <2>1, <2>2, <2>3, <3>2, NothingIsSaved DEF Busy
  <2>4. CASE shape # "none"
    <3>1. shape' = shape /\ shape \in {"old", "new"}
      BY <2>2, <2>4 DEF SavesInv, RsTypes
    <3>2. FileIsMigrated'
      BY <1>1, <2>1, <3>1 DEF SavesInv, FileIsMigrated, RowsStay, OnlyClient
    <3>3. QED
      BY <1>1, <2>1, <3>1, <3>2, NothingIsSaved DEF Busy
  <2>5. QED
    BY <2>3, <2>4
<1>3. CASE LookAtSchema(c)
  <2>1. shape' = shape /\ client[c].at = "created"
    BY <1>3 DEF LookAtSchema
  <2>2. shape \in {"old", "new"}
    BY <2>1 DEF SavesInv, RsTypes, FileIsMigrated
  <2>3. /\ OnlyClient(c) /\ client'[c].at = IF shape = "old" THEN "migrating" ELSE "open"
        /\ client'[c].made = {}
    <3>1. client[c].made = {}
      BY <2>1 DEF SavesInv, AtRest, Writing
    <3>2. CASE shape = "old"
      BY <1>3, <3>1, <3>2, ClientMoves DEF LookAtSchema
    <3>3. CASE shape # "old"
      BY <1>3, <3>1, <3>3, ClientMoves DEF LookAtSchema
    <3>4. QED
      BY <3>2, <3>3
  <2>4. FileIsMigrated'
    BY <1>1, <2>1, <2>2, <2>3 DEF SavesInv, FileIsMigrated, RowsStay, OnlyClient
  <2>5. QED
    BY <1>1, <2>1, <2>2, <2>3, <2>4, NothingIsSaved DEF Busy
<1>4. QED
  BY <1>2, <1>3

LEMMA MigrateKeeps ==
  ASSUME SavesInv, NEW c \in RsConn, MigrateRows(c), page' = page
  PROVE  SavesInv'
<1>1. adapter' = adapter /\ saves' = saves /\ savedOk' = savedOk /\ ids' = ids
  BY DEF MigrateRows
<1>2. CASE shape # "old"
  <2>1. ClientAt(c, "closed") /\ UNCHANGED <<shape, runRows, deliveries>>
    BY <1>2 DEF MigrateRows
  <2>2. OnlyClient(c) /\ client'[c].at = "closed" /\ client'[c].made = {}
    <3>1. client[c].made = {}
      BY DEF MigrateRows, SavesInv, AtRest, Writing
    <3>2. QED
      BY <2>1, <3>1, ClientMoves
  <2>3. RowsStay
    BY <1>1, <2>1 DEF RowsStay
  <2>4. shape \in {"none", "old", "new"}
    BY DEF SavesInv, RsTypes
  <2>5. FileIsMigrated'
    BY <1>1, <2>1, <2>2 DEF SavesInv, FileIsMigrated, OnlyClient
  <2>6. QED
    BY <1>1, <2>1, <2>2, <2>3, <2>4, <2>5, NothingIsSaved DEF Busy
<1>3. CASE shape = "old"
  <2>1. /\ shape' = "new" /\ ClientAt(c, "open")
        /\ runRows' = {[r EXCEPT !.tenant = RsLocal] : r \in runRows}
        /\ deliveries' = {[v EXCEPT !.tenant = RsLocal] : v \in deliveries}
    BY <1>3 DEF MigrateRows
  <2>2. OnlyClient(c) /\ client'[c].at = "open" /\ client'[c].made = {}
    <3>1. client[c].made = {}
      BY DEF MigrateRows, SavesInv, AtRest, Writing
    <3>2. QED
      BY <2>1, <3>1, ClientMoves
  <2>3. /\ saves = << >> /\ page = NoPage /\ adapter = "sqlite"
        /\ \A d \in RsConn : client[d].at \in {"closed", "created", "migrating"}
        /\ \A r \in runRows : r.tenant = NoOwner
    BY <1>3 DEF SavesInv, FileIsMigrated
  <2>4. runRows \subseteq RunRow /\ deliveries \subseteq Delivery
    BY DEF SavesInv, RsTypes
  <2>5. \A r \in runRows : LET q == [r EXCEPT !.tenant = RsLocal]
                           IN  /\ q \in RunRow /\ q.tenant = RsLocal
                               /\ q.task = r.task /\ q.id = r.id /\ q.by = r.by
    BY <2>4, RunStoreConstants DEF RunRow, RsOwner
  <2>6. \A v \in deliveries : LET w == [v EXCEPT !.tenant = RsLocal]
                              IN  /\ w \in Delivery /\ w.tenant = RsLocal
                                  /\ w.task = v.task /\ w.run = v.run /\ w.by = v.by
    BY <2>4, RunStoreConstants DEF Delivery, RsOwner
  <2>7. \A d \in RsConn : ~Busy(d)' /\ ~Writing(d)'
    BY <2>2, <2>3 DEF OnlyClient, Busy, Writing
  <2>8. RsTypes'
    BY <1>1, <2>1, <2>2, <2>5, <2>6 DEF SavesInv, RsTypes, OnlyClient
  <2>9. RowsAreOne'
    <3>1. \A r, o \in runRows : r.task = o.task => r = o
      BY <2>3 DEF SavesInv, StoreRows, RowsAreOne
    <3>2. SUFFICES ASSUME NEW p \in runRows', NEW q \in runRows', p.task = q.task PROVE p = q
      BY DEF RowsAreOne
    <3>3. PICK r \in runRows : p = [r EXCEPT !.tenant = RsLocal]
      BY <2>1
    <3>4. PICK o \in runRows : q = [o EXCEPT !.tenant = RsLocal]
      BY <2>1
    <3>5. r.task = o.task
      BY <2>5, <3>2, <3>3, <3>4
    <3>6. QED
      BY <3>1, <3>3, <3>4, <3>5
  <2>10. ItemsHaveRuns'
    <3>1. SUFFICES ASSUME NEW w \in deliveries'
                   PROVE  \E r \in runRows' : r.id = w.run /\ r.task = w.task /\ r.tenant = w.tenant
      BY DEF ItemsHaveRuns
    <3>2. PICK v \in deliveries : w = [v EXCEPT !.tenant = RsLocal]
      BY <2>1, <3>1
    <3>3. PICK q \in runRows : q.id = v.run /\ q.task = v.task
      BY <3>2 DEF SavesInv, StoreRows, ItemsHaveRuns
    <3>4. [q EXCEPT !.tenant = RsLocal] \in runRows'
      BY <2>1, <3>3
    <3>5. QED
      BY <2>5, <2>6, <3>2, <3>3, <3>4
  <2>11. WritersAreKnown'
    <3>1. \A q \in runRows' : \E r \in runRows : q.by = r.by
      BY <2>1, <2>5
    <3>2. \A w \in deliveries' : \E v \in deliveries : w.by = v.by
      BY <2>1, <2>6
    <3>3. QED
      BY <1>1, <3>1, <3>2 DEF SavesInv, StoreRows, WritersAreKnown
  <2>12. SavesAreDone' /\ SaversAreOne' /\ TransactionsAreWhole'
    BY <1>1, <2>3, <2>7, EmptySeq DEF SavesAreDone, SaversAreOne, TransactionsAreWhole
  <2>13. \A v, w \in deliveries' : v.by = 0 /\ w.by = 0 => v = w /\ v.tenant = RsLocal
    <3>1. \A v, w \in deliveries : v.by = 0 /\ w.by = 0 => v = w
      BY DEF SavesInv, FileIsMigrated
    <3>2. SUFFICES ASSUME NEW p \in deliveries', NEW q \in deliveries', p.by = 0, q.by = 0
                   PROVE  p = q /\ p.tenant = RsLocal
      OBVIOUS
    <3>3. PICK v \in deliveries : p = [v EXCEPT !.tenant = RsLocal]
      BY <2>1
    <3>4. PICK w \in deliveries : q = [w EXCEPT !.tenant = RsLocal]
      BY <2>1
    <3>5. v.by = 0 /\ w.by = 0 /\ p.tenant = RsLocal
      BY <2>6, <3>2, <3>3, <3>4
    <3>6. QED
      BY <3>1, <3>3, <3>4, <3>5
  <2>14. FileIsMigrated'
    BY <2>1, <2>5, <2>13, RunStoreConstants DEF FileIsMigrated
  <2>15. PagesAreTrue'
    BY <2>3 DEF PagesAreTrue, NoPage
  <2>16. QED
    BY <2>2, <2>8, <2>9, <2>10, <2>11, <2>12, <2>14, <2>15, RestsStay DEF SavesInv, StoreRows
<1>4. QED
  BY <1>2, <1>3

LEMMA SaveFailsKeeps ==
  ASSUME SavesInv, NEW c \in RsConn, SaveFails(c), page' = page
  PROVE  SavesInv'
<1>1. RowsStay /\ adapter' = adapter /\ ids' = ids /\ shape' = shape
  BY DEF SaveFails, RowsStay
<1>2. client' = [client EXCEPT ![c] = Shut]
  BY DEF SaveFails
<1>3. OnlyClient(c) /\ client'[c].at = "closed" /\ client'[c].made = {}
  BY <1>2, ShutIsRow, ClientBecomes
<1>4. FileIsMigrated'
  BY <1>1, <1>3 DEF SavesInv, FileIsMigrated, RowsStay, OnlyClient
<1>5. shape \in {"none", "old", "new"}
  BY DEF SavesInv, RsTypes
<1>6. QED
  BY <1>1, <1>3, <1>4, <1>5, NothingIsSaved DEF Busy

-----------------------------------------------------------------------------
(* Saving.                                                                 *)
LEMMA AskedClient ==
  ASSUME NEW c \in RsConn, NEW n \in Nat, client \in [RsConn -> ClientRow],
         client' = [client EXCEPT ![c].at = "asked", ![c].save = n]
  PROVE  /\ OnlyClient(c) /\ client'[c].at = "asked"
         /\ client'[c].save = n /\ client'[c].made = client[c].made
<1>1. client' \in [RsConn -> ClientRow] /\ \A d \in RsConn \ {c} : client'[d] = client[d]
  BY DEF ClientRow
<1>2. client'[c].at = "asked" /\ client'[c].save = n /\ client'[c].made = client[c].made
  BY DEF ClientRow
<1>3. QED
  BY <1>1, <1>2 DEF OnlyClient

LEMMA AskKeeps ==
  ASSUME SavesInv, NEW c \in RsConn, AskSave(c), page' = page
  PROVE  SavesInv'
<1>0. PICK new : new = Len(saves) + 1 /\ client' = [client EXCEPT ![c].at = "asked", ![c].save = new]
  BY DEF AskSave
<1>1. /\ adapter' = adapter /\ shape' = shape /\ runRows' = runRows /\ deliveries' = deliveries
      /\ savedOk' = savedOk /\ ids' = ids /\ client[c].at = "open"
  BY DEF AskSave
<1>9. OnlyClient(c) /\ client'[c].at = "asked" /\ client'[c].save = new /\ client'[c].made = {}
  <2>1. client[c].made = {}
    BY <1>1 DEF SavesInv, AtRest, Writing
  <2>2. client \in [RsConn -> ClientRow] /\ saves \in Seq(SaveRow)
    BY DEF SavesInv, RsTypes
  <2>3. new \in Nat
    BY <1>0, <2>2, LenProperties
  <2>4. client' = [client EXCEPT ![c].at = "asked", ![c].save = new]
    BY <1>0
  <2>5. OnlyClient(c) /\ client'[c].at = "asked" /\ client'[c].save = new /\ client'[c].made = client[c].made
    BY <2>2, <2>3, <2>4, AskedClient
  <2>6. QED
    BY <2>1, <2>5
<1>2. PICK t \in RsTenant, k \in RsTask :
        \E items \in {<< >>} \cup {[i \in 1 .. n |-> IF i = n THEN o ELSE t] : n \in 1 .. 2, o \in RsTenant} :
          saves' = Append(saves, [tenant |-> t, task |-> k, items |-> items])
  BY DEF AskSave
<1>3. PICK items \in {<< >>} \cup {[i \in 1 .. n |-> IF i = n THEN o ELSE t] : n \in 1 .. 2, o \in RsTenant} :
        saves' = Append(saves, [tenant |-> t, task |-> k, items |-> items])
  BY <1>2
<1>4. items \in Seq(RsTenant)
  <2>1. CASE items = << >>
    BY <2>1
  <2>2. CASE \E n \in 1 .. 2, o \in RsTenant : items = [i \in 1 .. n |-> IF i = n THEN o ELSE t]
    <3>1. PICK n \in 1 .. 2, o \in RsTenant : items = [i \in 1 .. n |-> IF i = n THEN o ELSE t]
      BY <2>2
    <3>2. items \in [1 .. n -> RsTenant] /\ n \in Nat
      BY <3>1
    <3>3. QED
      BY <3>2, SeqDef
  <2>3. QED
    BY <1>3, <2>1, <2>2
<1> DEFINE row == [tenant |-> t, task |-> k, items |-> items]
<1>5. row \in SaveRow
  BY <1>4 DEF SaveRow, RsTasks
<1> HIDE DEF row
<1>6. saves \in Seq(SaveRow) /\ saves' = Append(saves, row)
  BY <1>3 DEF SavesInv, RsTypes, row
<1>7. /\ Len(saves) \in Nat /\ DOMAIN saves = 1 .. Len(saves)
      /\ saves' \in Seq(SaveRow) /\ Len(saves') = new /\ DOMAIN saves' = 1 .. new
      /\ \A s \in DOMAIN saves : saves'[s] = saves[s]
  BY <1>0, <1>5, <1>6, AppendProperties, LenProperties
<1>8. /\ DOMAIN saves \subseteq DOMAIN saves' /\ new \notin DOMAIN saves /\ new \in DOMAIN saves'
      /\ \A s \in DOMAIN saves' : s \in DOMAIN saves \/ s = new
  BY <1>0, <1>7
<1>10. /\ \A s : Made(s)' = Made(s) /\ (WroteRow(s)' <=> WroteRow(s)) /\ (Committed(s)' <=> Committed(s))
       /\ \A save : RunRowsOf(save)' = RunRowsOf(save)
  BY <1>1 DEF Made, WroteRow, Committed, RunRowsOf
<1>11. ~Committed(new)
  <2>1. \A r \in runRows : r.by \in 0 .. Len(saves)
    BY DEF SavesInv, StoreRows, WritersAreKnown
  <2>2. \A v \in deliveries : v.by \in 0 .. Len(saves)
    BY DEF SavesInv, StoreRows, WritersAreKnown
  <2>3. savedOk \subseteq DOMAIN saves
    BY DEF SavesInv, RsTypes
  <2>4. new \notin 0 .. Len(saves)
    BY <1>0, <1>7
  <2>5. QED
    BY <1>8, <2>1, <2>2, <2>3, <2>4 DEF Committed, Made, WroteRow
<1>12. RsTypes'
  BY <1>1, <1>7, <1>8, <1>9 DEF SavesInv, RsTypes, OnlyClient
<1>13. StoreRows'
  <2>1. \A n \in 0 .. Len(saves) : n \in 0 .. Len(saves')
    BY <1>0, <1>7
  <2>2. QED
    BY <1>1, <2>1 DEF SavesInv, StoreRows, RowsAreOne, ItemsHaveRuns, WritersAreKnown
<1>14. SavesAreDone'
  <2>1. ASSUME NEW s \in DOMAIN saves'
        PROVE  (Committed(s)' => IsWhole(s)') /\ (s \in savedOk => RunRowsOf(saves'[s]) # {})
    <3>1. CASE s = new
      BY <1>10, <1>11, <3>1 DEF Committed
    <3>2. CASE s \in DOMAIN saves
      <4>1. (Committed(s) => IsWhole(s)) /\ (s \in savedOk => RunRowsOf(saves[s]) # {})
        BY <3>2 DEF SavesInv, SavesAreDone
      <4>2. saves'[s] = saves[s]
        BY <1>7, <3>2
      <4>3. IsWhole(s) => IsWhole(s)'
        BY <1>10, <4>2 DEF IsWhole
      <4>4. QED
        BY <1>10, <4>1, <4>2, <4>3
    <3>3. QED
      BY <1>8, <3>1, <3>2
  <2>2. QED
    BY <1>1, <1>10, <2>1 DEF SavesAreDone, RunRowsOf
<1>15. \A d \in RsConn \ {c} : Busy(d) => client[d].save \in DOMAIN saves /\ client[d].save # new
  BY <1>8 DEF SavesInv, SaversAreOne
<1>16. ASSUME NEW d \in RsConn, Busy(d)'
       PROVE  /\ client'[d].save \in DOMAIN saves' /\ ~Committed(client[d].save)'
              /\ \A b \in RsConn \ {d} : Busy(b)' => client'[b].save # client'[d].save
              /\ client'[d].at = "inserting" => adapter = "sqlite" /\ saves'[client'[d].save].items = << >>
  <2>1. \A b \in RsConn \ {c} : client'[b] = client[b] /\ (Busy(b)' <=> Busy(b))
    BY <1>9 DEF OnlyClient, Busy
  <2>2. PICK s : s = client'[d].save
    OBVIOUS
  <2>3. CASE d = c
    <3>1. s = new /\ ~Committed(s)'
      BY <1>9, <1>10, <1>11, <2>2, <2>3
    <3>2. ~Committed(client[d].save)'
      BY <2>2, <3>1 DEF Committed, Made, WroteRow
    <3>3. QED
      BY <1>8, <1>9, <1>15, <2>1, <2>2, <2>3, <3>1, <3>2
  <2>4. CASE d # c
    <3>1. /\ client[d].save \in DOMAIN saves /\ ~Committed(client[d].save)
          /\ \A b \in RsConn \ {d} : Busy(b) => client[b].save # client[d].save
          /\ client[d].at = "inserting" => adapter = "sqlite" /\ Save(d).items = << >>
      BY <1>16, <2>1, <2>4 DEF SavesInv, SaversAreOne
    <3>2. s = client[d].save /\ ~Committed(s)'
      BY <1>10, <2>1, <2>2, <2>4, <3>1
    <3>3. ~Committed(client[d].save)'
      BY <2>2, <3>2 DEF Committed, Made, WroteRow
    <3>4. \A b \in RsConn \ {d} : Busy(b)' => client'[b].save # client'[d].save
      BY <1>9, <1>15, <1>16, <2>1, <2>4, <3>1
    <3>5. QED
      BY <1>7, <1>8, <2>1, <2>4, <3>1, <3>3, <3>4 DEF Save
  <2>5. QED
    BY <2>3, <2>4
<1>17. SaversAreOne'
  BY <1>1, <1>16 DEF SaversAreOne, Busy, Save
<1>18. ASSUME NEW d \in RsConn, Writing(d)'
       PROVE  /\ RunIsSaves(client[d].save, client[d].run)'
              /\ \A q \in RunRowsOf(Save(d))' : \E r \in client'[d].run : r.id = q.id
              /\ MadeIsSaves(client[d].save, client[d].run, client[d].made)'
              /\ \A b \in RsConn \ {d} : Writing(b)' => Apart(client[d].save, client[b].save)'
  <2>1. \A b \in RsConn : Writing(b)' =>
          /\ Writing(b) /\ client'[b] = client[b] /\ client[b].save \in DOMAIN saves
          /\ saves'[client[b].save] = saves[client[b].save]
    BY <1>7, <1>9, <1>15 DEF OnlyClient, Writing, Busy
  <2>2. /\ RunIsSaves(client[d].save, client[d].run)
        /\ \A q \in RunRowsOf(Save(d)) : \E r \in client[d].run : r.id = q.id
        /\ MadeIsSaves(client[d].save, client[d].run, client[d].made)
        /\ \A b \in RsConn \ {d} : Writing(b) => Apart(client[d].save, client[b].save)
    BY <1>18, <2>1 DEF SavesInv, TransactionsAreWhole
  <2>3. client'[d] = client[d] /\ saves'[client[d].save] = saves[client[d].save]
    BY <1>18, <2>1
  <2>4. RunIsSaves(client[d].save, client[d].run)'
    BY <2>2, <2>3 DEF RunIsSaves
  <2>5. MadeIsSaves(client[d].save, client[d].run, client[d].made)'
    BY <2>2, <2>3 DEF MadeIsSaves
  <2>6. ASSUME NEW b \in RsConn \ {d}, Writing(b)' PROVE Apart(client[d].save, client[b].save)'
    BY <1>1, <2>1, <2>2, <2>3, <2>6 DEF Apart
  <2>7. \A q \in RunRowsOf(Save(d))' : \E r \in client'[d].run : r.id = q.id
    BY <1>1, <2>2, <2>3 DEF RunRowsOf, Save
  <2>8. QED
    BY <2>4, <2>5, <2>6, <2>7
<1>19. TransactionsAreWhole'
  BY <1>18 DEF TransactionsAreWhole, Writing
<1>20. shape = "new"
  BY <1>1, SaversFile
<1>21. FileIsMigrated' /\ PagesAreTrue'
  BY <1>1, <1>20, FileStays, PageStays
<1>22. QED
  BY <1>9, <1>12, <1>13, <1>14, <1>17, <1>19, <1>21, RestsStay DEF SavesInv

(* Within a transaction.                                                   *)
LEMMA TransactionGoesOn ==
  ASSUME SavesInv, RowsStay, adapter' = adapter, shape' = shape, ids' \in Nat, page' = page,
         NEW c \in RsConn, Busy(c), OnlyClient(c), client'[c].save = client[c].save,
         ~Writing(c)' => client'[c].made = {},
         client'[c].at = "inserting" => adapter = "sqlite" /\ Save(c).items = << >>,
         Writing(c)' =>
           /\ RunIsSaves(client[c].save, client'[c].run)
           /\ \A q \in RunRowsOf(Save(c)) : \E r \in client'[c].run : r.id = q.id
           /\ MadeIsSaves(client[c].save, client'[c].run, client'[c].made)
           /\ \A d \in RsConn \ {c} : Writing(d) => Apart(client[c].save, client[d].save)
  PROVE  SavesInv'
<1>1. StoreRows' /\ SavesAreDone'
  BY StoreStays
<1>2. SaversAreOne'
  BY SaversStay
<1>3. saves' = saves /\ runRows' = runRows /\ deliveries' = deliveries
  BY DEF RowsStay
<1>4. Writing(c)' => \A q \in KeyRows(runRows', saves[client'[c].save]) : \E r \in client'[c].run : r.id = q.id
  BY <1>3 DEF KeyRows, RunRowsOf, Save
<1>5. TransactionsAreWhole'
  BY <1>3, <1>4, NoNewRows, TransactionsStay
<1>6. shape = "new"
  BY SaversFile DEF Busy
<1>7. FileIsMigrated' /\ PagesAreTrue'
  BY <1>3, <1>6, FileStays, PageStays
<1>8. RsTypes'
  BY DEF SavesInv, RsTypes, RowsStay, OnlyClient
<1>9. QED
  BY <1>1, <1>2, <1>5, <1>7, <1>8, RestsStay DEF SavesInv

(* The row a save writes.                                                  *)
LEMMA UpsertedIsSaves ==
  ASSUME SavesInv, NEW c \in RsConn, Busy(c)
  PROVE  /\ Upserted(c) \subseteq RunRow /\ RunIsSaves(client[c].save, Upserted(c))
         /\ \A q \in RunRowsOf(Save(c)) : \E r \in Upserted(c) : r.id = q.id
<1>1. PICK s : s = client[c].save
  OBVIOUS
<1>2. s \in DOMAIN saves /\ saves[s] \in SaveRow /\ Save(c) = saves[s] /\ s \in Nat /\ ids \in Nat
  BY <1>1, ClientFields DEF Save, ClientRow, SavesInv, RsTypes
<1>3. saves[s].tenant \in RsOwner /\ saves[s].task \in RsTasks
  <2>1. saves[s].tenant \in RsTenant /\ saves[s].task \in RsTasks
    BY <1>2 DEF SaveRow, RsTasks
  <2>2. QED
    BY <2>1 DEF RsOwner
<1>4. CASE RunRowsOf(Save(c)) # {}
  <2>1. Upserted(c) = {[r EXCEPT !.by = s] : r \in RunRowsOf(saves[s])}
    BY <1>1, <1>2, <1>4 DEF Upserted
  <2>2. \A r \in RunRowsOf(saves[s]) : LET q == [r EXCEPT !.by = s]
                                       IN  /\ q \in RunRow /\ q.id = r.id /\ q.by = s
                                           /\ q.tenant = saves[s].tenant /\ q.task = saves[s].task
    BY <1>2 DEF SavesInv, RsTypes, RunRowsOf, RunRow
  <2>3. \A r, o \in RunRowsOf(saves[s]) : r = o
    BY DEF SavesInv, StoreRows, RowsAreOne, RunRowsOf
  <2>4. Upserted(c) # {} /\ \A r, o \in Upserted(c) : r = o
    BY <1>2, <1>4, <2>1, <2>3
  <2>5. \A q \in Upserted(c) : q \in RunRow /\ q.by = s /\ q.tenant = saves[s].tenant /\ q.task = saves[s].task
    BY <2>1, <2>2
  <2>6. \A q \in RunRowsOf(Save(c)) : \E r \in Upserted(c) : r.id = q.id
    BY <1>2, <2>1, <2>2
  <2>7. QED
    BY <1>1, <2>4, <2>5, <2>6 DEF RunIsSaves
<1>5. CASE RunRowsOf(Save(c)) = {}
  <2>1. Upserted(c) = {[tenant |-> saves[s].tenant, task |-> saves[s].task, id |-> ids + 1, by |-> s]}
    BY <1>1, <1>2, <1>5 DEF Upserted
  <2>2. [tenant |-> saves[s].tenant, task |-> saves[s].task, id |-> ids + 1, by |-> s] \in RunRow
    BY <1>2, <1>3 DEF RunRow
  <2>3. QED
    BY <1>1, <1>2, <1>5, <2>1, <2>2 DEF RunIsSaves
<1>6. QED
  BY <1>4, <1>5

LEMMA NothingMade ==
  ASSUME SavesInv, NEW c \in RsConn, Busy(c), NEW run
  PROVE  MadeIsSaves(client[c].save, run, {})
<1>1. Save(c) \in SaveRow
  BY ClientFields
<1>2. Len(Save(c).items) \in Nat
  BY <1>1, LenProperties DEF SaveRow
<1>3. IsFiniteSet({}) /\ Cardinality({}) = 0
  BY FS_EmptySet
<1>4. QED
  BY <1>2, <1>3 DEF MadeIsSaves, Save

-----------------------------------------------------------------------------
LEMMA UpsertKeeps ==
  ASSUME SavesInv, NEW c \in RsConn, UpsertRun(c), page' = page
  PROVE  SavesInv'
<1>1. /\ RowsStay /\ adapter' = adapter /\ shape' = shape /\ ids' = ids + 1
      /\ client[c].at = "asked" /\ ~Blocked(c)
  BY DEF UpsertRun, RowsStay
<1>2. Busy(c)
  BY <1>1 DEF Busy
<1>3. PICK run : run = Upserted(c)
  OBVIOUS
<1>4. /\ run \in SUBSET RunRow /\ RunIsSaves(client[c].save, run)
      /\ \A q \in RunRowsOf(Save(c)) : \E r \in run : r.id = q.id
  BY <1>2, <1>3, UpsertedIsSaves
<1>5. client \in [RsConn -> ClientRow] /\ client' = [client EXCEPT ![c].at = "writing", ![c].run = run]
  BY <1>3 DEF SavesInv, RsTypes, UpsertRun
<1>6. client' \in [RsConn -> ClientRow] /\ \A d \in RsConn \ {c} : client'[d] = client[d]
  BY <1>4, <1>5 DEF ClientRow
<1>7. /\ client'[c].at = "writing" /\ client'[c].save = client[c].save
      /\ client'[c].run = run /\ client'[c].made = client[c].made
  BY <1>4, <1>5 DEF ClientRow
<1>8. client[c].made = {} /\ Writing(c)'
  BY <1>1, <1>7 DEF SavesInv, AtRest, Writing
<1>9. MadeIsSaves(client[c].save, client'[c].run, client'[c].made)
  BY <1>2, <1>7, <1>8, NothingMade
<1>10. \A d \in RsConn \ {c} : Writing(d) => Apart(client[c].save, client[d].save)
  BY <1>1 DEF Blocked, Writing, Apart, Save, SavesInv, RsTypes
<1>11. ids' \in Nat /\ OnlyClient(c)
  BY <1>1, <1>6 DEF SavesInv, RsTypes, OnlyClient
<1>12. QED
  BY <1>1, <1>2, <1>4, <1>7, <1>8, <1>9, <1>10, <1>11, TransactionGoesOn

LEMMA ListItems ==
  ASSUME SavesInv, NEW c \in RsConn, Busy(c)
  PROVE  /\ Save(c).items \in Seq(RsTenant) /\ Save(c).tenant \in RsTenant /\ Save(c).task \in RsTasks
         /\ Len(Save(c).items) \in Nat /\ DOMAIN Save(c).items = 1 .. Len(Save(c).items)
<1>1. Save(c) \in SaveRow
  BY ClientFields
<1>2. Save(c).items \in Seq(RsTenant)
  BY <1>1 DEF SaveRow
<1>3. Save(c).tenant \in RsTenant /\ Save(c).task \in RsTasks
  BY <1>1 DEF SaveRow, RsTasks
<1>4. QED
  BY <1>2, <1>3, LenProperties

LEMMA DeliverKeeps ==
  ASSUME SavesInv, NEW c \in RsConn, InsertDeliverable(c), page' = page
  PROVE  SavesInv'
<1>1. /\ RowsStay /\ adapter' = adapter /\ shape' = shape /\ ids' = ids /\ client[c].at = "writing"
      /\ Cardinality(client[c].made) + 1 <= Len(Save(c).items)
  BY DEF InsertDeliverable, RowsStay
<1>2. Busy(c) /\ Writing(c)
  BY <1>1 DEF Busy, Writing
<1>3. PICK n, s, run, made : /\ n = Cardinality(client[c].made) + 1 /\ s = client[c].save
                             /\ run = client[c].run /\ made = client[c].made
  OBVIOUS
<1>4. /\ RunIsSaves(s, run) /\ \A q \in RunRowsOf(Save(c)) : \E r \in run : r.id = q.id
      /\ MadeIsSaves(s, run, made)
      /\ \A d \in RsConn \ {c} : Writing(d) => Apart(s, client[d].save)
  BY <1>2, <1>3 DEF SavesInv, TransactionsAreWhole
<1>5. /\ saves[s] = Save(c) /\ s \in Nat /\ run \in SUBSET RunRow /\ made \in SUBSET Delivery
      /\ ids \in Nat /\ client \in [RsConn -> ClientRow]
  BY <1>3, ClientFields DEF Save, ClientRow, SavesInv, RsTypes
<1>6. IsFiniteSet(made) /\ Cardinality(made) \in Nat /\ n = Cardinality(made) + 1 /\ n <= Len(saves[s].items)
  BY <1>1, <1>3, <1>4, <1>5, FS_CardinalityType DEF MadeIsSaves
<1>7. CASE saves[s].items[n] # saves[s].tenant
  <2>1. RsIdle(c)
    BY <1>3, <1>5, <1>7 DEF InsertDeliverable
  <2>2. OnlyClient(c) /\ client'[c].at = "open" /\ client'[c].made = {}
    BY <2>1, ClientRests
  <2>3. shape = "new" /\ shape' \in {"none", "old", "new"}
    BY <1>1, <1>2, SaversFile DEF Busy
  <2>4. FileIsMigrated'
    BY <1>1, <2>3, FileStays DEF RowsStay
  <2>5. ~Busy(c)'
    BY <2>2 DEF Busy
  <2>6. QED
    BY <1>1, <2>2, <2>3, <2>4, <2>5, NothingIsSaved
<1>8. CASE saves[s].items[n] = saves[s].tenant
  <2>1. PICK r \in run :
          client' = [client EXCEPT ![c].made = @ \cup
            {[tenant |-> Save(c).tenant, run |-> r.id, task |-> Save(c).task, by |-> client[c].save, n |-> n]}]
    BY <1>3, <1>5, <1>8 DEF InsertDeliverable
  <2> DEFINE v == [tenant |-> saves[s].tenant, run |-> r.id, task |-> saves[s].task, by |-> s, n |-> n]
  <2>2. PICK more : more = made \cup {v}
    OBVIOUS
  <2>3. client' = [client EXCEPT ![c].made = more]
    BY <1>3, <1>5, <2>1, <2>2
  <2>4. v \in Delivery
    <3>1. saves[s].tenant \in RsOwner /\ saves[s].task \in RsTasks
      BY <1>2, <1>5, ListItems DEF RsOwner
    <3>2. r.id \in Nat
      BY <1>5 DEF RunRow
    <3>3. QED
      BY <1>5, <1>6, <3>1, <3>2 DEF Delivery
  <2>5. v.tenant = saves[s].tenant /\ v.run = r.id /\ v.task = saves[s].task /\ v.by = s /\ v.n = n
    OBVIOUS
  <2> HIDE DEF v
  <2>6. more \in SUBSET Delivery
    BY <1>5, <2>2, <2>4
  <2>7. client' \in [RsConn -> ClientRow] /\ \A d \in RsConn \ {c} : client'[d] = client[d]
    BY <1>5, <2>3, <2>6 DEF ClientRow
  <2>8. /\ client'[c].at = client[c].at /\ client'[c].save = client[c].save
        /\ client'[c].run = client[c].run /\ client'[c].made = more
    BY <1>5, <2>3, <2>6 DEF ClientRow
  <2>9. v \notin made
    BY <1>4, <1>6, <2>5 DEF MadeIsSaves
  <2>10. IsFiniteSet(more) /\ Cardinality(more) = n
    BY <1>6, <2>2, <2>9, FS_AddElement
  <2>11. \A i \in 1 .. n : saves[s].items[i] = saves[s].tenant
    <3>1. \A i \in 1 .. n : i \in 1 .. Cardinality(made) \/ i = n
      BY <1>6
    <3>2. QED
      BY <1>4, <1>8, <3>1 DEF MadeIsSaves
  <2>12. ASSUME NEW w \in more
         PROVE  /\ w.tenant = saves[s].tenant /\ w.task = saves[s].task /\ w.by = s
                /\ w.n \in 1 .. n /\ \E q \in run : q.id = w.run
    <3>1. CASE w = v
      BY <1>6, <2>5, <3>1
    <3>2. CASE w \in made
      <4>1. /\ w.tenant = saves[s].tenant /\ w.task = saves[s].task /\ w.by = s
            /\ w.n \in 1 .. Cardinality(made) /\ \E q \in run : q.id = w.run
        BY <1>4, <3>2 DEF MadeIsSaves
      <4>2. w.n \in 1 .. n
        BY <1>6, <4>1
      <4>3. QED
        BY <4>1, <4>2
    <3>3. QED
      BY <2>2, <3>1, <3>2
  <2>13. MadeIsSaves(s, run, more)
    BY <1>6, <2>10, <2>11, <2>12 DEF MadeIsSaves
  <2>14. OnlyClient(c) /\ client'[c].at # "inserting" /\ ids' \in Nat
    BY <1>1, <1>5, <2>7, <2>8 DEF OnlyClient
  <2>15. /\ RunIsSaves(client[c].save, client'[c].run)
         /\ \A q \in RunRowsOf(Save(c)) : \E o \in client'[c].run : o.id = q.id
         /\ MadeIsSaves(client[c].save, client'[c].run, client'[c].made)
         /\ \A d \in RsConn \ {c} : Writing(d) => Apart(client[c].save, client[d].save)
    BY <1>3, <1>4, <2>8, <2>13
  <2>16. client'[c].save = client[c].save /\ Writing(c)'
    BY <1>1, <2>8 DEF Writing
  <2>17. QED
    BY <1>1, <1>2, <2>14, <2>15, <2>16, TransactionGoesOn
<1>9. QED
  BY <1>7, <1>8

(* What was made and run is committed, and the save is over.               *)
LEMMA SaveIsWritten ==
  ASSUME SavesInv, NEW c \in RsConn, Busy(c), NEW R \in SUBSET RunRow, NEW M \in SUBSET Delivery,
         RunIsSaves(client[c].save, R), \A q \in RunRowsOf(Save(c)) : \E r \in R : r.id = q.id,
         MadeIsSaves(client[c].save, R, M), Cardinality(M) = Len(Save(c).items),
         \A d \in RsConn \ {c} : Writing(d) => Apart(client[c].save, client[d].save),
         runRows' = (runRows \ RunRowsOf(Save(c))) \cup R, deliveries' = deliveries \cup M,
         savedOk \subseteq savedOk', savedOk' \subseteq savedOk \cup {client[c].save},
         RsIdle(c), adapter' = adapter, shape' = shape, saves' = saves, ids' \in Nat, page' = page
  PROVE  SavesInv'
<1>1. PICK s : s = client[c].save
  OBVIOUS
<1>2. s \in DOMAIN saves /\ saves[s] = Save(c) /\ ~Committed(s)
  BY <1>1 DEF SavesInv, SaversAreOne, Save
<1>3. OnlyClient(c) /\ client'[c].at = "open" /\ client'[c].made = {}
  BY ClientRests
<1>4. /\ StoreRows' /\ SavesAreDone'
      /\ \A o \in DOMAIN saves : o # s /\ Committed(o)' => Committed(o)
  BY <1>1, <1>2, RunIsWritten
<1>5. ~Busy(c)' /\ ~Writing(c)'
  BY <1>3 DEF Busy, Writing
<1>6. SaversAreOne'
  BY <1>1, <1>3, <1>4, <1>5, SaverIsDone
<1>7. ASSUME NEW d \in RsConn \ {c}, Writing(d), NEW q \in KeyRows(runRows', Save(d)) PROVE q \in runRows
  <2>1. CASE q \in R
    <3>1. q.tenant = saves[s].tenant /\ q.task = saves[s].task
      BY <1>1, <2>1 DEF RunIsSaves
    <3>2. q.tenant = Save(d).tenant /\ q.task = Save(d).task
      BY DEF KeyRows
    <3>3. QED
      BY <1>1, <1>7, <3>1, <3>2 DEF Apart, Save
  <2>2. CASE q \notin R
    BY <2>2 DEF KeyRows
  <2>3. QED
    BY <2>1, <2>2
<1>8. TransactionsAreWhole'
  BY <1>3, <1>5, <1>7, TransactionsStay
<1>9. shape = "new"
  BY SaversFile DEF Busy
<1>10. \A r \in R : r.tenant \in RsTenant
  BY <1>1, <1>2, ListItems DEF RunIsSaves
<1>11. \A v \in M : v.by # 0
  <2>1. s # 0
    BY <1>2, LenProperties DEF SavesInv, RsTypes
  <2>2. QED
    BY <1>1, <2>1 DEF MadeIsSaves
<1>12. FileIsMigrated' /\ PagesAreTrue'
  BY <1>9, <1>10, <1>11, FileStays, PageStays
<1>13. RsTypes'
  <2>1. s \in DOMAIN saves
    BY <1>2
  <2>2. QED
    BY <1>1, <1>3, <2>1 DEF SavesInv, RsTypes, OnlyClient
<1>14. QED
  BY <1>3, <1>4, <1>6, <1>8, <1>12, <1>13, RestsStay DEF SavesInv

LEMMA CommitKeeps ==
  ASSUME SavesInv, NEW c \in RsConn, CommitSave(c), page' = page
  PROVE  SavesInv'
<1>1. /\ client[c].at = "writing" /\ Cardinality(client[c].made) = Len(Save(c).items)
      /\ runRows' = (runRows \ RunRowsOf(Save(c))) \cup client[c].run
      /\ deliveries' = deliveries \cup client[c].made
      /\ savedOk' \in {savedOk, savedOk \cup {client[c].save}}
      /\ RsIdle(c) /\ adapter' = adapter /\ shape' = shape /\ saves' = saves /\ ids' = ids
  BY DEF CommitSave
<1>2. Busy(c) /\ Writing(c)
  BY <1>1 DEF Busy, Writing
<1>3. PICK R, M : R = client[c].run /\ M = client[c].made
  OBVIOUS
<1>4. /\ RunIsSaves(client[c].save, R) /\ \A q \in RunRowsOf(Save(c)) : \E r \in R : r.id = q.id
      /\ MadeIsSaves(client[c].save, R, M)
      /\ \A d \in RsConn \ {c} : Writing(d) => Apart(client[c].save, client[d].save)
  BY <1>2, <1>3 DEF SavesInv, TransactionsAreWhole
<1>5. R \in SUBSET RunRow /\ M \in SUBSET Delivery /\ ids' \in Nat
  BY <1>1, <1>3, ClientFields DEF ClientRow, SavesInv, RsTypes
<1>6. savedOk \subseteq savedOk' /\ savedOk' \subseteq savedOk \cup {client[c].save}
  BY <1>1
<1>7. /\ runRows' = (runRows \ RunRowsOf(Save(c))) \cup R /\ deliveries' = deliveries \cup M
      /\ Cardinality(M) = Len(Save(c).items)
  BY <1>1, <1>3
<1>8. QED
  BY <1>1, <1>2, <1>4, <1>5, <1>6, <1>7, SaveIsWritten

(* SQLite's save of a run alone.                                           *)
LEMMA SaveAloneKeeps ==
  ASSUME SavesInv, NEW c \in RsConn, UpdateRun(c) \/ InsertRun(c), page' = page
  PROVE  SavesInv'
<1>1. /\ adapter' = adapter /\ shape' = shape /\ saves' = saves /\ deliveries' = deliveries
      /\ ~Blocked(c) /\ client[c].at \in {"asked", "inserting"}
  BY DEF UpdateRun, InsertRun
<1>2. Busy(c)
  BY <1>1 DEF Busy
<1>3. adapter = "sqlite" /\ Save(c).items = << >>
  <2>1. CASE UpdateRun(c)
    BY <2>1 DEF UpdateRun, InTransaction, SavesInv, RsTypes
  <2>2. CASE InsertRun(c)
    BY <1>2, <2>2 DEF InsertRun, SavesInv, SaversAreOne
  <2>3. QED
    BY <2>1, <2>2
<1>4. \A d \in RsConn \ {c} : ~Writing(d)
  BY <1>1, <1>3 DEF Blocked, Writing
<1>5. shape = "new" /\ shape \in {"none", "old", "new"} /\ ids \in Nat
  BY <1>2, SaversFile DEF Busy, SavesInv, RsTypes
<1>6. CASE /\ runRows' = (runRows \ RunRowsOf(Save(c))) \cup Upserted(c)
           /\ savedOk' = savedOk \cup {client[c].save} /\ RsIdle(c) /\ ids' \in Nat
  <2>1. PICK R : R = Upserted(c)
    OBVIOUS
  <2>2. /\ R \in SUBSET RunRow /\ RunIsSaves(client[c].save, R)
        /\ \A q \in RunRowsOf(Save(c)) : \E r \in R : r.id = q.id
    BY <1>2, <2>1, UpsertedIsSaves
  <2>3. {} \in SUBSET Delivery /\ MadeIsSaves(client[c].save, R, {})
    BY <1>2, NothingMade
  <2>4. Cardinality({}) = Len(Save(c).items)
    BY <1>3, FS_EmptySet, EmptySeq
  <2>5. runRows' = (runRows \ RunRowsOf(Save(c))) \cup R /\ deliveries' = deliveries \cup {}
    BY <1>1, <1>6, <2>1
  <2>6. savedOk \subseteq savedOk' /\ savedOk' \subseteq savedOk \cup {client[c].save}
    BY <1>6
  <2>7. QED
    BY <1>1, <1>2, <1>4, <1>6, <2>2, <2>3, <2>4, <2>5, <2>6, SaveIsWritten
<1>7. CASE UNCHANGED <<runRows, savedOk, ids>> /\ (RsIdle(c) \/ ClientAt(c, "inserting"))
  <2>1. RowsStay
    BY <1>1, <1>7 DEF RowsStay
  <2>2. CASE RsIdle(c)
    <3>1. OnlyClient(c) /\ ~Busy(c)' /\ client'[c].made = {}
      BY <2>2, ClientRests DEF Busy
    <3>2. FileIsMigrated'
      BY <1>1, <1>5, <2>1, FileStays DEF RowsStay
    <3>3. QED
      BY <1>1, <1>5, <1>7, <2>1, <3>1, <3>2, NothingIsSaved
  <2>3. CASE ClientAt(c, "inserting")
    <3>1. /\ OnlyClient(c) /\ client'[c].at = "inserting" /\ client'[c].save = client[c].save
          /\ client'[c].made = {}
      <4>1. client[c].made = {}
        BY <1>1 DEF SavesInv, AtRest, Writing
      <4>2. QED
        BY <2>3, <4>1, ClientMoves
    <3>2. ~Writing(c)' /\ ids' \in Nat
      BY <1>5, <1>7, <3>1 DEF Writing
    <3>3. QED
      BY <1>1, <1>2, <1>3, <2>1, <3>1, <3>2, TransactionGoesOn
  <2>4. QED
    BY <1>7, <2>2, <2>3
<1>8. CASE UpdateRun(c)
  <2>1. ids' = ids
    BY <1>8 DEF UpdateRun
  <2>2. QED
    BY <1>5, <1>6, <1>7, <1>8, <2>1 DEF UpdateRun
<1>9. CASE InsertRun(c)
  <2>1. CASE RunRowsOf(Save(c)) # {}
    BY <1>7, <1>9, <2>1 DEF InsertRun
  <2>2. CASE RunRowsOf(Save(c)) = {}
    <3>1. runRows' = (runRows \ RunRowsOf(Save(c))) \cup Upserted(c)
      BY <1>9, <2>2 DEF InsertRun
    <3>2. savedOk' = savedOk \cup {client[c].save} /\ RsIdle(c) /\ ids' = ids + 1
      BY <1>9, <2>2 DEF InsertRun
    <3>3. QED
      BY <1>5, <1>6, <3>1, <3>2
  <2>3. QED
    BY <2>1, <2>2
<1>10. QED
  BY <1>8, <1>9

-----------------------------------------------------------------------------
(* Reading.                                                                *)
LEMMA ReadKeeps ==
  ASSUME SavesInv, ReadPage
  PROVE  SavesInv'
<1>1. /\ adapter' = adapter /\ shape' = shape /\ runRows' = runRows /\ deliveries' = deliveries
      /\ client' = client /\ saves' = saves /\ savedOk' = savedOk /\ ids' = ids
  BY DEF ReadPage, storedVars
<1>2. shape = "new"
  BY DEF ReadPage, SavesInv, FileIsMigrated
<1>3. runRows \subseteq RunRow /\ deliveries \subseteq Delivery /\ page \in PageRow
  BY DEF SavesInv, RsTypes
<1>4. \A t : /\ OnAdapter(ItemsOf(t), PgItemsOf(t)) = ItemsOf(t)
             /\ OnAdapter(RunsOf(t), PgRunsOf(t)) = RunsOf(t)
             /\ \A id : OnAdapter(ItemOf(t, id), PgItemOf(t, id)) = ItemOf(t, id)
  BY DEF OnAdapter, ItemsOf, PgItemsOf, RunsOf, PgRunsOf, ItemOf, PgItemOf, Fixed
<1>5. PICK next : next = page'
  OBVIOUS
<1> DEFINE PageIsTrue ==
      /\ next \in PageRow /\ next.items \subseteq deliveries
      /\ next.at \in {"items", "both"} => \A v \in next.items : v.tenant = next.tenant
      /\ next.at = "both" => \A v \in next.items : \E r \in next.runs : r.id = v.run
      /\ next.at \notin {"blank", "items", "both"} =>
           \A v \in next.items : v.tenant = next.tenant <=> next.at # "not_found"
<1>6. ASSUME NEW t \in RsTenant, ListDeliverables(t) PROVE PageIsTrue
  <2>1. next = [NoPage EXCEPT !.tenant = t, !.at = "items", !.items = ItemsOf(t)]
    BY <1>4, <1>5, <1>6 DEF ListDeliverables
  <2>2. ItemsOf(t) \subseteq deliveries /\ \A v \in ItemsOf(t) : v.tenant = t
    BY DEF ItemsOf
  <2>3. next = [tenant |-> t, items |-> ItemsOf(t), runs |-> {}, at |-> "items"]
    BY <2>1 DEF NoPage
  <2>4. next \in PageRow
    BY <1>3, <2>2, <2>3 DEF PageRow, RsOwner
  <2>5. QED
    BY <2>2, <2>3, <2>4
<1>7. ASSUME ListRuns PROVE PageIsTrue
  <2>1. page.at = "items" /\ next = [page EXCEPT !.at = "both", !.runs = RunsOf(page.tenant)]
    BY <1>4, <1>5, <1>7 DEF ListRuns
  <2>2. RunsOf(page.tenant) \subseteq RunRow
    BY <1>3 DEF RunsOf
  <2>3. next \in PageRow
    BY <1>3, <2>1, <2>2 DEF PageRow
  <2>4. next.at = "both" /\ next.runs = RunsOf(page.tenant) /\ next.items = page.items /\ next.tenant = page.tenant
    BY <1>3, <2>1 DEF PageRow
  <2>5. page.items \subseteq deliveries /\ \A v \in page.items : v.tenant = page.tenant
    BY <2>1 DEF SavesInv, PagesAreTrue
  <2>6. \A v \in page.items : \E r \in RunsOf(page.tenant) : r.id = v.run
    BY <2>5 DEF SavesInv, StoreRows, ItemsHaveRuns, RunsOf
  <2>7. QED
    BY <2>3, <2>4, <2>5, <2>6
<1>8. ASSUME Download PROVE PageIsTrue
  <2>1. PICK id \in deliveries, at \in {"not_found", "file_missing", "not_exportable", "served"} :
          /\ next = [page EXCEPT !.items = {id}, !.runs = {}, !.at = at]
          /\ at = "not_found" <=> ItemOf(page.tenant, id) = {}
    <3>1. PICK id \in deliveries, onDisk \in BOOLEAN, binary \in BOOLEAN, format \in {"txt", "docx", "png"} :
            LET found == OnAdapter(ItemOf(page.tenant, id), PgItemOf(page.tenant, id)) # {}
            IN  page' = [page EXCEPT !.items = {id}, !.runs = {}, !.at =
                  CASE ~found -> "not_found"
                    [] found /\ ~onDisk -> "file_missing"
                    [] found /\ onDisk /\ binary /\ ~Converts(format) -> "not_exportable"
                    [] OTHER -> "served"]
      BY <1>8 DEF Download
    <3>2. PICK found, bad : found = (ItemOf(page.tenant, id) # {}) /\ bad = (binary /\ ~Converts(format))
      OBVIOUS
    <3>3. PICK at : at = CASE ~found -> "not_found"
                           [] found /\ ~onDisk -> "file_missing"
                           [] found /\ onDisk /\ bad -> "not_exportable"
                           [] OTHER -> "served"
      OBVIOUS
    <3>4. page' = [page EXCEPT !.items = {id}, !.runs = {}, !.at = at]
      BY <1>4, <3>1, <3>2, <3>3
    <3>5. /\ at \in {"not_found", "file_missing", "not_exportable", "served"}
          /\ at = "not_found" <=> ~found
      BY <3>2, <3>3
    <3>6. QED
      BY <1>5, <3>2, <3>4, <3>5
  <2>2. next \in PageRow
    BY <1>3, <2>1 DEF PageRow
  <2>3. next.at = at /\ next.items = {id} /\ next.tenant = page.tenant
    BY <1>3, <2>1 DEF PageRow
  <2>4. ItemOf(page.tenant, id) = {} <=> id.tenant # page.tenant
    BY DEF ItemOf
  <2>5. QED
    BY <2>1, <2>2, <2>3, <2>4
<1>9. PageIsTrue
  BY <1>6, <1>7, <1>8 DEF ReadPage
<1>10. RsTypes'
  BY <1>1, <1>5, <1>9 DEF SavesInv, RsTypes
<1>11. PagesAreTrue'
  BY <1>1, <1>5, <1>9 DEF PagesAreTrue
<1>12. FileIsMigrated'
  BY <1>1, <1>2 DEF SavesInv, FileIsMigrated
<1>13. /\ StoreRows' /\ SavesAreDone'
  BY <1>1, StoreStays DEF RowsStay
<1>14. SaversAreOne' /\ AtRest' /\ TransactionsAreWhole'
  BY <1>1 DEF SavesInv, SaversAreOne, AtRest, TransactionsAreWhole, Busy, Writing, Save, Committed, Made, WroteRow,
              RunIsSaves, MadeIsSaves, RunRowsOf, Apart
<1>15. QED
  BY <1>10, <1>11, <1>12, <1>13, <1>14 DEF SavesInv

LEMMA SavesRest ==
  ASSUME SavesInv, UNCHANGED rsVars
  PROVE  SavesInv'
<1>1. /\ adapter' = adapter /\ shape' = shape /\ runRows' = runRows /\ deliveries' = deliveries
      /\ client' = client /\ saves' = saves /\ savedOk' = savedOk /\ ids' = ids /\ page' = page
  BY DEF rsVars, storedVars
<1>2. RsTypes' /\ PagesAreTrue' /\ FileIsMigrated'
  BY <1>1 DEF SavesInv, RsTypes, PagesAreTrue, FileIsMigrated
<1>3. StoreRows' /\ SavesAreDone'
  BY <1>1, StoreStays DEF RowsStay
<1>4. SaversAreOne' /\ AtRest' /\ TransactionsAreWhole'
  BY <1>1 DEF SavesInv, SaversAreOne, AtRest, TransactionsAreWhole, Busy, Writing, Save, Committed, Made, WroteRow,
              RunIsSaves, MadeIsSaves, RunRowsOf, Apart
<1>5. QED
  BY <1>2, <1>3, <1>4 DEF SavesInv

LEMMA SavesBegin == RsInit => SavesInv
<1> SUFFICES ASSUME RsInit PROVE SavesInv
  OBVIOUS
<1>1. /\ adapter \in {"sqlite", "postgres"} /\ shape \in {"none", "old", "new"}
      /\ client = [c \in RsConn |-> Shut] /\ saves = << >> /\ savedOk = {} /\ page = NoPage
      /\ adapter = "postgres" <=> shape = "new"
  BY DEF RsInit
<1>2. PICK k \in RsTasks : runRows = IF shape # "old" THEN {}
                                     ELSE {[tenant |-> NoOwner, task |-> k, id |-> 1, by |-> 0]}
  BY DEF RsInit, RsTasks
<1>3. IsFiniteSet(runRows) /\ ids = Cardinality(runRows)
  <2>1. CASE shape # "old"
    BY <1>2, <2>1, FS_EmptySet DEF RsInit
  <2>2. CASE shape = "old"
    <3>1. PICK r : r = [tenant |-> NoOwner, task |-> k, id |-> 1, by |-> 0]
      OBVIOUS
    <3>2. runRows = {r}
      BY <1>2, <2>2, <3>1
    <3>3. QED
      BY <3>2, FS_Singleton DEF RsInit
  <2>3. QED
    BY <2>1, <2>2
<1>4. deliveries = {[tenant |-> NoOwner, run |-> r.id, task |-> r.task, by |-> 0, n |-> 1] : r \in runRows}
  BY DEF RsInit
<1>5. deliveries = IF shape # "old" THEN {}
                   ELSE {[tenant |-> NoOwner, run |-> 1, task |-> k, by |-> 0, n |-> 1]}
  <2>1. CASE shape # "old"
    BY <1>2, <1>4, <2>1
  <2>2. CASE shape = "old"
    <3>1. runRows = {[tenant |-> NoOwner, task |-> k, id |-> 1, by |-> 0]}
      BY <1>2, <2>2
    <3>2. \A r \in runRows : r.id = 1 /\ r.task = k
      BY <3>1
    <3>3. \A v : v \in deliveries <=> v = [tenant |-> NoOwner, run |-> 1, task |-> k, by |-> 0, n |-> 1]
      BY <1>4, <3>1, <3>2
    <3>4. QED
      BY <2>2, <3>3
  <2>3. QED
    BY <2>1, <2>2
<1>6. \A c \in RsConn : client[c].at = "closed" /\ client[c].made = {}
  BY <1>1 DEF Shut
<1>7. Len(saves) = 0 /\ DOMAIN saves = {} /\ saves \in Seq(SaveRow)
  BY <1>1, EmptySeq
<1>8. runRows \subseteq RunRow /\ deliveries \subseteq Delivery /\ page \in PageRow
  <2>1. page \in PageRow
    BY <1>1 DEF NoPage, PageRow, RsOwner
  <2>2. runRows \subseteq RunRow
    BY <1>2 DEF RunRow, RsOwner
  <2>3. deliveries \subseteq Delivery
    BY <1>5 DEF Delivery, RsOwner
  <2>4. QED
    BY <2>1, <2>2, <2>3
<1>9. Shut \in ClientRow
  BY DEF Shut, ClientRow
<1>10. ids \in Nat
  BY <1>3, FS_CardinalityType
<1>11. RsTypes
  BY <1>1, <1>7, <1>8, <1>9, <1>10 DEF RsTypes
<1>12. StoreRows
  <2>1. RowsAreOne
    BY <1>2 DEF RowsAreOne
  <2>2. ItemsHaveRuns
    <3>1. CASE shape # "old"
      BY <1>5, <3>1 DEF ItemsHaveRuns
    <3>2. CASE shape = "old"
      <4>1. \A v \in deliveries : v.run = 1 /\ v.task = k /\ v.tenant = NoOwner
        BY <1>5, <3>2
      <4>2. \E r \in runRows : r.id = 1 /\ r.task = k /\ r.tenant = NoOwner
        BY <1>2, <3>2
      <4>3. QED
        BY <4>1, <4>2 DEF ItemsHaveRuns
    <3>3. QED
      BY <3>1, <3>2
  <2>3. WritersAreKnown
    BY <1>2, <1>5, <1>7 DEF WritersAreKnown
  <2>4. QED
    BY <2>1, <2>2, <2>3 DEF StoreRows
<1>13. SavesAreDone /\ SaversAreOne /\ AtRest /\ TransactionsAreWhole
  BY <1>6, <1>7 DEF SavesAreDone, SaversAreOne, AtRest, TransactionsAreWhole, Busy, Writing
<1>14. FileIsMigrated
  BY <1>1, <1>2, <1>5, <1>6 DEF FileIsMigrated
<1>15. PagesAreTrue
  BY <1>1 DEF PagesAreTrue, NoPage
<1>16. QED
  BY <1>11, <1>12, <1>13, <1>14, <1>15 DEF SavesInv

LEMMA SavesGoOn ==
  ASSUME SavesInv, [RsNext]_rsVars
  PROVE  SavesInv'
<1>1. ASSUME NEW c \in RsConn, page' = page,
             OpenStore(c) \/ AskSave(c) \/ SaveRun(c) \/ SaveWithDeliverables(c) \/ SaveFails(c)
      PROVE  SavesInv'
  BY <1>1, OpenKeeps, MigrateKeeps, AskKeeps, SaveAloneKeeps, UpsertKeeps, DeliverKeeps, CommitKeeps, SaveFailsKeeps
     DEF OpenStore, SaveRun, SaveWithDeliverables
<1>2. QED
  BY <1>1, ReadKeeps, SavesRest DEF RsNext

LEMMA SavesAreWholeThen ==
  ASSUME SavesInv
  PROVE  SavesAreWhole
<1>1. ASSUME NEW s \in DOMAIN saves
      PROVE  /\ Committed(s) => /\ Cardinality(Made(s)) = Len(saves[s].items)
                                /\ \A i \in DOMAIN saves[s].items : saves[s].items[i] = saves[s].tenant
             /\ s \in savedOk => RunRowsOf(saves[s]) # {}
  BY DEF SavesInv, SavesAreDone, IsWhole
<1>2. \A s \in DOMAIN saves :
        /\ Made(s) # {} => Cardinality(Made(s)) = Len(saves[s].items)
        /\ Made(s) # {} \/ s \in savedOk \/ WroteRow(s) =>
             \A i \in DOMAIN saves[s].items : saves[s].items[i] = saves[s].tenant
        /\ s \in savedOk => Cardinality(Made(s)) = Len(saves[s].items) /\ RunRowsOf(saves[s]) # {}
        /\ WroteRow(s) => Cardinality(Made(s)) = Len(saves[s].items)
  BY <1>1 DEF Committed
<1>3. \A v, w \in deliveries : v.by = 0 /\ w.by = 0 =>
        v = w /\ v.tenant = IF shape = "old" THEN NoOwner ELSE RsLocal
  BY DEF SavesInv, FileIsMigrated
<1>4. /\ \A r, o \in runRows : r.tenant = o.tenant /\ r.task = o.task => r = o
      /\ \A v \in deliveries : \E r \in runRows : r.id = v.run /\ r.task = v.task /\ r.tenant = v.tenant
  BY DEF SavesInv, StoreRows, RowsAreOne, ItemsHaveRuns
<1>5. /\ page.at = "both" => \A v \in page.items : \E r \in page.runs : r.id = v.run
      /\ page.items \subseteq deliveries
      /\ page.at \notin {"blank", "items", "both"} =>
           \A v \in page.items : v.tenant = page.tenant <=> page.at # "not_found"
  BY DEF SavesInv, PagesAreTrue
<1>6. QED
  BY <1>2, <1>3, <1>4, <1>5 DEF SavesAreWhole, Made, WroteRow

(* A run and the deliverables saved with it are in the store together or   *)
(* not at all, under either adapter, whoever else saves, opens or migrates *)
(* the file, and however a save ends; and a page shows what belongs        *)
(* together (`save_with_deliverables`, `migrate_legacy`).                  *)
THEOREM SavesAreKept == RsSpec => []SavesAreWhole
<1>1. RsInit => SavesInv
  BY SavesBegin
<1>2. SavesInv /\ [RsNext]_rsVars => SavesInv'
  BY SavesGoOn
<1>3. SavesInv => SavesAreWhole
  BY SavesAreWholeThen
<1>4. QED
  BY <1>1, <1>2, <1>3, PTL DEF RsSpec
=============================================================================
