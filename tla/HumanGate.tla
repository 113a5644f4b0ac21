------------------------------ MODULE HumanGate ------------------------------
(***************************************************************************)
(* What a human-approval gate promises to the squad orchestrator that      *)
(* asks for it, whatever the hub does to deliver it: a request is decided  *)
(* at most once, by the one answer it was given or, with no answer, by     *)
(* denial; a verdict never changes; a request whose caller is still there  *)
(* is eventually decided (fail-closed, ADR 0017).                          *)
(***************************************************************************)
CONSTANT Call    \* the requests (gRPC calls that reach `request_hitl`)

VARIABLES
  phase,         \* [Call -> "idle" | "open" | "allowed" | "denied" | "gone"]
  answer         \* [Call -> "none" | "allow" | "deny"]: the answer delivered

vars == <<phase, answer>>

Init ==
  /\ phase = [c \in Call |-> "idle"]
  /\ answer = [c \in Call |-> "none"]

(* The caller starts waiting. *)
Open(c) ==
  /\ phase[c] = "idle"
  /\ phase' = [phase EXCEPT ![c] = "open"]
  /\ UNCHANGED answer

(* An answer reaches a request that is waiting and has none. *)
Answer(c, a) ==
  /\ phase[c] = "open"
  /\ answer[c] = "none"
  /\ answer' = [answer EXCEPT ![c] = a]
  /\ UNCHANGED phase

(* The caller takes the answer, or gives up without one. *)
Decide(c) ==
  /\ phase[c] = "open"
  /\ \/ /\ answer[c] = "allow"
        /\ phase' = [phase EXCEPT ![c] = "allowed"]
     \/ /\ answer[c] # "allow"
        /\ phase' = [phase EXCEPT ![c] = "denied"]
  /\ UNCHANGED answer

(* The caller itself goes away: nobody is left to learn the verdict. *)
Abandon(c) ==
  /\ phase[c] = "open"
  /\ phase' = [phase EXCEPT ![c] = "gone"]
  /\ UNCHANGED answer

(* Two requests may be touched in one step: a new one displaces an old one *)
(* of the same task, whose caller then finds a refusal.                    *)
OpenOver(c, old) ==
  /\ c # old
  /\ phase[c] = "idle"
  /\ phase' = [phase EXCEPT ![c] = "open"]
  /\ phase[old] = "open"
  /\ answer[old] = "none"
  /\ answer' = [answer EXCEPT ![old] = "deny"]

Next ==
  \E c \in Call :
    \/ Open(c)
    \/ \E a \in {"allow", "deny"} : Answer(c, a)
    \/ Decide(c)
    \/ Abandon(c)
    \/ \E old \in Call : OpenOver(c, old)

SafeSpec == Init /\ [][Next]_vars

Spec == SafeSpec /\ \A c \in Call : WF_vars(Decide(c))
=============================================================================
