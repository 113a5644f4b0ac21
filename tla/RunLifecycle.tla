---------------------------- MODULE RunLifecycle ----------------------------
(***************************************************************************)
(* The life of a persisted run as the domain states it (`RunStatus` in     *)
(* crates/btv-domain/src/ports.rs): a run is born `ativa`, leaves it once, *)
(* for one of three terminal states, and stays there; gates are approved   *)
(* only while it is `ativa`, and its deliverables exist only if it was     *)
(* concluded.                                                              *)
(***************************************************************************)
EXTENDS Naturals

CONSTANTS Task, File

VARIABLES
  status,    \* [Task -> "ausente" or a status]
  gates,     \* [Task -> Nat]: gates approved (`gates_aprovados`)
  delivered  \* [Task -> SUBSET File]: deliverables in the library

vars == <<status, gates, delivered>>

Terminal == {"concluida", "encerrada", "erro"}

Init ==
  /\ status = [t \in Task |-> "ausente"]
  /\ gates = [t \in Task |-> 0]
  /\ delivered = [t \in Task |-> {}]

Activate(t) ==
  /\ status[t] = "ausente"
  /\ status' = [status EXCEPT ![t] = "ativa"]
  /\ UNCHANGED <<gates, delivered>>

ApproveGate(t) ==
  /\ status[t] = "ativa"
  /\ gates' = [gates EXCEPT ![t] = @ + 1]
  /\ UNCHANGED <<status, delivered>>

(* Out of `ativa` into a terminal state; out of that, nothing. *)
CanTransitionTo(from, to) == from = "ativa" /\ to \in Terminal

(* `transition_to` *)
End(t, s) ==
  /\ CanTransitionTo(status[t], s)
  /\ status' = [status EXCEPT ![t] = s]
  /\ UNCHANGED <<gates, delivered>>

Deliver(t, f) ==
  /\ status[t] = "concluida"
  /\ delivered' = [delivered EXCEPT ![t] = @ \cup {f}]
  /\ UNCHANGED <<status, gates>>

(* A dashboard that starts ends every run a dead one left `ativa`. *)
Reconcile ==
  /\ status' = [t \in Task |-> IF status[t] = "ativa" THEN "encerrada" ELSE status[t]]
  /\ UNCHANGED <<gates, delivered>>

Next ==
  \/ Reconcile
  \/ \E t \in Task :
       \/ Activate(t)
       \/ ApproveGate(t)
       \/ \E s \in Terminal : End(t, s)
       \/ \E f \in File : Deliver(t, f)

Spec == Init /\ [][Next]_vars
=============================================================================
