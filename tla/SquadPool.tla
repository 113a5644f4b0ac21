------------------------------- MODULE SquadPool -------------------------------
(***************************************************************************)
(* The pool of squad processes (`SquadPool` in                             *)
(* crates/btv-sidecar/src/service.rs): a semaphore, a list of free slots   *)
(* "in step 1:1 with the permits", and a Python process per slot, started  *)
(* when a slot is first used and again when its process has died.  A       *)
(* caller of `acquire` is a task that may be aborted at any await; permit, *)
(* slot, lock of the slot and a process still starting are locals of it,   *)
(* dropped in the reverse of the order they were taken.                    *)
(***************************************************************************)
EXTENDS Naturals, Sequences, FiniteSets

CONSTANTS
  Client,    \* tasks that want a squad process
  Slot,      \* the slots; their number is the pool's capacity
  Proc,      \* bound: the processes that may be started, each once
  Hangs,     \* may a process accept a call and never answer it?
  NoSlot, NoProc, NoClient

ASSUME PoolSets == IsFiniteSet(Client) /\ IsFiniteSet(Slot)
ASSUME NoneOfThem == NoSlot \notin Slot /\ NoProc \notin Proc /\ NoClient \notin Client

VARIABLES
  permits,   \* permits the semaphore has left
  queue,     \* callers that wait for a permit: the semaphore is fair
  free,      \* free slots (`free`)
  at,        \* per caller: where `acquire` or the drop of its lease is
  slot,      \* per caller: the slot its guard or lease holds
  busy,      \* per slot: who holds the lock of its state
  kept,      \* per slot: the process its state keeps
  young,     \* per caller: the process it started and does not yet keep
  proc       \* per process: its life

vars == <<permits, queue, free, at, slot, busy, kept, young, proc>>

Permitted == {"granted", "popped", "checking", "starting", "leased", "dropping", "pushed"}
Slotted == {"popped", "checking", "starting", "leased", "dropping"}
Phases == {"idle", "queued"} \cup Permitted

TypeOK ==
  /\ permits \in 0 .. Cardinality(Slot)
  /\ queue \in Seq(Client)
  /\ free \subseteq Slot
  /\ at \in [Client -> Phases]
  /\ slot \in [Client -> Slot \cup {NoSlot}]
  /\ busy \in [Slot -> Client \cup {NoClient}]
  /\ kept \in [Slot -> Proc \cup {NoProc}]
  /\ young \in [Client -> Proc \cup {NoProc}]
  /\ proc \in [Proc -> {"new", "starting", "up", "hung", "dead"}]

Init ==
  /\ permits = Cardinality(Slot)
  /\ queue = <<>>
  /\ free = Slot
  /\ at = [c \in Client |-> "idle"]
  /\ slot = [c \in Client |-> NoSlot]
  /\ busy = [s \in Slot |-> NoClient]
  /\ kept = [s \in Slot |-> NoProc]
  /\ young = [c \in Client |-> NoProc]
  /\ proc = [p \in Proc |-> "new"]

-----------------------------------------------------------------------------
(* `acquire`. *)

Goes(c, phase) == at' = [at EXCEPT ![c] = phase]
Without(q, i) == SubSeq(q, 1, i - 1) \o SubSeq(q, i + 1, Len(q))

Acquire(c) ==
  /\ at[c] = "idle"
  /\ Goes(c, "queued")
  /\ queue' = Append(queue, c)
  /\ UNCHANGED <<permits, free, slot, busy, kept, young, proc>>

Grant(c) ==
  /\ at[c] = "queued"
  /\ queue # <<>>
  /\ Head(queue) = c
  /\ permits > 0
  /\ permits' = permits - 1
  /\ queue' = Tail(queue)
  /\ Goes(c, "granted")
  /\ UNCHANGED <<free, slot, busy, kept, young, proc>>

(* `free.pop().expect(..)`: it panics where PermitMeansSlot fails. *)
Pop(c) ==
  /\ at[c] = "granted"
  /\ \E s \in free :
       /\ free' = free \ {s}
       /\ slot' = [slot EXCEPT ![c] = s]
  /\ Goes(c, "popped")
  /\ UNCHANGED <<permits, queue, busy, kept, young, proc>>

LockState(c) ==
  /\ at[c] = "popped"
  /\ busy[slot[c]] = NoClient
  /\ busy' = [busy EXCEPT ![slot[c]] = c]
  /\ Goes(c, "checking")
  /\ UNCHANGED <<permits, queue, free, slot, kept, young, proc>>

Unlocked(c) == busy' = [busy EXCEPT ![slot[c]] = NoClient]

(* Bug: the guard is not disarmed, and gives back the slot of the lease. *)
ReuseWithoutDisarm(c) ==
  /\ at[c] = "checking"
  /\ kept[slot[c]] # NoProc
  /\ proc[kept[slot[c]]] = "up"
  /\ Unlocked(c)
  /\ free' = free \cup {slot[c]}
  /\ Goes(c, "leased")
  /\ UNCHANGED <<permits, queue, slot, kept, young, proc>>

(* The process of the slot answers its health check. *)
Reuse(c) ==
  /\ at[c] = "checking"
  /\ kept[slot[c]] # NoProc
  /\ proc[kept[slot[c]]] = "up"
  /\ Unlocked(c)
  /\ Goes(c, "leased")
  /\ UNCHANGED <<permits, queue, free, slot, kept, young, proc>>

(* There is none, or the check fails: another is started, or cannot be.    *)
(* One that hangs neither answers nor fails, and the check has no deadline.*)
Spawn(c) ==
  /\ at[c] = "checking"
  /\ kept[slot[c]] \in {NoProc} \cup {p \in Proc : proc[p] = "dead"}
  /\ \/ \E p \in Proc :
          /\ proc[p] = "new"
          /\ proc' = [proc EXCEPT ![p] = "starting"]
          /\ young' = [young EXCEPT ![c] = p]
          /\ Goes(c, "starting")
          /\ UNCHANGED busy
     \/ /\ Unlocked(c)
        /\ Goes(c, "dropping")
        /\ UNCHANGED <<proc, young>>
  /\ UNCHANGED <<permits, queue, free, slot, kept>>

(* `wait_ready` has a healthy client: the process is kept. *)
Keep(c) ==
  /\ at[c] = "starting"
  /\ proc[young[c]] = "up"
  /\ kept' = [kept EXCEPT ![slot[c]] = young[c]]
  /\ young' = [young EXCEPT ![c] = NoProc]
  /\ Unlocked(c)
  /\ Goes(c, "leased")
  /\ UNCHANGED <<permits, queue, free, slot, proc>>

(* The supervisor of a process that is not kept kills it when dropped. *)
Killed(c) ==
  /\ proc' = [p \in Proc |-> IF p = young[c] THEN "dead" ELSE proc[p]]
  /\ young' = [young EXCEPT ![c] = NoProc]

(* Bug: a start is waited for without a deadline. *)
StartFailsWhenDead(c) ==
  /\ at[c] = "starting"
  /\ proc[young[c]] = "dead"
  /\ Killed(c)
  /\ Unlocked(c)
  /\ Goes(c, "dropping")
  /\ UNCHANGED <<permits, queue, free, slot, kept>>

(* `wait_ready` fails: the process died, or the deadline passed between    *)
(* two health checks.                                                      *)
StartFails(c) ==
  /\ at[c] = "starting"
  /\ proc[young[c]] # "hung"
  /\ Killed(c)
  /\ Unlocked(c)
  /\ Goes(c, "dropping")
  /\ UNCHANGED <<permits, queue, free, slot, kept>>

-----------------------------------------------------------------------------
(* The caller is aborted, or is done with its lease. *)

CancelQueued(c) ==
  /\ at[c] = "queued"
  /\ \E i \in 1 .. Len(queue) : queue[i] = c /\ queue' = Without(queue, i)
  /\ Goes(c, "idle")
  /\ UNCHANGED <<permits, free, slot, busy, kept, young, proc>>

(* Granted, and aborted before it is polled again: no slot was taken. *)
CancelGranted(c) ==
  /\ at[c] = "granted"
  /\ Goes(c, "pushed")
  /\ UNCHANGED <<permits, queue, free, slot, busy, kept, young, proc>>

(* Bug: the process of an aborted caller is left running. *)
CancelOrphans(c) ==
  /\ at[c] \in {"popped", "checking", "starting"}
  /\ young' = [young EXCEPT ![c] = NoProc]
  /\ busy' = [s \in Slot |-> IF busy[s] = c THEN NoClient ELSE busy[s]]
  /\ Goes(c, "dropping")
  /\ UNCHANGED <<permits, queue, free, slot, kept, proc>>

Cancel(c) ==
  /\ at[c] \in {"popped", "checking", "starting"}
  /\ Killed(c)
  /\ busy' = [s \in Slot |-> IF busy[s] = c THEN NoClient ELSE busy[s]]
  /\ Goes(c, "dropping")
  /\ UNCHANGED <<permits, queue, free, slot, kept>>

Return(c) ==
  /\ at[c] = "leased"
  /\ Goes(c, "dropping")
  /\ UNCHANGED <<permits, queue, free, slot, busy, kept, young, proc>>

(* `Drop` of the guard or of the lease ... *)
PushSlot(c) ==
  /\ at[c] = "dropping"
  /\ free' = free \cup {slot[c]}
  /\ slot' = [slot EXCEPT ![c] = NoSlot]
  /\ Goes(c, "pushed")
  /\ UNCHANGED <<permits, queue, busy, kept, young, proc>>

(* ... and only then of the permit. *)
ReleasePermit(c) ==
  /\ at[c] = "pushed"
  /\ permits' = permits + 1
  /\ Goes(c, "idle")
  /\ UNCHANGED <<queue, free, slot, busy, kept, young, proc>>

-----------------------------------------------------------------------------
(* The processes. *)

Alive == {p \in Proc : proc[p] \in {"starting", "up", "hung"}}

ProcUp(p) ==
  /\ proc[p] = "starting"
  /\ proc' = [proc EXCEPT ![p] = "up"]
  /\ UNCHANGED <<permits, queue, free, at, slot, busy, kept, young>>

ProcHangs(p) ==
  /\ Hangs
  /\ proc[p] \in {"starting", "up"}
  /\ proc' = [proc EXCEPT ![p] = "hung"]
  /\ UNCHANGED <<permits, queue, free, at, slot, busy, kept, young>>

ProcDies(p) ==
  /\ p \in Alive
  /\ proc' = [proc EXCEPT ![p] = "dead"]
  /\ UNCHANGED <<permits, queue, free, at, slot, busy, kept, young>>

(* What a caller's future does when it is polled. *)
Step(c) ==
  \/ Grant(c) \/ Pop(c) \/ LockState(c) \/ Reuse(c) \/ Spawn(c) \/ Keep(c)
  \/ StartFails(c) \/ PushSlot(c) \/ ReleasePermit(c)

Next ==
  \/ \E c \in Client :
       Acquire(c) \/ Step(c) \/ CancelQueued(c) \/ CancelGranted(c) \/ Cancel(c) \/ Return(c)
  \/ \E p \in Proc : ProcUp(p) \/ ProcHangs(p) \/ ProcDies(p)

SafeSpec == Init /\ [][Next]_vars

(* The executor polls what is ready, and whoever has a lease gives it back *)
(* (a squad's run ends, one way or another).                               *)
Spec == SafeSpec /\ \A c \in Client : WF_vars(Step(c)) /\ WF_vars(Return(c))

-----------------------------------------------------------------------------
(* Properties. *)

(* Whoever has a permit, or may yet get one, finds a slot: over failed      *)
(* starts, aborts at any await and returns in any order ("permit obtido    *)
(* implica slot livre disponível (invariante 1:1)", `SlotGuard`).          *)
PermitMeansSlot ==
  permits + Cardinality({c \in Client : at[c] = "granted"}) <= Cardinality(free)

(* A slot has one holder: it is not free while a guard or lease holds it,  *)
(* and no two of them hold the same (`acquire`, both `Drop`s).             *)
SlotIsExclusive ==
  \A c \in Client : slot[c] # NoSlot =>
    /\ slot[c] \notin free
    /\ \A d \in Client \ {c} : slot[d] # slot[c]

(* No process is left without a supervisor, and there are never more of    *)
(* them than slots ("nunca sobe mais que `capacity` processos              *)
(* concorrentes"; the `Drop` of `SquadSupervisor` kills what is not kept). *)
ProcessesAreSupervised ==
  /\ \A p \in Alive : \/ \E s \in Slot : kept[s] = p
                      \/ \E c \in Client : young[c] = p
  /\ Cardinality(Alive) <= Cardinality(Slot)

(* Permits, free list and processes, kept by different drops, never come   *)
(* apart (the three invariants above).                                     *)
SlotsAreSound == PermitMeansSlot /\ SlotIsExclusive /\ ProcessesAreSupervised

(* Whoever asks gets a lease, an error or is aborted: a failed start, an   *)
(* abort or a dead process keeps neither slot nor lock from the next one   *)
(* ("espera (sem falhar) se todos estiverem ocupados").  A process that    *)
(* hangs does: `health` has no deadline.                                   *)
AcquireEnds ==
  \A c \in Client :
    at[c] = "queued" ~> (at[c] \in {"leased", "idle"} \/ \E p \in Proc : proc[p] = "hung")
=============================================================================
