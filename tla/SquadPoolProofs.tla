---------------------------- MODULE SquadPoolProofs ----------------------------
(***************************************************************************)
(* Proofs about what is limited: the pool of squad processes, for any      *)
(* finite sets of callers and slots and any set of processes; and the      *)
(* gateway to the providers with its cache and its rate, for any calls,    *)
(* requests, providers, rates and windows.                                 *)
(***************************************************************************)
EXTENDS SquadPool, LlmGateway, FiniteSetTheorems, SequenceTheorems, Integers, TLAPS

(* Who has a permit and no slot: before the one is taken from the free     *)
(* list, or after it was pushed back.                                      *)
Ready == {c \in Client : at[c] \in {"granted", "pushed"}}

(* A free slot for every permit, left or in such hands. *)
OnePerPermit == permits + Cardinality(Ready) = Cardinality(free)

HoldersHoldSlots == \A c \in Client : at[c] \in Slotted <=> slot[c] # NoSlot

PoolInv == TypeOK /\ OnePerPermit /\ HoldersHoldSlots /\ SlotIsExclusive

-----------------------------------------------------------------------------

LEMMA ReadyIsFinite == IsFiniteSet(Ready) /\ Cardinality(Ready) \in Nat
<1>1. Ready \in SUBSET Client
  BY DEF Ready
<1>2. IsFiniteSet(Ready)
  BY <1>1, PoolSets, FS_Subset
<1> QED
  BY <1>2, FS_CardinalityType

LEMMA FreeIsFinite ==
  ASSUME free \subseteq Slot
  PROVE  /\ IsFiniteSet(free) /\ Cardinality(free) \in Nat
         /\ Cardinality(Slot) \in Nat /\ Cardinality(free) <= Cardinality(Slot)
<1>1. free \in SUBSET Slot
  OBVIOUS
<1>2. IsFiniteSet(free) /\ Cardinality(free) <= Cardinality(Slot)
  BY <1>1, PoolSets, FS_Subset
<1> QED
  BY <1>2, PoolSets, FS_CardinalityType

(* A caller that leaves the queue leaves a queue. *)
LEMMA WithoutType ==
  ASSUME NEW S, NEW q \in Seq(S), NEW i \in 1 .. Len(q)
  PROVE  Without(q, i) \in Seq(S)
<1>1. SubSeq(q, 1, i - 1) \in Seq(S)
  <2>1. \A j \in 1 .. (i - 1) : q[j] \in S
    OBVIOUS
  <2> QED
    BY <2>1, SubSeqProperties
<1>2. SubSeq(q, i + 1, Len(q)) \in Seq(S)
  <2>1. \A j \in (i + 1) .. Len(q) : q[j] \in S
    OBVIOUS
  <2> QED
    BY <2>1, SubSeqProperties
<1> QED
  BY <1>1, <1>2, ConcatProperties DEF Without

(* What a step does to Ready: a caller enters it, leaves it, or neither. *)
LEMMA ReadyKept ==
  ASSUME TypeOK, NEW c \in Client, NEW phase, Goes(c, phase),
         at[c] \in {"granted", "pushed"} <=> phase \in {"granted", "pushed"}
  PROVE  Ready' = Ready
  BY DEF TypeOK, Goes, Ready

LEMMA ReadyEntered ==
  ASSUME TypeOK, NEW c \in Client, NEW phase \in {"granted", "pushed"}, Goes(c, phase),
         at[c] \notin {"granted", "pushed"}
  PROVE  Cardinality(Ready') = Cardinality(Ready) + 1
<1>1. Ready' = Ready \cup {c} /\ c \notin Ready
  BY DEF TypeOK, Goes, Ready
<1> QED
  BY <1>1, ReadyIsFinite, FS_AddElement

LEMMA ReadyLeft ==
  ASSUME TypeOK, NEW c \in Client, NEW phase, phase \notin {"granted", "pushed"},
         Goes(c, phase), at[c] \in {"granted", "pushed"}
  PROVE  Cardinality(Ready') = Cardinality(Ready) - 1
<1>1. Ready' = Ready \ {c} /\ c \in Ready
  BY DEF TypeOK, Goes, Ready
<1> QED
  BY <1>1, ReadyIsFinite, FS_RemoveElement

(* The permits are bounded because the free slots are. *)
LEMMA PermitsBounded ==
  ASSUME free \subseteq Slot, permits \in Nat, OnePerPermit
  PROVE  permits \in 0 .. Cardinality(Slot)
  BY FreeIsFinite, ReadyIsFinite DEF OnePerPermit

-----------------------------------------------------------------------------

LEMMA InitInv == Init => PoolInv
<1> SUFFICES ASSUME Init PROVE PoolInv
  OBVIOUS
<1>1. free \subseteq Slot /\ permits = Cardinality(free)
  BY DEF Init
<1>2. Ready = {}
  BY DEF Init, Ready
<1>3. OnePerPermit
  BY <1>1, <1>2, FS_EmptySet, FreeIsFinite DEF OnePerPermit
<1>4. permits \in 0 .. Cardinality(Slot)
  BY <1>1, FreeIsFinite, PermitsBounded, <1>3
<1>5. TypeOK
  BY <1>4 DEF Init, TypeOK, Phases
<1>6. HoldersHoldSlots /\ SlotIsExclusive
  BY DEF Init, HoldersHoldSlots, SlotIsExclusive, Slotted
<1> QED
  BY <1>3, <1>5, <1>6 DEF PoolInv

-----------------------------------------------------------------------------
(* One lemma per kind of step. *)

(* A step that moves a caller between phases of one side, and touches      *)
(* neither permits, nor free slots, nor who holds which.                   *)
LEMMA MoveKeepsInv ==
  ASSUME PoolInv, TypeOK', NEW c \in Client, NEW phase, Goes(c, phase),
         at[c] \in {"granted", "pushed"} <=> phase \in {"granted", "pushed"},
         at[c] \in Slotted <=> phase \in Slotted,
         UNCHANGED <<permits, free, slot>>
  PROVE  PoolInv'
<1>1. Ready' = Ready
  BY ReadyKept DEF PoolInv
<1>2. OnePerPermit'
  BY <1>1 DEF PoolInv, OnePerPermit
<1>3. HoldersHoldSlots'
  BY DEF PoolInv, TypeOK, HoldersHoldSlots, Goes
<1>4. SlotIsExclusive'
  BY DEF PoolInv, SlotIsExclusive
<1> QED
  BY <1>2, <1>3, <1>4 DEF PoolInv

(* A step of the processes. *)
LEMMA ProcKeepsInv ==
  ASSUME PoolInv, TypeOK', UNCHANGED <<permits, free, slot, at>>
  PROVE  PoolInv'
<1>1. Ready' = Ready
  BY DEF Ready
<1> QED
  BY <1>1 DEF PoolInv, OnePerPermit, HoldersHoldSlots, SlotIsExclusive

LEMMA GrantKeepsInv ==
  ASSUME PoolInv, NEW c \in Client, Grant(c)
  PROVE  PoolInv'
<1>1. Cardinality(Ready') = Cardinality(Ready) + 1
  BY ReadyEntered DEF PoolInv, Grant
<1>2. OnePerPermit'
  BY <1>1, ReadyIsFinite, FreeIsFinite DEF PoolInv, TypeOK, OnePerPermit, Grant
<1>3. permits' \in 0 .. Cardinality(Slot)
  BY FreeIsFinite DEF PoolInv, TypeOK, Grant
<1>4. queue' \in Seq(Client)
  BY DEF PoolInv, TypeOK, Grant
<1>5. TypeOK'
  BY <1>3, <1>4 DEF PoolInv, TypeOK, Grant, Goes, Phases, Permitted
<1>6. HoldersHoldSlots'
  BY DEF PoolInv, TypeOK, HoldersHoldSlots, Grant, Goes, Slotted
<1>7. SlotIsExclusive'
  BY DEF PoolInv, SlotIsExclusive, Grant
<1> QED
  BY <1>2, <1>5, <1>6, <1>7 DEF PoolInv

LEMMA PopKeepsInv ==
  ASSUME PoolInv, NEW c \in Client, Pop(c)
  PROVE  PoolInv'
<1>1. PICK s \in free : free' = free \ {s} /\ slot' = [slot EXCEPT ![c] = s]
  BY DEF Pop
<1>2. s \in Slot /\ s # NoSlot /\ free \subseteq Slot
  BY NoneOfThem DEF PoolInv, TypeOK
<1>3. Cardinality(Ready') = Cardinality(Ready) - 1
  BY ReadyLeft DEF PoolInv, Pop
<1>4. Cardinality(free') = Cardinality(free) - 1
  BY <1>1, <1>2, FreeIsFinite, FS_RemoveElement
<1>5. OnePerPermit'
  BY <1>2, <1>3, <1>4, ReadyIsFinite, FreeIsFinite DEF PoolInv, TypeOK, OnePerPermit, Pop
<1>6. TypeOK'
  BY <1>1, <1>2 DEF PoolInv, TypeOK, Pop, Goes, Phases, Permitted
<1>7. HoldersHoldSlots'
  BY <1>1, <1>2 DEF PoolInv, TypeOK, HoldersHoldSlots, Pop, Goes, Slotted
<1>8. SlotIsExclusive'
  <2>1. \A d \in Client : slot[d] # s
    BY <1>1, <1>2 DEF PoolInv, SlotIsExclusive
  <2>2. \A d \in Client : slot'[d] = IF d = c THEN s ELSE slot[d]
    BY <1>1 DEF PoolInv, TypeOK
  <2> QED
    BY <1>1, <2>1, <2>2 DEF PoolInv, SlotIsExclusive
<1> QED
  BY <1>5, <1>6, <1>7, <1>8 DEF PoolInv

LEMMA PushSlotKeepsInv ==
  ASSUME PoolInv, NEW c \in Client, PushSlot(c)
  PROVE  PoolInv'
<1>1. slot[c] \in Slot /\ slot[c] \notin free /\ free \subseteq Slot
  BY DEF PoolInv, TypeOK, HoldersHoldSlots, SlotIsExclusive, PushSlot, Slotted
<1>2. Cardinality(Ready') = Cardinality(Ready) + 1
  BY ReadyEntered DEF PoolInv, PushSlot
<1>3. Cardinality(free') = Cardinality(free) + 1
  BY <1>1, FreeIsFinite, FS_AddElement DEF PushSlot
<1>4. OnePerPermit'
  BY <1>1, <1>2, <1>3, ReadyIsFinite, FreeIsFinite
     DEF PoolInv, TypeOK, OnePerPermit, PushSlot
<1>5. TypeOK'
  BY <1>1 DEF PoolInv, TypeOK, PushSlot, Goes, Phases, Permitted
<1>6. \A d \in Client : slot'[d] = IF d = c THEN NoSlot ELSE slot[d]
  BY DEF PoolInv, TypeOK, PushSlot
<1>7. HoldersHoldSlots'
  BY <1>6 DEF PoolInv, TypeOK, HoldersHoldSlots, PushSlot, Goes, Slotted
<1>8. SlotIsExclusive'
  BY <1>1, <1>6 DEF PoolInv, SlotIsExclusive, PushSlot
<1> QED
  BY <1>4, <1>5, <1>7, <1>8 DEF PoolInv

LEMMA ReleasePermitKeepsInv ==
  ASSUME PoolInv, NEW c \in Client, ReleasePermit(c)
  PROVE  PoolInv'
<1>1. Cardinality(Ready') = Cardinality(Ready) - 1
  BY ReadyLeft DEF PoolInv, ReleasePermit
<1>2. permits' = permits + 1 /\ permits' \in Nat
  BY FreeIsFinite DEF PoolInv, TypeOK, ReleasePermit
<1>3. free' = free /\ free \subseteq Slot
  BY DEF PoolInv, TypeOK, ReleasePermit
<1>4. OnePerPermit'
  BY <1>1, <1>2, <1>3, ReadyIsFinite, FreeIsFinite DEF PoolInv, TypeOK, OnePerPermit
<1>5. permits' + Cardinality(Ready') = Cardinality(free) /\ Cardinality(Ready') \in Nat
  <2>1. c \in Ready
    BY DEF ReleasePermit, Ready
  <2>2. Cardinality(Ready) # 0
    BY <2>1, ReadyIsFinite, FS_EmptySet
  <2> QED
    BY <1>1, <1>3, <1>4, <2>2, ReadyIsFinite DEF OnePerPermit
<1>6. permits' \in 0 .. Cardinality(Slot)
  BY <1>2, <1>3, <1>5, FreeIsFinite
<1>7. TypeOK'
  BY <1>6 DEF PoolInv, TypeOK, ReleasePermit, Goes, Phases
<1>8. HoldersHoldSlots'
  BY DEF PoolInv, TypeOK, HoldersHoldSlots, ReleasePermit, Goes, Slotted
<1>9. SlotIsExclusive'
  BY DEF PoolInv, SlotIsExclusive, ReleasePermit
<1> QED
  BY <1>4, <1>7, <1>8, <1>9 DEF PoolInv

-----------------------------------------------------------------------------
(* Type correctness of the steps that move neither permit nor slot. *)

LEMMA PhaseType ==
  ASSUME TypeOK, NEW c \in Client, NEW phase \in Phases, Goes(c, phase)
  PROVE  at' \in [Client -> Phases]
  BY DEF TypeOK, Goes

LEMMA UnlockedType ==
  ASSUME TypeOK, NEW c \in Client, Unlocked(c)
  PROVE  busy' \in [Slot -> Client \cup {NoClient}]
  BY DEF TypeOK, Unlocked

LEMMA KilledType ==
  ASSUME TypeOK, NEW c \in Client, Killed(c)
  PROVE  /\ young' \in [Client -> Proc \cup {NoProc}]
         /\ proc' \in [Proc -> {"new", "starting", "up", "hung", "dead"}]
  BY DEF TypeOK, Killed

LEMMA QueueTypes ==
  ASSUME PoolInv, NEW c \in Client, Acquire(c) \/ CancelQueued(c)
  PROVE  TypeOK'
<1>1. CASE Acquire(c)
  <2>1. queue' \in Seq(Client)
    BY <1>1 DEF Acquire, PoolInv, TypeOK
  <2>2. at' \in [Client -> Phases]
    BY <1>1, PhaseType DEF Acquire, PoolInv, Phases
  <2> QED
    BY <1>1, <2>1, <2>2 DEF Acquire, PoolInv, TypeOK
<1>2. CASE CancelQueued(c)
  <2>1. queue' \in Seq(Client)
    BY <1>2, WithoutType DEF CancelQueued, PoolInv, TypeOK
  <2>2. at' \in [Client -> Phases]
    BY <1>2, PhaseType DEF CancelQueued, PoolInv, Phases
  <2> QED
    BY <1>2, <2>1, <2>2 DEF CancelQueued, PoolInv, TypeOK
<1> QED
  BY <1>1, <1>2

LEMMA LockTypes ==
  ASSUME PoolInv, NEW c \in Client, LockState(c) \/ Reuse(c)
  PROVE  TypeOK'
<1>1. CASE LockState(c)
  <2>1. at' \in [Client -> Phases]
    BY <1>1, PhaseType DEF LockState, PoolInv, Phases, Permitted
  <2> QED
    BY <1>1, <2>1 DEF LockState, PoolInv, TypeOK
<1>2. CASE Reuse(c)
  <2>1. at' \in [Client -> Phases]
    BY <1>2, PhaseType DEF Reuse, PoolInv, Phases, Permitted
  <2> QED
    BY <1>2, <2>1, UnlockedType DEF Reuse, PoolInv, TypeOK
<1> QED
  BY <1>1, <1>2

LEMMA SpawnTypes ==
  ASSUME PoolInv, NEW c \in Client, Spawn(c)
  PROVE  TypeOK' /\ \E phase \in {"starting", "dropping"} : Goes(c, phase)
<1>1. CASE \E p \in Proc : /\ proc' = [proc EXCEPT ![p] = "starting"]
                          /\ young' = [young EXCEPT ![c] = p]
                          /\ Goes(c, "starting")
                          /\ UNCHANGED busy
  <2>1. at' \in [Client -> Phases]
    BY <1>1, PhaseType DEF PoolInv, Phases, Permitted
  <2>2. young' \in [Client -> Proc \cup {NoProc}]
    BY <1>1 DEF PoolInv, TypeOK
  <2>3. proc' \in [Proc -> {"new", "starting", "up", "hung", "dead"}]
    BY <1>1 DEF PoolInv, TypeOK
  <2>4. UNCHANGED <<permits, queue, free, slot, busy, kept>>
    BY <1>1 DEF Spawn
  <2>5. TypeOK'
    BY <2>1, <2>2, <2>3, <2>4 DEF PoolInv, TypeOK
  <2> QED
    BY <1>1, <2>5
<1>2. CASE Unlocked(c) /\ Goes(c, "dropping") /\ UNCHANGED <<proc, young>>
  <2>1. at' \in [Client -> Phases]
    BY <1>2, PhaseType DEF PoolInv, Phases, Permitted
  <2>2. busy' \in [Slot -> Client \cup {NoClient}]
    BY <1>2, UnlockedType DEF PoolInv
  <2>3. UNCHANGED <<permits, queue, free, slot, kept, young, proc>>
    BY <1>2 DEF Spawn
  <2>4. TypeOK'
    BY <2>1, <2>2, <2>3 DEF PoolInv, TypeOK
  <2> QED
    BY <1>2, <2>4
<1> QED
  BY <1>1, <1>2 DEF Spawn

LEMMA StartTypes ==
  ASSUME PoolInv, NEW c \in Client, Keep(c) \/ StartFails(c)
  PROVE  TypeOK'
<1>1. CASE Keep(c)
  <2>1. at' \in [Client -> Phases]
    BY <1>1, PhaseType DEF Keep, PoolInv, Phases, Permitted
  <2> QED
    BY <1>1, <2>1, UnlockedType DEF Keep, PoolInv, TypeOK
<1>2. CASE StartFails(c)
  <2>1. at' \in [Client -> Phases]
    BY <1>2, PhaseType DEF StartFails, PoolInv, Phases, Permitted
  <2> QED
    BY <1>2, <2>1, UnlockedType, KilledType DEF StartFails, PoolInv, TypeOK
<1> QED
  BY <1>1, <1>2

LEMMA EndTypes ==
  ASSUME PoolInv, NEW c \in Client, CancelGranted(c) \/ Cancel(c) \/ Return(c)
  PROVE  TypeOK'
<1>1. CASE CancelGranted(c)
  <2>1. at' \in [Client -> Phases]
    BY <1>1, PhaseType DEF CancelGranted, PoolInv, Phases, Permitted
  <2> QED
    BY <1>1, <2>1 DEF CancelGranted, PoolInv, TypeOK
<1>2. CASE Cancel(c)
  <2>1. at' \in [Client -> Phases]
    BY <1>2, PhaseType DEF Cancel, PoolInv, Phases, Permitted
  <2>2. busy' \in [Slot -> Client \cup {NoClient}]
    BY <1>2 DEF Cancel, PoolInv, TypeOK
  <2> QED
    BY <1>2, <2>1, <2>2, KilledType DEF Cancel, PoolInv, TypeOK
<1>3. CASE Return(c)
  <2>1. at' \in [Client -> Phases]
    BY <1>3, PhaseType DEF Return, PoolInv, Phases, Permitted
  <2> QED
    BY <1>3, <2>1 DEF Return, PoolInv, TypeOK
<1> QED
  BY <1>1, <1>2, <1>3

LEMMA ProcSteps ==
  ASSUME PoolInv, NEW p \in Proc, ProcUp(p) \/ ProcHangs(p) \/ ProcDies(p)
  PROVE  PoolInv'
<1>1. TypeOK'
  BY DEF ProcUp, ProcHangs, ProcDies, PoolInv, TypeOK
<1>2. UNCHANGED <<permits, free, slot, at>>
  BY DEF ProcUp, ProcHangs, ProcDies
<1> QED
  BY <1>1, <1>2, ProcKeepsInv

-----------------------------------------------------------------------------

LEMMA NextInv == PoolInv /\ [Next]_vars => PoolInv'
<1> SUFFICES ASSUME PoolInv, [Next]_vars PROVE PoolInv'
  OBVIOUS
<1>1. ASSUME NEW c \in Client, Acquire(c) \/ CancelQueued(c) PROVE PoolInv'
  BY <1>1, QueueTypes, MoveKeepsInv DEF Acquire, CancelQueued, Slotted
<1>2. ASSUME NEW c \in Client, LockState(c) \/ Reuse(c) PROVE PoolInv'
  BY <1>2, LockTypes, MoveKeepsInv DEF LockState, Reuse, Slotted
<1>3. ASSUME NEW c \in Client, Spawn(c) PROVE PoolInv'
  <2>1. PICK phase \in {"starting", "dropping"} : Goes(c, phase)
    BY <1>3, SpawnTypes
  <2>2. at[c] = "checking" /\ UNCHANGED <<permits, free, slot>>
    BY <1>3 DEF Spawn
  <2> QED
    BY <1>3, <2>1, <2>2, SpawnTypes, MoveKeepsInv DEF Slotted
<1>4. ASSUME NEW c \in Client, Keep(c) \/ StartFails(c) PROVE PoolInv'
  BY <1>4, StartTypes, MoveKeepsInv DEF Keep, StartFails, Slotted
<1>5. ASSUME NEW c \in Client, CancelGranted(c) \/ Cancel(c) \/ Return(c) PROVE PoolInv'
  BY <1>5, EndTypes, MoveKeepsInv DEF CancelGranted, Cancel, Return, Slotted
<1>6. CASE UNCHANGED vars
  BY <1>6, ProcKeepsInv DEF vars, PoolInv, TypeOK
<1> QED
  BY <1>1, <1>2, <1>3, <1>4, <1>5, <1>6, GrantKeepsInv, PopKeepsInv, PushSlotKeepsInv,
     ReleasePermitKeepsInv, ProcSteps DEF Next, Step

(* The invariant holds in every reachable state of the pool. *)
THEOREM PoolInvariant == SafeSpec => []PoolInv
  BY InitInv, NextInv, PTL DEF SafeSpec

(* The pool's state is well-typed, and the permits never exceed its        *)
(* capacity (`SquadPool`), for any finite capacity.                        *)
THEOREM PoolTypes == SafeSpec => []TypeOK
  BY PoolInvariant, PTL DEF PoolInv

(* A slot has one holder and is then not free (`acquire` and the drops of  *)
(* guard and lease).                                                       *)
THEOREM PoolIsExclusive == SafeSpec => []SlotIsExclusive
  BY PoolInvariant, PTL DEF PoolInv

(* Whoever has or may get a permit finds a free slot, over failed starts   *)
(* and aborts at any await (`SlotGuard`).                                  *)
THEOREM PermitFindsSlot == SafeSpec => []PermitMeansSlot
<1>1. PoolInv => PermitMeansSlot
  <2> SUFFICES ASSUME PoolInv PROVE PermitMeansSlot
    OBVIOUS
  <2> DEFINE G == {c \in Client : at[c] = "granted"}
  <2>1. G \in SUBSET Ready
    BY DEF Ready
  <2>2. Cardinality(G) <= Cardinality(Ready) /\ Cardinality(G) \in Nat
    BY <2>1, ReadyIsFinite, FS_Subset, FS_CardinalityType
  <2>3. permits \in Nat
    BY FreeIsFinite DEF PoolInv, TypeOK
  <2> QED
    BY <2>2, <2>3, ReadyIsFinite, FreeIsFinite DEF PoolInv, TypeOK, OnePerPermit, PermitMeansSlot
<1> QED
  BY <1>1, PoolInvariant, PTL

-----------------------------------------------------------------------------
(* The processes.  Whoever starts one holds a slot that keeps no living    *)
(* one, so the slots are enough for all that live.                         *)

StartersHoldYoung == \A c \in Client : at[c] = "starting" <=> young[c] # NoProc

StartersReplaceTheDead ==
  \A c \in Client : at[c] = "starting" =>
    kept[slot[c]] = NoProc \/ proc[kept[slot[c]]] = "dead"

KeptWereStarted == \A s \in Slot : kept[s] # NoProc => proc[kept[s]] # "new"

AliveAreHeld == \A p \in Alive : \/ \E s \in Slot : kept[s] = p
                                \/ \E c \in Client : young[c] = p

HeldInv ==
  /\ PoolInv /\ StartersHoldYoung /\ StartersReplaceTheDead /\ KeptWereStarted
  /\ AliveAreHeld

LEMMA InitHeld == Init => HeldInv
<1> SUFFICES ASSUME Init PROVE HeldInv
  OBVIOUS
<1>1. StartersHoldYoung /\ StartersReplaceTheDead /\ KeptWereStarted
  BY DEF Init, StartersHoldYoung, StartersReplaceTheDead, KeptWereStarted
<1>2. AliveAreHeld
  BY DEF Init, AliveAreHeld, Alive
<1> QED
  BY <1>1, <1>2, InitInv DEF HeldInv

(* A step that leaves processes, keepers and starters as they are. *)
LEMMA QuietKeepsHeld ==
  ASSUME HeldInv, PoolInv', UNCHANGED <<kept, young, proc>>,
         \A c \in Client : at'[c] = "starting" <=> at[c] = "starting",
         \A c \in Client : at[c] = "starting" => slot'[c] = slot[c]
  PROVE  HeldInv'
<1>1. StartersHoldYoung'
  BY DEF HeldInv, StartersHoldYoung
<1>2. StartersReplaceTheDead'
  BY DEF HeldInv, StartersReplaceTheDead
<1>3. KeptWereStarted' /\ AliveAreHeld'
  BY DEF HeldInv, KeptWereStarted, AliveAreHeld, Alive
<1> QED
  BY <1>1, <1>2, <1>3 DEF HeldInv

LEMMA SpawnKeepsHeld ==
  ASSUME HeldInv, PoolInv', NEW c \in Client, Spawn(c)
  PROVE  HeldInv'
<1>t. TypeOK /\ c \in Client /\ slot[c] \in Slot
  BY DEF HeldInv, PoolInv, TypeOK, HoldersHoldSlots, Slotted, Spawn
<1>1. CASE Unlocked(c) /\ Goes(c, "dropping") /\ UNCHANGED <<proc, young>>
  <2>1. UNCHANGED <<kept, young, proc, slot>>
    BY <1>1 DEF Spawn
  <2>2. \A d \in Client : at'[d] = "starting" <=> at[d] = "starting"
    BY <1>1, <1>t DEF Spawn, Goes, TypeOK
  <2> QED
    BY <2>1, <2>2, QuietKeepsHeld
<1>2. CASE \E p \in Proc : /\ proc[p] = "new"
                          /\ proc' = [proc EXCEPT ![p] = "starting"]
                          /\ young' = [young EXCEPT ![c] = p]
                          /\ Goes(c, "starting")
                          /\ UNCHANGED busy
  <2>1. PICK p \in Proc : /\ proc[p] = "new"
                         /\ proc' = [proc EXCEPT ![p] = "starting"]
                         /\ young' = [young EXCEPT ![c] = p]
                         /\ Goes(c, "starting")
    BY <1>2
  <2>2. UNCHANGED <<kept, slot>> /\ p # NoProc
    BY <1>2, NoneOfThem DEF Spawn
  <2>3. \A d \in Client : /\ at'[d] = IF d = c THEN "starting" ELSE at[d]
                         /\ young'[d] = IF d = c THEN p ELSE young[d]
    BY <2>1, <1>t DEF Goes, TypeOK
  <2>4. \A q \in Proc : proc'[q] = IF q = p THEN "starting" ELSE proc[q]
    BY <2>1, <1>t DEF TypeOK
  <2>5. StartersHoldYoung'
    BY <2>2, <2>3 DEF HeldInv, StartersHoldYoung
  <2>6. \A s \in Slot : kept[s] # NoProc => kept[s] \in Proc /\ kept[s] # p
    BY <2>1, <1>t DEF HeldInv, KeptWereStarted, TypeOK
  <2>7. StartersReplaceTheDead'
    <3> SUFFICES ASSUME NEW d \in Client, at'[d] = "starting"
                 PROVE  kept'[slot'[d]] = NoProc \/ proc'[kept'[slot'[d]]] = "dead"
      BY DEF StartersReplaceTheDead
    <3>1. slot[d] \in Slot
      BY <2>2, <2>3, <1>t DEF HeldInv, PoolInv, HoldersHoldSlots, Slotted, TypeOK
    <3>2. kept[slot[d]] = NoProc \/ proc[kept[slot[d]]] = "dead"
      <4>1. CASE d = c
        BY <4>1 DEF Spawn
      <4>2. CASE d # c
        BY <4>2, <2>3 DEF HeldInv, StartersReplaceTheDead
      <4> QED
        BY <4>1, <4>2
    <3> QED
      BY <3>1, <3>2, <2>2, <2>4, <2>6
  <2>8. KeptWereStarted'
    BY <2>2, <2>4, <2>6 DEF HeldInv, KeptWereStarted
  <2>9. AliveAreHeld'
    <3> SUFFICES ASSUME NEW q \in Alive'
                 PROVE  (\E s \in Slot : kept'[s] = q) \/ (\E d \in Client : young'[d] = q)
      BY DEF AliveAreHeld
    <3>1. CASE q = p
      BY <3>1, <2>3
    <3>2. CASE q # p
      <4>1. q \in Alive
        BY <3>2, <2>4 DEF Alive
      <4>2. young[c] = NoProc /\ q # NoProc
        BY <4>1, NoneOfThem DEF HeldInv, StartersHoldYoung, Spawn, Alive
      <4> QED
        BY <4>1, <4>2, <2>2, <2>3 DEF HeldInv, AliveAreHeld
    <3> QED
      BY <3>1, <3>2
  <2> QED
    BY <2>5, <2>7, <2>8, <2>9 DEF HeldInv
<1> QED
  BY <1>1, <1>2 DEF Spawn

LEMMA KeepKeepsHeld ==
  ASSUME HeldInv, PoolInv', NEW c \in Client, Keep(c)
  PROVE  HeldInv'
<1>t. TypeOK /\ slot[c] \in Slot /\ young[c] \in Proc /\ young[c] # NoProc
  BY NoneOfThem DEF HeldInv, PoolInv, TypeOK, HoldersHoldSlots, Slotted, Keep, StartersHoldYoung
<1>1. \A s \in Slot : kept'[s] = IF s = slot[c] THEN young[c] ELSE kept[s]
  BY <1>t DEF Keep, TypeOK
<1>2. \A d \in Client : /\ at'[d] = IF d = c THEN "leased" ELSE at[d]
                       /\ young'[d] = IF d = c THEN NoProc ELSE young[d]
  BY <1>t DEF Keep, Goes, TypeOK
<1>3. UNCHANGED <<slot, proc>>
  BY DEF Keep
<1>4. StartersHoldYoung'
  BY <1>2 DEF HeldInv, StartersHoldYoung
<1>5. StartersReplaceTheDead'
  <2> SUFFICES ASSUME NEW d \in Client, at'[d] = "starting"
               PROVE  kept'[slot'[d]] = NoProc \/ proc'[kept'[slot'[d]]] = "dead"
    BY DEF StartersReplaceTheDead
  <2>1. d # c /\ at[d] = "starting"
    BY <1>2
  <2>2. slot[d] \in Slot /\ slot[d] # slot[c]
    BY <2>1, <1>t DEF HeldInv, PoolInv, SlotIsExclusive, HoldersHoldSlots, Slotted, TypeOK, Keep
  <2> QED
    BY <2>1, <2>2, <1>1, <1>3 DEF HeldInv, StartersReplaceTheDead
<1>6. KeptWereStarted'
  BY <1>1, <1>3 DEF HeldInv, KeptWereStarted, Keep
<1>7. AliveAreHeld'
  <2> SUFFICES ASSUME NEW q \in Alive'
               PROVE  (\E s \in Slot : kept'[s] = q) \/ (\E d \in Client : young'[d] = q)
    BY DEF AliveAreHeld
  <2>1. q \in Alive /\ proc[q] # "dead" /\ q # NoProc
    BY <1>3, NoneOfThem DEF Alive
  <2>2. CASE q = young[c]
    BY <2>2, <1>1, <1>t
  <2>3. CASE q # young[c]
    <3>1. CASE \E d \in Client : young[d] = q
      BY <3>1, <2>3, <1>2
    <3>2. CASE \E s \in Slot : kept[s] = q
      <4>1. PICK s \in Slot : kept[s] = q
        BY <3>2
      <4>2. s # slot[c]
        BY <4>1, <2>1 DEF HeldInv, StartersReplaceTheDead, Keep
      <4> QED
        BY <4>1, <4>2, <1>1
    <3> QED
      BY <2>1, <3>1, <3>2 DEF HeldInv, AliveAreHeld
  <2> QED
    BY <2>2, <2>3
<1> QED
  BY <1>4, <1>5, <1>6, <1>7 DEF HeldInv

(* A start that fails, or is aborted: what it started is killed. *)
LEMMA KillKeepsHeld ==
  ASSUME HeldInv, PoolInv', NEW c \in Client, Killed(c), Goes(c, "dropping"),
         UNCHANGED <<kept, slot>>
  PROVE  HeldInv'
<1>t. TypeOK
  BY DEF HeldInv, PoolInv
<1>1. \A q \in Proc : proc'[q] = IF q = young[c] THEN "dead" ELSE proc[q]
  BY DEF Killed
<1>2. \A d \in Client : /\ at'[d] = IF d = c THEN "dropping" ELSE at[d]
                       /\ young'[d] = IF d = c THEN NoProc ELSE young[d]
  BY <1>t DEF Killed, Goes, TypeOK
<1>3. StartersHoldYoung'
  BY <1>2 DEF HeldInv, StartersHoldYoung
<1>4. \A s \in Slot : kept[s] # NoProc => kept[s] \in Proc
  BY <1>t DEF TypeOK
<1>5. StartersReplaceTheDead'
  <2> SUFFICES ASSUME NEW d \in Client, at'[d] = "starting"
               PROVE  kept'[slot'[d]] = NoProc \/ proc'[kept'[slot'[d]]] = "dead"
    BY DEF StartersReplaceTheDead
  <2>1. at[d] = "starting" /\ slot[d] \in Slot
    BY <1>2, <1>t DEF HeldInv, PoolInv, HoldersHoldSlots, Slotted, TypeOK
  <2> QED
    BY <2>1, <1>1, <1>4 DEF HeldInv, StartersReplaceTheDead
<1>6. KeptWereStarted'
  BY <1>1, <1>4 DEF HeldInv, KeptWereStarted
<1>7. AliveAreHeld'
  <2> SUFFICES ASSUME NEW q \in Alive'
               PROVE  (\E s \in Slot : kept'[s] = q) \/ (\E d \in Client : young'[d] = q)
    BY DEF AliveAreHeld
  <2>1. q \in Alive /\ q # young[c]
    BY <1>1 DEF Alive
  <2> QED
    BY <2>1, <1>2 DEF HeldInv, AliveAreHeld
<1> QED
  BY <1>3, <1>5, <1>6, <1>7 DEF HeldInv

(* A process comes up, hangs or dies. *)
LEMMA ProcKeepsHeld ==
  ASSUME HeldInv, PoolInv', NEW p \in Proc, ProcUp(p) \/ ProcHangs(p) \/ ProcDies(p)
  PROVE  HeldInv'
<1>1. UNCHANGED <<at, slot, kept, young>>
  BY DEF ProcUp, ProcHangs, ProcDies
<1>2. PICK life \in {"up", "hung", "dead"} : proc' = [proc EXCEPT ![p] = life]
  BY DEF ProcUp, ProcHangs, ProcDies
<1>3. p \in Alive
  BY DEF ProcUp, ProcHangs, ProcDies, Alive
<1>4. \A q \in Proc : proc'[q] = IF q = p THEN life ELSE proc[q]
  BY <1>2 DEF HeldInv, PoolInv, TypeOK
<1>5. StartersHoldYoung'
  BY <1>1 DEF HeldInv, StartersHoldYoung
<1>6. \A s \in Slot : kept[s] # NoProc => kept[s] \in Proc
  BY DEF HeldInv, PoolInv, TypeOK
<1>7. StartersReplaceTheDead'
  <2> SUFFICES ASSUME NEW d \in Client, at'[d] = "starting"
               PROVE  kept'[slot'[d]] = NoProc \/ proc'[kept'[slot'[d]]] = "dead"
    BY DEF StartersReplaceTheDead
  <2>1. at[d] = "starting" /\ slot[d] \in Slot
    BY <1>1 DEF HeldInv, PoolInv, HoldersHoldSlots, Slotted, TypeOK
  <2> QED
    BY <2>1, <1>1, <1>3, <1>4, <1>6 DEF HeldInv, StartersReplaceTheDead, Alive
<1>8. KeptWereStarted'
  BY <1>1, <1>4, <1>6 DEF HeldInv, KeptWereStarted
<1>9. AliveAreHeld'
  BY <1>1, <1>3, <1>4 DEF HeldInv, AliveAreHeld, Alive
<1> QED
  BY <1>5, <1>7, <1>8, <1>9 DEF HeldInv

LEMMA NextHeld == HeldInv /\ [Next]_vars => HeldInv'
<1> SUFFICES ASSUME HeldInv, [Next]_vars PROVE HeldInv'
  OBVIOUS
<1>p. PoolInv'
  BY NextInv DEF HeldInv
<1>t. TypeOK
  BY DEF HeldInv, PoolInv
<1>1. ASSUME NEW c \in Client, NEW phase, phase # "starting", Goes(c, phase),
             at[c] # "starting", UNCHANGED <<kept, young, proc>>,
             \A d \in Client : d # c => slot'[d] = slot[d]
      PROVE  HeldInv'
  <2>1. \A d \in Client : at'[d] = IF d = c THEN phase ELSE at[d]
    BY <1>1, <1>t DEF Goes, TypeOK
  <2>2. \A d \in Client : at'[d] = "starting" <=> at[d] = "starting"
    BY <1>1, <2>1
  <2>3. \A d \in Client : at[d] = "starting" => slot'[d] = slot[d]
    BY <1>1
  <2> QED
    BY <1>1, <1>p, <2>2, <2>3, QuietKeepsHeld
<1>2. ASSUME NEW c \in Client,
             Acquire(c) \/ CancelQueued(c) \/ CancelGranted(c) \/ Return(c) \/ Grant(c)
             \/ LockState(c) \/ Reuse(c) \/ ReleasePermit(c)
      PROVE  HeldInv'
  <2>1. UNCHANGED <<slot, kept, young, proc>> /\ at[c] # "starting"
    BY <1>2 DEF Acquire, CancelQueued, CancelGranted, Return, Grant, LockState, Reuse,
                ReleasePermit
  <2>2. PICK phase \in {"queued", "idle", "pushed", "dropping", "granted", "checking", "leased"} :
          Goes(c, phase)
    BY <1>2 DEF Acquire, CancelQueued, CancelGranted, Return, Grant, LockState, Reuse,
                ReleasePermit
  <2>3. phase # "starting"
    OBVIOUS
  <2> QED
    BY <1>1, <2>1, <2>2, <2>3
<1>3. ASSUME NEW c \in Client, Pop(c) \/ PushSlot(c) PROVE HeldInv'
  <2>1. UNCHANGED <<kept, young, proc>> /\ at[c] # "starting"
    BY <1>3 DEF Pop, PushSlot
  <2>2. \A d \in Client : d # c => slot'[d] = slot[d]
    BY <1>3, <1>t DEF Pop, PushSlot, TypeOK
  <2>3. PICK phase \in {"popped", "pushed"} : Goes(c, phase)
    BY <1>3 DEF Pop, PushSlot
  <2>4. phase # "starting"
    OBVIOUS
  <2> QED
    BY <1>1, <2>1, <2>2, <2>3, <2>4
<1>4. ASSUME NEW c \in Client, StartFails(c) \/ Cancel(c) PROVE HeldInv'
  BY <1>4, <1>p, KillKeepsHeld DEF StartFails, Cancel
<1>5. CASE UNCHANGED vars
  BY <1>5, <1>p, QuietKeepsHeld DEF vars
<1> QED
  BY <1>p, <1>2, <1>3, <1>4, <1>5, SpawnKeepsHeld, KeepKeepsHeld, ProcKeepsHeld DEF Next, Step

(* Each living process has a slot of its own. *)
LEMMA AliveFit == HeldInv => ProcessesAreSupervised
<1> SUFFICES ASSUME HeldInv PROVE ProcessesAreSupervised
  OBVIOUS
<1>t. TypeOK
  BY DEF HeldInv, PoolInv
<1> DEFINE Has(s, p) == kept[s] = p \/ \E c \in Client : young[c] = p /\ slot[c] = s
           place == [p \in Alive |-> CHOOSE s \in Slot : Has(s, p)]
<1>1. ASSUME NEW p \in Alive PROVE \E s \in Slot : Has(s, p)
  <2>1. CASE \E s \in Slot : kept[s] = p
    BY <2>1
  <2>2. CASE \E c \in Client : young[c] = p
    <3>1. PICK c \in Client : young[c] = p
      BY <2>2
    <3>2. at[c] = "starting"
      BY <3>1, NoneOfThem DEF HeldInv, StartersHoldYoung, Alive
    <3>3. slot[c] \in Slot
      BY <3>2, <1>t DEF HeldInv, PoolInv, HoldersHoldSlots, Slotted, TypeOK
    <3> QED
      BY <3>1, <3>3
  <2> QED
    BY <1>1, <2>1, <2>2 DEF HeldInv, AliveAreHeld
<1>2. ASSUME NEW p \in Alive PROVE place[p] \in Slot /\ Has(place[p], p)
  BY <1>1
<1>3. ASSUME NEW p \in Alive, NEW q \in Alive, NEW s \in Slot, Has(s, p), Has(s, q)
      PROVE  p = q
  <2>0. p # NoProc /\ q # NoProc
    BY NoneOfThem DEF Alive
  <2>1. ASSUME NEW c \in Client, NEW x \in Alive, young[c] = x, slot[c] = s
        PROVE  at[c] = "starting" /\ kept[s] \notin Alive
    <3>1. at[c] = "starting"
      BY <2>1, NoneOfThem DEF HeldInv, StartersHoldYoung, Alive
    <3> QED
      BY <3>1, <2>1, NoneOfThem DEF HeldInv, StartersReplaceTheDead, Alive
  <2>2. CASE kept[s] = p /\ kept[s] = q
    BY <2>2
  <2>3. CASE \E c, d \in Client : young[c] = p /\ slot[c] = s /\ young[d] = q /\ slot[d] = s
    <3>1. PICK c \in Client, d \in Client :
            young[c] = p /\ slot[c] = s /\ young[d] = q /\ slot[d] = s
      BY <2>3
    <3>2. c = d
      BY <3>1, NoneOfThem DEF HeldInv, PoolInv, SlotIsExclusive
    <3> QED
      BY <3>1, <3>2
  <2> QED
    BY <1>3, <2>1, <2>2, <2>3
<1>4. place \in Injection(Alive, Slot)
  <2>1. place \in [Alive -> Slot]
    BY <1>2
  <2>2. \A p, q \in Alive : place[p] = place[q] => p = q
    BY <1>2, <1>3
  <2> HIDE DEF place
  <2> QED
    BY <2>1, <2>2 DEF Injection, IsInjective
<1>5. Cardinality(Alive) <= Cardinality(Slot)
  <2> HIDE DEF place
  <2> QED
    BY <1>4, PoolSets, FS_Injection
<1> QED
  BY <1>5 DEF HeldInv, AliveAreHeld, ProcessesAreSupervised

(* No process runs without a slot or a caller that will stop it, and there *)
(* are never more of them than slots (`SquadSupervisor`'s drop), for any   *)
(* finite capacity and any number of processes started.                    *)
THEOREM PoolIsSupervised == SafeSpec => []ProcessesAreSupervised
<1>1. SafeSpec => []HeldInv
  BY InitHeld, NextHeld, PTL DEF SafeSpec
<1> QED
  BY <1>1, AliveFit, PTL

(* Permits, free list and processes never come apart. *)
THEOREM PoolIsSound == SafeSpec => []SlotsAreSound
  BY PoolIsExclusive, PermitFindsSlot, PoolIsSupervised, PTL DEF SlotsAreSound

(* `free.pop().expect(..)` in `acquire` never panics. *)
THEOREM PopNeverPanics == SafeSpec => [](\A c \in Client : at[c] = "granted" => free # {})
<1>1. PoolInv => \A c \in Client : at[c] = "granted" => free # {}
  <2> SUFFICES ASSUME PoolInv, NEW c \in Client, at[c] = "granted" PROVE free # {}
    OBVIOUS
  <2>1. c \in Ready
    BY DEF Ready
  <2>2. Cardinality(Ready) # 0
    BY <2>1, ReadyIsFinite, FS_EmptySet
  <2>3. permits \in Nat /\ Cardinality(free) # 0
    BY <2>2, ReadyIsFinite, FreeIsFinite DEF PoolInv, TypeOK, OnePerPermit
  <2> QED
    BY <2>3, FS_EmptySet
<1> QED
  BY <1>1, PoolInvariant, PTL

-----------------------------------------------------------------------------
(* The least of some numbers, by the well-foundedness of finite sets.      *)
LEMMA LeastNat ==
  ASSUME NEW T \in SUBSET Nat, T # {}
  PROVE  \E x \in T : \A y \in T : x <= y
<1>1. PICK b \in T : TRUE
  OBVIOUS
<1> DEFINE Below(x) == 1 .. x
           Family == {Below(x) : x \in T}
<1>2. Family \subseteq FiniteSubsetsOf(Nat) /\ Family # {}
  <2>1. \A x \in T : IsFiniteSet(Below(x)) /\ Below(x) \subseteq Nat
    BY FS_Interval
  <2>2. QED
    BY <1>1, <2>1 DEF FiniteSubsetsOf
<1>3. IsWellFoundedOn(StrictSubsetOrdering(Nat), FiniteSubsetsOf(Nat))
  BY FS_StrictSubsetOrderingWellFounded
<1>4. PICK m \in Family : \A o \in Family : ~(<<o, m>> \in StrictSubsetOrdering(Nat))
  <2> HIDE DEF Family
  <2>1. QED
    BY <1>2, <1>3, WFMin
<1>5. PICK x \in T : m = Below(x)
  OBVIOUS
<1>6. ASSUME NEW y \in T PROVE x <= y
  <2>1. SUFFICES ASSUME y < x PROVE FALSE
    OBVIOUS
  <2>2. Below(y) \subseteq Below(x) /\ Below(y) # Below(x)
    <3>1. x \in Below(x) /\ x \notin Below(y)
      BY <2>1
    <3>2. QED
      BY <2>1, <3>1
  <2>3. <<Below(y), m>> \in StrictSubsetOrdering(Nat)
    BY <1>5, <2>2 DEF StrictSubsetOrdering
  <2>4. QED
    BY <1>4, <2>3
<1>7. QED
  BY <1>6

-----------------------------------------------------------------------------
(* The gateway to the providers. *)
TurnRow == Nat \X Nat
CallStage == {"new", "acquiring", "limited", "calling", "failed", "done", "hit"}
CallRow == [at : CallStage, request : LlmRequest, wake : Int, since : Int, provider : Nat,
            partial : Seq(TurnRow), shown : Seq(TurnRow), turn : Seq(TurnRow)]

GatewayTypes ==
  /\ clock \in Nat /\ stamps \in Seq(Nat) /\ started \in Seq(Nat)
  /\ cached \in [LlmRequest -> Seq(TurnRow)]
  /\ call \in [Call -> CallRow]

(* A turn is what one provider said, from its first word on.               *)
WholeTurn(turn) == \A i \in DOMAIN turn : turn[i] = <<turn[1][1], i>>
OfProvider(turn, provider) == \A i \in DOMAIN turn : turn[i] = <<provider, i>>

TurnsAreGiven ==
  /\ \A g \in given : WholeTurn(g[2])
  /\ \A r \in LlmRequest : cached[r] = NoTurn \/ <<r, cached[r]>> \in given

CallFacts(r) ==
  /\ r.at \in {"new", "acquiring"} => r.partial = << >>
  /\ r.at = "calling" => OfProvider(r.partial, r.provider) /\ IsSuffix(r.partial, r.shown)
  /\ r.at \in {"done", "hit"} => <<r.request, r.turn>> \in given /\ IsSuffix(r.turn, r.shown)

(* The queue is the end of what was started; what came before has left the *)
(* window.                                                                 *)
QueueIsRecent ==
  \E k \in Nat :
    /\ Len(started) = k + Len(stamps)
    /\ \A i \in 1 .. Len(stamps) : stamps[i] = started[k + i]
    /\ \A i \in 1 .. k : clock - started[i] >= Window

RateIsKept ==
  \A i \in DOMAIN started : i + Rate \in DOMAIN started => started[i + Rate] - started[i] >= Window

GatewayInv ==
  /\ GatewayTypes /\ TurnsAreGiven /\ QueueIsRecent /\ RateIsKept
  /\ \A c \in Call : CallFacts(call[c])

-----------------------------------------------------------------------------
(* What is left of the queue: its front is popped as long as it expired.   *)
LEMMA LiveIsRest ==
  ASSUME clock \in Nat, stamps \in Seq(Nat)
  PROVE  \E n \in 0 .. Len(stamps) :
           /\ \A i \in 1 .. n : clock - stamps[i] >= Window
           /\ Live \in Seq(Nat) /\ Len(Live) = Len(stamps) - n
           /\ \A i \in 1 .. Len(Live) : Live[i] = stamps[n + i]
           /\ n < Len(stamps) => clock - stamps[n + 1] < Window
<1> DEFINE Good(n) == /\ \A i \in 1 .. n : clock - stamps[i] >= Window
                      /\ n < Len(stamps) => clock - stamps[n + 1] < Window
           T == {n \in 0 .. Len(stamps) : n < Len(stamps) => clock - stamps[n + 1] < Window}
<1>0. Len(stamps) \in Nat /\ (\A i \in 1 .. Len(stamps) : stamps[i] \in Nat) /\ Window \in Nat
  BY LenProperties, ElementOfSeq, LlmGatewayConstants
<1>1. T \in SUBSET Nat /\ T # {}
  <2>1. Len(stamps) \in T
    BY <1>0
  <2>2. QED
    BY <1>0, <2>1
<1>2. PICK m \in T : \A n \in T : m <= n
  <2> HIDE DEF T
  <2>1. QED
    BY <1>1, LeastNat
<1>3. ASSUME NEW i \in 1 .. m PROVE clock - stamps[i] >= Window
  <2>1. i - 1 \in 0 .. Len(stamps) /\ i - 1 < m /\ i - 1 < Len(stamps) /\ (i - 1) + 1 = i
    BY <1>0, <1>2
  <2>2. i - 1 \notin T
    <3>1. m \in Nat /\ i - 1 \in Nat
      BY <1>1, <1>2, <2>1
    <3> HIDE DEF T
    <3>2. QED
      BY <1>2, <2>1, <3>1
  <2>3. ~(clock - stamps[i] < Window)
    BY <2>1, <2>2
  <2>4. i \in 1 .. Len(stamps)
    BY <1>0, <1>2
  <2>5. QED
    BY <1>0, <2>3, <2>4
<1>4. m \in 0 .. Len(stamps) /\ Good(m)
  BY <1>2, <1>3
<1>5. PICK gone \in 0 .. Len(stamps) : Good(gone) /\ Live = SubSeq(stamps, gone + 1, Len(stamps))
  <2>1. Live = SubSeq(stamps, (CHOOSE n \in 0 .. Len(stamps) : Good(n)) + 1, Len(stamps))
    BY DEF Live
  <2> HIDE DEF Good
  <2>2. QED
    BY <1>4, <2>1
<1>6. /\ Live \in Seq(Nat) /\ Len(Live) = Len(stamps) - gone
      /\ \A i \in 1 .. Len(Live) : Live[i] = stamps[gone + i]
  <2>1. PICK a \in 1 .. Len(stamps) + 1 : a = gone + 1
    BY <1>0
  <2>2. CASE gone = Len(stamps)
    <3>1. Live = << >>
      BY <1>0, <1>5, <2>2, SubSeqEmpty
    <3>2. QED
      BY <1>0, <2>2, <3>1
  <2>3. CASE gone < Len(stamps)
    <3>1. a \in 1 .. Len(stamps) /\ Len(stamps) \in 1 .. Len(stamps)
      BY <1>0, <2>1, <2>3
    <3>2. /\ SubSeq(stamps, a, Len(stamps)) \in Seq(Nat)
          /\ Len(SubSeq(stamps, a, Len(stamps))) = IF a <= Len(stamps) THEN Len(stamps) - a + 1 ELSE 0
          /\ \A i \in 1 .. Len(stamps) - a + 1 : SubSeq(stamps, a, Len(stamps))[i] = stamps[a + i - 1]
      BY <1>0, <2>1, <3>1, SubSeqProperties
    <3>3. Live = SubSeq(stamps, a, Len(stamps))
      BY <1>5, <2>1
    <3>4. Len(Live) = Len(stamps) - gone /\ Len(stamps) - a + 1 = Len(stamps) - gone
      BY <1>0, <2>1, <2>3, <3>2, <3>3
    <3>5. \A i \in 1 .. Len(Live) : a + i - 1 = gone + i
      BY <1>0, <2>1, <3>4
    <3>6. QED
      BY <3>2, <3>3, <3>4, <3>5
  <2>4. QED
    BY <1>0, <2>2, <2>3
<1>7. QED
  BY <1>5, <1>6

-----------------------------------------------------------------------------
(* Ends of sequences. *)
LEMMA SuffixMeans ==
  ASSUME NEW S, NEW s \in Seq(S), NEW t \in Seq(S)
  PROVE  IsSuffix(s, t) <=> /\ Len(s) <= Len(t)
                            /\ \A i \in 1 .. Len(s) : s[(Len(s) - i) + 1] = t[(Len(t) - i) + 1]
<1> DEFINE m == Len(s)
           n == Len(t)
           R == Reverse(s)
           Q == Reverse(t)
<1>1. m \in Nat /\ n \in Nat
  BY LenProperties
<1>2. /\ R \in Seq(S) /\ Len(R) = m /\ (\A i \in 1 .. m : R[i] = s[(m - i) + 1])
      /\ Q \in Seq(S) /\ Len(Q) = n /\ (\A i \in 1 .. n : Q[i] = t[(n - i) + 1])
  <2>1. R = [i \in 1 .. m |-> s[(m - i) + 1]] /\ Q = [i \in 1 .. n |-> t[(n - i) + 1]]
    BY DEF Reverse
  <2>2. (\A i \in 1 .. m : s[(m - i) + 1] \in S) /\ (\A i \in 1 .. n : t[(n - i) + 1] \in S)
    <3>1. (\A i \in 1 .. m : s[i] \in S) /\ (\A i \in 1 .. n : t[i] \in S)
      BY ElementOfSeq
    <3>2. (\A i \in 1 .. m : (m - i) + 1 \in 1 .. m) /\ (\A i \in 1 .. n : (n - i) + 1 \in 1 .. n)
      BY <1>1
    <3> HIDE DEF m, n
    <3>3. QED
      BY <3>1, <3>2
  <2> HIDE DEF m, n, R, Q
  <2>3. R \in [1 .. m -> S] /\ Q \in [1 .. n -> S]
    BY <2>1, <2>2
  <2>4. R \in Seq(S) /\ Q \in Seq(S) /\ Len(R) = m /\ Len(Q) = n
    BY <1>1, <2>3, SeqDef, LenProperties
  <2>5. QED
    BY <2>1, <2>4
<1>3. IsSuffix(s, t) <=> m <= n /\ SubSeq(R, 1, m) = SubSeq(Q, 1, m)
  BY <1>2 DEF IsSuffix, IsPrefix
<1> HIDE DEF m, n, R, Q
<1>4. SubSeq(R, 1, m) = R
  BY <1>2, SubSeqFull
<1>5. CASE m <= n
  <2>1. CASE m = 0
    <3>1. SubSeq(Q, 1, m) = << >> /\ R = << >>
      BY <1>1, <1>2, <2>1, EmptySeq, SubSeqEmpty
    <3>2. QED
      BY <1>3, <1>4, <1>5, <2>1, <3>1 DEF m, n
  <2>2. CASE m # 0
    <3>1. SubSeq(Q, 1, m) \in Seq(S) /\ Len(SubSeq(Q, 1, m)) = m /\ \A i \in 1 .. m : SubSeq(Q, 1, m)[i] = Q[i]
      <4>1. 1 \in 1 .. n /\ m \in 1 .. n /\ 1 <= m
        BY <1>1, <1>5, <2>2
      <4>2. /\ SubSeq(Q, 1, m) \in Seq(S)
            /\ Len(SubSeq(Q, 1, m)) = IF 1 <= m THEN m - 1 + 1 ELSE 0
            /\ \A i \in 1 .. m - 1 + 1 : SubSeq(Q, 1, m)[i] = Q[1 + i - 1]
        BY <1>2, <4>1, SubSeqProperties
      <4>3. m - 1 + 1 = m /\ \A i \in 1 .. m : 1 + i - 1 = i
        BY <1>1
      <4>4. QED
        BY <4>1, <4>2, <4>3
    <3>2. (\A i \in 1 .. m : R[i] = Q[i]) => R = SubSeq(Q, 1, m)
      <4>1. SUFFICES ASSUME \A i \in 1 .. m : R[i] = Q[i] PROVE R = SubSeq(Q, 1, m)
        OBVIOUS
      <4>2. QED
        BY <1>2, <3>1, <4>1, SeqEqual
    <3>3. \A i \in 1 .. m : R[i] = s[(m - i) + 1] /\ Q[i] = t[(n - i) + 1]
      BY <1>1, <1>2, <1>5
    <3>4. R = SubSeq(Q, 1, m) <=> \A i \in 1 .. m : s[(m - i) + 1] = t[(n - i) + 1]
      BY <3>1, <3>2, <3>3
    <3>5. QED
      BY <1>3, <1>4, <1>5, <3>4 DEF m, n
  <2>3. QED
    BY <2>1, <2>2
<1>6. QED
  BY <1>3, <1>5 DEF m, n

LEMMA SuffixGrows ==
  ASSUME NEW S, NEW s \in Seq(S), NEW t \in Seq(S), NEW d \in S
  PROVE  /\ IsSuffix(<< >>, t) /\ IsSuffix(s, s)
         /\ IsSuffix(s, t) => IsSuffix(Append(s, d), Append(t, d))
<1>1. << >> \in Seq(S) /\ Len(<< >>) = 0 /\ Len(s) \in Nat /\ Len(t) \in Nat
  BY LenProperties
<1>2. IsSuffix(<< >>, t)
  <2>1. PICK e \in Seq(S) : e = << >> /\ Len(e) = 0
    BY <1>1
  <2>2. IsSuffix(e, t) <=> /\ Len(e) <= Len(t)
                           /\ \A i \in 1 .. Len(e) : e[(Len(e) - i) + 1] = t[(Len(t) - i) + 1]
    BY SuffixMeans
  <2>3. QED
    BY <1>1, <2>1, <2>2
<1>3. IsSuffix(s, s)
  BY <1>1, SuffixMeans
<1>4. ASSUME IsSuffix(s, t) PROVE IsSuffix(Append(s, d), Append(t, d))
  <2>1. /\ Append(s, d) \in Seq(S) /\ Len(Append(s, d)) = Len(s) + 1
         /\ Append(s, d)[Len(s) + 1] = d /\ \A i \in 1 .. Len(s) : Append(s, d)[i] = s[i]
    BY AppendProperties
  <2>2. /\ Append(t, d) \in Seq(S) /\ Len(Append(t, d)) = Len(t) + 1
         /\ Append(t, d)[Len(t) + 1] = d /\ \A i \in 1 .. Len(t) : Append(t, d)[i] = t[i]
    BY AppendProperties
  <2>3. PICK u \in Seq(S) : u = Append(s, d)
    BY <2>1
  <2>4. PICK v \in Seq(S) : v = Append(t, d)
    BY <2>2
  <2>5. PICK m \in Nat : m = Len(s)
    BY <1>1
  <2>6. PICK n \in Nat : n = Len(t)
    BY <1>1
  <2>7. Len(u) = m + 1 /\ u[m + 1] = d /\ \A i \in 1 .. m : u[i] = s[i]
    BY <2>1, <2>3, <2>5
  <2>8. Len(v) = n + 1 /\ v[n + 1] = d /\ \A i \in 1 .. n : v[i] = t[i]
    BY <2>2, <2>4, <2>6
  <2>9. /\ u = Append(s, d) /\ v = Append(t, d)
        /\ Len(u) = m + 1 /\ Len(v) = n + 1 /\ u[m + 1] = d /\ v[n + 1] = d
        /\ \A i \in 1 .. m : u[i] = s[i]
        /\ \A i \in 1 .. n : v[i] = t[i]
    BY <2>3, <2>4, <2>7, <2>8
  <2>10. m <= n /\ \A i \in 1 .. m : s[(m - i) + 1] = t[(n - i) + 1]
    <3>1. /\ Len(s) <= Len(t)
          /\ \A i \in 1 .. Len(s) : s[(Len(s) - i) + 1] = t[(Len(t) - i) + 1]
      BY <1>4, SuffixMeans
    <3>2. QED
      BY <2>5, <2>6, <3>1
  <2>11. ASSUME NEW i \in 1 .. m + 1 PROVE u[((m + 1) - i) + 1] = v[((n + 1) - i) + 1]
    <3>1. CASE i = 1
      <4>1. ((m + 1) - i) + 1 = m + 1 /\ ((n + 1) - i) + 1 = n + 1
        BY <3>1
      <4>2. QED
        BY <2>9, <4>1
    <3>2. CASE i # 1
      <4>1. PICK j \in 1 .. m : j = i - 1
        BY <3>2
      <4>2. PICK a \in 1 .. m, b \in 1 .. n : a = (m - j) + 1 /\ b = (n - j) + 1
        BY <2>10
      <4>3. ((m + 1) - i) + 1 = a /\ ((n + 1) - i) + 1 = b
        BY <4>1, <4>2
      <4>4. s[a] = t[b]
        BY <2>10, <4>2
      <4>5. QED
        BY <2>9, <4>3, <4>4
    <3>3. QED
      BY <3>1, <3>2
  <2>12. Len(u) <= Len(v)
    BY <2>9, <2>10
  <2>13. \A i \in 1 .. Len(u) : u[(Len(u) - i) + 1] = v[(Len(v) - i) + 1]
    BY <2>9, <2>11
  <2>14. IsSuffix(u, v)
    BY <2>12, <2>13, SuffixMeans
  <2>15. QED
    BY <2>9, <2>14
<1>5. QED
  BY <1>2, <1>3, <1>4

-----------------------------------------------------------------------------
(* The steps of a call. *)
LEMMA CallBecomes ==
  ASSUME GatewayInv, NEW c \in Call, NEW r \in CallRow, call' = [call EXCEPT ![c] = r],
         clock' \in Nat, stamps' \in Seq(Nat), started' \in Seq(Nat),
         cached' \in [LlmRequest -> Seq(TurnRow)], TurnsAreGiven', QueueIsRecent', RateIsKept',
         given \subseteq given', CallFacts(r)'
  PROVE  GatewayInv'
<1>1. call \in [Call -> CallRow]
  BY DEF GatewayInv, GatewayTypes
<1>2. call' \in [Call -> CallRow] /\ call'[c] = r /\ \A d \in Call \ {c} : call'[d] = call[d]
  BY <1>1
<1>3. ASSUME NEW d \in Call PROVE CallFacts(call[d])' 
  <2>1. CASE d = c
    BY <1>2, <2>1 DEF CallFacts
  <2>2. CASE d # c
    <3>1. CallFacts(call[d]) /\ call'[d] = call[d]
      BY <1>2, <2>2 DEF GatewayInv
    <3>2. QED
      BY <3>1 DEF CallFacts, OfProvider
  <2>3. QED
    BY <2>1, <2>2
<1>4. QED
  BY <1>2, <1>3 DEF GatewayInv, GatewayTypes

(* A row of a call, and the row a call that is over leaves.                *)
LEMMA CallFields ==
  ASSUME GatewayInv, NEW c \in Call
  PROVE  /\ call[c] \in CallRow /\ CallFacts(call[c]) /\ call[c].request \in LlmRequest
         /\ call[c].partial \in Seq(TurnRow) /\ call[c].shown \in Seq(TurnRow)
         /\ call[c].turn \in Seq(TurnRow) /\ call[c].provider \in Nat
         /\ NewCall.request \in LlmRequest
<1>1. call[c] \in CallRow
  BY DEF GatewayInv, GatewayTypes
<1>2. (CHOOSE r \in LlmRequest : TRUE) \in LlmRequest
  BY <1>1 DEF CallRow
<1>3. NewCall.request = CHOOSE r \in LlmRequest : TRUE
  BY DEF NewCall
<1>4. QED
  BY <1>1, <1>2, <1>3 DEF CallRow, GatewayInv

Moved(r, stage, wake, since) == [r EXCEPT !.at = stage, !.wake = wake, !.since = since]
Found(r, hit) == [r EXCEPT !.at = "hit", !.shown = hit, !.turn = hit]
Said(r, provider, partial, shown) ==
  [r EXCEPT !.provider = provider, !.partial = partial, !.shown = shown]
Rested(stage, request, turn, shown) ==
  [NewCall EXCEPT !.at = stage, !.request = request, !.turn = turn, !.shown = shown]

LEMMA MovedFields ==
  ASSUME NEW r \in CallRow, NEW stage \in CallStage, NEW wake \in Int, NEW since \in Int,
         NEW moved, moved = Moved(r, stage, wake, since)
  PROVE  /\ moved \in CallRow /\ moved.at = stage /\ moved.request = r.request
         /\ moved.partial = r.partial /\ moved.shown = r.shown /\ moved.provider = r.provider
BY DEF CallRow, Moved

LEMMA FoundFields ==
  ASSUME NEW r \in CallRow, NEW hit \in Seq(TurnRow), NEW found, found = Found(r, hit)
  PROVE  /\ found \in CallRow /\ found.at = "hit" /\ found.request = r.request
         /\ found.turn = hit /\ found.shown = hit
BY DEF CallRow, CallStage, Found

LEMMA SaidFields ==
  ASSUME NEW r \in CallRow, r.at = "calling", NEW provider \in Nat, NEW partial \in Seq(TurnRow),
         NEW shown \in Seq(TurnRow), NEW said, said = Said(r, provider, partial, shown)
  PROVE  /\ said \in CallRow /\ said.at = "calling"
         /\ said.partial = partial /\ said.shown = shown /\ said.provider = provider
BY DEF CallRow, Said

LEMMA RestedFields ==
  ASSUME NEW stage \in CallStage, NEW request \in LlmRequest, NEW turn \in Seq(TurnRow),
         NEW shown \in Seq(TurnRow), NEW r, r = Rested(stage, request, turn, shown)
  PROVE  /\ r \in CallRow /\ r.at = stage /\ r.request = request /\ r.turn = turn /\ r.shown = shown
         /\ r.partial = << >>
<1>1. << >> \in Seq(TurnRow) /\ 0 \in Int /\ 1 \in Nat
  OBVIOUS
<1>2. QED
  BY <1>1 DEF CallRow, NewCall, Rested

Renamed(r, stage, request) == [r EXCEPT !.at = stage, !.request = request]

LEMMA RenamedFields ==
  ASSUME NEW r \in CallRow, NEW stage \in CallStage, NEW request \in LlmRequest,
         NEW named, named = Renamed(r, stage, request)
  PROVE  /\ named \in CallRow /\ named.at = stage /\ named.request = request
         /\ named.partial = r.partial
BY DEF CallRow, Renamed

LEMMA NewIsRow ==
  ASSUME NEW request \in LlmRequest
  PROVE  NewCall \in CallRow /\ NewCall.at = "new" /\ NewCall.partial = << >>
<1>1. NoTurn \in Seq(TurnRow) /\ << >> \in Seq(TurnRow)
  BY DEF NoTurn, TurnRow
<1>2. "new" \in CallStage /\ (CHOOSE q \in LlmRequest : TRUE) \in LlmRequest
  BY DEF CallStage
<1>3. QED
  BY <1>1, <1>2 DEF NewCall, CallRow

LEMMA NewFields ==
  ASSUME NEW stage \in CallStage, NEW request \in LlmRequest
  PROVE  LET r == [NewCall EXCEPT !.at = stage, !.request = request]
         IN  r \in CallRow /\ r.at = stage /\ r.request = request /\ r.partial = << >>
<1>1. NewCall \in CallRow /\ NewCall.partial = << >>
  BY NewIsRow
<1>2. PICK r : r = Renamed(NewCall, stage, request)
  OBVIOUS
<1>3. r \in CallRow /\ r.at = stage /\ r.request = request /\ r.partial = << >>
  BY <1>1, <1>2, RenamedFields
<1>4. QED
  BY <1>2, <1>3 DEF Renamed

(* A call looks at the cache.                                              *)
LEMMA LookUpKeepsGw ==
  ASSUME GatewayInv, NEW c \in Call, LookUpTurn(c)
  PROVE  GatewayInv'
<1> DEFINE q == call[c].request
           hit == cached[q]
<1>1. call[c] \in CallRow /\ q \in LlmRequest /\ call[c].at = "new" /\ call[c].partial = << >>
      /\ clock \in Nat /\ hit \in Seq(TurnRow)
  BY CallFields DEF LookUpTurn, CallFacts, GatewayInv, GatewayTypes
<1>2. UNCHANGED <<clock, stamps, cached, given, started>>
  BY DEF LookUpTurn
<1>3. /\ clock' \in Nat /\ stamps' \in Seq(Nat) /\ started' \in Seq(Nat)
      /\ cached' \in [LlmRequest -> Seq(TurnRow)]
      /\ TurnsAreGiven' /\ QueueIsRecent' /\ RateIsKept' /\ given \subseteq given'
  BY <1>2 DEF GatewayInv, GatewayTypes, TurnsAreGiven, QueueIsRecent, RateIsKept, WholeTurn
<1>4. CASE /\ hit # NoTurn
           /\ call' = [call EXCEPT ![c].at = "hit", ![c].shown = hit, ![c].turn = hit]
  <2>1. PICK r : r = Found(call[c], hit)
    OBVIOUS
  <2>2. /\ r \in CallRow /\ r.at = "hit" /\ r.request = q /\ r.turn = hit /\ r.shown = hit
        /\ call' = [call EXCEPT ![c] = r]
    <3>1. call' = [call EXCEPT ![c] = r]
      BY <1>4, <2>1 DEF GatewayInv, GatewayTypes, Found
    <3> HIDE DEF hit
    <3>2. QED
      BY <1>1, <2>1, <3>1, FoundFields
  <2>3. <<q, hit>> \in given
    BY <1>1, <1>4 DEF GatewayInv, TurnsAreGiven
  <2>4. IsSuffix(hit, hit)
    <3>1. PICK d \in TurnRow : d = <<0, 0>>
      BY DEF TurnRow
    <3>2. QED
      BY <1>1, <3>1, SuffixGrows
  <2>5. CallFacts(r)'
    BY <1>2, <2>2, <2>3, <2>4 DEF CallFacts
  <2>6. QED
    BY <1>3, <2>2, <2>5, CallBecomes
<1>5. CASE call' = [call EXCEPT ![c].at = "acquiring", ![c].wake = clock, ![c].since = clock]
  <2>1. PICK r : r = Moved(call[c], "acquiring", clock, clock)
    OBVIOUS
  <2>2. /\ r \in CallRow /\ r.at = "acquiring" /\ r.partial = << >>
        /\ call' = [call EXCEPT ![c] = r]
    <3>1. call' = [call EXCEPT ![c] = r]
      BY <1>5, <2>1 DEF GatewayInv, GatewayTypes, Moved
    <3>2. "acquiring" \in CallStage /\ clock \in Int
      BY <1>1 DEF CallStage
    <3>3. QED
      BY <1>1, <2>1, <3>1, <3>2, MovedFields
  <2>3. CallFacts(r)'
    BY <2>2 DEF CallFacts
  <2>4. QED
    BY <1>3, <2>2, <2>3, CallBecomes
<1>6. QED
  BY <1>4, <1>5 DEF LookUpTurn, StoredTurn, CacheKey

(* What leaves the queue has left the window, and who finds less than the  *)
(* rate in it is a rate's length after a call that did.                    *)
LEMMA PollKeepsQueue ==
  ASSUME GatewayInv, clock' = clock,
         \/ /\ Len(Live) < Rate /\ stamps' = Append(Live, clock) /\ started' = Append(started, clock)
         \/ /\ stamps' = Live /\ started' = started
  PROVE  stamps' \in Seq(Nat) /\ started' \in Seq(Nat) /\ QueueIsRecent' /\ RateIsKept'
<1>1. clock \in Nat /\ stamps \in Seq(Nat) /\ started \in Seq(Nat) /\ Window \in Nat /\ Rate \in Nat \ {0}
  BY LlmGatewayConstants DEF GatewayInv, GatewayTypes
<1>2. PICK m \in Nat, s \in Nat : m = Len(started) /\ s = Len(stamps) /\ DOMAIN started = 1 .. m
  BY <1>1, LenProperties
<1>3. PICK k \in Nat : /\ m = k + s
                       /\ \A i \in 1 .. s : stamps[i] = started[k + i]
                       /\ \A i \in 1 .. k : clock - started[i] >= Window
  BY <1>2 DEF GatewayInv, QueueIsRecent
<1>4. PICK n \in 0 .. s : /\ \A i \in 1 .. n : clock - stamps[i] >= Window
                          /\ Live \in Seq(Nat) /\ Len(Live) = s - n
                          /\ \A i \in 1 .. Len(Live) : Live[i] = stamps[n + i]
  BY <1>1, <1>2, LiveIsRest
<1>5. PICK j \in Nat, l \in Nat : j = k + n /\ l = Len(Live) /\ l = s - n /\ m = j + l
  BY <1>3, <1>4
<1>6. \A i \in 1 .. l : Live[i] = started[j + i]
  <2>1. SUFFICES ASSUME NEW i \in 1 .. l PROVE Live[i] = started[j + i]
    OBVIOUS
  <2>2. PICK h \in 1 .. s : h = n + i
    BY <1>5
  <2>3. k + h = j + i
    BY <1>5, <2>2
  <2>4. Live[i] = stamps[h] /\ stamps[h] = started[k + h]
    BY <1>3, <1>4, <1>5, <2>2
  <2>5. QED
    BY <2>3, <2>4
<1>7. \A i \in 1 .. j : clock - started[i] >= Window
  <2>1. SUFFICES ASSUME NEW i \in 1 .. j, i \notin 1 .. k PROVE clock - started[i] >= Window
    BY <1>3
  <2>2. PICK h \in 1 .. n : i = k + h
    <3>1. i - k \in 1 .. n /\ i = k + (i - k)
      BY <1>5, <2>1
    <3>2. QED
      BY <3>1
  <2>3. h \in 1 .. s
    BY <2>2
  <2>4. stamps[h] = started[i] /\ clock - stamps[h] >= Window
    BY <1>3, <1>4, <2>2, <2>3
  <2>5. QED
    BY <2>4
<1>8. CASE stamps' = Live /\ started' = started
  <2>1. QueueIsRecent'
    BY <1>2, <1>5, <1>6, <1>7, <1>8 DEF QueueIsRecent
  <2>2. RateIsKept'
    BY <1>8 DEF GatewayInv, RateIsKept
  <2>3. QED
    BY <1>1, <1>4, <1>8, <2>1, <2>2
<1>9. CASE l < Rate /\ stamps' = Append(Live, clock) /\ started' = Append(started, clock)
  <2>1. /\ started' \in Seq(Nat) /\ Len(started') = m + 1 /\ DOMAIN started' = 1 .. m + 1
        /\ started'[m + 1] = clock /\ \A i \in 1 .. m : started'[i] = started[i]
    <3>1. /\ Append(started, clock) \in Seq(Nat) /\ Len(Append(started, clock)) = m + 1
          /\ Append(started, clock)[m + 1] = clock /\ \A i \in 1 .. m : Append(started, clock)[i] = started[i]
      BY <1>1, <1>2, AppendProperties
    <3>2. DOMAIN Append(started, clock) = 1 .. m + 1
      BY <3>1, LenProperties
    <3>3. QED
      BY <1>9, <3>1, <3>2
  <2>2. /\ stamps' \in Seq(Nat) /\ Len(stamps') = l + 1
        /\ stamps'[l + 1] = clock /\ \A i \in 1 .. l : stamps'[i] = Live[i]
    <3>1. /\ Append(Live, clock) \in Seq(Nat) /\ Len(Append(Live, clock)) = l + 1
          /\ Append(Live, clock)[l + 1] = clock /\ \A i \in 1 .. l : Append(Live, clock)[i] = Live[i]
      BY <1>1, <1>4, <1>5, AppendProperties
    <3>2. QED
      BY <1>9, <3>1
  <2>3. ASSUME NEW i \in 1 .. l + 1 PROVE stamps'[i] = started'[j + i]
    <3>1. CASE i = l + 1
      <4>1. j + i = m + 1
        BY <1>5, <3>1
      <4>2. QED
        BY <2>1, <2>2, <3>1, <4>1
    <3>2. CASE i # l + 1
      <4>1. i \in 1 .. l /\ j + i \in 1 .. m
        BY <1>5, <3>2
      <4>2. QED
        BY <1>6, <2>1, <2>2, <4>1
    <3>3. QED
      BY <3>1, <3>2
  <2>4. \A i \in 1 .. j : i \in 1 .. m
    BY <1>5
  <2>5. \A i \in 1 .. j : clock' - started'[i] >= Window
    BY <1>7, <2>1, <2>4
  <2>6. Len(started') = j + Len(stamps')
    BY <1>5, <2>1, <2>2
  <2>7. QueueIsRecent'
    BY <2>2, <2>3, <2>5, <2>6 DEF QueueIsRecent
  <2>8. ASSUME NEW i \in 1 .. m + 1, i + Rate \in 1 .. m + 1
        PROVE  started'[i + Rate] - started'[i] >= Window
    <3>1. PICK h \in 1 .. m + 1 : h = i + Rate
      BY <2>8
    <3>2. i \in 1 .. m
      BY <1>1, <2>8
    <3>3. CASE h = m + 1
      <4>1. i \in 1 .. j
        BY <1>1, <1>5, <1>9, <3>1, <3>2, <3>3
      <4>2. QED
        BY <1>7, <2>1, <3>1, <3>2, <3>3, <4>1
    <3>4. CASE h # m + 1
      <4>1. h \in 1 .. m
        BY <3>4
      <4>2. started[h] - started[i] >= Window
        BY <1>2, <3>1, <3>2, <4>1 DEF GatewayInv, RateIsKept
      <4>3. QED
        BY <2>1, <3>1, <3>2, <4>1, <4>2
    <3>5. QED
      BY <3>3, <3>4
  <2>9. RateIsKept'
    BY <2>1, <2>8 DEF RateIsKept
  <2>10. QED
    BY <2>1, <2>2, <2>7, <2>9
<1>10. QED
  BY <1>5, <1>8, <1>9

LEMMA PollKeepsGw ==
  ASSUME GatewayInv, NEW c \in Call, Poll(c)
  PROVE  GatewayInv'
<1>1. /\ call[c] \in CallRow /\ call[c].at = "acquiring" /\ call[c].partial = << >>
      /\ call[c].shown \in Seq(TurnRow) /\ clock \in Nat
      /\ NewCall.request \in LlmRequest
  BY CallFields DEF Poll, CallFacts, GatewayInv, GatewayTypes
<1>2. UNCHANGED <<clock, cached, telemetry, given>>
  BY DEF Poll
<1>3. \/ /\ Len(Live) < Rate /\ stamps' = Append(Live, clock) /\ started' = Append(started, clock)
      \/ /\ stamps' = Live /\ started' = started
  BY DEF Poll
<1>4. stamps' \in Seq(Nat) /\ started' \in Seq(Nat) /\ QueueIsRecent' /\ RateIsKept'
  BY <1>2, <1>3, PollKeepsQueue
<1>5. /\ clock' \in Nat /\ cached' \in [LlmRequest -> Seq(TurnRow)]
      /\ TurnsAreGiven' /\ given \subseteq given'
  BY <1>2 DEF GatewayInv, GatewayTypes, TurnsAreGiven, WholeTurn
<1>6. CASE call' = [call EXCEPT ![c].at = "calling", ![c].wake = 0, ![c].since = 0]
  <2>1. PICK r : r = Moved(call[c], "calling", 0, 0)
    OBVIOUS
  <2>2. /\ r \in CallRow /\ r.at = "calling" /\ r.partial = << >> /\ r.shown = call[c].shown
        /\ call' = [call EXCEPT ![c] = r]
    <3>1. call' = [call EXCEPT ![c] = r]
      BY <1>6, <2>1 DEF GatewayInv, GatewayTypes, Moved
    <3>2. "calling" \in CallStage /\ 0 \in Int
      BY DEF CallStage
    <3>3. QED
      BY <1>1, <2>1, <3>1, <3>2, MovedFields
  <2>3. IsSuffix(<< >>, call[c].shown)
    <3>1. PICK d \in TurnRow : d = <<0, 0>>
      BY DEF TurnRow
    <3>2. << >> \in Seq(TurnRow)
      OBVIOUS
    <3>3. QED
      BY <1>1, <3>1, <3>2, SuffixGrows
  <2>4. CallFacts(r)'
    <3>1. IsSuffix(r.partial, r.shown)
      BY <2>2, <2>3
    <3>2. OfProvider(r.partial, r.provider)
      <4>1. DOMAIN r.partial = {}
        BY <2>2
      <4>2. QED
        BY <4>1 DEF OfProvider
    <3>3. QED
      BY <2>2, <3>1, <3>2 DEF CallFacts
  <2>5. QED
    BY <1>4, <1>5, <2>2, <2>4, CallBecomes
<1>7. CASE call' = [call EXCEPT ![c] = [NewCall EXCEPT !.at = "limited"]]
  <2>1. PICK r : r = [NewCall EXCEPT !.at = "limited"]
    OBVIOUS
  <2>2. r \in CallRow /\ r.at = "limited"
    <3>1. PICK q \in LlmRequest : q = NewCall.request
      BY <1>1
    <3>2. r = [NewCall EXCEPT !.at = "limited", !.request = q] /\ "limited" \in CallStage
      BY <2>1, <3>1 DEF NewCall, CallStage
    <3>3. QED
      BY <3>2, NewFields
  <2>3. CallFacts(r)'
    BY <2>2 DEF CallFacts
  <2>4. QED
    BY <1>4, <1>5, <1>7, <2>1, <2>2, <2>3, CallBecomes
<1>8. CASE /\ Len(Live) >= Rate
           /\ call' = [call EXCEPT ![c].wake = clock + (Window - (clock - Head(Live)))]
  <2>1. PICK wake : wake = clock + (Window - (clock - Head(Live)))
    OBVIOUS
  <2>2. wake \in Int
    <3>1. Live \in Seq(Nat) /\ Window \in Nat /\ Rate \in Nat \ {0}
      BY LiveIsRest, LlmGatewayConstants DEF GatewayInv, GatewayTypes
    <3>2. Len(Live) \in Nat
      BY <3>1, LenProperties
    <3>3. Live # << >>
      BY <1>8, <3>1, <3>2
    <3>4. PICK h \in Nat : h = Head(Live)
      BY <3>1, <3>3, HeadTailProperties
    <3>5. clock + (Window - (clock - h)) \in Int
      BY <1>1, <3>1
    <3>6. QED
      BY <2>1, <3>4, <3>5
  <2>3. PICK r : r = [call[c] EXCEPT !.wake = wake]
    OBVIOUS
  <2>4. r \in CallRow /\ r.at = "acquiring" /\ r.partial = << >>
    BY <1>1, <2>2, <2>3 DEF CallRow
  <2>5. call' = [call EXCEPT ![c] = r]
    BY <1>8, <2>1, <2>3 DEF GatewayInv, GatewayTypes
  <2>6. CallFacts(r)'
    BY <2>4 DEF CallFacts
  <2>7. QED
    BY <1>4, <1>5, <2>4, <2>5, <2>6, CallBecomes
<1>9. QED
  BY <1>6, <1>7, <1>8 DEF Poll

(* What a provider says is appended to its turn and to what is shown.      *)
LEMMA SayKeepsGw ==
  ASSUME GatewayInv, NEW c \in Call, Delta(c)
  PROVE  GatewayInv'
<1> DEFINE b == call[c]
           d == <<b.provider, Len(b.partial) + 1>>
           words == Append(b.partial, d)
           told == Append(b.shown, d)
<1>1. /\ b \in CallRow /\ b.at = "calling" /\ b.partial \in Seq(TurnRow) /\ b.shown \in Seq(TurnRow)
      /\ b.provider \in Nat /\ OfProvider(b.partial, b.provider) /\ IsSuffix(b.partial, b.shown)
  BY CallFields DEF Delta, CallFacts
<1>2. UNCHANGED <<clock, stamps, cached, telemetry, given, started>>
  BY DEF Delta
<1>3. /\ clock' \in Nat /\ stamps' \in Seq(Nat) /\ started' \in Seq(Nat)
      /\ cached' \in [LlmRequest -> Seq(TurnRow)]
      /\ TurnsAreGiven' /\ QueueIsRecent' /\ RateIsKept' /\ given \subseteq given'
  BY <1>2 DEF GatewayInv, GatewayTypes, TurnsAreGiven, QueueIsRecent, RateIsKept, WholeTurn
<1>4. PICK n \in Nat : n = Len(b.partial)
  BY <1>1, LenProperties
<1>5. d \in TurnRow /\ d = <<b.provider, n + 1>>
  BY <1>1, <1>4 DEF TurnRow
<1>6. call' = [call EXCEPT ![c].partial = words, ![c].shown = told]
  BY DEF Delta, GatewayInv, GatewayTypes
<1> HIDE DEF d
<1>7. /\ words \in Seq(TurnRow) /\ told \in Seq(TurnRow) /\ IsSuffix(words, told)
      /\ DOMAIN words = 1 .. n + 1 /\ words[n + 1] = d
      /\ \A i \in 1 .. n : words[i] = b.partial[i]
  <2>1. /\ words \in Seq(TurnRow) /\ Len(words) = n + 1 /\ words[n + 1] = d
        /\ \A i \in 1 .. n : words[i] = b.partial[i]
    BY <1>1, <1>4, <1>5, AppendProperties
  <2>2. told \in Seq(TurnRow)
    BY <1>1, <1>5, AppendProperties
  <2>3. IsSuffix(words, told)
    BY <1>1, <1>5, SuffixGrows
  <2>4. DOMAIN words = 1 .. n + 1
    BY <2>1, LenProperties
  <2>5. QED
    BY <2>1, <2>2, <2>3, <2>4
<1>8. OfProvider(words, b.provider)
  <2>1. \A i \in 1 .. n : b.partial[i] = <<b.provider, i>>
    BY <1>1, <1>4, LenProperties DEF OfProvider
  <2>2. \A i \in 1 .. n + 1 : i \in 1 .. n \/ i = n + 1
    OBVIOUS
  <2> HIDE DEF words
  <2>3. QED
    BY <1>5, <1>7, <2>1, <2>2 DEF OfProvider
<1>9. PICK r : r = Said(b, b.provider, words, told)
  OBVIOUS
<1>10. call' = [call EXCEPT ![c] = r]
  <2> HIDE DEF words, told
  <2>1. Said(b, b.provider, words, told) = [b EXCEPT !.partial = words, !.shown = told]
    BY <1>1 DEF Said, CallRow
  <2>2. QED
    BY <1>6, <1>9, <2>1 DEF GatewayInv, GatewayTypes
<1>11. /\ r \in CallRow /\ r.at = "calling" /\ r.partial = words /\ r.shown = told
       /\ r.provider = b.provider
  <2>1. PICK v \in CallRow, p \in Nat, w \in Seq(TurnRow), t \in Seq(TurnRow) :
          v = b /\ v.at = "calling" /\ p = b.provider /\ w = words /\ t = told /\ r = Said(v, p, w, t)
    BY <1>1, <1>7, <1>9
  <2>2. v \in CallRow /\ v.at = "calling" /\ r = Said(v, p, w, t)
    BY <2>1
  <2>3. r \in CallRow /\ r.at = "calling" /\ r.partial = w /\ r.shown = t /\ r.provider = p
    <3>1. r \in CallRow
      BY <2>2 DEF Said, CallRow
    <3>2. r.at = "calling"
      BY <2>2 DEF Said, CallRow
    <3>3. r.partial = w /\ r.provider = p
      BY <2>2 DEF Said, CallRow
    <3>4. r.shown = t
      BY <2>2 DEF Said, CallRow
    <3>5. QED
      BY <3>1, <3>2, <3>3, <3>4
  <2>4. QED
    BY <1>1, <2>1, <2>3
<1>12. CallFacts(r)'
  <2> HIDE DEF words, told
  <2>1. OfProvider(r.partial, r.provider) /\ IsSuffix(r.partial, r.shown)
    BY <1>7, <1>8, <1>11
  <2>2. QED
    BY <1>11, <2>1 DEF CallFacts
<1>13. QED
  BY <1>3, <1>10, <1>11, <1>12, CallBecomes

(* The next provider begins anew, or the call is over.                     *)
LEMMA FailKeepsGw ==
  ASSUME GatewayInv, NEW c \in Call, ProviderFails(c)
  PROVE  GatewayInv'
<1> DEFINE b == call[c]
<1>1. /\ b \in CallRow /\ b.at = "calling" /\ b.shown \in Seq(TurnRow) /\ b.provider \in Nat
      /\ b.request \in LlmRequest
  BY CallFields DEF ProviderFails
<1>2. UNCHANGED <<clock, stamps, cached, telemetry, given, started>>
  BY DEF ProviderFails
<1>3. /\ clock' \in Nat /\ stamps' \in Seq(Nat) /\ started' \in Seq(Nat)
      /\ cached' \in [LlmRequest -> Seq(TurnRow)]
      /\ TurnsAreGiven' /\ QueueIsRecent' /\ RateIsKept' /\ given \subseteq given'
  BY <1>2 DEF GatewayInv, GatewayTypes, TurnsAreGiven, QueueIsRecent, RateIsKept, WholeTurn
<1>4. << >> \in Seq(TurnRow) /\ NoTurn \in Seq(TurnRow) /\ DOMAIN << >> = {}
  BY DEF NoTurn, TurnRow
<1>5. CASE call' = [call EXCEPT ![c].provider = @ + 1, ![c].partial = << >>]
  <2>1. PICK next \in Nat : next = b.provider + 1
    BY <1>1
  <2>2. PICK r : r = Said(b, next, << >>, b.shown)
    OBVIOUS
  <2>3. call' = [call EXCEPT ![c] = r]
    <3>1. Said(b, next, << >>, b.shown) = [b EXCEPT !.provider = next, !.partial = << >>]
      BY <1>1 DEF Said, CallRow
    <3>2. QED
      BY <1>5, <2>1, <2>2, <3>1 DEF GatewayInv, GatewayTypes
  <2>4. r \in CallRow /\ r.at = "calling" /\ r.partial = << >> /\ r.shown = b.shown
    <3>1. PICK v \in CallRow, e \in Seq(TurnRow), s \in Seq(TurnRow) :
            v = b /\ v.at = "calling" /\ e = << >> /\ s = b.shown /\ r = Said(v, next, e, s)
      BY <1>1, <1>4, <2>2
    <3>2. v \in CallRow /\ v.at = "calling" /\ r = Said(v, next, e, s)
      BY <3>1
    <3>3. r \in CallRow /\ r.at = "calling" /\ r.partial = e /\ r.shown = s
      <4>1. r \in CallRow
        BY <3>2 DEF Said, CallRow
      <4>2. r.at = "calling"
        BY <3>2 DEF Said, CallRow
      <4>3. r.partial = e
        BY <3>2 DEF Said, CallRow
      <4>4. r.shown = s
        BY <3>2 DEF Said, CallRow
      <4>5. QED
        BY <4>1, <4>2, <4>3, <4>4
    <3>4. QED
      BY <1>1, <3>1, <3>3
  <2>5. OfProvider(r.partial, r.provider)
    BY <1>4, <2>4 DEF OfProvider
  <2>6. IsSuffix(r.partial, r.shown)
    <3>1. PICK d \in TurnRow : d = <<0, 0>>
      BY DEF TurnRow
    <3>2. IsSuffix(<< >>, b.shown)
      BY <1>1, <1>4, <3>1, SuffixGrows
    <3>3. QED
      BY <2>4, <3>2
  <2>7. CallFacts(r)'
    BY <2>4, <2>5, <2>6 DEF CallFacts
  <2>8. QED
    BY <1>3, <2>3, <2>4, <2>7, CallBecomes
<1>6. CASE call' = [call EXCEPT ![c] = [NewCall EXCEPT !.at = "failed", !.request = b.request]]
  <2>1. PICK r : r = [NewCall EXCEPT !.at = "failed", !.request = b.request]
    OBVIOUS
  <2>2. r \in CallRow /\ r.at = "failed"
    <3>1. PICK q \in LlmRequest : q = b.request
      BY <1>1
    <3>2. "failed" \in CallStage
      BY DEF CallStage
    <3>3. QED
      BY <2>1, <3>1, <3>2, NewFields
  <2>3. CallFacts(r)'
    BY <2>2 DEF CallFacts
  <2>4. QED
    BY <1>3, <1>6, <2>1, <2>2, <2>3, CallBecomes
<1>7. QED
  BY <1>5, <1>6 DEF ProviderFails

(* The turn is given, and the cache's or not.                              *)
LEMMA EndKeepsGw ==
  ASSUME GatewayInv, NEW c \in Call, StreamEnds(c)
  PROVE  GatewayInv'
<1> DEFINE b == call[c]
<1>1. PICK q \in LlmRequest, turn \in Seq(TurnRow), shown \in Seq(TurnRow), provider \in Nat :
        /\ q = b.request /\ turn = b.partial /\ shown = b.shown /\ provider = b.provider
        /\ OfProvider(turn, provider) /\ IsSuffix(turn, shown)
  BY CallFields DEF StreamEnds, CallFacts
<1>2. PICK r : r = Rested("done", q, turn, shown)
  OBVIOUS
<1>3. /\ given' = given \cup {<<q, turn>>}
      /\ call' = [call EXCEPT ![c] = r]
      /\ cached' = cached \/ cached' = [cached EXCEPT ![q] = turn]
      /\ UNCHANGED <<clock, stamps, started>>
  <2>1. /\ given' = given \cup {<<q, turn>>}
        /\ call' = [call EXCEPT ![c] = [NewCall EXCEPT !.at = "done", !.request = q, !.turn = turn, !.shown = shown]]
        /\ StoreTurn(q, turn) /\ UNCHANGED <<clock, stamps, started>>
    BY <1>1 DEF StreamEnds
  <2>2. cached' = cached \/ cached' = [cached EXCEPT ![q] = turn]
    BY <2>1 DEF StoreTurn, CacheKey
  <2>3. QED
    BY <1>2, <2>1, <2>2 DEF Rested
<1>4. WholeTurn(turn)
  <2>1. ASSUME NEW i \in DOMAIN turn PROVE turn[1] = <<provider, 1>> /\ turn[i] = <<provider, i>>
    <3>1. 1 \in DOMAIN turn
      <4>1. PICK n \in Nat : n = Len(turn) /\ DOMAIN turn = 1 .. n
        BY LenProperties
      <4>2. QED
        BY <2>1, <4>1
    <3>2. QED
      BY <1>1, <2>1, <3>1 DEF OfProvider
  <2>2. QED
    BY <2>1 DEF WholeTurn
<1>5. TurnsAreGiven'
  <2>1. \A g \in given' : WholeTurn(g[2])
    BY <1>3, <1>4 DEF GatewayInv, TurnsAreGiven
  <2>2. ASSUME NEW p \in LlmRequest PROVE cached'[p] = NoTurn \/ <<p, cached'[p]>> \in given'
    <3>1. cached \in [LlmRequest -> Seq(TurnRow)]
      BY DEF GatewayInv, GatewayTypes
    <3>2. cached'[p] = cached[p] \/ (p = q /\ cached'[p] = turn)
      BY <1>3, <3>1
    <3>3. cached[p] = NoTurn \/ <<p, cached[p]>> \in given
      BY DEF GatewayInv, TurnsAreGiven
    <3>4. QED
      BY <1>3, <3>2, <3>3
  <2>3. QED
    BY <2>1, <2>2 DEF TurnsAreGiven, WholeTurn
<1>6. /\ clock' \in Nat /\ stamps' \in Seq(Nat) /\ started' \in Seq(Nat)
      /\ cached' \in [LlmRequest -> Seq(TurnRow)]
      /\ QueueIsRecent' /\ RateIsKept' /\ given \subseteq given'
  <2>1. cached \in [LlmRequest -> Seq(TurnRow)]
    BY DEF GatewayInv, GatewayTypes
  <2>2. cached' \in [LlmRequest -> Seq(TurnRow)]
    BY <1>3, <2>1
  <2>3. QED
    BY <1>3, <2>2 DEF GatewayInv, GatewayTypes, QueueIsRecent, RateIsKept
<1>7. r \in CallRow /\ r.at = "done" /\ r.request = q /\ r.turn = turn /\ r.shown = shown
  <2>1. "done" \in CallStage
    BY DEF CallStage
  <2>2. QED
    BY <1>2, <2>1, RestedFields
<1>8. CallFacts(r)'
  <2>1. <<r.request, r.turn>> \in given' /\ IsSuffix(r.turn, r.shown)
    BY <1>1, <1>3, <1>7
  <2>2. QED
    BY <1>7, <2>1 DEF CallFacts
<1>9. QED
  BY <1>3, <1>5, <1>6, <1>7, <1>8, CallBecomes

LEMMA GatewayStays ==
  ASSUME GatewayInv, clock' \in Nat, clock' >= clock, UNCHANGED <<stamps, cached, call, given, started>>
  PROVE  GatewayInv'
<1>1. GatewayTypes' /\ TurnsAreGiven' /\ RateIsKept'
  BY DEF GatewayInv, GatewayTypes, TurnsAreGiven, RateIsKept, WholeTurn
<1>2. QueueIsRecent'
  <2>1. PICK k \in Nat : /\ Len(started) = k + Len(stamps)
                         /\ \A i \in 1 .. Len(stamps) : stamps[i] = started[k + i]
                         /\ \A i \in 1 .. k : clock - started[i] >= Window
    BY DEF GatewayInv, QueueIsRecent
  <2>2. started \in Seq(Nat) /\ stamps \in Seq(Nat) /\ clock \in Nat /\ Window \in Nat
    BY LlmGatewayConstants DEF GatewayInv, GatewayTypes
  <2>3. Len(stamps) \in Nat /\ \A i \in 1 .. Len(started) : started[i] \in Nat
    BY <2>2, LenProperties, ElementOfSeq
  <2>4. \A i \in 1 .. k : i \in 1 .. Len(started)
    BY <2>1, <2>3
  <2>5. \A i \in 1 .. k : clock' - started[i] >= Window
    BY <2>1, <2>2, <2>3, <2>4
  <2>6. QED
    BY <2>1, <2>5 DEF QueueIsRecent
<1>3. \A c \in Call : CallFacts(call[c])'
  BY DEF GatewayInv, CallFacts, OfProvider
<1>4. QED
  BY <1>1, <1>2, <1>3 DEF GatewayInv

LEMMA GatewayBegins == LlmInit => GatewayInv
<1>1. SUFFICES ASSUME LlmInit PROVE GatewayInv
  OBVIOUS
<1>2. /\ << >> \in Seq(TurnRow) /\ NoTurn \in Seq(TurnRow) /\ << >> \in Seq(Nat) /\ Len(<< >>) = 0
      /\ DOMAIN << >> = {}
  BY DEF NoTurn, TurnRow
<1>3. PICK asked \in [Call -> LlmRequest] : call = [c \in Call |-> [NewCall EXCEPT !.request = asked[c]]]
  BY <1>1 DEF LlmInit
<1>4. ASSUME NEW c \in Call
      PROVE  call[c] \in CallRow /\ call[c].at = "new" /\ call[c].partial = << >>
  <2>1. PICK q \in LlmRequest : q = asked[c]
    OBVIOUS
  <2>2. call[c] = [NewCall EXCEPT !.request = q]
    BY <1>3, <2>1
  <2>3. NewCall \in CallRow /\ NewCall.at = "new" /\ NewCall.partial = << >>
    BY <2>1, NewIsRow
  <2>4. PICK r : r = [NewCall EXCEPT !.request = q]
    OBVIOUS
  <2>5. r \in CallRow /\ r.at = "new" /\ r.partial = << >>
    BY <2>3, <2>4 DEF CallRow
  <2>6. QED
    BY <2>2, <2>4, <2>5
<1>5. call \in [Call -> CallRow]
  BY <1>3, <1>4
<1>6. \A c \in Call : CallFacts(call[c])
  BY <1>4 DEF CallFacts
<1>7. GatewayTypes
  BY <1>1, <1>2, <1>5 DEF LlmInit, GatewayTypes
<1>8. TurnsAreGiven
  BY <1>1 DEF LlmInit, TurnsAreGiven
<1>9. QueueIsRecent
  <2>1. 0 \in Nat /\ Len(started) = 0 + Len(stamps) /\ Len(stamps) = 0
    BY <1>1, <1>2 DEF LlmInit
  <2>2. QED
    BY <2>1 DEF QueueIsRecent
<1>10. RateIsKept
  <2>1. DOMAIN started = {}
    BY <1>1, <1>2 DEF LlmInit
  <2>2. QED
    BY <2>1 DEF RateIsKept
<1>11. QED
  BY <1>6, <1>7, <1>8, <1>9, <1>10 DEF GatewayInv

LEMMA GatewayStands == LlmSpec => []GatewayInv
<1>1. GatewayInv /\ [LlmNext]_llmVars => GatewayInv'
  <2>1. SUFFICES ASSUME GatewayInv, [LlmNext]_llmVars PROVE GatewayInv'
    OBVIOUS
  <2>2. clock \in Nat
    BY <2>1 DEF GatewayInv, GatewayTypes
  <2>3. CASE LlmTick
    BY <2>1, <2>2, <2>3, GatewayStays DEF LlmTick
  <2>4. CASE UNCHANGED llmVars
    BY <2>1, <2>2, <2>4, GatewayStays DEF llmVars
  <2>5. ASSUME NEW c \in Call, LookUpTurn(c) \/ RateLimitedGenerate(c) PROVE GatewayInv'
    BY <2>1, <2>5, LookUpKeepsGw, PollKeepsGw, SayKeepsGw, FailKeepsGw, EndKeepsGw
      DEF RateLimitedGenerate, CallProvider
  <2>6. QED
    BY <2>1, <2>3, <2>4, <2>5 DEF LlmNext
<1>2. QED
  BY <1>1, GatewayBegins, PTL DEF LlmSpec

LEMMA GivenTurnsAreSound == GatewayInv => TurnsAreSound
<1>1. SUFFICES ASSUME GatewayInv PROVE TurnsAreSound
  OBVIOUS
<1>2. ASSUME NEW c \in Call, call[c].at \in {"done", "hit"}
      PROVE  /\ <<call[c].request, call[c].turn>> \in given
             /\ \A i \in DOMAIN call[c].turn : call[c].turn[i] = <<call[c].turn[1][1], i>>
             /\ IsSuffix(call[c].turn, call[c].shown)
  <2>1. <<call[c].request, call[c].turn>> \in given /\ IsSuffix(call[c].turn, call[c].shown)
    BY <1>1, <1>2 DEF GatewayInv, CallFacts
  <2>2. WholeTurn(call[c].turn)
    BY <1>1, <2>1 DEF GatewayInv, TurnsAreGiven
  <2>3. QED
    BY <2>1, <2>2 DEF WholeTurn
<1>3. QED
  BY <1>1, <1>2 DEF TurnsAreSound, GatewayInv, RateIsKept

(* A turn is what one provider gave to this very request, whole, from      *)
(* cache or stream, and shown as it is; and no window holds more calls     *)
(* than the rate, for any calls, requests, providers, rates and windows    *)
(* (`CachedGenerator::generate`, `RateLimiter::poll`).  The limiter's      *)
(* queue is always the end of all that was started, and what it no longer  *)
(* has is older than the window.                                           *)
THEOREM TurnsStaySound == LlmSpec => []TurnsAreSound
BY GatewayStands, GivenTurnsAreSound, PTL
=============================================================================
