------------------------------ MODULE ProcessProofs ------------------------------
(***************************************************************************)
(* Theorems about what the program starts and shares with other processes, *)
(* for any number of callers, dashboards, chats and directories: the       *)
(* Python services (SidecarService), the library of prompts                *)
(* (PromptLibrary), the tools of a session (ToolSetup), the commands and   *)
(* containers tools and verifications run (ToolProcess) and the terminal   *)
(* screen (TuiApp).                                                        *)
(***************************************************************************)
EXTENDS SidecarService, PromptLibrary, ToolSetup, ToolProcess, TuiApp,
        FiniteSetTheorems, SequenceTheorems, TLAPS

-----------------------------------------------------------------------------
(* The Python services. *)

AskPlace == {"new", "checking", "starting", "served", "unavailable", "answered", "rpc_error"}
LifeStage == {"new", "starting", "up", "hung", "dead"}
Alive == {"starting", "up", "hung"}

SvcTypes ==
  /\ open \subseteq Board
  /\ serverOf \in [Board -> ServerProc \cup {NoServer}]
  /\ locked \in [Board -> SvcCaller \cup {NoCall}]
  /\ asks \in [SvcCaller -> [board : Board, at : AskPlace]]
  /\ starts \in [SvcCaller -> ServerProc \cup {NoServer}]
  /\ life \in [ServerProc -> LifeStage]

(* Who is at the check or at a start holds the lock of a dashboard that    *)
(* runs, so that nobody else is there.                                     *)
CheckersHoldLock ==
  \A c \in SvcCaller : asks[c].at \in {"checking", "starting"} =>
    Mine(c) \in open /\ locked[Mine(c)] = c

(* A process started and neither kept nor killed is of a caller that waits *)
(* for it, or of a dashboard that was stopped.                             *)
StartsAreAwaited ==
  \A c \in SvcCaller : starts[c] # NoServer => asks[c].at = "starting" \/ Mine(c) \notin open

(* No living process without somebody who would kill it. *)
LivingAreOwned ==
  \A p \in ServerProc : life[p] \in Alive =>
    (\E d \in Board : serverOf[d] = p) \/ (\E c \in SvcCaller : starts[c] = p)

SvcInv == SvcTypes /\ CheckersHoldLock /\ StartsAreAwaited /\ LivingAreOwned

LEMMA AtPlace ==
  ASSUME SvcTypes, NEW c \in SvcCaller, NEW place \in AskPlace, At(c, place)
  PROVE  /\ asks' \in [SvcCaller -> [board : Board, at : AskPlace]]
         /\ \A e \in SvcCaller : Mine(e)' = Mine(e)
         /\ asks'[c].at = place
         /\ \A e \in SvcCaller \ {c} : asks'[e] = asks[e]
<1> DEFINE r == [asks[c] EXCEPT !.at = place]
<1>1. asks[c] \in [board : Board, at : AskPlace] /\ asks \in [SvcCaller -> [board : Board, at : AskPlace]]
  BY DEF SvcTypes
<1>2. r \in [board : Board, at : AskPlace] /\ r.at = place /\ r.board = asks[c].board
  BY <1>1
<1>3. asks' = [asks EXCEPT ![c] = r]
  BY DEF At
<1> HIDE DEF r
<1> QED
  BY <1>1, <1>2, <1>3 DEF Mine

LEMMA Unlocked ==
  ASSUME SvcTypes, NEW c \in SvcCaller, Unlocks(c)
  PROVE  /\ locked' \in [Board -> SvcCaller \cup {NoCall}]
         /\ \A d \in Board \ {Mine(c)} : locked'[d] = locked[d]
  BY DEF SvcTypes, Unlocks

(* The holder of the lock leaves it: nobody else of its dashboard was at   *)
(* the check or at a start.                                                *)
LEMMA LeavesLock ==
  ASSUME SvcInv, NEW c \in SvcCaller, asks[c].at \in {"checking", "starting"},
         NEW place \in AskPlace \ {"checking", "starting"}, At(c, place), Unlocks(c), UNCHANGED open
  PROVE  CheckersHoldLock'
<1>0. SvcTypes /\ CheckersHoldLock
  BY DEF SvcInv
<1> SUFFICES ASSUME NEW e \in SvcCaller, asks'[e].at \in {"checking", "starting"}
             PROVE  Mine(e)' \in open' /\ locked'[Mine(e)'] = e
  BY DEF CheckersHoldLock
<1>1. e # c /\ asks'[e] = asks[e] /\ Mine(e)' = Mine(e) /\ Mine(e) \in Board
  BY <1>0, AtPlace DEF SvcTypes, Mine
<1>2. Mine(e) \in open /\ locked[Mine(e)] = e
  BY <1>0, <1>1 DEF CheckersHoldLock
<1>3. Mine(e) # Mine(c)
  BY <1>0, <1>1, <1>2 DEF CheckersHoldLock
<1> QED
  BY <1>0, <1>1, <1>2, <1>3, Unlocked

LEMMA SvcInvInit == SvcInit => SvcInv
<1> SUFFICES ASSUME SvcInit PROVE SvcInv
  OBVIOUS
<1>1. SvcTypes
  BY DEF SvcInit, SvcTypes, AskPlace, LifeStage
<1>2. \A c \in SvcCaller : asks[c].at = "new"
  BY DEF SvcInit
<1>3. \A p \in ServerProc : life[p] = "new"
  BY DEF SvcInit
<1>4. \A c \in SvcCaller : starts[c] = NoServer
  BY DEF SvcInit
<1> QED
  BY <1>1, <1>2, <1>3, <1>4 DEF SvcInv, CheckersHoldLock, StartsAreAwaited, LivingAreOwned, Alive

LEMMA Killed ==
  ASSUME SvcTypes, NEW x, life' = LifeWithout(x)
  PROVE  /\ life' \in [ServerProc -> LifeStage]
         /\ \A p \in ServerProc : life'[p] \in Alive => p # x /\ life[p] \in Alive
  BY DEF SvcTypes, LifeWithout, LifeStage, Alive

(* A caller's steps while it holds the lock, without a process of its own. *)
LEMMA CheckKeepsInv ==
  ASSUME SvcInv, NEW c \in SvcCaller, LockService(c) \/ Healthy(c) \/ DropChecking(c)
  PROVE  SvcInv'
<1>0. SvcTypes /\ CheckersHoldLock /\ StartsAreAwaited /\ LivingAreOwned /\ Mine(c) \in Board
  BY DEF SvcInv, SvcTypes, Mine
<1>1. PICK place \in AskPlace : At(c, place) /\ (LockService(c) => place = "checking")
                              /\ (~LockService(c) => place \notin {"checking", "starting"})
  BY DEF LockService, Healthy, DropChecking, AskPlace
<1>2. UNCHANGED <<open, serverOf, starts, life>> /\ asks[c].at # "starting"
  BY DEF LockService, Healthy, DropChecking
<1>3. locked' \in [Board -> SvcCaller \cup {NoCall}]
  BY <1>0 DEF LockService, Healthy, DropChecking, Unlocks, SvcTypes
<1>4. SvcTypes'
  BY <1>0, <1>1, <1>2, <1>3, AtPlace DEF SvcTypes
<1>5. CheckersHoldLock'
  <2>1. CASE LockService(c)
    <3> SUFFICES ASSUME NEW e \in SvcCaller, asks'[e].at \in {"checking", "starting"}
                 PROVE  Mine(e)' \in open' /\ locked'[Mine(e)'] = e
      BY DEF CheckersHoldLock
    <3>1. Mine(c) \in open /\ locked[Mine(c)] = NoCall /\ locked' = [locked EXCEPT ![Mine(c)] = c]
      BY <2>1 DEF LockService
    <3>2. Mine(e)' = Mine(e) /\ Mine(e) \in Board
      BY <1>0, <1>1, AtPlace DEF SvcTypes, Mine
    <3>3. CASE e = c
      BY <1>0, <1>2, <3>1, <3>2, <3>3 DEF SvcTypes
    <3>4. CASE e # c
      <4>1. Mine(e) \in open /\ locked[Mine(e)] = e
        BY <1>0, <1>1, <3>4, AtPlace DEF CheckersHoldLock
      <4>2. Mine(e) # Mine(c)
        BY <3>1, <4>1, ServiceConstants
      <4> QED
        BY <1>0, <1>2, <3>1, <3>2, <4>1, <4>2 DEF SvcTypes
    <3> QED
      BY <3>3, <3>4
  <2>2. CASE ~LockService(c)
    <3>1. asks[c].at = "checking" /\ Unlocks(c)
      BY <2>2 DEF Healthy, DropChecking
    <3> QED
      BY <1>1, <1>2, <2>2, <3>1, LeavesLock
  <2> QED
    BY <2>1, <2>2
<1>6. StartsAreAwaited'
  BY <1>0, <1>1, <1>2, AtPlace DEF StartsAreAwaited
<1>7. LivingAreOwned'
  BY <1>0, <1>2 DEF LivingAreOwned
<1> QED
  BY <1>4, <1>5, <1>6, <1>7 DEF SvcInv

(* A process is started, or could not be. *)
LEMMA StartKeepsInv ==
  ASSUME SvcInv, NEW c \in SvcCaller, StartServer(c)
  PROVE  SvcInv'
<1>0. /\ SvcTypes /\ CheckersHoldLock /\ StartsAreAwaited /\ LivingAreOwned
      /\ asks[c].at = "checking" /\ UNCHANGED <<open, serverOf>>
  BY DEF SvcInv, StartServer
<1>1. starts[c] = NoServer
  BY <1>0 DEF CheckersHoldLock, StartsAreAwaited
<1>2. CASE \E p \in ServerProc : /\ life[p] = "new" /\ life' = [life EXCEPT ![p] = "starting"]
                                /\ starts' = [starts EXCEPT ![c] = p] /\ At(c, "starting") /\ UNCHANGED locked
  <2>1. PICK p \in ServerProc : /\ life[p] = "new" /\ life' = [life EXCEPT ![p] = "starting"]
                               /\ starts' = [starts EXCEPT ![c] = p]
    BY <1>2
  <2>2. At(c, "starting") /\ UNCHANGED locked /\ "starting" \in AskPlace
    BY <1>2 DEF AskPlace
  <2>3. SvcTypes'
    BY <1>0, <2>1, <2>2, AtPlace DEF SvcTypes, LifeStage
  <2>4. CheckersHoldLock'
    <3> SUFFICES ASSUME NEW e \in SvcCaller, asks'[e].at \in {"checking", "starting"}
                 PROVE  Mine(e)' \in open' /\ locked'[Mine(e)'] = e
      BY DEF CheckersHoldLock
    <3>1. Mine(e)' = Mine(e) /\ asks[e].at \in {"checking", "starting"}
      BY <1>0, <2>2, AtPlace
    <3> QED
      BY <1>0, <2>2, <3>1 DEF CheckersHoldLock
  <2>5. StartsAreAwaited'
    <3> SUFFICES ASSUME NEW e \in SvcCaller, starts'[e] # NoServer
                 PROVE  asks'[e].at = "starting" \/ Mine(e)' \notin open'
      BY DEF StartsAreAwaited
    <3> QED
      BY <1>0, <2>1, <2>2, AtPlace DEF StartsAreAwaited, SvcTypes
  <2>6. LivingAreOwned'
    <3> SUFFICES ASSUME NEW q \in ServerProc, life'[q] \in Alive
                 PROVE  (\E d \in Board : serverOf'[d] = q) \/ (\E e \in SvcCaller : starts'[e] = q)
      BY DEF LivingAreOwned
    <3>1. CASE q = p
      BY <1>0, <2>1, <3>1 DEF SvcTypes
    <3>2. CASE q # p
      <4>1. life[q] \in Alive /\ q # NoServer
        BY <1>0, <2>1, <3>2, ServiceConstants DEF SvcTypes
      <4>2. \A e \in SvcCaller : starts[e] = q => starts'[e] = q
        BY <1>0, <1>1, <2>1, <4>1 DEF SvcTypes
      <4> QED
        BY <1>0, <4>1, <4>2 DEF LivingAreOwned
    <3> QED
      BY <3>1, <3>2
  <2> QED
    BY <2>3, <2>4, <2>5, <2>6 DEF SvcInv
<1>3. CASE Unlocks(c) /\ At(c, "unavailable") /\ UNCHANGED <<life, starts>>
  <2>1. "unavailable" \in AskPlace \ {"checking", "starting"}
    BY DEF AskPlace
  <2>2. SvcTypes'
    BY <1>0, <1>3, <2>1, AtPlace, Unlocked DEF SvcTypes
  <2>3. CheckersHoldLock'
    BY <1>0, <1>3, <2>1, LeavesLock
  <2>4. StartsAreAwaited'
    BY <1>0, <1>1, <1>3, <2>1, AtPlace DEF StartsAreAwaited
  <2>5. LivingAreOwned'
    BY <1>0, <1>3 DEF LivingAreOwned
  <2> QED
    BY <2>2, <2>3, <2>4, <2>5 DEF SvcInv
<1> QED
  BY <1>2, <1>3 DEF StartServer, SpawnServer

(* The process started becomes the kept one, or is killed: the one that    *)
(* loses its owner in this step is the one killed.                         *)
LEMMA EndStartKeepsInv ==
  ASSUME SvcInv, NEW c \in SvcCaller, KeepServer(c) \/ GiveUp(c)
  PROVE  SvcInv'
<1>0. /\ SvcTypes /\ CheckersHoldLock /\ StartsAreAwaited /\ LivingAreOwned /\ Mine(c) \in Board
      /\ asks[c].at = "starting" /\ UNCHANGED open
      /\ starts' = [starts EXCEPT ![c] = NoServer] /\ Unlocks(c)
  BY DEF SvcInv, KeepServer, GiveUp, SvcTypes, Mine
<1>1. PICK place \in AskPlace \ {"checking", "starting"} : At(c, place)
  BY DEF KeepServer, GiveUp, AskPlace
<1>2. /\ starts[c] \in ServerProc \cup {NoServer} /\ starts' \in [SvcCaller -> ServerProc \cup {NoServer}]
      /\ \A e \in SvcCaller \ {c} : starts'[e] = starts[e]
      /\ starts'[c] = NoServer
  BY <1>0 DEF SvcTypes
<1>3. CheckersHoldLock'
  BY <1>0, <1>1, LeavesLock
<1>4. StartsAreAwaited'
  <2> SUFFICES ASSUME NEW e \in SvcCaller, starts'[e] # NoServer
               PROVE  asks'[e].at = "starting" \/ Mine(e)' \notin open'
    BY DEF StartsAreAwaited
  <2>1. e # c /\ starts[e] # NoServer
    BY <1>2
  <2> QED
    BY <1>0, <1>1, <2>1, AtPlace DEF StartsAreAwaited
<1>5. CASE KeepServer(c)
  <2>1. /\ life' = LifeWithout(serverOf[Mine(c)])
        /\ serverOf' = [serverOf EXCEPT ![Mine(c)] = starts[c]]
    BY <1>5 DEF KeepServer
  <2>2. /\ serverOf' \in [Board -> ServerProc \cup {NoServer}] /\ serverOf'[Mine(c)] = starts[c]
        /\ \A d \in Board \ {Mine(c)} : serverOf'[d] = serverOf[d]
    BY <1>0, <1>2, <2>1 DEF SvcTypes
  <2>3. SvcTypes'
    BY <1>0, <1>1, <1>2, <2>1, <2>2, AtPlace, Unlocked, Killed DEF SvcTypes
  <2>4. LivingAreOwned'
    <3> SUFFICES ASSUME NEW q \in ServerProc, life'[q] \in Alive
                 PROVE  (\E d \in Board : serverOf'[d] = q) \/ (\E e \in SvcCaller : starts'[e] = q)
      BY DEF LivingAreOwned
    <3>1. q # serverOf[Mine(c)] /\ life[q] \in Alive
      BY <1>0, <2>1, Killed
    <3> QED
      BY <1>0, <1>2, <2>2, <3>1 DEF LivingAreOwned
  <2> QED
    BY <1>3, <1>4, <2>3, <2>4 DEF SvcInv
<1>6. CASE GiveUp(c)
  <2>1. life' = LifeWithout(starts[c]) /\ UNCHANGED serverOf
    BY <1>6 DEF GiveUp
  <2>2. SvcTypes'
    BY <1>0, <1>1, <1>2, <2>1, AtPlace, Unlocked, Killed DEF SvcTypes
  <2>3. LivingAreOwned'
    <3> SUFFICES ASSUME NEW q \in ServerProc, life'[q] \in Alive
                 PROVE  (\E d \in Board : serverOf'[d] = q) \/ (\E e \in SvcCaller : starts'[e] = q)
      BY DEF LivingAreOwned
    <3>1. q # starts[c] /\ life[q] \in Alive
      BY <1>0, <2>1, Killed
    <3> QED
      BY <1>0, <1>2, <2>1, <3>1 DEF LivingAreOwned
  <2> QED
    BY <1>3, <1>4, <2>2, <2>3 DEF SvcInv
<1> QED
  BY <1>5, <1>6

(* The handler's call, and what the processes do. *)
LEMMA OthersKeepInv ==
  ASSUME SvcInv,
         \/ \E c \in SvcCaller : AskServer(c)
         \/ \E p \in ServerProc : ServerBinds(p) \/ ServerHangsUp(p) \/ ServerDiesAlone(p)
  PROVE  SvcInv'
<1>0. SvcTypes /\ CheckersHoldLock /\ StartsAreAwaited /\ LivingAreOwned
  BY DEF SvcInv
<1>1. ASSUME NEW c \in SvcCaller, AskServer(c) PROVE SvcInv'
  <2>1. PICK place \in {"answered", "rpc_error"} : At(c, place)
    BY <1>1 DEF AskServer
  <2>2. place \in AskPlace /\ UNCHANGED <<open, serverOf, locked, starts, life>> /\ asks[c].at = "served"
    BY <1>1 DEF AskServer, AskPlace
  <2>3. SvcTypes' /\ LivingAreOwned'
    BY <1>0, <2>1, <2>2, AtPlace DEF SvcTypes, LivingAreOwned
  <2>4. \A e \in SvcCaller : /\ Mine(e)' = Mine(e)
                             /\ asks'[e].at \in {"checking", "starting"} => asks'[e] = asks[e]
                             /\ asks[e].at = "starting" => asks'[e] = asks[e]
    BY <1>0, <2>1, <2>2, AtPlace
  <2>5. CheckersHoldLock'
    <3> SUFFICES ASSUME NEW e \in SvcCaller, asks'[e].at \in {"checking", "starting"}
                 PROVE  Mine(e)' \in open' /\ locked'[Mine(e)'] = e
      BY DEF CheckersHoldLock
    <3> QED
      BY <1>0, <2>2, <2>4 DEF CheckersHoldLock
  <2>6. StartsAreAwaited'
    BY <1>0, <2>2, <2>4 DEF StartsAreAwaited
  <2> QED
    BY <2>3, <2>5, <2>6 DEF SvcInv
<1>2. ASSUME NEW p \in ServerProc, ServerBinds(p) \/ ServerHangsUp(p) \/ ServerDiesAlone(p)
      PROVE  SvcInv'
  <2>1. UNCHANGED <<open, serverOf, locked, asks, starts>>
    BY <1>2 DEF ServerBinds, ServerHangsUp, ServerDiesAlone
  <2>2. /\ life' \in [ServerProc -> LifeStage]
        /\ \A q \in ServerProc : life'[q] \in Alive => life[q] \in Alive
    <3>1. CASE ServerDiesAlone(p)
      BY <1>0, <3>1, Killed DEF ServerDiesAlone
    <3>2. CASE ServerBinds(p) \/ ServerHangsUp(p)
      BY <1>0, <3>2 DEF ServerBinds, ServerHangsUp, SvcTypes, LifeStage, Alive
    <3> QED
      BY <1>2, <3>1, <3>2
  <2>3. SvcTypes'
    BY <1>0, <2>1, <2>2 DEF SvcTypes
  <2>4. CheckersHoldLock' /\ StartsAreAwaited'
    BY <1>0, <2>1 DEF CheckersHoldLock, StartsAreAwaited, Mine
  <2>5. LivingAreOwned'
    BY <1>0, <2>1, <2>2 DEF LivingAreOwned
  <2> QED
    BY <2>3, <2>4, <2>5 DEF SvcInv
<1> QED
  BY <1>1, <1>2

(* A dashboard is stopped: its callers are gone, its processes stay. *)
LEMMA StopKeepsInv ==
  ASSUME SvcInv, NEW d \in Board, BoardStops(d)
  PROVE  SvcInv'
<1>0. /\ SvcTypes /\ CheckersHoldLock /\ StartsAreAwaited /\ LivingAreOwned
      /\ UNCHANGED <<serverOf, locked, starts, life>> /\ open' = open \ {d}
      /\ asks' = [c \in SvcCaller |-> IF Mine(c) = d /\ asks[c].at \notin {"answered", "rpc_error"}
                                      THEN [asks[c] EXCEPT !.at = "unavailable"] ELSE asks[c]]
  BY DEF SvcInv, BoardStops
<1>1. ASSUME NEW e \in SvcCaller
      PROVE  /\ asks'[e] \in [board : Board, at : AskPlace]
             /\ Mine(e)' = Mine(e)
             /\ Mine(e) # d => asks'[e] = asks[e]
             /\ Mine(e) = d => asks'[e].at \notin {"checking", "starting"}
  <2>1. asks[e] \in [board : Board, at : AskPlace]
    BY <1>0 DEF SvcTypes
  <2>2. CASE Mine(e) = d /\ asks[e].at \notin {"answered", "rpc_error"}
    BY <1>0, <2>1, <2>2 DEF Mine, AskPlace
  <2>3. CASE ~(Mine(e) = d /\ asks[e].at \notin {"answered", "rpc_error"})
    BY <1>0, <2>1, <2>3 DEF Mine
  <2> QED
    BY <2>2, <2>3
<1>2. SvcTypes'
  BY <1>0, <1>1 DEF SvcTypes
<1>3. CheckersHoldLock'
  <2> SUFFICES ASSUME NEW e \in SvcCaller, asks'[e].at \in {"checking", "starting"}
               PROVE  Mine(e)' \in open' /\ locked'[Mine(e)'] = e
    BY DEF CheckersHoldLock
  <2>1. Mine(e) # d /\ asks'[e] = asks[e] /\ Mine(e)' = Mine(e)
    BY <1>1
  <2> QED
    BY <1>0, <2>1 DEF CheckersHoldLock
<1>4. StartsAreAwaited'
  <2> SUFFICES ASSUME NEW e \in SvcCaller, starts'[e] # NoServer
               PROVE  asks'[e].at = "starting" \/ Mine(e)' \notin open'
    BY DEF StartsAreAwaited
  <2>1. asks[e].at = "starting" \/ Mine(e) \notin open
    BY <1>0 DEF StartsAreAwaited
  <2>2. Mine(e)' = Mine(e) /\ (Mine(e) # d => asks'[e] = asks[e])
    BY <1>1
  <2>3. CASE Mine(e) = d
    BY <1>0, <2>2, <2>3
  <2>4. CASE Mine(e) # d
    BY <1>0, <2>1, <2>2, <2>4
  <2> QED
    BY <2>3, <2>4
<1>5. LivingAreOwned'
  BY <1>0 DEF LivingAreOwned
<1> QED
  BY <1>2, <1>3, <1>4, <1>5 DEF SvcInv

(* For any callers and any dashboards, whatever fails, hangs, is dropped   *)
(* or stopped: a living process has an owner, and a running dashboard      *)
(* never more than the one kept and the one about to replace it.           *)
THEOREM ServersAreOwned == SvcSpec => []NoServerIsForgotten
<1>1. SvcInv /\ [SvcNext]_svcVars => SvcInv'
  <2> SUFFICES ASSUME SvcInv, [SvcNext]_svcVars PROVE SvcInv'
    OBVIOUS
  <2>1. CASE UNCHANGED svcVars
    BY <2>1 DEF svcVars, SvcInv, SvcTypes, CheckersHoldLock, StartsAreAwaited, LivingAreOwned, Mine
  <2> QED
    BY <2>1, CheckKeepsInv, StartKeepsInv, EndStartKeepsInv, OthersKeepInv, StopKeepsInv DEF SvcNext
<1>2. SvcInv => NoServerIsForgotten
  <2> SUFFICES ASSUME SvcInv PROVE NoServerIsForgotten
    OBVIOUS
  <2> DEFINE Living == {p \in ServerProc : life[p] \in {"starting", "up", "hung"}}
             Of(d) == {serverOf[d]} \cup {starts[c] : c \in {e \in SvcCaller : Mine(e) = d}}
  <2>0. SvcTypes /\ CheckersHoldLock /\ StartsAreAwaited /\ LivingAreOwned
    BY DEF SvcInv
  <2>1. Living \subseteq UNION {Of(d) : d \in Board}
    <3> SUFFICES ASSUME NEW p \in Living PROVE \E d \in Board : p \in Of(d)
      OBVIOUS
    <3>1. CASE \E d \in Board : serverOf[d] = p
      BY <3>1
    <3>2. CASE \E c \in SvcCaller : starts[c] = p
      <4>1. PICK c \in SvcCaller : starts[c] = p
        BY <3>2
      <4>2. Mine(c) \in Board
        BY <2>0 DEF SvcTypes, Mine
      <4> QED
        BY <4>1, <4>2
    <3> QED
      BY <2>0, <3>1, <3>2 DEF LivingAreOwned, Alive
  <2>2. ASSUME NEW d \in open, NEW c \in SvcCaller, NEW e \in SvcCaller, Mine(c) = d, Mine(e) = d,
               starts[c] # NoServer, starts[e] # NoServer
        PROVE  c = e
    BY <2>0, <2>2 DEF StartsAreAwaited, CheckersHoldLock
  <2>3. ASSUME NEW d \in open PROVE Cardinality(Living \cap Of(d)) <= 2
    <3>1. \E a, b : Living \cap Of(d) \subseteq {a, b}
      <4>1. CASE \E c \in SvcCaller : Mine(c) = d /\ starts[c] # NoServer
        <5>1. PICK c \in SvcCaller : Mine(c) = d /\ starts[c] # NoServer
          BY <4>1
        <5>2. Living \cap Of(d) \subseteq {serverOf[d], starts[c]}
          BY <2>2, <5>1, ServiceConstants
        <5> QED
          BY <5>2
      <4>2. CASE ~\E c \in SvcCaller : Mine(c) = d /\ starts[c] # NoServer
        <5>1. Living \cap Of(d) \subseteq {serverOf[d], serverOf[d]}
          BY <4>2, ServiceConstants
        <5> QED
          BY <5>1
      <4> QED
        BY <4>1, <4>2
    <3>2. PICK a, b : Living \cap Of(d) \subseteq {a, b}
      BY <3>1
    <3>3. IsFiniteSet({a, b}) /\ Cardinality({a, b}) \in Nat /\ Cardinality({a, b}) <= 2
      <4>1. IsFiniteSet({a}) /\ Cardinality({a}) = 1
        BY FS_Singleton
      <4>2. {a, b} = {a} \cup {b}
        OBVIOUS
      <4>3. IsFiniteSet({a, b}) /\ Cardinality({a, b}) \in {1, 2}
        BY <4>1, <4>2, FS_AddElement
      <4> QED
        BY <4>3
    <3>4. Cardinality(Living \cap Of(d)) <= Cardinality({a, b}) /\ Cardinality(Living \cap Of(d)) \in Nat
      BY <3>2, <3>3, FS_Subset, FS_CardinalityType
    <3> HIDE DEF Living, Of
    <3> QED
      BY <3>3, <3>4
  <2> QED
    BY <2>1, <2>2, <2>3 DEF NoServerIsForgotten
<1> QED
  BY <1>1, <1>2, SvcInvInit, PTL DEF SvcSpec

-----------------------------------------------------------------------------
(* The library of prompts. *)

Place == Terminal \cup {"dashboard"}
Prompt == [id : Nat, prompt : Nat, tagged : BOOLEAN, favorite : BOOLEAN, inverted : Nat, by : SUBSET Place]
ShownPrompt == [id : Nat, prompt : Nat]
Desk == [at : {"idle", "saved", "toggling"}, id : Nat, favorite : BOOLEAN]

LibraryTypes ==
  /\ library \subseteq Prompt
  /\ saves \in Nat
  /\ desk \in [LibraryUser -> Desk]
  /\ screen \in [LibraryUser -> SUBSET ShownPrompt]

(* An id is the number of the save that gave it, and no two rows share one. *)
IdsAreSaves ==
  /\ \A p \in library : p.id = p.prompt /\ p.id <= saves /\ IsFiniteSet(p.by)
  /\ \A p, q \in library : p.id = q.id => p = q
  /\ \A u \in LibraryUser : \A r \in screen[u] : r.id = r.prompt
  /\ \A u \in LibraryUser : desk[u].id <= saves

(* A request between its statements holds the mutex. *)
RequestsHoldMutex ==
  \A u \in Asker : desk[u].at # "idle" => mutexOf = {u}

(* What a toggling user read is still so, unless another place inverted    *)
(* the row since.                                                          *)
ReadIsCurrent ==
  \A u \in LibraryUser, p \in library :
    desk[u].at = "toggling" /\ desk[u].id = p.id /\ p.by \subseteq {From(u)} =>
      desk[u].favorite = ~p.favorite

InvertedFromOnePlace ==
  \A p \in library : Cardinality(p.by) <= 1 => (p.favorite <=> p.inverted % 2 = 1)

LibraryInv ==
  LibraryTypes /\ IdsAreSaves /\ RequestsHoldMutex /\ ReadIsCurrent /\ InvertedFromOnePlace

LEMMA Parity ==
  ASSUME NEW n \in Nat
  PROVE  (n + 1) % 2 = 1 <=> n % 2 # 1
  OBVIOUS

(* A set with an element and no second one. *)
LEMMA OnlyElement ==
  ASSUME NEW S, NEW x \in S, IsFiniteSet(S), Cardinality(S) <= 1
  PROVE  S = {x}
<1>1. Cardinality(S) \in Nat /\ Cardinality(S) # 0
  BY FS_CardinalityType, FS_EmptySet
<1>2. Cardinality(S) = 1
  BY <1>1
<1> QED
  BY <1>2, FS_Singleton

LEMMA AtMostOne ==
  ASSUME NEW S, NEW x, S \subseteq {x}
  PROVE  Cardinality(S) <= 1
<1>1. S = {} \/ S = {x}
  OBVIOUS
<1>2. Cardinality({}) = 0 /\ Cardinality({x}) = 1
  BY FS_EmptySet, FS_Singleton
<1> QED
  BY <1>1, <1>2

(* The one place a user inverts from: two requests share it, nobody else.  *)
LEMMA PlacesDiffer ==
  ASSUME NEW u \in LibraryUser, NEW v \in LibraryUser, From(u) = From(v)
  PROVE  u = v \/ (u \in Asker /\ v \in Asker)
  BY LibraryConstants DEF From, LibraryUser

LEMMA FromIsPlace == \A u \in LibraryUser : From(u) \in Place
  BY DEF From, LibraryUser, Place

(* A step that leaves the rows, as do reading and listing. *)
LEMMA RowsStay ==
  ASSUME LibraryInv, library' \subseteq library, saves' = saves, desk' \in [LibraryUser -> Desk],
         \A u \in LibraryUser : desk'[u] = desk[u] \/ desk'[u] = NoWork,
         screen' \in [LibraryUser -> SUBSET ShownPrompt],
         \A u \in LibraryUser : screen'[u] = screen[u] \/ screen'[u] \subseteq Shown(library),
         RequestsHoldMutex'
  PROVE  LibraryInv'
<1>0. LibraryTypes /\ IdsAreSaves /\ ReadIsCurrent /\ InvertedFromOnePlace
  BY DEF LibraryInv
<1>1. LibraryTypes'
  BY <1>0 DEF LibraryTypes
<1>2. IdsAreSaves'
  <2>1. \A p \in library' : p.id = p.prompt /\ p.id <= saves' /\ IsFiniteSet(p.by)
    BY <1>0 DEF IdsAreSaves
  <2>2. \A p, q \in library' : p.id = q.id => p = q
    BY <1>0 DEF IdsAreSaves
  <2>3. ASSUME NEW u \in LibraryUser, NEW r \in screen'[u] PROVE r.id = r.prompt
    <3>1. CASE r \in screen[u]
      BY <1>0, <3>1 DEF IdsAreSaves
    <3>2. CASE r \in Shown(library)
      BY <1>0, <3>2 DEF IdsAreSaves, Shown
    <3> QED
      BY <2>3, <3>1, <3>2
  <2>4. ASSUME NEW u \in LibraryUser PROVE desk'[u].id <= saves'
    BY <1>0 DEF IdsAreSaves, LibraryTypes, NoWork
  <2> QED
    BY <2>1, <2>2, <2>3, <2>4 DEF IdsAreSaves
<1>3. ReadIsCurrent'
  <2> SUFFICES ASSUME NEW u \in LibraryUser, NEW p \in library',
                      desk'[u].at = "toggling", desk'[u].id = p.id, p.by \subseteq {From(u)}
               PROVE  desk'[u].favorite = ~p.favorite
    BY DEF ReadIsCurrent, From
  <2>1. desk'[u] = desk[u]
    BY DEF NoWork
  <2> QED
    BY <1>0, <2>1 DEF ReadIsCurrent
<1>4. InvertedFromOnePlace'
  BY <1>0 DEF InvertedFromOnePlace
<1> QED
  BY <1>1, <1>2, <1>3, <1>4 DEF LibraryInv

LEMMA LibraryInvInit == LibraryInit => LibraryInv
<1> SUFFICES ASSUME LibraryInit PROVE LibraryInv
  OBVIOUS
<1>1. NoWork \in Desk /\ NoWork.at = "idle" /\ NoWork.id = 0
  BY DEF NoWork, Desk
<1>2. library = {} /\ saves = 0 /\ desk = [u \in LibraryUser |-> NoWork] /\ screen = [u \in LibraryUser |-> {}]
  BY DEF LibraryInit
<1>3. LibraryTypes
  BY <1>1, <1>2 DEF LibraryTypes
<1>4. IdsAreSaves
  BY <1>1, <1>2 DEF IdsAreSaves
<1>5. RequestsHoldMutex
  BY <1>1, <1>2 DEF RequestsHoldMutex, LibraryUser
<1>6. ReadIsCurrent /\ InvertedFromOnePlace
  BY <1>2 DEF ReadIsCurrent, InvertedFromOnePlace
<1> QED
  BY <1>3, <1>4, <1>5, <1>6 DEF LibraryInv

(* Reading, and removing a row. *)
LEMMA ReadsKeepInv ==
  ASSUME LibraryInv, NEW u \in LibraryUser, List(u) \/ Delete(u) \/ (u \in Asker /\ Created(u))
  PROVE  LibraryInv'
<1>0. LibraryTypes /\ RequestsHoldMutex
  BY DEF LibraryInv
<1>1. Shown(library) \subseteq ShownPrompt /\ \A rows \in SUBSET library : Shown(rows) \subseteq Shown(library)
  BY <1>0 DEF Shown, ShownPrompt, LibraryTypes, Prompt
<1>2. \A id : Row(id) \subseteq library
  BY DEF Row
<1>3. library' \subseteq library /\ saves' = saves
  BY DEF List, Created, Delete
<1>4. /\ screen' \in [LibraryUser -> SUBSET ShownPrompt]
      /\ \A v \in LibraryUser : screen'[v] = screen[v] \/ screen'[v] \subseteq Shown(library)
  <2>1. CASE List(u)
    <3>1. PICK rows \in SUBSET library : screen' = [screen EXCEPT ![u] = Shown(rows)]
      BY <1>2, <2>1 DEF List
    <3> QED
      BY <1>0, <1>1, <3>1 DEF LibraryTypes
  <2>2. CASE Created(u)
    <3>1. screen' = [screen EXCEPT ![u] = Shown(Row(desk[u].id))] /\ Row(desk[u].id) \subseteq library
      BY <1>2, <2>2 DEF Created
    <3>2. Shown(Row(desk[u].id)) \subseteq Shown(library)
      BY <1>1, <3>1
    <3> QED
      BY <1>0, <1>1, <3>1, <3>2 DEF LibraryTypes
  <2>3. CASE Delete(u)
    BY <1>0, <2>3 DEF Delete, LibraryTypes
  <2> QED
    BY <2>1, <2>2, <2>3
<1>5. NoWork \in Desk /\ NoWork.at = "idle"
  BY DEF NoWork, Desk
<1>6. /\ desk' \in [LibraryUser -> Desk]
      /\ \A v \in LibraryUser : desk'[v] = desk[v] \/ desk'[v] = NoWork
  BY <1>0, <1>5 DEF List, Created, Delete, Done, LibraryTypes
<1>7. RequestsHoldMutex'
  <2>1. CASE u \in Asker /\ Created(u)
    <3> SUFFICES ASSUME NEW v \in Asker, desk'[v].at # "idle" PROVE FALSE
      BY DEF RequestsHoldMutex
    <3>1. desk' = [desk EXCEPT ![u] = NoWork] /\ desk[u].at = "saved"
      BY <2>1 DEF Created, Done
    <3>2. v \in LibraryUser
      BY DEF LibraryUser
    <3>3. v # u
      BY <1>0, <1>5, <3>1, <3>2 DEF LibraryTypes
    <3>4. desk[v].at # "idle"
      BY <1>0, <3>1, <3>2, <3>3 DEF LibraryTypes
    <3>5. mutexOf = {v} /\ mutexOf = {u}
      BY <1>0, <2>1, <3>1, <3>4 DEF RequestsHoldMutex
    <3> QED
      BY <3>3, <3>5
  <2>2. CASE List(u) \/ Delete(u)
    BY <1>0, <2>2 DEF List, Delete, RequestsHoldMutex
  <2> QED
    BY <2>1, <2>2
<1> QED
  BY <1>3, <1>4, <1>6, <1>7, RowsStay

(* Who begins a call of two statements: no other request is between its own. *)
LEMMA BeginnersHoldMutex ==
  ASSUME LibraryInv, NEW u \in LibraryUser, Begins(u), KeepsLock(u),
         desk' \in [LibraryUser -> Desk],
         \A v \in LibraryUser \ {u} : desk'[v] = desk[v],
         u \in Asker \/ mutexOf' = mutexOf
  PROVE  RequestsHoldMutex'
<1>0. RequestsHoldMutex
  BY DEF LibraryInv
<1> SUFFICES ASSUME NEW v \in Asker, desk'[v].at # "idle" PROVE mutexOf' = {v}
  BY DEF RequestsHoldMutex
<1>1. v \in LibraryUser
  BY DEF LibraryUser
<1>2. CASE u \in Asker
  <2>1. mutexOf = {} /\ mutexOf' = {u}
    BY <1>2 DEF Begins, KeepsLock
  <2>2. desk[v].at = "idle"
    BY <1>0, <2>1 DEF RequestsHoldMutex
  <2> QED
    BY <1>1, <2>1, <2>2
<1>3. CASE u \notin Asker
  <2>1. desk[v].at # "idle"
    BY <1>1, <1>3
  <2> QED
    BY <1>0, <1>3, <2>1 DEF RequestsHoldMutex
<1> QED
  BY <1>2, <1>3

(* A prompt saved has an id nobody was ever given. *)
LEMMA SaveKeepsInv ==
  ASSUME LibraryInv, NEW u \in LibraryUser, Save(u)
  PROVE  LibraryInv'
<1>0. LibraryTypes /\ IdsAreSaves /\ RequestsHoldMutex /\ ReadIsCurrent /\ InvertedFromOnePlace
  BY DEF LibraryInv
<1>1. PICK tagged \in BOOLEAN : library' = library \cup
        {[id |-> saves + 1, prompt |-> saves + 1, tagged |-> tagged, favorite |-> FALSE,
          inverted |-> 0, by |-> {}]}
  BY DEF Save, NextPromptId
<1> DEFINE new == [id |-> saves + 1, prompt |-> saves + 1, tagged |-> tagged, favorite |-> FALSE,
                   inverted |-> 0, by |-> {}]
           busy == [NoWork EXCEPT !.at = "saved", !.id = saves + 1]
           card == [id |-> saves + 1, prompt |-> saves + 1]
<1>2. saves \in Nat /\ saves' = saves + 1 /\ saves + 1 \in Nat
  BY <1>0 DEF Save, LibraryTypes
<1>3. new \in Prompt /\ new.id = saves + 1 /\ new.prompt = saves + 1 /\ new.by = {}
  BY <1>2 DEF Prompt
<1>4. new.favorite = FALSE /\ new.inverted = 0
  OBVIOUS
<1>5. busy \in Desk /\ busy.at = "saved" /\ busy.id = saves + 1
  BY <1>2 DEF NoWork, Desk
<1>6. card \in ShownPrompt /\ card.id = card.prompt
  BY <1>2 DEF ShownPrompt
<1>7. library' = library \cup {new}
  BY <1>1
<1>8. \/ desk' = [desk EXCEPT ![u] = busy] /\ screen' = screen /\ u \in Asker
      \/ screen' = [screen EXCEPT ![u] = {card}] /\ desk' = desk /\ u \notin Asker
  BY DEF Save, NextPromptId
<1> HIDE DEF new, busy, card
<1>9. LibraryTypes'
  BY <1>0, <1>2, <1>3, <1>5, <1>6, <1>7, <1>8 DEF LibraryTypes
<1>10. \A v \in LibraryUser : desk'[v] = desk[v] \/ desk'[v] = busy
  BY <1>0, <1>8 DEF LibraryTypes
<1>11. IdsAreSaves'
  <2>1. ASSUME NEW p \in library' PROVE p.id = p.prompt /\ p.id <= saves' /\ IsFiniteSet(p.by)
    <3>1. CASE p \in library
      BY <1>0, <1>2, <3>1 DEF IdsAreSaves, LibraryTypes, Prompt
    <3>2. CASE p = new
      BY <1>2, <1>3, <3>2, FS_EmptySet
    <3> QED
      BY <1>7, <3>1, <3>2
  <2>2. \A p \in library : p.id # saves + 1
    BY <1>0, <1>2 DEF IdsAreSaves, LibraryTypes, Prompt
  <2>3. \A p, q \in library' : p.id = q.id => p = q
    BY <1>0, <1>3, <1>7, <2>2 DEF IdsAreSaves
  <2>4. ASSUME NEW v \in LibraryUser, NEW r \in screen'[v] PROVE r.id = r.prompt
    <3>1. r \in screen[v] \/ r = card
      BY <1>0, <1>8, <2>4 DEF LibraryTypes
    <3> QED
      BY <1>0, <1>6, <2>4, <3>1 DEF IdsAreSaves
  <2>5. ASSUME NEW v \in LibraryUser PROVE desk'[v].id <= saves'
    <3>1. desk[v].id \in Nat /\ desk[v].id <= saves
      BY <1>0 DEF IdsAreSaves, LibraryTypes, Desk
    <3> QED
      BY <1>2, <1>5, <1>10, <3>1
  <2> QED
    BY <2>1, <2>3, <2>4, <2>5 DEF IdsAreSaves
<1>12. RequestsHoldMutex'
  <2>1. Begins(u) /\ KeepsLock(u)
    BY DEF Save
  <2>2. \A v \in LibraryUser \ {u} : desk'[v] = desk[v]
    BY <1>0, <1>8 DEF LibraryTypes
  <2>3. u \in Asker \/ mutexOf' = mutexOf
    BY <2>1 DEF KeepsLock
  <2> QED
    BY <1>9, <2>1, <2>2, <2>3, BeginnersHoldMutex DEF LibraryTypes
<1>13. ReadIsCurrent'
  <2> SUFFICES ASSUME NEW v \in LibraryUser, NEW p \in library',
                      desk'[v].at = "toggling", desk'[v].id = p.id, p.by \subseteq {From(v)}
               PROVE  desk'[v].favorite = ~p.favorite
    BY DEF ReadIsCurrent, From
  <2>1. desk'[v] = desk[v]
    BY <1>5, <1>10
  <2>2. desk[v].id \in Nat /\ desk[v].id <= saves
    BY <1>0 DEF IdsAreSaves, LibraryTypes, Desk
  <2>3. p # new
    BY <1>2, <1>3, <2>1, <2>2
  <2> QED
    BY <1>0, <1>7, <2>1, <2>3 DEF ReadIsCurrent
<1>14. InvertedFromOnePlace'
  <2> SUFFICES ASSUME NEW p \in library', Cardinality(p.by) <= 1
               PROVE  p.favorite <=> p.inverted % 2 = 1
    BY DEF InvertedFromOnePlace
  <2>1. CASE p \in library
    BY <1>0, <2>1 DEF InvertedFromOnePlace
  <2>2. CASE p = new
    <3>1. 0 % 2 # 1
      OBVIOUS
    <3> QED
      BY <1>4, <2>2, <3>1
  <2> QED
    BY <1>7, <2>1, <2>2
<1> QED
  BY <1>9, <1>11, <1>12, <1>13, <1>14 DEF LibraryInv

(* What is read of a row is of the only row with its id. *)
LEMMA ToggleKeepsInv ==
  ASSUME LibraryInv, NEW u \in LibraryUser, ToggleFavorite(u)
  PROVE  LibraryInv'
<1>0. LibraryTypes /\ IdsAreSaves /\ RequestsHoldMutex /\ ReadIsCurrent /\ InvertedFromOnePlace
  BY DEF LibraryInv
<1>1. PICK p \in library :
        desk' = [desk EXCEPT ![u] = [at |-> "toggling", id |-> p.id, favorite |-> ~p.favorite]]
  BY DEF ToggleFavorite
<1> DEFINE busy == [at |-> "toggling", id |-> p.id, favorite |-> ~p.favorite]
<1>2. p.id \in Nat /\ p.favorite \in BOOLEAN /\ p.id <= saves
  BY <1>0 DEF LibraryTypes, Prompt, IdsAreSaves
<1>3. busy \in Desk /\ busy.id = p.id /\ busy.favorite = ~p.favorite
  BY <1>2 DEF Desk
<1>4. desk' = [desk EXCEPT ![u] = busy]
  BY <1>1
<1> HIDE DEF busy
<1>5. library' = library /\ saves' = saves /\ screen' = screen /\ Begins(u) /\ KeepsLock(u)
  BY DEF ToggleFavorite
<1>6. \A v \in LibraryUser \ {u} : desk'[v] = desk[v]
  BY <1>0, <1>4 DEF LibraryTypes
<1>7. desk'[u] = busy
  BY <1>0, <1>4 DEF LibraryTypes
<1>8. LibraryTypes'
  BY <1>0, <1>3, <1>4, <1>5 DEF LibraryTypes
<1>9. IdsAreSaves'
  <2>1. \A v \in LibraryUser : desk'[v].id <= saves'
    BY <1>0, <1>2, <1>3, <1>5, <1>6, <1>7 DEF IdsAreSaves
  <2> QED
    BY <1>0, <1>5, <2>1 DEF IdsAreSaves
<1>10. RequestsHoldMutex'
  <2>1. u \in Asker \/ mutexOf' = mutexOf
    BY <1>5 DEF KeepsLock
  <2> QED
    BY <1>5, <1>6, <1>8, <2>1, BeginnersHoldMutex DEF LibraryTypes
<1>11. ReadIsCurrent'
  <2> SUFFICES ASSUME NEW v \in LibraryUser, NEW q \in library,
                      desk'[v].at = "toggling", desk'[v].id = q.id, q.by \subseteq {From(v)}
               PROVE  desk'[v].favorite = ~q.favorite
    BY <1>5 DEF ReadIsCurrent, From
  <2>1. CASE v = u
    <3>1. q = p
      BY <1>0, <1>3, <1>7, <2>1 DEF IdsAreSaves
    <3> QED
      BY <1>3, <1>7, <2>1, <3>1
  <2>2. CASE v # u
    <3>1. desk'[v] = desk[v]
      BY <1>6, <2>2
    <3> QED
      BY <1>0, <3>1 DEF ReadIsCurrent
  <2> QED
    BY <2>1, <2>2
<1>12. InvertedFromOnePlace'
  BY <1>0, <1>5 DEF InvertedFromOnePlace
<1> QED
  BY <1>8, <1>9, <1>10, <1>11, <1>12 DEF LibraryInv

Written(p, f, w) == [p EXCEPT !.favorite = f, !.inverted = @ + 1, !.by = @ \cup {w}]

(* The three fields the write changes, one after the other. *)
LEMMA WrittenFields ==
  ASSUME NEW p \in Prompt, NEW f \in BOOLEAN, NEW w \in Place
  PROVE  /\ Written(p, f, w) \in Prompt /\ Written(p, f, w).id = p.id
         /\ Written(p, f, w).prompt = p.prompt /\ Written(p, f, w).favorite = f
         /\ Written(p, f, w).inverted = p.inverted + 1 /\ Written(p, f, w).by = p.by \cup {w}
<1>0. PICK q : q = Written(p, f, w)
  OBVIOUS
<1>1. PICK a : a = [p EXCEPT !.favorite = f]
  OBVIOUS
<1>2. a \in Prompt /\ a.id = p.id /\ a.prompt = p.prompt /\ a.inverted = p.inverted /\ a.by = p.by
  BY <1>1 DEF Prompt
<1>3. a.favorite = f
  BY <1>1 DEF Prompt
<1>4. PICK b : b = [a EXCEPT !.inverted = p.inverted + 1]
  OBVIOUS
<1>5. b \in Prompt /\ b.id = a.id /\ b.prompt = a.prompt /\ b.inverted = p.inverted + 1 /\ b.by = a.by
  BY <1>2, <1>4 DEF Prompt
<1>6. b.favorite = a.favorite
  BY <1>2, <1>4 DEF Prompt
<1> DEFINE places == p.by \cup {w}
<1>7. q = [b EXCEPT !.by = places] /\ places \in SUBSET Place
  BY <1>0, <1>1, <1>4 DEF Prompt, Written
<1>10. places = p.by \cup {w}
  OBVIOUS
<1> HIDE DEF places
<1>8. q \in Prompt /\ q.id = b.id /\ q.prompt = b.prompt /\ q.inverted = b.inverted /\ q.by = places
  BY <1>5, <1>7 DEF Prompt
<1>9. q.favorite = b.favorite
  BY <1>5, <1>7 DEF Prompt
<1> QED
  BY <1>0, <1>2, <1>3, <1>5, <1>6, <1>8, <1>9, <1>10

(* The write inverts what was read, unless another place wrote between.    *)
LEMMA WriteKeepsInv ==
  ASSUME LibraryInv, NEW u \in LibraryUser, WriteFavorite(u)
  PROVE  LibraryInv'
<1>0. LibraryTypes /\ IdsAreSaves /\ RequestsHoldMutex /\ ReadIsCurrent /\ InvertedFromOnePlace
  BY DEF LibraryInv
<1> DEFINE f == desk[u].favorite
           W(p) == Written(p, f, From(u))
<1>1. desk[u].at = "toggling" /\ f \in BOOLEAN /\ From(u) \in Place
  BY <1>0, FromIsPlace DEF WriteFavorite, LibraryTypes, Desk
<1>2. ASSUME NEW p \in library
      PROVE  /\ W(p) \in Prompt /\ W(p).id = p.id /\ W(p).prompt = p.prompt
             /\ W(p).favorite = f /\ W(p).inverted = p.inverted + 1 /\ W(p).by = p.by \cup {From(u)}
  BY <1>0, <1>1, <1>2, WrittenFields DEF LibraryTypes
<1>3. library' = {IF p.id = desk[u].id THEN W(p) ELSE p : p \in library}
  BY DEF WriteFavorite, Written
<1>4. f = desk[u].favorite
  OBVIOUS
<1> HIDE DEF f, W
<1>5. \A q \in library' : \E p \in library :
        \/ p.id = desk[u].id /\ q = W(p)
        \/ p.id # desk[u].id /\ q = p
  BY <1>3
<1>6. saves' = saves /\ screen' = screen /\ desk' = [desk EXCEPT ![u] = NoWork] /\ mutexOf' = mutexOf \ {u}
  BY DEF WriteFavorite, Done
<1>7. NoWork \in Desk /\ NoWork.at = "idle" /\ NoWork.id = 0
  BY DEF NoWork, Desk
<1>8. \A v \in LibraryUser : desk'[v] = IF v = u THEN NoWork ELSE desk[v]
  BY <1>0, <1>6 DEF LibraryTypes
<1>9. LibraryTypes'
  <2>1. library' \subseteq Prompt
    BY <1>0, <1>2, <1>5 DEF LibraryTypes
  <2> QED
    BY <1>0, <1>6, <1>7, <2>1 DEF LibraryTypes
<1>10. IdsAreSaves'
  <2>1. ASSUME NEW q \in library' PROVE q.id = q.prompt /\ q.id <= saves' /\ IsFiniteSet(q.by)
    <3>1. PICK p \in library : (p.id = desk[u].id /\ q = W(p)) \/ (p.id # desk[u].id /\ q = p)
      BY <1>5, <2>1
    <3>2. p.id = p.prompt /\ p.id <= saves /\ IsFiniteSet(p.by)
      BY <1>0 DEF IdsAreSaves
    <3>3. IsFiniteSet(p.by \cup {From(u)})
      BY <3>2, FS_AddElement
    <3> QED
      BY <1>2, <1>6, <3>1, <3>2, <3>3
  <2>2. ASSUME NEW q \in library', NEW r \in library', q.id = r.id PROVE q = r
    <3>1. PICK p \in library : (p.id = desk[u].id /\ q = W(p)) \/ (p.id # desk[u].id /\ q = p)
      BY <1>5, <2>2
    <3>2. PICK o \in library : (o.id = desk[u].id /\ r = W(o)) \/ (o.id # desk[u].id /\ r = o)
      BY <1>5, <2>2
    <3>3. q.id = p.id /\ r.id = o.id
      BY <1>2, <3>1, <3>2
    <3>4. p = o
      BY <1>0, <2>2, <3>3 DEF IdsAreSaves
    <3> QED
      BY <3>1, <3>2, <3>4
  <2>3. \A v \in LibraryUser : desk'[v].id <= saves'
    BY <1>0, <1>6, <1>7, <1>8 DEF IdsAreSaves, LibraryTypes
  <2> QED
    BY <1>0, <1>6, <2>1, <2>2, <2>3 DEF IdsAreSaves
<1>11. RequestsHoldMutex'
  <2> SUFFICES ASSUME NEW v \in Asker, desk'[v].at # "idle" PROVE mutexOf' = {v}
    BY DEF RequestsHoldMutex
  <2>1. v # u /\ desk'[v] = desk[v]
    BY <1>7, <1>8 DEF LibraryUser
  <2>2. mutexOf = {v}
    BY <1>0, <2>1 DEF RequestsHoldMutex
  <2> QED
    BY <1>6, <2>1, <2>2
<1>12. ReadIsCurrent'
  <2> SUFFICES ASSUME NEW v \in LibraryUser, NEW q \in library',
                      desk'[v].at = "toggling", desk'[v].id = q.id, q.by \subseteq {From(v)}
               PROVE  desk'[v].favorite = ~q.favorite
    BY DEF ReadIsCurrent, From
  <2>1. v # u /\ desk'[v] = desk[v]
    BY <1>7, <1>8
  <2>2. PICK p \in library : (p.id = desk[u].id /\ q = W(p)) \/ (p.id # desk[u].id /\ q = p)
    BY <1>5
  <2>3. CASE p.id = desk[u].id /\ q = W(p)
    <3>1. From(u) = From(v)
      BY <1>2, <2>3
    <3>2. u \in Asker /\ v \in Asker
      BY <2>1, <3>1, PlacesDiffer
    <3>3. mutexOf = {u} /\ mutexOf = {v}
      BY <1>0, <1>1, <2>1, <3>2 DEF RequestsHoldMutex
    <3> QED
      BY <2>1, <3>3
  <2>4. CASE p.id # desk[u].id /\ q = p
    BY <1>0, <2>1, <2>4 DEF ReadIsCurrent
  <2> QED
    BY <2>2, <2>3, <2>4
<1>13. InvertedFromOnePlace'
  <2> SUFFICES ASSUME NEW q \in library', Cardinality(q.by) <= 1
               PROVE  q.favorite <=> q.inverted % 2 = 1
    BY DEF InvertedFromOnePlace
  <2>1. PICK p \in library : (p.id = desk[u].id /\ q = W(p)) \/ (p.id # desk[u].id /\ q = p)
    BY <1>5
  <2>2. CASE p.id # desk[u].id /\ q = p
    BY <1>0, <2>2 DEF InvertedFromOnePlace
  <2>3. CASE p.id = desk[u].id /\ q = W(p)
    <3>1. q.by = p.by \cup {From(u)} /\ q.favorite = f /\ q.inverted = p.inverted + 1
      BY <1>2, <2>3
    <3>2. IsFiniteSet(q.by)
      <4>1. IsFiniteSet(p.by)
        BY <1>0 DEF IdsAreSaves
      <4> QED
        BY <3>1, <4>1, FS_AddElement
    <3>3. q.by = {From(u)}
      BY <3>1, <3>2, OnlyElement
    <3>4. p.by \subseteq {From(u)}
      BY <3>1, <3>3
    <3>5. f = ~p.favorite
      BY <1>0, <1>1, <1>4, <2>3, <3>4 DEF ReadIsCurrent
    <3>6. Cardinality(p.by) <= 1
      BY <3>4, AtMostOne
    <3>7. p.favorite <=> p.inverted % 2 = 1
      BY <1>0, <3>6 DEF InvertedFromOnePlace
    <3>8. p.inverted \in Nat
      BY <1>0 DEF LibraryTypes, Prompt
    <3>9. q.inverted % 2 = 1 <=> p.inverted % 2 # 1
      BY <3>1, <3>8, Parity
    <3> HIDE DEF InvertedFromOnePlace
    <3> QED
      BY <3>1, <3>5, <3>7, <3>9, Zenon
  <2> QED
    BY <2>1, <2>2, <2>3
<1> QED
  BY <1>9, <1>10, <1>11, <1>12, <1>13 DEF LibraryInv

(* However many chats and requests save, remove and invert, an id stays    *)
(* its prompt's, and what one place alone inverts is inverted every time.  *)
THEOREM PromptsKeepIds == LibrarySpec => []IdsKeepTheirPrompt
<1>1. LibraryInv /\ [LibraryNext]_libraryVars => LibraryInv'
  <2> SUFFICES ASSUME LibraryInv, [LibraryNext]_libraryVars PROVE LibraryInv'
    OBVIOUS
  <2>1. ASSUME NEW u \in Asker, DashboardRequest(u) PROVE LibraryInv'
    <3>1. u \in LibraryUser
      BY DEF LibraryUser
    <3>2. CASE List(u) \/ Delete(u) \/ Created(u)
      BY <3>1, <3>2, ReadsKeepInv
    <3> QED
      BY <2>1, <3>1, <3>2, SaveKeepsInv, ToggleKeepsInv, WriteKeepsInv DEF DashboardRequest
  <2>2. ASSUME NEW u \in Terminal, HandlePromptCommand(u) PROVE LibraryInv'
    <3>1. u \in LibraryUser
      BY DEF LibraryUser
    <3>2. CASE List(u) \/ Delete(u)
      BY <3>1, <3>2, ReadsKeepInv
    <3> QED
      BY <2>2, <3>1, <3>2, SaveKeepsInv, ToggleKeepsInv, WriteKeepsInv DEF HandlePromptCommand
  <2>3. CASE UNCHANGED libraryVars
    BY <2>3 DEF libraryVars, LibraryInv, LibraryTypes, IdsAreSaves, RequestsHoldMutex, ReadIsCurrent,
       InvertedFromOnePlace, From
  <2> QED
    BY <2>1, <2>2, <2>3 DEF LibraryNext
<1>2. LibraryInv => IdsKeepTheirPrompt
  <2> SUFFICES ASSUME LibraryInv PROVE IdsKeepTheirPrompt
    OBVIOUS
  <2>1. \A u \in LibraryUser, p \in library : \A r \in screen[u] : r.id = p.id => r.prompt = p.prompt
    BY DEF LibraryInv, IdsAreSaves
  <2>2. \A p, q \in library : p.id = q.id => p = q
    BY DEF LibraryInv, IdsAreSaves
  <2> QED
    BY <2>1, <2>2 DEF IdsKeepTheirPrompt, LibraryInv, InvertedFromOnePlace
<1> QED
  BY <1>1, <1>2, LibraryInvInit, PTL DEF LibrarySpec

-----------------------------------------------------------------------------
(* How a session gets its tools. *)

SourceOfTool == {"default", "skill", "mcp", "lsp"}
ToolName == OwnTool \cup SkillName \cup McpName \cup LspName
Tool == [name : ToolName, from : SourceOfTool, dir : SkillDir \cup {"none"}, boxed : BOOLEAN]
Status == [dir : SkillDir, status : {"vet", "block"}]

ToolTypes ==
  /\ disk \in [SkillDir -> Manifests]
  /\ vetted = Nothing \/ vetted \in [dir : SkillDir, decision : {"vet", "block"}]
  /\ decided \in [SkillDir -> {"none", "vet", "block"}]
  /\ toolset \in Seq(Tool)
  /\ statuses \in Seq(Status)

(* The directories of a stage are its own, and none is left after them.    *)
StagesAreApart ==
  \/ stage = "own" /\ todo \subseteq OwnSkill
  \/ stage = "user" /\ todo \subseteq UserSkill
  \/ stage \notin {"own", "user"} /\ todo = {}

(* The directories dealt with: none is vetted again. *)
Past == IF stage = "own" THEN OwnSkill \ todo ELSE SkillDir \ todo

VettedIsAtHand ==
  vetted # Nothing =>
    /\ stage \in {"own", "user"} /\ vetted.dir \in todo
    /\ decided[vetted.dir] = vetted.decision

PastWasTold ==
  \A d \in Past : [dir |-> d, status |-> decided[d]] \in ToSet(statuses)

NamesApart(tools) ==
  \A i, j \in DOMAIN tools : tools[i].name = tools[j].name => i = j

SkillSound(tool) ==
  tool.from = "skill" =>
    /\ tool.dir \in Past
    /\ decided[tool.dir] = "vet"
    /\ tool.boxed <=> tool.dir \in UserSkill

SkillsWereVetted == \A i \in DOMAIN toolset : SkillSound(toolset[i])

SetupInv ==
  /\ ToolTypes /\ StagesAreApart /\ VettedIsAtHand /\ PastWasTold
  /\ NamesApart(toolset) /\ SkillsWereVetted

(* A list of tools with one more at its end. *)
LEMMA OneMoreTool ==
  ASSUME NEW tools \in Seq(Tool), NEW tool \in Tool, NamesApart(tools),
         ~\E i \in DOMAIN tools : tools[i].name = tool.name
  PROVE  /\ Append(tools, tool) \in Seq(Tool)
         /\ NamesApart(Append(tools, tool))
         /\ \A i \in DOMAIN Append(tools, tool) :
              \/ i \in DOMAIN tools /\ Append(tools, tool)[i] = tools[i]
              \/ Append(tools, tool)[i] = tool
<1> DEFINE more == Append(tools, tool)
<1>1. more \in Seq(Tool) /\ Len(more) = Len(tools) + 1 /\ Len(tools) \in Nat
  OBVIOUS
<1>2. \A i \in 1..Len(tools) : more[i] = tools[i]
  OBVIOUS
<1>3. more[Len(tools) + 1] = tool
  OBVIOUS
<1>4. DOMAIN tools = 1..Len(tools) /\ DOMAIN more = 1..(Len(tools) + 1)
  BY <1>1
<1> HIDE DEF more
<1>5. \A i \in DOMAIN more : (i \in DOMAIN tools /\ more[i] = tools[i]) \/ (i = Len(tools) + 1 /\ more[i] = tool)
  BY <1>1, <1>2, <1>3, <1>4
<1>6. NamesApart(more)
  <2> SUFFICES ASSUME NEW i \in DOMAIN more, NEW j \in DOMAIN more, more[i].name = more[j].name
               PROVE  i = j
    BY DEF NamesApart
  <2>1. CASE i \in DOMAIN tools /\ more[i] = tools[i]
    BY <1>5, <2>1 DEF NamesApart
  <2>2. CASE i = Len(tools) + 1 /\ more[i] = tool
    BY <1>5, <2>2
  <2> QED
    BY <1>5, <2>1, <2>2
<1> QED
  BY <1>1, <1>5, <1>6 DEF more

LEMMA StatusAppended ==
  ASSUME NEW s \in Seq(Status), NEW e \in Status
  PROVE  Append(s, e) \in Seq(Status) /\ ToSet(Append(s, e)) = ToSet(s) \cup {e}
<1> DEFINE t == Append(s, e)
<1>1. t \in Seq(Status) /\ DOMAIN t = 1..(Len(s) + 1) /\ DOMAIN s = 1..Len(s) /\ Len(s) \in Nat
  OBVIOUS
<1>2. (\A i \in 1..Len(s) : t[i] = s[i]) /\ t[Len(s) + 1] = e
  OBVIOUS
<1> HIDE DEF t
<1>3. ToSet(t) = ToSet(s) \cup {e}
  <2>1. ASSUME NEW x \in ToSet(t) PROVE x \in ToSet(s) \cup {e}
    <3>1. PICK i \in 1..(Len(s) + 1) : x = t[i]
      BY <1>1, <2>1 DEF ToSet
    <3>2. CASE i \in 1..Len(s)
      BY <1>1, <1>2, <3>1, <3>2 DEF ToSet
    <3>3. CASE i = Len(s) + 1
      BY <1>2, <3>1, <3>3
    <3> QED
      BY <1>1, <3>2, <3>3
  <2>2. ASSUME NEW x \in ToSet(s) \cup {e} PROVE x \in ToSet(t)
    <3>1. CASE x \in ToSet(s)
      <4>1. PICK i \in 1..Len(s) : x = s[i]
        BY <1>1, <3>1 DEF ToSet
      <4>2. i \in 1..(Len(s) + 1) /\ x = t[i]
        BY <1>1, <1>2, <4>1
      <4> QED
        BY <1>1, <4>2 DEF ToSet
    <3>2. CASE x = e
      <4>1. Len(s) + 1 \in 1..(Len(s) + 1) /\ x = t[Len(s) + 1]
        BY <1>1, <1>2, <3>2
      <4> QED
        BY <1>1, <4>1 DEF ToSet
    <3> QED
      BY <2>2, <3>1, <3>2
  <2> QED
    BY <2>1, <2>2
<1> QED
  BY <1>1, <1>3 DEF t

LEMMA SeqOfSet ==
  ASSUME NEW S, NEW k, k = Cardinality(S), NEW b \in [1..k -> S], IsInjective(b)
  PROVE  SetToSeq(S) \in [1..k -> S] /\ IsInjective(SetToSeq(S))
<1>1. SetToSeq(S) = CHOOSE f \in [1..k -> S] : IsInjective(f)
  BY DEF SetToSeq
<1> QED
  BY <1>1

(* The tools of a session's own are finitely many, each once in the list.  *)
LEMMA OwnToolsApart ==
  LET S == {[name |-> n, from |-> "default", dir |-> "none", boxed |-> FALSE] : n \in OwnTool}
  IN  /\ SetToSeq(S) \in Seq(Tool)
      /\ NamesApart(SetToSeq(S))
      /\ \A i \in DOMAIN SetToSeq(S) : SetToSeq(S)[i].from = "default"
<1> DEFINE own(n) == [name |-> n, from |-> "default", dir |-> "none", boxed |-> FALSE]
           S == {own(n) : n \in OwnTool}
           f == [n \in OwnTool |-> own(n)]
           k == Cardinality(S)
<1>1. f \in Surjection(OwnTool, S)
  BY DEF Surjection
<1>3. IsFiniteSet(S)
  BY <1>1, SetupConstants, FS_Surjection
<1>4. k \in Nat /\ ExistsBijection(1..k, S)
  BY <1>3, FS_CardinalityType
<1>5. PICK b \in [1..k -> S] : IsInjective(b)
  BY <1>4 DEF ExistsBijection, Bijection, Injection
<1> DEFINE q == SetToSeq(S)
<1>6. q \in [1..k -> S] /\ IsInjective(q)
  <2> HIDE DEF S
  <2> QED
    BY <1>5, SeqOfSet
<1>7. ASSUME NEW x \in S PROVE x \in Tool /\ x.from = "default" /\ x = own(x.name)
  <2>1. PICK n \in OwnTool : x = own(n)
    BY <1>7
  <2>2. own(n).name = n /\ own(n).from = "default"
    OBVIOUS
  <2>3. own(n) \in Tool
    BY DEF Tool, ToolName, SourceOfTool
  <2> HIDE DEF own, S
  <2>4. x.name = n /\ x.from = "default" /\ x \in Tool
    BY <2>1, <2>2, <2>3
  <2>5. x = own(x.name)
    BY <2>1, <2>4
  <2> QED
    BY <2>4, <2>5
<1>9. \A i \in DOMAIN q : q[i] \in S
  BY <1>6
<1> HIDE DEF q, S, k
<1>10. q \in Seq(Tool)
  BY <1>4, <1>6, <1>7
<1>11. NamesApart(q)
  <2> SUFFICES ASSUME NEW i \in DOMAIN q, NEW j \in DOMAIN q, q[i].name = q[j].name PROVE i = j
    BY DEF NamesApart
  <2> HIDE DEF own
  <2>1. q[i] = q[j]
    BY <1>7, <1>9
  <2> QED
    BY <1>6, <2>1 DEF IsInjective
<1> QED
  BY <1>7, <1>9, <1>10, <1>11 DEF q, S
LEMMA WithToolKeeps ==
  ASSUME NEW tools \in Seq(Tool), NamesApart(tools), NEW name \in ToolName, NEW from \in {"mcp", "lsp"}
  PROVE  /\ WithTool(tools, name, from) \in Seq(Tool)
         /\ NamesApart(WithTool(tools, name, from))
         /\ \A i \in DOMAIN WithTool(tools, name, from) :
              \/ i \in DOMAIN tools /\ WithTool(tools, name, from)[i] = tools[i]
              \/ WithTool(tools, name, from)[i].from # "skill"
<1> DEFINE tool == [name |-> name, from |-> from, dir |-> "none", boxed |-> FALSE]
<1>1. tool \in Tool /\ tool.name = name /\ tool.from # "skill"
  BY DEF Tool, SourceOfTool
<1>2. WithTool(tools, name, from) =
        IF \E i \in DOMAIN tools : tools[i].name = name THEN tools ELSE Append(tools, tool)
  BY DEF WithTool
<1> HIDE DEF tool
<1>3. CASE \E i \in DOMAIN tools : tools[i].name = name
  BY <1>2, <1>3
<1>4. CASE ~\E i \in DOMAIN tools : tools[i].name = name
  <2>1. WithTool(tools, name, from) = Append(tools, tool)
    BY <1>2, <1>4
  <2>2. ~\E i \in DOMAIN tools : tools[i].name = tool.name
    BY <1>1, <1>4
  <2> QED
    BY <1>1, <2>1, <2>2, OneMoreTool
<1> QED
  BY <1>3, <1>4

LEMMA RegisterAllKeeps ==
  ASSUME toolset \in Seq(Tool), NamesApart(toolset),
         NEW names, names \subseteq ToolName, NEW from \in {"mcp", "lsp"}, RegisterAll(names, from)
  PROVE  /\ toolset' \in Seq(Tool) /\ NamesApart(toolset')
         /\ \A i \in DOMAIN toolset' :
              (i \in DOMAIN toolset /\ toolset'[i] = toolset[i]) \/ toolset'[i].from # "skill"
<1>1. CASE UNCHANGED toolset
  BY <1>1
<1>2. ASSUME NEW n \in names, toolset' = WithTool(toolset, n, from)
      PROVE  /\ toolset' \in Seq(Tool) /\ NamesApart(toolset')
             /\ \A i \in DOMAIN toolset' :
                  (i \in DOMAIN toolset /\ toolset'[i] = toolset[i]) \/ toolset'[i].from # "skill"
  <2>1. n \in ToolName
    OBVIOUS
  <2> QED
    BY <1>2, <2>1, WithToolKeeps
<1>3. ASSUME NEW m \in names, NEW n \in names,
             toolset' = WithTool(WithTool(toolset, m, from), n, from)
      PROVE  /\ toolset' \in Seq(Tool) /\ NamesApart(toolset')
             /\ \A i \in DOMAIN toolset' :
                  (i \in DOMAIN toolset /\ toolset'[i] = toolset[i]) \/ toolset'[i].from # "skill"
  <2>0. m \in ToolName /\ n \in ToolName
    OBVIOUS
  <2>1. PICK mid : mid = WithTool(toolset, m, from)
    OBVIOUS
  <2>2. /\ mid \in Seq(Tool) /\ NamesApart(mid)
        /\ \A i \in DOMAIN mid :
             (i \in DOMAIN toolset /\ mid[i] = toolset[i]) \/ mid[i].from # "skill"
    BY <2>0, <2>1, WithToolKeeps
  <2>3. toolset' = WithTool(mid, n, from)
    BY <1>3, <2>1
  <2>4. /\ toolset' \in Seq(Tool) /\ NamesApart(toolset')
        /\ \A i \in DOMAIN toolset' :
             (i \in DOMAIN mid /\ toolset'[i] = mid[i]) \/ toolset'[i].from # "skill"
    BY <2>0, <2>2, <2>3, WithToolKeeps
  <2> QED
    BY <2>2, <2>4
<1> QED
  BY <1>1, <1>2, <1>3 DEF RegisterAll

LEMMA SetupInvInit == SetupInit => SetupInv
<1> SUFFICES ASSUME SetupInit PROVE SetupInv
  OBVIOUS
<1>1. /\ toolset \in Seq(Tool) /\ NamesApart(toolset)
      /\ \A i \in DOMAIN toolset : toolset[i].from = "default"
  BY OwnToolsApart DEF SetupInit
<1>2. ToolTypes
  BY <1>1 DEF SetupInit, ToolTypes
<1>3. StagesAreApart
  BY DEF SetupInit, StagesAreApart
<1>4. VettedIsAtHand /\ PastWasTold
  BY DEF SetupInit, VettedIsAtHand, PastWasTold, Past
<1>5. SkillsWereVetted
  BY <1>1 DEF SkillsWereVetted, SkillSound
<1> QED
  BY <1>1, <1>2, <1>3, <1>4, <1>5 DEF SetupInv

LEMMA DecisionIsOne == \A m : Decision(m) \in {"vet", "block"}
  BY DEF Decision

(* The directory vetted is none of those dealt with. *)
LEMMA VetKeepsInv ==
  ASSUME SetupInv, NEW d \in SkillDir, Vet(d)
  PROVE  SetupInv'
<1>0. ToolTypes /\ StagesAreApart /\ PastWasTold /\ NamesApart(toolset) /\ SkillsWereVetted
  BY DEF SetupInv
<1>1. PICK c \in {"vet", "block"} : vetted' = [dir |-> d, decision |-> c] /\ decided' = [decided EXCEPT ![d] = c]
  BY DecisionIsOne DEF Vet
<1>2. /\ stage \in {"own", "user"} /\ d \in todo
      /\ disk' = disk /\ stage' = stage /\ todo' = todo /\ toolset' = toolset /\ statuses' = statuses
  BY DEF Vet
<1>3. Past' = Past /\ d \notin Past /\ Past \subseteq SkillDir
  BY <1>2 DEF Past, SkillDir
<1>4. \A e \in Past : decided'[e] = decided[e]
  BY <1>0, <1>1, <1>3 DEF ToolTypes
<1>5. ToolTypes'
  BY <1>0, <1>1, <1>2 DEF ToolTypes
<1>6. StagesAreApart'
  BY <1>0, <1>2 DEF StagesAreApart
<1>7. VettedIsAtHand'
  BY <1>0, <1>1, <1>2 DEF VettedIsAtHand, ToolTypes
<1>8. PastWasTold'
  BY <1>0, <1>2, <1>3, <1>4 DEF PastWasTold
<1>9. SkillsWereVetted'
  <2> SUFFICES ASSUME NEW i \in DOMAIN toolset, toolset[i].from = "skill"
               PROVE  toolset[i].dir \in Past /\ decided'[toolset[i].dir] = "vet"
                      /\ (toolset[i].boxed <=> toolset[i].dir \in UserSkill)
    BY <1>2, <1>3 DEF SkillsWereVetted, SkillSound
  <2> QED
    BY <1>0, <1>4 DEF SkillsWereVetted, SkillSound
<1> QED
  BY <1>0, <1>2, <1>5, <1>6, <1>7, <1>8, <1>9 DEF SetupInv

(* What is registered of the directory at hand. *)
LEMMA AdmitKeepsInv ==
  ASSUME SetupInv, Admit
  PROVE  SetupInv'
<1>0. /\ ToolTypes /\ StagesAreApart /\ VettedIsAtHand /\ PastWasTold
      /\ NamesApart(toolset) /\ SkillsWereVetted
  BY DEF SetupInv
<1>1. /\ vetted \in [dir : SkillDir, decision : {"vet", "block"}]
      /\ stage \in {"own", "user"} /\ vetted.dir \in todo /\ decided[vetted.dir] = vetted.decision
  BY <1>0 DEF Admit, ToolTypes, VettedIsAtHand
<1>2. PICK d \in SkillDir, c \in {"vet", "block"} : vetted.dir = d /\ vetted.decision = c
  BY <1>1
<1>3. /\ statuses' = Append(statuses, [dir |-> d, status |-> c]) /\ todo' = todo \ {d}
      /\ vetted' = Nothing /\ disk' = disk /\ stage' = stage /\ decided' = decided
  BY <1>2 DEF Admit
<1>4. [dir |-> d, status |-> c] \in Status
  BY DEF Status
<1>5. statuses' \in Seq(Status) /\ ToSet(statuses') = ToSet(statuses) \cup {[dir |-> d, status |-> c]}
  BY <1>0, <1>3, <1>4, StatusAppended DEF ToolTypes
<1>6. Past' = Past \cup {d}
  BY <1>0, <1>1, <1>2, <1>3 DEF Past, StagesAreApart
<1>7. PastWasTold'
  BY <1>0, <1>1, <1>2, <1>3, <1>5, <1>6 DEF PastWasTold
<1>8. /\ toolset' \in Seq(Tool) /\ NamesApart(toolset')
      /\ \A i \in DOMAIN toolset' :
           \/ i \in DOMAIN toolset /\ toolset'[i] = toolset[i]
           \/ toolset'[i].dir = d /\ c = "vet" /\ (toolset'[i].boxed <=> d \in UserSkill)
  <2>1. CASE UNCHANGED toolset
    BY <1>0, <2>1 DEF ToolTypes
  <2>2. CASE c = "vet" /\ disk[d].readable
             /\ Register([name |-> disk[d].name, from |-> "skill", dir |-> d, boxed |-> d \in UserSkill])
             /\ toolset' # toolset
    <3> DEFINE tool == [name |-> disk[d].name, from |-> "skill", dir |-> d, boxed |-> d \in UserSkill]
    <3>1. disk[d].name \in SkillName
      <4>1. PICK m : m = disk[d]
        OBVIOUS
      <4>2. m \in Manifests /\ m.readable
        BY <1>0, <2>2, <4>1 DEF ToolTypes
      <4>3. m # [readable |-> FALSE]
        BY <4>2
      <4>4. m \in [readable : {TRUE}, name : SkillName, entry : BOOLEAN, critical : BOOLEAN, passes : BOOLEAN]
        BY <4>2, <4>3 DEF Manifests
      <4> QED
        BY <4>1, <4>4
    <3>2. tool \in Tool /\ tool.dir = d /\ (tool.boxed <=> d \in UserSkill)
      <4>1. CASE d \in UserSkill
        <5>1. tool = [name |-> disk[d].name, from |-> "skill", dir |-> d, boxed |-> TRUE]
          BY <4>1
        <5> HIDE DEF tool
        <5> QED
          BY <3>1, <4>1, <5>1 DEF Tool, ToolName, SourceOfTool
      <4>2. CASE d \notin UserSkill
        <5>1. tool = [name |-> disk[d].name, from |-> "skill", dir |-> d, boxed |-> FALSE]
          <6>1. (d \in UserSkill) = FALSE
            BY <4>2
          <6> QED
            BY <6>1, Zenon
        <5> HIDE DEF tool
        <5> QED
          BY <3>1, <4>2, <5>1 DEF Tool, ToolName, SourceOfTool
      <4> QED
        BY <4>1, <4>2
    <3>3. toolset' = Append(toolset, tool) /\ ~\E i \in DOMAIN toolset : toolset[i].name = tool.name
      BY <2>2 DEF Register, Named
    <3> HIDE DEF tool
    <3> QED
      BY <1>0, <2>2, <3>2, <3>3, OneMoreTool DEF ToolTypes
  <2> QED
    BY <1>2, <2>1, <2>2 DEF Admit
<1>9. ToolTypes'
  BY <1>0, <1>3, <1>5, <1>8 DEF ToolTypes
<1>10. StagesAreApart' /\ VettedIsAtHand'
  BY <1>0, <1>3 DEF StagesAreApart, VettedIsAtHand
<1>11. SkillsWereVetted'
  <2> SUFFICES ASSUME NEW i \in DOMAIN toolset', toolset'[i].from = "skill"
               PROVE  toolset'[i].dir \in Past' /\ decided[toolset'[i].dir] = "vet"
                      /\ (toolset'[i].boxed <=> toolset'[i].dir \in UserSkill)
    BY <1>3 DEF SkillsWereVetted, SkillSound
  <2>1. CASE i \in DOMAIN toolset /\ toolset'[i] = toolset[i]
    BY <1>0, <1>6, <2>1 DEF SkillsWereVetted, SkillSound
  <2>2. CASE toolset'[i].dir = d /\ c = "vet" /\ (toolset'[i].boxed <=> d \in UserSkill)
    BY <1>1, <1>2, <1>6, <2>2
  <2> QED
    BY <1>8, <2>1, <2>2
<1> QED
  BY <1>7, <1>8, <1>9, <1>10, <1>11 DEF SetupInv

(* What was dealt with stays so when the next directories come. *)
LEMMA NextStageKeepsInv ==
  ASSUME SetupInv, NextStage
  PROVE  SetupInv'
<1>0. ToolTypes /\ StagesAreApart /\ PastWasTold /\ NamesApart(toolset) /\ SkillsWereVetted
  BY DEF SetupInv
<1>1. /\ todo = {} /\ vetted = Nothing /\ stage \in {"own", "user"}
      /\ stage' = IF stage = "own" THEN "user" ELSE "mcp"
      /\ todo' = IF stage = "own" THEN UserSkill ELSE {}
      /\ disk' = disk /\ vetted' = vetted /\ decided' = decided
      /\ toolset' = toolset /\ statuses' = statuses
  BY DEF NextStage
<1>2. Past' = Past
  BY <1>1, SetupConstants DEF Past, SkillDir
<1>3. ToolTypes'
  BY <1>0, <1>1 DEF ToolTypes
<1>4. StagesAreApart' /\ VettedIsAtHand'
  BY <1>1 DEF StagesAreApart, VettedIsAtHand
<1>5. PastWasTold' /\ SkillsWereVetted'
  BY <1>0, <1>1, <1>2 DEF PastWasTold, SkillsWereVetted, SkillSound
<1> QED
  BY <1>0, <1>1, <1>3, <1>4, <1>5 DEF SetupInv

(* Servers and queries come when all the directories were dealt with. *)
LEMMA ServersKeepInv ==
  ASSUME SetupInv, LoadMcp \/ LoadLsp
  PROVE  SetupInv'
<1>0. /\ ToolTypes /\ StagesAreApart /\ VettedIsAtHand /\ PastWasTold
      /\ NamesApart(toolset) /\ SkillsWereVetted
  BY DEF SetupInv
<1>1. /\ stage \notin {"own", "user"} /\ stage' \in {"lsp", "ready"}
      /\ disk' = disk /\ todo' = todo /\ vetted' = vetted /\ decided' = decided /\ statuses' = statuses
  BY DEF LoadMcp, LoadLsp
<1>2. /\ toolset' \in Seq(Tool) /\ NamesApart(toolset')
      /\ \A i \in DOMAIN toolset' :
           (i \in DOMAIN toolset /\ toolset'[i] = toolset[i]) \/ toolset'[i].from # "skill"
  <2>0. toolset \in Seq(Tool) /\ McpName \subseteq ToolName /\ LspName \subseteq ToolName
    BY <1>0 DEF ToolTypes, ToolName
  <2>1. CASE LoadMcp
    <3>1. RegisterAll(McpName, "mcp")
      BY <2>1 DEF LoadMcp
    <3> QED
      BY <1>0, <2>0, <3>1, RegisterAllKeeps
  <2>2. CASE LoadLsp
    <3>1. RegisterAll(LspName, "lsp")
      BY <2>2 DEF LoadLsp
    <3> QED
      BY <1>0, <2>0, <3>1, RegisterAllKeeps
  <2> QED
    BY <2>1, <2>2
<1>3. Past' = Past
  BY <1>1 DEF Past
<1>4. ToolTypes'
  BY <1>0, <1>1, <1>2 DEF ToolTypes
<1>5. StagesAreApart' /\ VettedIsAtHand'
  BY <1>0, <1>1 DEF StagesAreApart, VettedIsAtHand
<1>6. PastWasTold'
  BY <1>0, <1>1, <1>3 DEF PastWasTold
<1>7. SkillsWereVetted'
  BY <1>0, <1>1, <1>2, <1>3 DEF SkillsWereVetted, SkillSound
<1> QED
  BY <1>2, <1>4, <1>5, <1>6, <1>7 DEF SetupInv

(* However the directories are edited during the load, each name is one    *)
(* tool's, a skill among them was vetted and approved by this load, and    *)
(* the ledger is given the decision about every directory.                 *)
THEOREM NamesAreUnique == SetupSpec => []OneToolPerName
<1>1. SetupInv /\ [SetupNext]_setupVars => SetupInv'
  <2> SUFFICES ASSUME SetupInv, [SetupNext]_setupVars PROVE SetupInv'
    OBVIOUS
  <2>1. ASSUME NEW d \in SkillDir, EditSkill(d) PROVE SetupInv'
    <3>1. disk' \in [SkillDir -> Manifests]
      BY <2>1 DEF EditSkill, SetupInv, ToolTypes
    <3>2. UNCHANGED <<stage, todo, vetted, decided, toolset, statuses>>
      BY <2>1 DEF EditSkill
    <3> QED
      BY <3>1, <3>2 DEF SetupInv, ToolTypes, StagesAreApart, VettedIsAtHand, PastWasTold, Past,
         SkillsWereVetted, SkillSound
  <2>2. CASE UNCHANGED setupVars
    BY <2>2 DEF setupVars, SetupInv, ToolTypes, StagesAreApart, VettedIsAtHand, PastWasTold, Past,
       SkillsWereVetted, SkillSound
  <2> QED
    BY <2>1, <2>2, VetKeepsInv, AdmitKeepsInv, NextStageKeepsInv, ServersKeepInv DEF SetupNext
<1>2. SetupInv => OneToolPerName
  <2> SUFFICES ASSUME SetupInv PROVE OneToolPerName
    OBVIOUS
  <2>1. \A i, j \in DOMAIN toolset : toolset[i].name = toolset[j].name => i = j
    BY DEF SetupInv, NamesApart
  <2>2. ASSUME NEW i \in DOMAIN toolset, toolset[i].from = "skill"
        PROVE  /\ decided[toolset[i].dir] = "vet"
               /\ [dir |-> toolset[i].dir, status |-> "vet"] \in ToSet(statuses)
               /\ toolset[i].boxed <=> toolset[i].dir \in UserSkill
    <3>1. /\ toolset[i].dir \in Past /\ decided[toolset[i].dir] = "vet"
          /\ toolset[i].boxed <=> toolset[i].dir \in UserSkill
      BY <2>2 DEF SetupInv, SkillsWereVetted, SkillSound
    <3>2. [dir |-> toolset[i].dir, status |-> decided[toolset[i].dir]] \in ToSet(statuses)
      BY <3>1 DEF SetupInv, PastWasTold
    <3> QED
      BY <3>1, <3>2
  <2>3. ASSUME stage = "ready" PROVE \A d \in SkillDir : [dir |-> d, status |-> decided[d]] \in ToSet(statuses)
    <3>1. Past = SkillDir
      BY <2>3 DEF SetupInv, StagesAreApart, Past
    <3> QED
      BY <3>1 DEF SetupInv, PastWasTold
  <2> QED
    BY <2>1, <2>2, <2>3 DEF OneToolPerName
<1> QED
  BY <1>1, <1>2, SetupInvInit, PTL DEF SetupSpec

-----------------------------------------------------------------------------
(* The commands. *)

JobPhase == {"asked", "created", "waiting", "reading", "lost", "joining", "answered"}
Life == {"none", "running", "exited", "killed"}
Reply == [kind : {"none", "unstarted", "timeout", "error", "lost"}]
           \cup [kind : {"exit"}, code : {0, 1}]

CommandTypes ==
  /\ command \in [Job -> Timed]
  /\ phase \in [Job -> JobPhase]
  /\ main \in [Job -> Life] /\ helper \in [Job -> Life]
  /\ piped \in [Job -> Nat] /\ collected \in [Job -> Nat] /\ written \in [Job -> Nat]
  /\ cell \in [Job -> {"none", "created", "removed", "refused"}]
  /\ reply \in [Job -> Reply]

(* What was written was read or is in the pipe, and a process that ended   *)
(* by itself wrote all it has to write.                                    *)
NothingIsLost(c) ==
  /\ written[c] = piped[c] + collected[c]
  /\ main[c] = "exited" => written[c] = command[c].writes

(* Nothing runs before the start; a helper is one the command leaves.      *)
StartsOnce(c) ==
  /\ phase[c] \in {"asked", "created"} => main[c] = "none" /\ helper[c] = "none"
  /\ command[c].leaves = "nothing" => helper[c] = "none"

(* Only a container has the phases of one, and it is there in no others.   *)
CellsAreCells(c) ==
  /\ phase[c] \in {"created", "lost"} => Way(c) = "cell"
  /\ cell[c] = "created" =>
       Way(c) = "cell" /\ phase[c] \in {"created", "waiting", "reading", "lost", "joining"}

(* An exit is read of a process that exited; who waits for the pipes of a  *)
(* step past its deadline has killed its group.                            *)
GroupIsGone(c) == main[c] # "running" /\ (helper[c] = "running" => command[c].leaves = "away")
EndsAreReal(c) ==
  /\ phase[c] = "reading" => main[c] = "exited"
  /\ phase[c] = "joining" /\ Way(c) # "cell" => GroupIsGone(c)

(* What an answer says stays so: nothing is left to be read beside an exit *)
(* code, and nothing of the group after a deadline.                        *)
AnswerStands(c) ==
  phase[c] = "answered" =>
    /\ reply[c].kind = "exit" /\ Way(c) # "cell" => main[c] = "exited" /\ piped[c] = 0
    /\ reply[c].kind = "timeout" /\ Way(c) \in {"skill", "step"} => GroupIsGone(c)

JobFacts(c) ==
  NothingIsLost(c) /\ StartsOnce(c) /\ CellsAreCells(c) /\ EndsAreReal(c) /\ AnswerStands(c)

CommandInv == CommandTypes /\ \A c \in Job : JobFacts(c)

LEMMA CommandInvInit == ToolInit => CommandInv
<1>1. SUFFICES ASSUME ToolInit PROVE CommandInv
  OBVIOUS
<1>2. CommandTypes
  BY <1>1 DEF ToolInit, CommandTypes, JobPhase, Life, Reply, Unanswered
<1>3. ASSUME NEW c \in Job PROVE JobFacts(c)
  <2>1. command[c].writes \in Nat
    BY <1>1, PipeHolds DEF ToolInit, Timed, Commands
  <2>2. QED
    BY <1>1, <2>1, <1>3 DEF ToolInit, JobFacts, NothingIsLost, StartsOnce, CellsAreCells, EndsAreReal,
       AnswerStands
<1>4. QED
  BY <1>2, <1>3 DEF CommandInv

(* What the commands are, as far as the proofs need it.                    *)
LEMMA CommandFields ==
  ASSUME CommandTypes, NEW c \in Job
  PROVE  /\ command[c].writes \in Nat /\ command[c].exit \in {0, 1}
         /\ Way(c) \in {"bash", "skill", "step", "cell"}
         /\ command[c].leaves \in {"nothing", "group", "away"}
         /\ Way(c) = "cell" => command[c].leaves = "nothing"
  BY PipeHolds DEF CommandTypes, Timed, Commands, Way

JobAt(c) == <<command[c], phase[c], main[c], helper[c], piped[c], collected[c], written[c], cell[c], reply[c]>>

(* A step of one job that keeps the types keeps what is so of the others.  *)
LEMMA OtherJobs ==
  ASSUME CommandInv, NEW c \in Job, CommandTypes', JobFacts(c)',
         \A d \in Job \ {c} : JobAt(d)' = JobAt(d)
  PROVE  CommandInv'
<1>1. ASSUME NEW d \in Job PROVE JobFacts(d)'
  <2>1. CASE d = c
    BY <2>1
  <2>2. CASE d # c
    <3>1. /\ command'[d] = command[d] /\ phase'[d] = phase[d] /\ main'[d] = main[d]
          /\ helper'[d] = helper[d] /\ piped'[d] = piped[d] /\ collected'[d] = collected[d]
          /\ written'[d] = written[d] /\ cell'[d] = cell[d] /\ reply'[d] = reply[d]
      BY <2>2 DEF JobAt
    <3>2. QED
      BY <3>1 DEF CommandInv, JobFacts, NothingIsLost, StartsOnce, CellsAreCells, EndsAreReal,
         AnswerStands, GroupIsGone, Way
  <2>3. QED
    BY <2>1, <2>2
<1>2. QED
  BY <1>1 DEF CommandInv

(* One step of one job.                                                    *)
CommandStep(c) ==
  \/ Writes(c) \/ Exits(c) \/ HelperExits(c)
  \/ Starts(c) \/ Drains(c) \/ SeesExit(c) \/ Joins(c)
  \/ BashTimesOut(c) \/ SkillTimesOut(c) \/ StepTimesOut(c) \/ StepIsJoined(c)
  \/ Creates(c) \/ StartsCell(c) \/ CellEnds(c) \/ CellWaitFails(c) \/ CellTimesOut(c)
  \/ CellIsHarvested(c)

LEMMA StepKeepsTypes ==
  ASSUME CommandTypes, NEW c \in Job, CommandStep(c)
  PROVE  CommandTypes'
<1> USE PipeHolds DEF CommandTypes, JobPhase, Life, Reply
<1> HIDE DEF CommandTypes
<1>0. /\ command[c].writes \in Nat /\ command[c].exit \in {0, 1}
      /\ Way(c) \in {"bash", "skill", "step", "cell"}
      /\ command[c].leaves \in {"nothing", "group", "away"}
      /\ Way(c) = "cell" => command[c].leaves = "nothing"
  BY CommandFields
<1> USE DEF CommandTypes
<1>1. CASE Writes(c)
  BY <1>0, <1>1 DEF Writes
<1>2. CASE Exits(c)
  BY <1>0, <1>2 DEF Exits
<1>3. CASE HelperExits(c)
  BY <1>0, <1>3 DEF HelperExits
<1>4. CASE Starts(c)
  BY <1>0, <1>4 DEF Starts, Answers
<1>5. CASE Drains(c)
  BY <1>0, <1>5 DEF Drains
<1>6. CASE SeesExit(c)
  BY <1>0, <1>6 DEF SeesExit
<1>7. CASE Joins(c)
  BY <1>0, <1>7 DEF Joins, ExitOf, Answers
<1>8. CASE BashTimesOut(c)
  BY <1>0, <1>8 DEF BashTimesOut, Answers
<1>9. CASE SkillTimesOut(c)
  BY <1>0, <1>9 DEF SkillTimesOut, KillGroup, KilledIf, Answers
<1>10. CASE StepTimesOut(c)
  BY <1>0, <1>10 DEF StepTimesOut, KillGroup, KilledIf
<1>11. CASE StepIsJoined(c)
  BY <1>0, <1>11 DEF StepIsJoined, Answers
<1>12. CASE Creates(c)
  BY <1>0, <1>12 DEF Creates, Answers
<1>13. CASE StartsCell(c)
  BY <1>0, <1>13 DEF StartsCell, Removes, KilledIf, Answers
<1>14. CASE CellEnds(c)
  BY <1>0, <1>14 DEF CellEnds
<1>15. CASE CellWaitFails(c)
  BY <1>0, <1>15 DEF CellWaitFails, Removes, KilledIf, Answers
<1>16. CASE CellTimesOut(c)
  BY <1>0, <1>16 DEF CellTimesOut, KilledIf
<1>17. CASE CellIsHarvested(c)
  BY <1>0, <1>17 DEF CellIsHarvested, Removes, KilledIf, HarvestOf, ExitOf, Answers
<1>18. QED
  BY <1>1, <1>2, <1>3, <1>4, <1>5, <1>6, <1>7, <1>8, <1>9, <1>10, <1>11, <1>12, <1>13, <1>14,
     <1>15, <1>16, <1>17 DEF CommandStep

LEMMA StepKeepsOthers ==
  ASSUME CommandTypes, NEW c \in Job, CommandStep(c), NEW d \in Job \ {c}
  PROVE  JobAt(d)' = JobAt(d)
<1> USE DEF CommandTypes, JobAt
<1>1. CASE Writes(c)
  BY <1>1 DEF Writes
<1>2. CASE Exits(c)
  BY <1>2 DEF Exits
<1>3. CASE HelperExits(c)
  BY <1>3 DEF HelperExits
<1>4. CASE Starts(c)
  BY <1>4 DEF Starts, Answers
<1>5. CASE Drains(c)
  BY <1>5 DEF Drains
<1>6. CASE SeesExit(c)
  BY <1>6 DEF SeesExit
<1>7. CASE Joins(c)
  BY <1>7 DEF Joins, ExitOf, Answers
<1>8. CASE BashTimesOut(c)
  BY <1>8 DEF BashTimesOut, Answers
<1>9. CASE SkillTimesOut(c)
  BY <1>9 DEF SkillTimesOut, KillGroup, KilledIf, Answers
<1>10. CASE StepTimesOut(c)
  BY <1>10 DEF StepTimesOut, KillGroup, KilledIf
<1>11. CASE StepIsJoined(c)
  BY <1>11 DEF StepIsJoined, Answers
<1>12. CASE Creates(c)
  BY <1>12 DEF Creates, Answers
<1>13. CASE StartsCell(c)
  BY <1>13 DEF StartsCell, Removes, KilledIf, Answers
<1>14. CASE CellEnds(c)
  BY <1>14 DEF CellEnds
<1>15. CASE CellWaitFails(c)
  BY <1>15 DEF CellWaitFails, Removes, KilledIf, Answers
<1>16. CASE CellTimesOut(c)
  BY <1>16 DEF CellTimesOut, KilledIf
<1>17. CASE CellIsHarvested(c)
  BY <1>17 DEF CellIsHarvested, Removes, KilledIf, HarvestOf, ExitOf, Answers
<1>18. QED
  BY <1>1, <1>2, <1>3, <1>4, <1>5, <1>6, <1>7, <1>8, <1>9, <1>10, <1>11, <1>12, <1>13, <1>14,
     <1>15, <1>16, <1>17 DEF CommandStep

LEMMA StepKeepsFacts ==
  ASSUME CommandTypes, CommandTypes', NEW c \in Job, CommandStep(c), JobFacts(c)
  PROVE  JobFacts(c)'
<1> USE DEF CommandTypes, JobFacts, NothingIsLost, StartsOnce, CellsAreCells, EndsAreReal,
      AnswerStands, GroupIsGone, Way, AtEnd, StillWritten
<1> HIDE DEF CommandTypes
<1>0. /\ command[c].writes \in Nat /\ command[c].exit \in {0, 1}
      /\ Way(c) \in {"bash", "skill", "step", "cell"}
      /\ command[c].leaves \in {"nothing", "group", "away"}
      /\ Way(c) = "cell" => command[c].leaves = "nothing"
  BY CommandFields
<1> USE DEF CommandTypes
<1>1. CASE Writes(c)
  BY <1>0, <1>1 DEF Writes
<1>2. CASE Exits(c)
  BY <1>0, <1>2 DEF Exits
<1>3. CASE HelperExits(c)
  BY <1>0, <1>3 DEF HelperExits
<1>4. CASE Starts(c)
  BY <1>0, <1>4 DEF Starts, Answers
<1>5. CASE Drains(c)
  BY <1>0, <1>5 DEF Drains
<1>6. CASE SeesExit(c)
  BY <1>0, <1>6 DEF SeesExit
<1>7. CASE Joins(c)
  <2>1. /\ phase'[c] = "answered" /\ reply'[c] = [kind |-> "exit", code |-> command[c].exit]
        /\ main'[c] = main[c] /\ helper'[c] = helper[c]
        /\ command' = command /\ piped' = piped /\ collected' = collected
        /\ written' = written /\ cell'[c] = cell[c]
    BY <1>7 DEF Joins, ExitOf, Answers
  <2>2. main[c] = "exited" /\ piped[c] = 0 /\ phase[c] = "reading" /\ Way(c) # "cell"
    BY <1>0, <1>7 DEF Joins, ExitOf, Answers
  <2>3. reply'[c].kind = "exit"
    BY <2>1
  <2>4. NothingIsLost(c)' /\ StartsOnce(c)' /\ CellsAreCells(c)' /\ EndsAreReal(c)'
    BY <1>0, <2>1, <2>2
  <2>5. AnswerStands(c)'
    BY <1>0, <2>1, <2>2, <2>3
  <2>6. QED
    BY <2>4, <2>5
<1>8. CASE BashTimesOut(c)
  <2>1. /\ phase'[c] = "answered" /\ reply'[c] = [kind |-> "timeout"]
        /\ main'[c] = "killed" /\ helper'[c] = helper[c]
        /\ command' = command /\ piped' = piped /\ collected' = collected
        /\ written' = written /\ cell'[c] = cell[c]
    BY <1>8 DEF BashTimesOut, Answers
  <2>2. phase[c] = "waiting" /\ Way(c) = "bash"
    BY <1>0, <1>8 DEF BashTimesOut, Answers
  <2>3. reply'[c].kind = "timeout"
    BY <2>1
  <2>4. NothingIsLost(c)' /\ StartsOnce(c)' /\ CellsAreCells(c)' /\ EndsAreReal(c)'
    BY <1>0, <2>1, <2>2
  <2>5. AnswerStands(c)'
    BY <1>0, <2>1, <2>2, <2>3
  <2>6. QED
    BY <2>4, <2>5
<1>9. CASE SkillTimesOut(c)
  <2>1. /\ phase'[c] = "answered" /\ reply'[c] = [kind |-> "timeout"]
        /\ main'[c] = "killed" /\ helper'[c] = IF command[c].leaves = "group" /\ helper[c] = "running" THEN "killed" ELSE helper[c]
        /\ command' = command /\ piped' = piped /\ collected' = collected
        /\ written' = written /\ cell'[c] = cell[c]
    BY <1>9 DEF SkillTimesOut, KillGroup, KilledIf, Answers
  <2>2. phase[c] = "waiting" /\ Way(c) = "skill"
    BY <1>0, <1>9 DEF SkillTimesOut, KillGroup, KilledIf, Answers
  <2>3. reply'[c].kind = "timeout"
    BY <2>1
  <2>4. NothingIsLost(c)' /\ StartsOnce(c)' /\ CellsAreCells(c)' /\ EndsAreReal(c)'
    BY <1>0, <2>1, <2>2
  <2>5. AnswerStands(c)'
    BY <1>0, <2>1, <2>2, <2>3
  <2>6. QED
    BY <2>4, <2>5
<1>10. CASE StepTimesOut(c)
  BY <1>0, <1>10 DEF StepTimesOut, KillGroup, KilledIf
<1>11. CASE StepIsJoined(c)
  <2>1. /\ phase'[c] = "answered" /\ reply'[c] = [kind |-> "timeout"]
        /\ main'[c] = main[c] /\ helper'[c] = helper[c]
        /\ command' = command /\ piped' = piped /\ collected' = collected
        /\ written' = written /\ cell'[c] = cell[c]
    BY <1>11 DEF StepIsJoined, Answers
  <2>2. phase[c] = "joining" /\ Way(c) = "step"
    BY <1>0, <1>11 DEF StepIsJoined, Answers
  <2>3. reply'[c].kind = "timeout"
    BY <2>1
  <2>4. NothingIsLost(c)' /\ StartsOnce(c)' /\ CellsAreCells(c)' /\ EndsAreReal(c)'
    BY <1>0, <2>1, <2>2
  <2>5. AnswerStands(c)'
    BY <1>0, <2>1, <2>2, <2>3
  <2>6. QED
    BY <2>4, <2>5
<1>12. CASE Creates(c)
  BY <1>0, <1>12 DEF Creates, Answers
<1>13. CASE StartsCell(c)
  BY <1>0, <1>13 DEF StartsCell, Removes, KilledIf, Answers
<1>14. CASE CellEnds(c)
  BY <1>0, <1>14 DEF CellEnds
<1>15. CASE CellWaitFails(c)
  BY <1>0, <1>15 DEF CellWaitFails, Removes, KilledIf, Answers
<1>16. CASE CellTimesOut(c)
  BY <1>0, <1>16 DEF CellTimesOut, KilledIf
<1>17. CASE CellIsHarvested(c)
  BY <1>0, <1>17 DEF CellIsHarvested, Removes, KilledIf, HarvestOf, ExitOf, Answers
<1>18. QED
  BY <1>1, <1>2, <1>3, <1>4, <1>5, <1>6, <1>7, <1>8, <1>9, <1>10, <1>11, <1>12, <1>13, <1>14,
     <1>15, <1>16, <1>17 DEF CommandStep

(* Whatever a command writes, however little a pipe holds, whoever holds   *)
(* it after the process, and whichever deadline or step of the container   *)
(* comes first: an answer with an exit code has all of the output, a       *)
(* deadline's leaves nothing of the group, and no container is left.       *)
THEOREM AnswersStand == ToolSpec => []AnswersAreFinal
<1>1. CommandInv /\ [ToolNext]_toolVars => CommandInv'
  <2>1. SUFFICES ASSUME CommandInv, [ToolNext]_toolVars PROVE CommandInv'
    OBVIOUS
  <2>2. CASE UNCHANGED toolVars
    BY <2>1, <2>2 DEF CommandInv, toolVars, CommandTypes, JobFacts, NothingIsLost, StartsOnce, CellsAreCells,
       EndsAreReal, AnswerStands, GroupIsGone, Way
  <2>3. CASE ToolNext
    <3>1. PICK c \in Job : CommandStep(c)
      BY <2>3 DEF ToolNext, CommandStep
    <3>2. CommandTypes'
      BY <2>1, <3>1, StepKeepsTypes DEF CommandInv
    <3>3. JobFacts(c)'
      BY <2>1, <3>1, <3>2, StepKeepsFacts DEF CommandInv
    <3>4. \A d \in Job \ {c} : JobAt(d)' = JobAt(d)
      BY <2>1, <3>1, StepKeepsOthers DEF CommandInv
    <3>5. QED
      BY <2>1, <3>2, <3>3, <3>4, OtherJobs
  <2>4. QED
    BY <2>1, <2>2, <2>3
<1>2. CommandInv => AnswersAreFinal
  <2>1. SUFFICES ASSUME CommandInv, NEW c \in Job, phase[c] = "answered"
                 PROVE  /\ reply[c].kind = "exit" /\ Way(c) # "cell" => collected[c] = command[c].writes
                        /\ reply[c].kind = "timeout" /\ Way(c) \in {"skill", "step"} => GroupIsGone(c)
                        /\ cell[c] # "created"
    BY DEF AnswersAreFinal, GroupIsGone
  <2>2. JobFacts(c) /\ CommandTypes /\ command[c].writes \in Nat
    BY <2>1, CommandFields DEF CommandInv
  <2>3. QED
    BY <2>1, <2>2 DEF JobFacts, NothingIsLost, CellsAreCells, AnswerStands, CommandTypes
<1>3. QED
  BY CommandInvInit, <1>1, <1>2, PTL DEF ToolSpec

-----------------------------------------------------------------------------
(* The terminal screen. *)

AgentPlace == {"starting", "reading", "preparing", "thinking", "choosing", "asking",
               "acting", "saving", "failed", "ended"}
AgentRow == [at : AgentPlace, opts : TuiOpts, turn : Nat, ask : Nat, rounds : Nat]
ItemRow == [kind : {"user", "assistant", "tool"}, of : Nat, text : Seq(Nat)]
UiRow == [at : {"draining", "keys", "quit", "gone"}, opts : TuiOpts, status : TuiOpts,
          busy : BOOLEAN, permission : Nat, streaming : Seq(Nat), items : Seq(ItemRow),
          switches : Nat]
SendRow == [send : Nat, opts : TuiOpts]
ToldRow == [sends : Seq(SendRow), turns : Seq(SendRow), said : SUBSET (Nat \X BOOLEAN),
            ran : SUBSET Nat]
WordRow == [kind : {"delta", "turn", "tool", "ask", "idle", "fatal"}, of : Nat, ask : Nat]
StatusRow == [kind : {"status"}, opts : TuiOpts]
CommandRow == [kind : {"send"}, what : Nat] \cup [kind : {"model"}, what : 0 .. TuiModels]
                \cup [kind : {"agent"}, what : {"build", "plan", "other"}]

ScreenTypes ==
  /\ agent \in AgentRow /\ ui \in UiRow /\ tuiTold \in ToldRow
  /\ toScreen \in Seq(WordRow \cup StatusRow) /\ toAgent \in Seq(CommandRow)
  /\ answers \in {<< >>, <<TRUE>>, <<FALSE>>}

Sends == Len(tuiTold.sends)
Turns == Len(tuiTold.turns)
Running == agent.at \notin {"failed", "ended"}
Unsaid(n) == <<n, TRUE>> \notin tuiTold.said /\ <<n, FALSE>> \notin tuiTold.said
Allowed(n) == <<n, TRUE>> \in tuiTold.said /\ <<n, FALSE>> \notin tuiTold.said

(* A request is on its way to the screen, in the modal or answered; what   *)
(* was said and what ran is about requests already made.                   *)
ConsentIsPassed ==
  /\ agent.ask <= agent.rounds
  /\ agent.at = "asking" => agent.ask # 0 /\ agent.ask \notin tuiTold.ran
  /\ \A p \in tuiTold.said : p[1] <= agent.rounds
  /\ \A n \in tuiTold.ran : n <= agent.rounds /\ Allowed(n)
  /\ agent.at = "acting" /\ agent.ask # 0 => Allowed(agent.ask)
  /\ ui.permission # 0 =>
       /\ agent.at = "asking" /\ agent.ask = ui.permission /\ answers = << >>
       /\ Unsaid(agent.ask) /\ ~Left
  /\ \A i \in 1 .. Len(toScreen) : toScreen[i].kind = "ask" =>
       /\ agent.at = "asking" /\ toScreen[i].ask = agent.ask /\ i = Len(toScreen)
       /\ answers = << >> /\ Unsaid(agent.ask) /\ ui.permission = 0
  /\ answers # << >> => agent.at = "asking"
  /\ answers = <<TRUE>> => Allowed(agent.ask)
  /\ ui.at = "gone" => toScreen = << >>

(* Field f of the options, with its value now, is v when the first k - 1   *)
(* commands of the queue q are taken.                                      *)
Chosen(q, k, f, now, v) ==
  \/ \E i \in 1 .. k - 1 : /\ q[i].kind = f /\ q[i].what = v
                           /\ \A j \in i + 1 .. k - 1 : q[j].kind # f
  \/ /\ \A i \in 1 .. k - 1 : q[i].kind # f
     /\ now = v
ChosenOpts(k, opts) ==
  /\ Chosen(toAgent, k, "model", agent.opts.model, opts.model)
  /\ Chosen(toAgent, k, "agent", agent.opts.agent, opts.agent)

(* A message waits with exactly the choices made before it in front of it, *)
(* and a turn being prepared has them.                                     *)
TurnsFollow ==
  /\ \A i \in 1 .. Sends : tuiTold.sends[i].send = i
  /\ Turns <= Sends /\ \A i \in 1 .. Turns : tuiTold.turns[i] = tuiTold.sends[i]
  /\ agent.at = "ended" => toAgent = << >>
  /\ Running => \A i, j \in SendsQueued : i = j
  /\ Running /\ SendsQueued = {} /\ ~AtWork => Sends = Turns
  /\ Running => \A i \in SendsQueued :
       /\ ~AtWork /\ toAgent[i].what = Sends /\ Sends = Turns + 1
       /\ ChosenOpts(i, tuiTold.sends[Sends].opts)
  /\ agent.at = "preparing" =>
       agent.turn = Sends /\ Sends = Turns + 1 /\ agent.opts = tuiTold.sends[Sends].opts
  /\ AtWork /\ agent.at # "preparing" => agent.turn = Sends /\ Sends = Turns
  /\ Running /\ ~Left => ChosenOpts(Len(toAgent) + 1, ui.opts)

Idles(i) == toScreen[i].kind = "idle"
Shows(i) == toScreen[i].kind \in {"turn", "tool"}

(* The screen is busy while a message is under way or the end of its turn  *)
(* is; what a turn shows comes before its end and is about the last one.   *)
BusyIsTold ==
  ~Left =>
    /\ Running /\ (SendsQueued # {} \/ AtWork) => ui.busy
    /\ ui.busy => SendsQueued # {} \/ AtWork \/ ~Running \/ \E i \in 1 .. Len(toScreen) : Idles(i)
    /\ \A i \in 1 .. Len(toScreen) : Idles(i) =>
         /\ agent.at = "reading" /\ SendsQueued = {} /\ ui.busy
         /\ \A j \in 1 .. Len(toScreen) : Idles(j) => i = j
         /\ \A j \in 1 .. Len(toScreen) : Shows(j) => j < i
    /\ \A i \in 1 .. Len(toScreen) : Shows(i) =>
         /\ toScreen[i].of = Sends /\ ui.busy /\ SendsQueued = {}
         /\ agent.at \notin {"starting", "preparing", "failed", "ended"}
    /\ \A i \in 1 .. Len(toScreen) : toScreen[i].kind = "fatal" => ~Running
    /\ agent.at = "starting" => toScreen = << >>

Transcript ==
  /\ \A j \in 1 .. Len(ui.items) : ui.items[j].of <= Sends
  /\ \A j \in 1 .. Len(ui.items) : \A i \in 1 .. j - 1 :
       /\ ui.items[i].of <= ui.items[j].of
       /\ ui.items[j].kind = "user" => ui.items[i].of < ui.items[j].of

(* A text that waits for its turn's end will be ended by what comes next,  *)
(* or its turn failed.                                                     *)
EndAt(i, n) == i \in 1 .. Len(toScreen) /\ toScreen[i].kind = "turn" /\ toScreen[i].of = n
StreamingFollows ==
  ui.at # "gone" => \A k \in 1 .. Len(ui.streaming) :
    ui.streaming[k] <= Sends /\ (ui.streaming[k] \in unended \/ EndAt(1, ui.streaming[k]))
DeltasFollow ==
  \A i \in 1 .. Len(toScreen) : toScreen[i].kind = "delta" =>
    toScreen[i].of <= Sends /\ (toScreen[i].of \in unended \/ EndAt(i + 1, toScreen[i].of))
TextsStand ==
  \A j \in 1 .. Len(ui.items) : \A k \in 1 .. Len(ui.items[j].text) :
    LET turn == ui.items[j].text[k]
    IN  turn = ui.items[j].of \/ (turn < ui.items[j].of /\ turn \in unended)
TextFollows == StreamingFollows /\ DeltasFollow /\ TextsStand

(* A change not yet taken, or not yet told, or the status says it.         *)
StatusFollows ==
  Running /\ ~Left =>
    \/ \E i \in 1 .. Len(toAgent) : toAgent[i].kind # "send"
    \/ \E i \in 1 .. Len(toScreen) :
         /\ toScreen[i].kind = "status" /\ toScreen[i].opts = agent.opts
         /\ \A j \in 1 .. Len(toScreen) : toScreen[j].kind = "status" => j <= i
    \/ /\ \A i \in 1 .. Len(toScreen) : toScreen[i].kind # "status"
       /\ ui.status = agent.opts

ScreenInv ==
  /\ ScreenTypes /\ ConsentIsPassed /\ TurnsFollow /\ BusyIsTold
  /\ Transcript /\ TextFollows /\ StatusFollows

(* What an action of the agent's task adds to the screen's channel: words  *)
(* of the kinds in K, about the turn it runs.                              *)
Adds(K) ==
  /\ toScreen' \in Seq(WordRow \cup StatusRow)
  /\ Len(toScreen') >= Len(toScreen)
  /\ \A i \in 1 .. Len(toScreen) : toScreen'[i] = toScreen[i]
  /\ \A i \in 1 .. Len(toScreen') : i > Len(toScreen) =>
       toScreen'[i].kind \in K /\ (toScreen'[i].kind # "status" => toScreen'[i].of = agent.turn)
  /\ ui.at = "gone" => toScreen' = toScreen

LEMMA PostAdds ==
  ASSUME ScreenTypes, NEW K, NEW msgs \in Seq(WordRow \cup StatusRow), Post(msgs),
         \A i \in 1 .. Len(msgs) :
           msgs[i].kind \in K /\ (msgs[i].kind # "status" => msgs[i].of = agent.turn)
  PROVE  Adds(K) /\ Len(toScreen') <= Len(toScreen) + Len(msgs)
<1> DEFINE Message == WordRow \cup StatusRow
<1>0. toScreen \in Seq(Message) /\ msgs \in Seq(Message) /\ Len(toScreen) \in Nat /\ Len(msgs) \in Nat
  BY LenProperties DEF ScreenTypes
<1> HIDE DEF Message
<1>1. CASE ui.at = "gone"
  <2>1. toScreen' = toScreen
    BY <1>1 DEF Post
  <2> QED
    BY <1>0, <2>1 DEF Adds, Message
<1>2. CASE ui.at # "gone"
  <2>1. toScreen' = toScreen \o msgs
    BY <1>2 DEF Post
  <2>2. /\ toScreen' \in Seq(Message) /\ Len(toScreen') = Len(toScreen) + Len(msgs)
        /\ \A i \in 1 .. Len(toScreen) + Len(msgs) :
             toScreen'[i] = IF i <= Len(toScreen) THEN toScreen[i] ELSE msgs[i - Len(toScreen)]
    BY <1>0, <2>1, ConcatProperties
  <2>3. ASSUME NEW i \in 1 .. Len(toScreen'), i > Len(toScreen)
        PROVE  toScreen'[i].kind \in K /\ (toScreen'[i].kind # "status" => toScreen'[i].of = agent.turn)
    <3>1. i - Len(toScreen) \in 1 .. Len(msgs) /\ toScreen'[i] = msgs[i - Len(toScreen)]
      BY <1>0, <2>2, <2>3
    <3> QED
      BY <3>1
  <2>4. \A i \in 1 .. Len(toScreen) : toScreen'[i] = toScreen[i]
    BY <1>0, <2>2
  <2>5. toScreen' \in Seq(WordRow \cup StatusRow)
    BY <2>2 DEF Message
  <2> QED
    BY <1>0, <1>2, <2>2, <2>3, <2>4, <2>5 DEF Adds
<1> QED
  BY <1>1, <1>2

(* One message. *)
LEMMA PostOne ==
  ASSUME ScreenTypes, NEW m \in WordRow \cup StatusRow, Post(<<m>>),
         m.kind # "status" => m.of = agent.turn
  PROVE  /\ Adds({m.kind}) /\ Len(toScreen') <= Len(toScreen) + 1
         /\ ui.at # "gone" => Len(toScreen') = Len(toScreen) + 1
         /\ Len(toScreen') = Len(toScreen) + 1 => toScreen'[Len(toScreen) + 1] = m
<1>1. <<m>> \in Seq(WordRow \cup StatusRow) /\ Len(<<m>>) = 1 /\ <<m>>[1] = m
  OBVIOUS
<1>2. Adds({m.kind}) /\ Len(toScreen') <= Len(toScreen) + 1
  <2>1. PICK msgs : msgs = <<m>>
    OBVIOUS
  <2>2. /\ msgs \in Seq(WordRow \cup StatusRow) /\ Len(msgs) = 1
        /\ \A i \in 1 .. Len(msgs) : msgs[i] = m
    BY <1>1, <2>1
  <2>3. Post(msgs)
    BY <2>1
  <2>4. \A i \in 1 .. Len(msgs) :
          msgs[i].kind \in {m.kind} /\ (msgs[i].kind # "status" => msgs[i].of = agent.turn)
    BY <2>2
  <2> QED
    BY <2>2, <2>3, <2>4, PostAdds
<1>0. toScreen \in Seq(WordRow \cup StatusRow) /\ Len(toScreen) \in Nat
  BY LenProperties DEF ScreenTypes
<1>3. CASE ui.at = "gone"
  BY <1>0, <1>2, <1>3 DEF Post
<1>4. CASE ui.at # "gone"
  <2>1. toScreen' = toScreen \o <<m>>
    BY <1>4 DEF Post
  <2>2. /\ Len(toScreen') = Len(toScreen) + 1
        /\ \A i \in 1 .. Len(toScreen) + 1 :
             toScreen'[i] = IF i <= Len(toScreen) THEN toScreen[i] ELSE <<m>>[i - Len(toScreen)]
    BY <1>0, <1>1, <2>1, ConcatProperties
  <2>3. toScreen'[Len(toScreen) + 1] = <<m>>[1]
    BY <1>0, <2>2
  <2> QED
    BY <1>1, <1>2, <2>2, <2>3
<1> QED
  BY <1>3, <1>4

LEMMA PostNone ==
  ASSUME ScreenTypes, Post(<< >>)
  PROVE  toScreen' = toScreen
BY ConcatEmptySeq DEF ScreenTypes, Post

LEMMA AddsNone ==
  ASSUME ScreenTypes, NEW K, toScreen' = toScreen
  PROVE  Adds(K)
BY LenProperties DEF ScreenTypes, Adds

LEMMA AgentAt ==
  ASSUME agent \in AgentRow, NEW at \in AgentPlace, agent' = [agent EXCEPT !.at = at]
  PROVE  /\ agent' \in AgentRow /\ agent'.at = at /\ agent'.opts = agent.opts
         /\ agent'.turn = agent.turn /\ agent'.ask = agent.ask /\ agent'.rounds = agent.rounds
BY DEF AgentRow

LEMMA SetAt ==
  ASSUME NEW a \in AgentRow, NEW at \in AgentPlace
  PROVE  LET b == [a EXCEPT !.at = at]
         IN  /\ b \in AgentRow /\ b.at = at
             /\ b.opts = a.opts /\ b.turn = a.turn /\ b.ask = a.ask /\ b.rounds = a.rounds
BY DEF AgentRow

LEMMA SetRounds ==
  ASSUME NEW a \in AgentRow, NEW n \in Nat
  PROVE  LET b == [a EXCEPT !.rounds = n]
         IN  /\ b \in AgentRow /\ b.rounds = n
             /\ b.at = a.at /\ b.opts = a.opts /\ b.turn = a.turn /\ b.ask = a.ask
BY DEF AgentRow

LEMMA SetAsk ==
  ASSUME NEW a \in AgentRow, NEW n \in Nat
  PROVE  LET b == [a EXCEPT !.ask = n]
         IN  /\ b \in AgentRow /\ b.ask = n
             /\ b.at = a.at /\ b.opts = a.opts /\ b.turn = a.turn /\ b.rounds = a.rounds
BY DEF AgentRow

LEMMA OneAnswer ==
  ASSUME NEW x
  PROVE  <<x>> # << >> /\ Head(<<x>>) = x /\ Tail(<<x>>) = << >>
OBVIOUS

LEMMA TellIsWord ==
  ASSUME ScreenTypes, NEW kind \in {"delta", "turn", "tool", "ask", "idle", "fatal"}
  PROVE  /\ Tell(kind) \in WordRow \cup StatusRow
         /\ Tell(kind).kind = kind /\ Tell(kind).of = agent.turn
BY DEF ScreenTypes, AgentRow, Tell, TuiMsg, WordRow

-----------------------------------------------------------------------------
(* What each action does, field by field. *)

AgentMoves(at) ==
  /\ agent' \in AgentRow /\ agent'.at = at /\ agent'.opts = agent.opts
  /\ agent'.turn = agent.turn /\ agent'.ask = agent.ask /\ agent'.rounds = agent.rounds

LEMMA GoesSilent ==
  ASSUME ScreenTypes, NEW at \in AgentPlace, AgentGoes(at, << >>)
  PROVE  AgentMoves(at) /\ toScreen' = toScreen
BY AgentAt, PostNone DEF ScreenTypes, AgentGoes, AgentMoves

LEMMA GoesTelling ==
  ASSUME ScreenTypes, NEW at \in AgentPlace,
         NEW kind \in {"delta", "turn", "tool", "idle", "fatal"}, AgentGoes(at, <<Tell(kind)>>)
  PROVE  /\ AgentMoves(at) /\ Adds({kind}) /\ Len(toScreen') <= Len(toScreen) + 1
         /\ ui.at # "gone" => Len(toScreen') = Len(toScreen) + 1
<1>1. /\ Tell(kind) \in WordRow \cup StatusRow
      /\ Tell(kind).kind = kind /\ Tell(kind).of = agent.turn
  BY TellIsWord
<1>2. Post(<<Tell(kind)>>) /\ agent' = [agent EXCEPT !.at = at] /\ agent \in AgentRow
  BY DEF AgentGoes, ScreenTypes
<1>3. AgentMoves(at)
  BY <1>2, AgentAt DEF AgentMoves
<1>4. /\ Adds({Tell(kind).kind}) /\ Len(toScreen') <= Len(toScreen) + 1
      /\ ui.at # "gone" => Len(toScreen') = Len(toScreen) + 1
  BY <1>1, <1>2, PostOne
<1> QED
  BY <1>1, <1>3, <1>4

LEMMA StartShape ==
  ASSUME ScreenTypes, TuiStart
  PROVE  /\ agent.at = "starting" /\ UNCHANGED <<ui, toAgent, answers, tuiTold>>
         /\ \/ AgentMoves("reading") /\ toScreen' = toScreen
            \/ AgentMoves("failed") /\ Adds({"fatal"})
BY GoesSilent, GoesTelling DEF TuiStart, AgentPlace

LEMMA EndsShape ==
  ASSUME ScreenTypes, TuiEnds \/ TuiAborted
  PROVE  /\ agent.at = "failed" \/ (agent.at # "asking" /\ Left)
         /\ AgentMoves("ended") /\ toAgent' = << >>
         /\ UNCHANGED <<ui, toScreen, answers, tuiTold>>
BY AgentAt DEF TuiEnds, TuiAborted, AgentMoves, AgentPlace, ScreenTypes

LEMMA PrepareShape ==
  ASSUME ScreenTypes, Prepare
  PROVE  /\ agent.at = "preparing" /\ UNCHANGED <<ui, toAgent, answers>>
         /\ \/ /\ AgentMoves("thinking") /\ toScreen' = toScreen
               /\ tuiTold' = [tuiTold EXCEPT !.turns =
                                Append(@, [send |-> agent.turn, opts |-> agent.opts])]
            \/ AgentMoves("failed") /\ Adds({"fatal"}) /\ UNCHANGED tuiTold
BY GoesSilent, GoesTelling DEF Prepare, AgentPlace

LEMMA ThinkShape ==
  ASSUME ScreenTypes, Think
  PROVE  /\ agent.at = "thinking" /\ UNCHANGED <<ui, toAgent, answers, tuiTold>>
         /\ agent' \in AgentRow /\ agent'.at \in {"choosing", "saving"}
         /\ agent'.opts = agent.opts /\ agent'.turn = agent.turn /\ agent'.ask = agent.ask
         /\ agent'.rounds = agent.rounds + 1 /\ Adds({"delta", "turn"})
<1>0. agent.at = "thinking" /\ agent \in AgentRow
  BY DEF Think, ScreenTypes
<1>1. PICK text \in {<< >>, <<Tell("delta")>>}, at \in {"choosing", "saving"} :
        /\ agent' = [agent EXCEPT !.at = at, !.rounds = @ + 1]
        /\ Post(IF at = "choosing" THEN Append(text, Tell("turn")) ELSE text)
  BY DEF Think
<1>2. /\ agent' \in AgentRow /\ agent'.at = at /\ agent'.opts = agent.opts
      /\ agent'.turn = agent.turn /\ agent'.ask = agent.ask /\ agent'.rounds = agent.rounds + 1
  <2>1. at \in AgentPlace
    BY DEF AgentPlace
  <2> QED
    <3> DEFINE a1 == [agent EXCEPT !.at = at]
    <3>1. a1 \in AgentRow /\ a1.at = at /\ a1.opts = agent.opts /\ a1.turn = agent.turn
          /\ a1.ask = agent.ask
      BY <1>0, <2>1, SetAt
    <3>2. PICK n \in Nat : n = agent.rounds + 1
      BY <1>0 DEF AgentRow
    <3>3. agent' = [a1 EXCEPT !.rounds = n]
      BY <1>1, <3>2
    <3> HIDE DEF a1
    <3> QED
      BY <3>1, <3>2, <3>3, SetRounds
<1> DEFINE msgs == IF at = "choosing" THEN Append(text, Tell("turn")) ELSE text
<1> DEFINE Message == WordRow \cup StatusRow
<1>3. /\ Tell("delta") \in Message /\ Tell("delta").kind = "delta" /\ Tell("delta").of = agent.turn
      /\ Tell("turn") \in Message /\ Tell("turn").kind = "turn" /\ Tell("turn").of = agent.turn
  BY TellIsWord
<1>4. /\ msgs \in Seq(Message)
      /\ \A i \in 1 .. Len(msgs) : msgs[i] = Tell("delta") \/ msgs[i] = Tell("turn")
  <2> HIDE DEF Message
  <2>1. text \in Seq(Message) /\ \A i \in 1 .. Len(text) : text[i] = Tell("delta")
    <3>1. PICK d : d = Tell("delta")
      OBVIOUS
    <3>2. d \in Message /\ (text = << >> \/ text = <<d>>)
      BY <1>1, <1>3, <3>1
    <3>3. text \in Seq(Message) /\ \A i \in 1 .. Len(text) : text[i] = d
      <4> HIDE DEF Message
      <4>1. CASE text = << >>
        BY <4>1
      <4>2. CASE text = <<d>>
        BY <3>2, <4>2
      <4> QED
        BY <3>2, <4>1, <4>2
    <3> QED
      BY <3>1, <3>3
  <2>2. PICK m : m = Tell("turn")
    OBVIOUS
  <2>3. m \in Message
    BY <1>3, <2>2
  <2>4. /\ Append(text, m) \in Seq(Message) /\ Len(Append(text, m)) = Len(text) + 1
        /\ \A i \in 1 .. Len(text) : Append(text, m)[i] = text[i]
        /\ Append(text, m)[Len(text) + 1] = m
    BY <2>1, <2>3, AppendProperties
  <2>5. Len(text) \in Nat
    BY <2>1, LenProperties
  <2>6. msgs = text \/ msgs = Append(text, m)
    BY <2>2
  <2> HIDE DEF msgs
  <2>7. CASE msgs = text
    BY <2>1, <2>7
  <2>8. CASE msgs = Append(text, m)
    BY <2>1, <2>2, <2>4, <2>5, <2>8
  <2> QED
    BY <2>6, <2>7, <2>8
<1> HIDE DEF msgs
<1>5. \A i \in 1 .. Len(msgs) :
        /\ msgs[i].kind \in {"delta", "turn"}
        /\ msgs[i].kind # "status" => msgs[i].of = agent.turn
  BY <1>3, <1>4
<1>6. Post(msgs)
  BY <1>1 DEF msgs
<1>7. Adds({"delta", "turn"})
  BY <1>4, <1>5, <1>6, PostAdds
<1> QED
  BY <1>0, <1>2, <1>7 DEF Think

(* The call of a tool that is allowed, denied or asked about. *)
LEMMA CallShape ==
  ASSUME ScreenTypes, CallTool
  PROVE  /\ agent.at = "choosing" /\ UNCHANGED <<ui, toAgent, answers, tuiTold>>
         /\ agent' \in AgentRow /\ agent'.opts = agent.opts /\ agent'.turn = agent.turn
         /\ agent'.rounds = agent.rounds + 1
         /\ \/ agent'.at = "acting" /\ agent'.ask = 0 /\ toScreen' = toScreen
            \/ agent'.at = "choosing" /\ agent'.ask = 0 /\ Adds({"tool"})
            \/ /\ agent'.at = "asking" /\ agent'.ask = agent.rounds + 1 /\ Adds({"ask"})
               /\ Len(toScreen') <= Len(toScreen) + 1
               /\ Len(toScreen') = Len(toScreen) + 1 =>
                    toScreen'[Len(toScreen) + 1].ask = agent.rounds + 1
<1>0. /\ agent.at = "choosing" /\ agent \in AgentRow
      /\ UNCHANGED <<ui, toAgent, answers, tuiTold>>
  BY DEF CallTool, ScreenTypes
<1> DEFINE n == agent.rounds + 1
<1>1. CASE agent' = [agent EXCEPT !.at = "acting", !.rounds = n, !.ask = 0] /\ UNCHANGED toScreen
  <2> HIDE DEF n
  <2>2. /\ agent' \in AgentRow /\ agent'.opts = agent.opts /\ agent'.turn = agent.turn
        /\ agent'.rounds = n /\ agent'.at = "acting" /\ agent'.ask = 0
    <3>1. n \in Nat /\ 0 \in Nat /\ "acting" \in AgentPlace
      BY <1>0 DEF AgentRow, AgentPlace, n
    <3> DEFINE a1 == [agent EXCEPT !.at = "acting"]
    <3> DEFINE a2 == [a1 EXCEPT !.rounds = n]
    <3> DEFINE a3 == [a2 EXCEPT !.ask = 0]
    <3>4. agent' = a3
      BY <1>1
    <3>5. /\ a1 \in AgentRow /\ a1.at = "acting" /\ a1.opts = agent.opts
          /\ a1.turn = agent.turn /\ a1.ask = agent.ask /\ a1.rounds = agent.rounds
      BY <1>0, <3>1, SetAt
    <3> HIDE DEF a1
    <3>6. /\ a2 \in AgentRow /\ a2.rounds = n /\ a2.at = a1.at
          /\ a2.opts = a1.opts /\ a2.turn = a1.turn /\ a2.ask = a1.ask
      BY <1>0, <3>1, <3>5, SetRounds
    <3> HIDE DEF a2
    <3>7. /\ a3 \in AgentRow /\ a3.ask = 0 /\ a3.at = a2.at
          /\ a3.opts = a2.opts /\ a3.turn = a2.turn /\ a3.rounds = a2.rounds
      BY <1>0, <3>1, <3>6, SetAsk
    <3> HIDE DEF a3
    <3> QED
      BY <3>4, <3>5, <3>6, <3>7
  <2> QED
    BY <1>0, <1>1, <2>2 DEF n
<1>2. CASE agent' = [agent EXCEPT !.rounds = n, !.ask = 0] /\ Post(<<Tell("tool")>>)
  <2>1. Adds({Tell("tool").kind}) /\ Tell("tool").kind = "tool"
    BY <1>2, TellIsWord, PostOne
  <2>2. /\ agent' \in AgentRow /\ agent'.opts = agent.opts /\ agent'.turn = agent.turn
        /\ agent'.rounds = agent.rounds + 1 /\ agent'.at = "choosing" /\ agent'.ask = 0
    <3>1. n \in Nat /\ 0 \in Nat
      BY <1>0 DEF AgentRow
    <3>2. n = agent.rounds + 1
      OBVIOUS
    <3> HIDE DEF n
    <3> DEFINE a1 == [agent EXCEPT !.rounds = n]
    <3> DEFINE a2 == [a1 EXCEPT !.ask = 0]
    <3>4. agent' = a2
      BY <1>2
    <3>5. /\ a1 \in AgentRow /\ a1.rounds = n /\ a1.at = agent.at
          /\ a1.opts = agent.opts /\ a1.turn = agent.turn /\ a1.ask = agent.ask
      BY <1>0, <3>1, SetRounds
    <3> HIDE DEF a1
    <3>6. /\ a2 \in AgentRow /\ a2.ask = 0 /\ a2.at = a1.at
          /\ a2.opts = a1.opts /\ a2.turn = a1.turn /\ a2.rounds = a1.rounds
      BY <1>0, <3>1, <3>5, SetAsk
    <3> HIDE DEF a2
    <3> QED
      BY <1>0, <3>2, <3>4, <3>5, <3>6
  <2> QED
    BY <1>0, <2>1, <2>2
<1>3. CASE /\ agent' = [agent EXCEPT !.rounds = n, !.at = "asking", !.ask = n]
           /\ Post(<<TuiMsg("ask", agent.turn, n)>>)
  <2>1. PICK m : m = TuiMsg("ask", agent.turn, n)
    OBVIOUS
  <2>2. m \in WordRow \cup StatusRow /\ m.kind = "ask" /\ m.of = agent.turn /\ m.ask = n
    BY <1>0, <2>1 DEF TuiMsg, WordRow, AgentRow
  <2>3. /\ Adds({m.kind}) /\ Len(toScreen') <= Len(toScreen) + 1
        /\ Len(toScreen') = Len(toScreen) + 1 => toScreen'[Len(toScreen) + 1] = m
    BY <1>3, <2>1, <2>2, PostOne
  <2>4. /\ agent' \in AgentRow /\ agent'.opts = agent.opts /\ agent'.turn = agent.turn
        /\ agent'.rounds = agent.rounds + 1 /\ agent'.at = "asking" /\ agent'.ask = n
    <3>1. n \in Nat /\ "asking" \in AgentPlace
      BY <1>0 DEF AgentRow, AgentPlace
    <3>2. n = agent.rounds + 1
      OBVIOUS
    <3> HIDE DEF n
    <3> DEFINE a1 == [agent EXCEPT !.rounds = n]
    <3> DEFINE a2 == [a1 EXCEPT !.at = "asking"]
    <3> DEFINE a3 == [a2 EXCEPT !.ask = n]
    <3>4. agent' = a3
      BY <1>3
    <3>5. /\ a1 \in AgentRow /\ a1.rounds = n /\ a1.at = agent.at
          /\ a1.opts = agent.opts /\ a1.turn = agent.turn /\ a1.ask = agent.ask
      BY <1>0, <3>1, SetRounds
    <3> HIDE DEF a1
    <3>6. /\ a2 \in AgentRow /\ a2.at = "asking" /\ a2.opts = a1.opts
          /\ a2.turn = a1.turn /\ a2.ask = a1.ask /\ a2.rounds = a1.rounds
      BY <1>0, <3>1, <3>5, SetAt
    <3> HIDE DEF a2
    <3>7. /\ a3 \in AgentRow /\ a3.ask = n /\ a3.at = a2.at
          /\ a3.opts = a2.opts /\ a3.turn = a2.turn /\ a3.rounds = a2.rounds
      BY <1>0, <3>1, <3>6, SetAsk
    <3> HIDE DEF a3
    <3> QED
      BY <3>2, <3>4, <3>5, <3>6, <3>7
  <2> QED
    BY <1>0, <2>2, <2>3, <2>4
<1> QED
  BY <1>1, <1>2, <1>3 DEF CallTool

LEMMA NoMoreShape ==
  ASSUME ScreenTypes, NoMoreCalls
  PROVE  /\ agent.at = "choosing" /\ UNCHANGED <<ui, toScreen, toAgent, answers, tuiTold>>
         /\ AgentMoves("thinking") \/ AgentMoves("saving")
BY AgentAt DEF ScreenTypes, NoMoreCalls, AgentMoves, AgentPlace

LEMMA ResolveShape ==
  ASSUME ScreenTypes, Resolve
  PROVE  /\ agent.at = "asking" /\ UNCHANGED <<ui, toAgent, tuiTold>>
         /\ \/ /\ answers = <<TRUE>> /\ answers' = << >>
               /\ AgentMoves("acting") /\ toScreen' = toScreen
            \/ /\ answers = <<FALSE>> /\ answers' = << >>
               /\ AgentMoves("choosing") /\ Adds({"tool"})
            \/ /\ answers = << >> /\ answers' = << >> /\ ui.at = "gone"
               /\ AgentMoves("choosing") /\ Adds({"tool"})
<1>0. /\ agent.at = "asking" /\ UNCHANGED <<ui, toAgent, tuiTold>>
      /\ "acting" \in AgentPlace /\ "choosing" \in AgentPlace
  BY DEF Resolve, AgentPlace
<1>1. CASE answers = <<TRUE>>
  <2>1. answers # << >> /\ (Head(answers) = TRUE) /\ Tail(answers) = << >>
    BY <1>1, OneAnswer, Zenon
  <2>2. answers' = << >> /\ AgentGoes("acting", << >>)
    BY <2>1 DEF Resolve
  <2> QED
    BY <1>0, <1>1, <2>2, GoesSilent
<1>2. CASE answers = <<FALSE>>
  <2>1. answers # << >> /\ (Head(answers) = FALSE) /\ Tail(answers) = << >>
    BY <1>2, OneAnswer, Zenon
  <2>2. answers' = << >> /\ AgentGoes("choosing", <<Tell("tool")>>)
    BY <2>1 DEF Resolve
  <2> QED
    BY <1>0, <1>2, <2>2, GoesTelling
<1>3. CASE answers = << >>
  <2>1. answers' = << >> /\ ui.at = "gone" /\ AgentGoes("choosing", <<Tell("tool")>>)
    BY <1>3 DEF Resolve
  <2> QED
    BY <1>0, <1>3, <2>1, GoesTelling
<1> QED
  BY <1>1, <1>2, <1>3 DEF ScreenTypes

LEMMA ActShape ==
  ASSUME ScreenTypes, ActTool
  PROVE  /\ agent.at = "acting" /\ UNCHANGED <<ui, toAgent, answers>>
         /\ AgentMoves("choosing") /\ Adds({"tool"})
         /\ tuiTold' \in ToldRow /\ tuiTold'.ran = tuiTold.ran \cup ({agent.ask} \ {0})
         /\ tuiTold'.sends = tuiTold.sends /\ tuiTold'.turns = tuiTold.turns
         /\ tuiTold'.said = tuiTold.said
<1>1. AgentMoves("choosing") /\ Adds({"tool"})
  BY GoesTelling DEF ActTool, AgentPlace
<1>2. agent.ask \in Nat /\ tuiTold \in ToldRow
  BY DEF ScreenTypes, AgentRow
<1>3. tuiTold' = [tuiTold EXCEPT !.ran = @ \cup ({agent.ask} \ {0})]
  BY DEF ActTool
<1>4. /\ tuiTold'.sends = tuiTold.sends /\ tuiTold'.turns = tuiTold.turns
      /\ tuiTold'.said = tuiTold.said /\ tuiTold'.ran = tuiTold.ran \cup ({agent.ask} \ {0})
  BY <1>2, <1>3 DEF ToldRow
<1>5. tuiTold' \in ToldRow
  BY <1>2, <1>3 DEF ToldRow
<1> QED
  BY <1>1, <1>4, <1>5 DEF ActTool

LEMMA SaveShape ==
  ASSUME ScreenTypes, SaveTurn
  PROVE  /\ agent.at = "saving" /\ UNCHANGED <<ui, toAgent, answers, tuiTold>>
         /\ AgentMoves("reading") /\ Adds({"idle"}) /\ Len(toScreen') <= Len(toScreen) + 1
         /\ ui.at # "gone" => Len(toScreen') = Len(toScreen) + 1
BY GoesTelling DEF SaveTurn, AgentPlace

(* One field of the screen's state. *)
LEMMA UiAt ==
  ASSUME NEW s \in UiRow, NEW x \in {"draining", "keys", "quit", "gone"}
  PROVE  LET t == [s EXCEPT !.at = x]
         IN  /\ t \in UiRow /\ t.at = x
             /\ t.opts = s.opts /\ t.status = s.status /\ t.busy = s.busy
             /\ t.permission = s.permission /\ t.streaming = s.streaming /\ t.items = s.items
             /\ t.switches = s.switches
BY DEF UiRow

LEMMA UiOpts ==
  ASSUME NEW s \in UiRow, NEW x \in TuiOpts
  PROVE  LET t == [s EXCEPT !.opts = x]
         IN  /\ t \in UiRow /\ t.opts = x
             /\ t.at = s.at /\ t.status = s.status /\ t.busy = s.busy
             /\ t.permission = s.permission /\ t.streaming = s.streaming /\ t.items = s.items
             /\ t.switches = s.switches
BY DEF UiRow

LEMMA UiStatus ==
  ASSUME NEW s \in UiRow, NEW x \in TuiOpts
  PROVE  LET t == [s EXCEPT !.status = x]
         IN  /\ t \in UiRow /\ t.status = x
             /\ t.at = s.at /\ t.opts = s.opts /\ t.busy = s.busy
             /\ t.permission = s.permission /\ t.streaming = s.streaming /\ t.items = s.items
             /\ t.switches = s.switches
BY DEF UiRow

LEMMA UiBusy ==
  ASSUME NEW s \in UiRow, NEW x \in BOOLEAN
  PROVE  LET t == [s EXCEPT !.busy = x]
         IN  /\ t \in UiRow /\ t.busy = x
             /\ t.at = s.at /\ t.opts = s.opts /\ t.status = s.status
             /\ t.permission = s.permission /\ t.streaming = s.streaming /\ t.items = s.items
             /\ t.switches = s.switches
BY DEF UiRow

LEMMA UiPermission ==
  ASSUME NEW s \in UiRow, NEW x \in Nat
  PROVE  LET t == [s EXCEPT !.permission = x]
         IN  /\ t \in UiRow /\ t.permission = x
             /\ t.at = s.at /\ t.opts = s.opts /\ t.status = s.status
             /\ t.busy = s.busy /\ t.streaming = s.streaming /\ t.items = s.items
             /\ t.switches = s.switches
BY DEF UiRow

LEMMA UiStreaming ==
  ASSUME NEW s \in UiRow, NEW x \in Seq(Nat)
  PROVE  LET t == [s EXCEPT !.streaming = x]
         IN  /\ t \in UiRow /\ t.streaming = x
             /\ t.at = s.at /\ t.opts = s.opts /\ t.status = s.status
             /\ t.busy = s.busy /\ t.permission = s.permission /\ t.items = s.items
             /\ t.switches = s.switches
BY DEF UiRow

LEMMA UiItems ==
  ASSUME NEW s \in UiRow, NEW x \in Seq(ItemRow)
  PROVE  LET t == [s EXCEPT !.items = x]
         IN  /\ t \in UiRow /\ t.items = x
             /\ t.at = s.at /\ t.opts = s.opts /\ t.status = s.status
             /\ t.busy = s.busy /\ t.permission = s.permission /\ t.streaming = s.streaming
             /\ t.switches = s.switches
BY DEF UiRow

LEMMA UiSwitches ==
  ASSUME NEW s \in UiRow, NEW x \in Nat
  PROVE  LET t == [s EXCEPT !.switches = x]
         IN  /\ t \in UiRow /\ t.switches = x
             /\ t.at = s.at /\ t.opts = s.opts /\ t.status = s.status
             /\ t.busy = s.busy /\ t.permission = s.permission /\ t.streaming = s.streaming
             /\ t.items = s.items
BY DEF UiRow

(* The screen's state but for the place of its loop. *)
ScreenMoves(at) ==
  /\ ui' \in UiRow /\ ui'.at = at
  /\ ui'.opts = ui.opts /\ ui'.status = ui.status /\ ui'.busy = ui.busy
  /\ ui'.permission = ui.permission /\ ui'.streaming = ui.streaming /\ ui'.items = ui.items
  /\ ui'.switches = ui.switches

LEMMA LoopShape ==
  ASSUME ScreenTypes, Draw \/ NoKey \/ QuitKey \/ Leave
  PROVE  /\ UNCHANGED <<agent, toAgent, answers, tuiTold>>
         /\ \/ Draw /\ ~Left /\ ScreenMoves("keys") /\ toScreen' = toScreen
            \/ NoKey /\ ~Left /\ ScreenMoves("draining") /\ toScreen' = toScreen
            \/ QuitKey /\ ui.permission = 0 /\ ScreenMoves("quit") /\ toScreen' = toScreen
            \/ Leave /\ Left /\ ScreenMoves("gone") /\ toScreen' = << >>
<1>0. ui \in UiRow
  BY DEF ScreenTypes
<1>1. CASE Draw
  BY <1>0, <1>1, UiAt DEF Draw, ScreenMoves, Left
<1>2. CASE NoKey
  BY <1>0, <1>2, UiAt DEF NoKey, ScreenMoves, Left
<1>3. CASE QuitKey
  BY <1>0, <1>3, UiAt DEF QuitKey, ScreenMoves
<1>4. CASE Leave
  BY <1>0, <1>4, UiAt DEF Leave, ScreenMoves, Left
<1> QED
  BY <1>1, <1>2, <1>3, <1>4

LEMMA AddedItem ==
  ASSUME NEW s \in UiRow, NEW kind \in {"user", "assistant", "tool"}, NEW of \in Nat,
         NEW text \in Seq(Nat)
  PROVE  LET t == AddItem(s, kind, of, text)
             it == [kind |-> kind, of |-> of, text |-> text]
         IN  /\ t \in UiRow /\ it \in ItemRow /\ t.items = Append(s.items, it)
             /\ t.at = s.at /\ t.opts = s.opts /\ t.status = s.status
             /\ t.busy = s.busy /\ t.permission = s.permission /\ t.streaming = s.streaming
             /\ t.switches = s.switches
<1> DEFINE it == [kind |-> kind, of |-> of, text |-> text]
<1>1. it \in ItemRow
  BY DEF ItemRow
<1>2. s.items \in Seq(ItemRow)
  BY DEF UiRow
<1>3. PICK x : x = Append(s.items, it)
  OBVIOUS
<1>4. x \in Seq(ItemRow)
  BY <1>1, <1>2, <1>3, AppendProperties
<1>5. AddItem(s, kind, of, text) = [s EXCEPT !.items = x]
  BY <1>3 DEF AddItem
<1> HIDE DEF it
<1>6. LET t == AddItem(s, kind, of, text)
      IN  /\ t \in UiRow /\ t.items = x
          /\ t.at = s.at /\ t.opts = s.opts /\ t.status = s.status
          /\ t.busy = s.busy /\ t.permission = s.permission /\ t.streaming = s.streaming
          /\ t.switches = s.switches
  BY <1>4, <1>5, UiItems
<1> QED
  BY <1>1, <1>3, <1>6 DEF it

LEMMA EmptyText == << >> \in Seq(Nat)
OBVIOUS

(* The oldest message is applied. *)
LEMMA DrainShape ==
  ASSUME ScreenTypes, Drain,
         NEW m, m = toScreen[1]
  PROVE  /\ ui.at = "draining" /\ ui'.at = "draining" /\ ui' \in UiRow /\ ui'.opts = ui.opts
         /\ UNCHANGED <<agent, toAgent, answers, tuiTold>>
         /\ Len(toScreen) > 0 /\ toScreen' = Tail(toScreen) /\ m \in WordRow \cup StatusRow
         /\ ui'.permission = IF m.kind = "ask" THEN m.ask ELSE ui.permission
         /\ ui'.status = IF m.kind = "status" THEN m.opts ELSE ui.status
         /\ IF m.kind \in {"idle", "fatal"} THEN ui'.busy = FALSE ELSE ui'.busy = ui.busy
         /\ \/ ui'.items = ui.items
            \/ /\ m.kind \in {"turn", "tool"}
               /\ \E it \in ItemRow :
                    /\ it.kind # "user" /\ it.of = m.of /\ ui'.items = Append(ui.items, it)
                    /\ it.text = IF m.kind = "turn" THEN ui.streaming ELSE << >>
         /\ ui'.streaming = IF m.kind = "delta" THEN Append(ui.streaming, m.of)
                            ELSE IF m.kind = "turn" THEN << >> ELSE ui.streaming
<1>0. /\ toScreen # << >> /\ toScreen \in Seq(WordRow \cup StatusRow) /\ ui \in UiRow
      /\ ui.at = "draining" /\ toScreen' = Tail(toScreen)
      /\ UNCHANGED <<agent, toAgent, answers, tuiTold>>
  BY DEF ScreenTypes, Drain
<1>1. Len(toScreen) > 0 /\ Head(toScreen) = m /\ m \in WordRow \cup StatusRow
  BY <1>0, EmptySeq, LenProperties
<1>2. ui' = Apply(ui, m)
  BY <1>1 DEF Drain
<1>3. CASE m.kind = "delta"
  <2>1. m.of \in Nat /\ ui.streaming \in Seq(Nat)
    BY <1>0, <1>1, <1>3 DEF WordRow, StatusRow, UiRow
  <2>2. PICK x : x = Append(ui.streaming, m.of)
    OBVIOUS
  <2>3. x \in Seq(Nat)
    BY <2>1, <2>2, AppendProperties
  <2>4. ui' = [ui EXCEPT !.streaming = x]
    BY <1>2, <1>3, <2>2 DEF Apply
  <2>5. /\ ui' \in UiRow
        /\ ui'.at = ui.at /\ ui'.opts = ui.opts /\ ui'.status = ui.status
        /\ ui'.busy = ui.busy /\ ui'.permission = ui.permission /\ ui'.items = ui.items
        /\ ui'.switches = ui.switches /\ ui'.streaming = x
    BY <1>0, <2>3, <2>4, UiStreaming
  <2> QED
    BY <1>0, <1>1, <1>3, <2>2, <2>5
<1>4. CASE m.kind = "turn"
  <2>1. m.of \in Nat
    BY <1>1, <1>4 DEF WordRow, StatusRow
  <2>2. CASE ui.streaming = << >>
    <3>1. ui' = ui
      BY <1>2, <1>4, <2>2 DEF Apply
    <3> QED
      BY <1>0, <1>1, <1>4, <2>2, <3>1
  <2>3. CASE ui.streaming # << >>
    <3>1. PICK t : t = AddItem(ui, "assistant", m.of, ui.streaming)
      OBVIOUS
    <3>2. PICK it : it = [kind |-> "assistant", of |-> m.of, text |-> ui.streaming]
      OBVIOUS
    <3>3. /\ t \in UiRow /\ it \in ItemRow /\ t.items = Append(ui.items, it)
          /\ t.at = ui.at /\ t.opts = ui.opts /\ t.status = ui.status
          /\ t.busy = ui.busy /\ t.permission = ui.permission /\ t.streaming = ui.streaming
          /\ t.switches = ui.switches
      <4>1. ui.streaming \in Seq(Nat)
        BY <1>0 DEF UiRow
      <4> QED
        BY <1>0, <2>1, <3>1, <3>2, <4>1, AddedItem
    <3>4. ui' = [t EXCEPT !.streaming = << >>] /\ << >> \in Seq(Nat)
      BY <1>2, <1>4, <2>3, <3>1 DEF Apply
    <3>5. /\ ui' \in UiRow
          /\ ui'.at = t.at /\ ui'.opts = t.opts /\ ui'.status = t.status
          /\ ui'.busy = t.busy /\ ui'.permission = t.permission /\ ui'.items = t.items
          /\ ui'.switches = t.switches /\ ui'.streaming = << >>
      BY <3>3, <3>4, UiStreaming
    <3>6. it.kind # "user" /\ it.of = m.of /\ it.text = ui.streaming
      BY <3>2
    <3>7. \E i \in ItemRow : /\ i.kind # "user" /\ i.of = m.of /\ ui'.items = Append(ui.items, i)
                             /\ i.text = ui.streaming
      BY <3>3, <3>5, <3>6
    <3> QED
      BY <1>0, <1>1, <1>4, <3>3, <3>5, <3>7
  <2> QED
    BY <2>2, <2>3
<1>5. CASE m.kind = "tool"
  <2>1. m.of \in Nat
    BY <1>1, <1>5 DEF WordRow, StatusRow
  <2>0. PICK e \in Seq(Nat) : e = << >>
    BY EmptyText, Zenon
  <2>2. PICK it : it = [kind |-> "tool", of |-> m.of, text |-> e]
    OBVIOUS
  <2>3. ui' = AddItem(ui, "tool", m.of, e)
    BY <1>2, <1>5, <2>0 DEF Apply
  <2>4. /\ ui' \in UiRow /\ it \in ItemRow /\ ui'.items = Append(ui.items, it)
        /\ ui'.at = ui.at /\ ui'.opts = ui.opts /\ ui'.status = ui.status
        /\ ui'.busy = ui.busy /\ ui'.permission = ui.permission /\ ui'.streaming = ui.streaming
        /\ ui'.switches = ui.switches
    BY <1>0, <2>1, <2>2, <2>3, AddedItem
  <2>5. it.kind # "user" /\ it.of = m.of /\ it.text = << >>
    BY <2>0, <2>2
  <2>6. \E i \in ItemRow : /\ i.kind # "user" /\ i.of = m.of /\ ui'.items = Append(ui.items, i)
                           /\ i.text = << >>
    BY <2>4, <2>5
  <2> QED
    BY <1>0, <1>1, <1>5, <2>4, <2>6
<1>6. CASE m.kind = "ask"
  <2>1. m.ask \in Nat
    BY <1>1, <1>6 DEF WordRow, StatusRow
  <2>2. ui' = [ui EXCEPT !.permission = m.ask]
    BY <1>2, <1>6 DEF Apply
  <2>3. /\ ui' \in UiRow /\ ui'.permission = m.ask
        /\ ui'.at = ui.at /\ ui'.opts = ui.opts /\ ui'.status = ui.status
        /\ ui'.busy = ui.busy /\ ui'.streaming = ui.streaming /\ ui'.items = ui.items
        /\ ui'.switches = ui.switches
    BY <1>0, <2>1, <2>2, UiPermission
  <2> QED
    BY <1>0, <1>1, <1>6, <2>3
<1>7. CASE m.kind = "status"
  <2>1. m.opts \in TuiOpts
    BY <1>1, <1>7 DEF WordRow, StatusRow
  <2>2. ui' = [ui EXCEPT !.status = m.opts]
    BY <1>2, <1>7 DEF Apply
  <2>3. /\ ui' \in UiRow /\ ui'.status = m.opts
        /\ ui'.at = ui.at /\ ui'.opts = ui.opts /\ ui'.busy = ui.busy
        /\ ui'.permission = ui.permission /\ ui'.streaming = ui.streaming /\ ui'.items = ui.items
        /\ ui'.switches = ui.switches
    BY <1>0, <2>1, <2>2, UiStatus
  <2> QED
    BY <1>0, <1>1, <1>7, <2>3
<1>8. CASE m.kind \in {"idle", "fatal"}
  <2>1. ui' = [ui EXCEPT !.busy = FALSE] /\ FALSE \in BOOLEAN
    BY <1>2, <1>8 DEF Apply
  <2>2. /\ ui' \in UiRow /\ ui'.busy = FALSE
        /\ ui'.at = ui.at /\ ui'.opts = ui.opts /\ ui'.status = ui.status
        /\ ui'.permission = ui.permission /\ ui'.streaming = ui.streaming /\ ui'.items = ui.items
        /\ ui'.switches = ui.switches
    BY <1>0, <2>1, UiBusy
  <2> QED
    BY <1>0, <1>1, <1>8, <2>2
<1>9. m.kind \in {"delta", "turn", "tool", "ask", "status", "idle", "fatal"}
  BY <1>1 DEF WordRow, StatusRow
<1> QED
  BY <1>3, <1>4, <1>5, <1>6, <1>7, <1>8, <1>9

(* An answer: the modal closes, and the agent finds what was said.         *)
LEMMA AnswerShape ==
  ASSUME ScreenTypes, AnswerKey
  PROVE  \E yes \in BOOLEAN :
           /\ ui.permission # 0 /\ UNCHANGED <<agent, toScreen, toAgent>>
           /\ ui' \in UiRow /\ ui'.at = "draining" /\ ui'.permission = 0
           /\ ui'.opts = ui.opts /\ ui'.status = ui.status /\ ui'.busy = ui.busy
           /\ ui'.streaming = ui.streaming /\ ui'.items = ui.items /\ ui'.switches = ui.switches
           /\ answers' = (IF Reads THEN Append(answers, yes) ELSE answers)
           /\ tuiTold' \in ToldRow /\ tuiTold'.said = tuiTold.said \cup {<<ui.permission, yes>>}
           /\ tuiTold'.sends = tuiTold.sends /\ tuiTold'.turns = tuiTold.turns
           /\ tuiTold'.ran = tuiTold.ran
<1>0. ui \in UiRow /\ tuiTold \in ToldRow /\ ui.permission \in Nat
  BY DEF ScreenTypes, UiRow
<1>1. PICK yes \in BOOLEAN :
        /\ answers' = IF Reads THEN Append(answers, yes) ELSE answers
        /\ tuiTold' = [tuiTold EXCEPT !.said = @ \cup {<<ui.permission, yes>>}]
  BY DEF AnswerKey
<1>2. ui' = [ui EXCEPT !.at = "draining", !.permission = 0]
  BY DEF AnswerKey
<1> DEFINE s == [ui EXCEPT !.at = "draining"]
<1>3. ui' = [s EXCEPT !.permission = 0]
  BY <1>2
<1>4. /\ s \in UiRow /\ s.at = "draining"
      /\ s.opts = ui.opts /\ s.status = ui.status /\ s.busy = ui.busy
      /\ s.permission = ui.permission /\ s.streaming = ui.streaming /\ s.items = ui.items
      /\ s.switches = ui.switches
  BY <1>0, UiAt
<1> HIDE DEF s
<1>5. /\ ui' \in UiRow /\ ui'.permission = 0
      /\ ui'.at = s.at /\ ui'.opts = s.opts /\ ui'.status = s.status
      /\ ui'.busy = s.busy /\ ui'.streaming = s.streaming /\ ui'.items = s.items
      /\ ui'.switches = s.switches
  BY <1>3, <1>4, UiPermission
<1>6. /\ ui' \in UiRow /\ ui'.at = "draining" /\ ui'.permission = 0
      /\ ui'.opts = ui.opts /\ ui'.status = ui.status /\ ui'.busy = ui.busy
      /\ ui'.streaming = ui.streaming /\ ui'.items = ui.items /\ ui'.switches = ui.switches
  BY <1>4, <1>5
<1>7. PICK p : p = {<<ui.permission, yes>>}
  OBVIOUS
<1>8. p \subseteq Nat \X BOOLEAN
  BY <1>0, <1>7
<1>9. tuiTold' = [tuiTold EXCEPT !.said = @ \cup p]
  BY <1>1, <1>7
<1>10. /\ tuiTold'.said = tuiTold.said \cup p
       /\ tuiTold'.sends = tuiTold.sends /\ tuiTold'.turns = tuiTold.turns
       /\ tuiTold'.ran = tuiTold.ran
  BY <1>0, <1>9 DEF ToldRow
<1>11. tuiTold' \in ToldRow
  BY <1>0, <1>8, <1>9 DEF ToldRow
<1> QED
  BY <1>1, <1>6, <1>7, <1>10, <1>11 DEF AnswerKey

(* One of the options takes the value of a command. *)
LEMMA OptsChange ==
  ASSUME NEW opts \in TuiOpts, NEW cmd \in CommandRow, cmd.kind # "send"
  PROVE  LET new == [opts EXCEPT ![cmd.kind] = cmd.what]
         IN  /\ new \in TuiOpts
             /\ new.model = IF cmd.kind = "model" THEN cmd.what ELSE opts.model
             /\ new.agent = IF cmd.kind = "agent" THEN cmd.what ELSE opts.agent
<1>1. CASE cmd.kind = "model"
  <2>1. cmd.what \in 0 .. TuiModels
    BY <1>1 DEF CommandRow
  <2> QED
    BY <1>1, <2>1 DEF TuiOpts
<1>2. CASE cmd.kind = "agent"
  <2>1. cmd.what \in {"build", "plan", "other"}
    BY <1>2 DEF CommandRow
  <2> QED
    BY <1>2, <2>1 DEF TuiOpts
<1> QED
  BY <1>1, <1>2 DEF CommandRow

(* A choice on the screen: shown at once, sent to the agent. *)
LEMMA SwitchShape ==
  ASSUME ScreenTypes, SwitchKey
  PROVE  \E cmd \in CommandRow :
           /\ cmd.kind # "send" /\ ~Left /\ ui.permission = 0
           /\ UNCHANGED <<agent, toScreen, answers, tuiTold>>
           /\ ui' \in UiRow /\ ui'.at = (IF Reads THEN "draining" ELSE "quit")
           /\ ui'.busy = ui.busy /\ ui'.permission = ui.permission /\ ui'.items = ui.items
           /\ ui'.streaming = ui.streaming
           /\ ui'.opts.model = IF cmd.kind = "model" THEN cmd.what ELSE ui.opts.model
           /\ ui'.opts.agent = IF cmd.kind = "agent" THEN cmd.what ELSE ui.opts.agent
           /\ toAgent' = IF Reads THEN Append(toAgent, cmd) ELSE toAgent
<1>0. /\ ui \in UiRow /\ ui.opts \in TuiOpts /\ ui.at = "keys" /\ ui.permission = 0
      /\ UNCHANGED <<agent, toScreen, answers, tuiTold>>
  BY DEF ScreenTypes, UiRow, SwitchKey
<1>1. PICK cmd \in {Command("model", NextModel(ui.opts.model)),
                    Command("agent", NextAgent(ui.opts.agent))} :
        LET opts == [ui.opts EXCEPT ![cmd.kind] = cmd.what]
        IN  /\ ui' = [ui EXCEPT !.opts = opts, !.status = opts, !.switches = @ + 1,
                                !.at = IF Reads THEN "draining" ELSE "quit"]
            /\ toAgent' = IF Reads THEN Append(toAgent, cmd) ELSE toAgent
  BY DEF SwitchKey
<1>2. cmd \in CommandRow /\ cmd.kind # "send"
  <2>1. CASE cmd = Command("model", NextModel(ui.opts.model))
    <3>1. NextModel(ui.opts.model) \in 0 .. TuiModels
      BY <1>0, TuiConstants DEF TuiOpts, NextModel
    <3>2. PICK v \in 0 .. TuiModels : v = NextModel(ui.opts.model)
      BY <3>1
    <3> QED
      BY <2>1, <3>2 DEF Command, CommandRow
  <2>2. CASE cmd = Command("agent", NextAgent(ui.opts.agent))
    BY <2>2 DEF Command, CommandRow, NextAgent
  <2> QED
    BY <1>1, <2>1, <2>2
<1>3. PICK opts : opts = [ui.opts EXCEPT ![cmd.kind] = cmd.what]
  OBVIOUS
<1>4. /\ opts \in TuiOpts
      /\ opts.model = IF cmd.kind = "model" THEN cmd.what ELSE ui.opts.model
      /\ opts.agent = IF cmd.kind = "agent" THEN cmd.what ELSE ui.opts.agent
  BY <1>0, <1>2, <1>3, OptsChange
<1>5. PICK at \in {"draining", "keys", "quit", "gone"} : at = IF Reads THEN "draining" ELSE "quit"
  OBVIOUS
<1> DEFINE s1 == [ui EXCEPT !.opts = opts]
<1> DEFINE s2 == [s1 EXCEPT !.status = opts]
<1> DEFINE s3 == [s2 EXCEPT !.switches = ui.switches + 1]
<1>6. ui' = [s3 EXCEPT !.at = at]
  BY <1>1, <1>3, <1>5
<1>7. /\ s1 \in UiRow /\ s1.opts = opts
      /\ s1.at = ui.at /\ s1.status = ui.status /\ s1.busy = ui.busy
      /\ s1.permission = ui.permission /\ s1.streaming = ui.streaming /\ s1.items = ui.items
      /\ s1.switches = ui.switches
  BY <1>0, <1>4, UiOpts
<1> HIDE DEF s1
<1>8. /\ s2 \in UiRow
      /\ s2.at = s1.at /\ s2.opts = s1.opts /\ s2.busy = s1.busy
      /\ s2.permission = s1.permission /\ s2.streaming = s1.streaming /\ s2.items = s1.items
      /\ s2.switches = s1.switches
  BY <1>4, <1>7, UiStatus
<1> HIDE DEF s2
<1>9. /\ s3 \in UiRow
      /\ s3.at = s2.at /\ s3.opts = s2.opts /\ s3.status = s2.status
      /\ s3.busy = s2.busy /\ s3.permission = s2.permission /\ s3.streaming = s2.streaming
      /\ s3.items = s2.items
  <2>1. PICK n : n = ui.switches + 1
    OBVIOUS
  <2>2. n \in Nat
    BY <1>0, <2>1 DEF UiRow
  <2>3. s3 = [s2 EXCEPT !.switches = n]
    BY <2>1
  <2> HIDE DEF s3
  <2> QED
    BY <1>8, <2>2, <2>3, UiSwitches
<1> HIDE DEF s3
<1>10. /\ ui' \in UiRow /\ ui'.at = at
       /\ ui'.opts = s3.opts /\ ui'.status = s3.status /\ ui'.busy = s3.busy
       /\ ui'.permission = s3.permission /\ ui'.streaming = s3.streaming /\ ui'.items = s3.items
       /\ ui'.switches = s3.switches
  <2>1. at \in {"draining", "keys", "quit", "gone"}
    BY <1>5
  <2> DEFINE r == [s3 EXCEPT !.at = at]
  <2>2. /\ r \in UiRow /\ r.at = at
        /\ r.opts = s3.opts /\ r.status = s3.status /\ r.busy = s3.busy
        /\ r.permission = s3.permission /\ r.streaming = s3.streaming /\ r.items = s3.items
        /\ r.switches = s3.switches
    BY <2>1, <1>9, UiAt, Zenon
  <2>3. ui' = r
    BY <1>6
  <2> HIDE DEF r
  <2> QED
    BY <2>2, <2>3, Zenon
<1>11. /\ ui'.busy = ui.busy /\ ui'.permission = ui.permission /\ ui'.items = ui.items
       /\ ui'.streaming = ui.streaming
       /\ ui'.opts = opts
  BY <1>7, <1>8, <1>9, <1>10
<1>12. toAgent' = IF Reads THEN Append(toAgent, cmd) ELSE toAgent
  BY <1>1
<1>13. ~Left
  BY <1>0 DEF Left
<1> QED
  BY <1>0, <1>2, <1>4, <1>5, <1>10, <1>11, <1>12, <1>13

(* A message is sent, with the options of the screen. *)
LEMMA EnterShape ==
  ASSUME ScreenTypes, EnterKey
  PROVE  LET n == Sends + 1
         IN  /\ ~ui.busy /\ ~Left /\ ui.permission = 0
             /\ UNCHANGED <<agent, toScreen, answers>>
             /\ ui' \in UiRow /\ ui'.at = (IF Reads THEN "draining" ELSE "quit")
             /\ ui'.busy = TRUE /\ ui'.opts = ui.opts /\ ui'.status = ui.status
             /\ ui'.permission = ui.permission
             /\ ui'.items = Append(ui.items, [kind |-> "user", of |-> n, text |-> << >>])
             /\ ui'.streaming = ui.streaming
             /\ toAgent' = IF Reads THEN Append(toAgent, Command("send", n)) ELSE toAgent
             /\ tuiTold' \in ToldRow
             /\ tuiTold'.sends = Append(tuiTold.sends, [send |-> n, opts |-> ui.opts])
             /\ tuiTold'.turns = tuiTold.turns /\ tuiTold'.said = tuiTold.said
             /\ tuiTold'.ran = tuiTold.ran
<1>0. /\ ui \in UiRow /\ ui.opts \in TuiOpts /\ ui.at = "keys" /\ ui.permission = 0 /\ ~ui.busy
      /\ UNCHANGED <<agent, toScreen, answers>>
      /\ tuiTold \in ToldRow /\ tuiTold.sends \in Seq(SendRow)
  BY DEF ScreenTypes, UiRow, ToldRow, EnterKey, Sending
<1>1. PICK n \in Nat : n = Sends + 1
  BY <1>0, LenProperties DEF Sends
<1> DEFINE s == AddItem(ui, "user", n, << >>)
<1>2. /\ ui' = [s EXCEPT !.busy = TRUE, !.at = IF Reads THEN "draining" ELSE "quit"]
      /\ toAgent' = IF Reads THEN Append(toAgent, Command("send", n)) ELSE toAgent
      /\ tuiTold' = [tuiTold EXCEPT !.sends = Append(@, [send |-> n, opts |-> ui.opts])]
  BY <1>1 DEF EnterKey, Sending, Sends
<1>3. PICK at \in {"draining", "keys", "quit", "gone"} : at = IF Reads THEN "draining" ELSE "quit"
  OBVIOUS
<1>4. PICK it : it = [kind |-> "user", of |-> n, text |-> << >>]
  OBVIOUS
<1>5. /\ s \in UiRow /\ s.items = Append(ui.items, it)
      /\ s.at = ui.at /\ s.opts = ui.opts /\ s.status = ui.status
      /\ s.busy = ui.busy /\ s.permission = ui.permission /\ s.streaming = ui.streaming
      /\ s.switches = ui.switches
  <2>1. << >> \in Seq(Nat)
    OBVIOUS
  <2> QED
    BY <1>0, <1>4, <2>1, AddedItem
<1> DEFINE t == [s EXCEPT !.busy = TRUE]
<1>6. ui' = [t EXCEPT !.at = at]
  BY <1>2, <1>3
<1> HIDE DEF s
<1>7. /\ t \in UiRow /\ t.busy = TRUE
      /\ t.at = s.at /\ t.opts = s.opts /\ t.status = s.status
      /\ t.permission = s.permission /\ t.streaming = s.streaming /\ t.items = s.items
      /\ t.switches = s.switches
  BY <1>5, UiBusy
<1> HIDE DEF t
<1>8. /\ ui' \in UiRow /\ ui'.at = at
      /\ ui'.opts = t.opts /\ ui'.status = t.status /\ ui'.busy = t.busy
      /\ ui'.permission = t.permission /\ ui'.streaming = t.streaming /\ ui'.items = t.items
      /\ ui'.switches = t.switches
  <2>1. at \in {"draining", "keys", "quit", "gone"}
    BY <1>3
  <2> DEFINE r == [t EXCEPT !.at = at]
  <2>2. /\ r \in UiRow /\ r.at = at
        /\ r.opts = t.opts /\ r.status = t.status /\ r.busy = t.busy
        /\ r.permission = t.permission /\ r.streaming = t.streaming /\ r.items = t.items
        /\ r.switches = t.switches
    BY <2>1, <1>7, UiAt, Zenon
  <2>3. ui' = r
    BY <1>6
  <2> HIDE DEF r
  <2> QED
    BY <2>2, <2>3, Zenon
<1>9. PICK row : row = [send |-> n, opts |-> ui.opts]
  OBVIOUS
<1>10. row \in SendRow
  BY <1>0, <1>9 DEF SendRow
<1>11. PICK q : q = Append(tuiTold.sends, row)
  OBVIOUS
<1>12. q \in Seq(SendRow)
  BY <1>0, <1>10, <1>11, AppendProperties
<1>13. tuiTold' = [tuiTold EXCEPT !.sends = q]
  BY <1>2, <1>9, <1>11
<1>14. /\ tuiTold' \in ToldRow /\ tuiTold'.sends = q
       /\ tuiTold'.turns = tuiTold.turns /\ tuiTold'.said = tuiTold.said
       /\ tuiTold'.ran = tuiTold.ran
  BY <1>0, <1>12, <1>13 DEF ToldRow
<1>15. ~Left
  BY <1>0 DEF Left
<1>16. /\ ui'.busy = TRUE /\ ui'.opts = ui.opts /\ ui'.status = ui.status
       /\ ui'.permission = ui.permission
       /\ ui'.items = Append(ui.items, [kind |-> "user", of |-> n, text |-> << >>])
       /\ ui'.streaming = ui.streaming
  BY <1>4, <1>5, <1>7, <1>8
<1> QED
  BY <1>0, <1>1, <1>2, <1>3, <1>8, <1>9, <1>11, <1>14, <1>15, <1>16

(* The agent takes the oldest command: a message, or a choice it tells.    *)
LEMMA TakeShape ==
  ASSUME ScreenTypes, TakeCommand,
         NEW cmd, cmd = toAgent[1]
  PROVE  /\ agent.at = "reading" /\ UNCHANGED <<ui, answers, tuiTold>>
         /\ Len(toAgent) > 0 /\ toAgent' = Tail(toAgent) /\ cmd \in CommandRow
         /\ agent' \in AgentRow /\ agent'.ask = agent.ask /\ agent'.rounds = agent.rounds
         /\ \/ /\ cmd.kind = "send" /\ agent'.at = "preparing" /\ agent'.turn = cmd.what
               /\ agent'.opts = agent.opts /\ toScreen' = toScreen
            \/ /\ cmd.kind # "send" /\ agent'.at = "reading" /\ agent'.turn = agent.turn
               /\ agent'.opts.model = IF cmd.kind = "model" THEN cmd.what ELSE agent.opts.model
               /\ agent'.opts.agent = IF cmd.kind = "agent" THEN cmd.what ELSE agent.opts.agent
               /\ Adds({"status"})
               /\ ui.at # "gone" => /\ Len(toScreen') = Len(toScreen) + 1
                                     /\ toScreen'[Len(toScreen) + 1].kind = "status"
                                     /\ toScreen'[Len(toScreen) + 1].opts = agent'.opts
<1>0. /\ agent.at = "reading" /\ UNCHANGED <<ui, answers, tuiTold>>
      /\ toAgent # << >> /\ toAgent' = Tail(toAgent) /\ toAgent \in Seq(CommandRow)
      /\ agent \in AgentRow /\ agent.opts \in TuiOpts
  BY DEF TakeCommand, ScreenTypes, AgentRow
<1>1. Len(toAgent) > 0 /\ Head(toAgent) = cmd /\ cmd \in CommandRow
  BY <1>0, EmptySeq, LenProperties
<1>2. CASE cmd.kind = "send"
  <2>1. agent' = [agent EXCEPT !.at = "preparing", !.turn = cmd.what] /\ toScreen' = toScreen
    BY <1>1, <1>2 DEF TakeCommand
  <2>2. cmd.what \in Nat
    BY <1>1, <1>2 DEF CommandRow
  <2> DEFINE b == [agent EXCEPT !.at = "preparing"]
  <2>3. agent' = [b EXCEPT !.turn = cmd.what]
    BY <2>1
  <2>4. /\ b \in AgentRow /\ b.at = "preparing" /\ b.opts = agent.opts
        /\ b.ask = agent.ask /\ b.rounds = agent.rounds
    BY <1>0, SetAt DEF AgentPlace
  <2> HIDE DEF b
  <2>5. /\ agent' \in AgentRow /\ agent'.at = b.at /\ agent'.opts = b.opts
        /\ agent'.ask = b.ask /\ agent'.rounds = b.rounds /\ agent'.turn = cmd.what
    BY <2>2, <2>3, <2>4 DEF AgentRow
  <2> QED
    BY <1>0, <1>1, <1>2, <2>1, <2>4, <2>5
<1>3. CASE cmd.kind # "send"
  <2>1. PICK opts : opts = [agent.opts EXCEPT ![cmd.kind] = cmd.what]
    OBVIOUS
  <2>2. /\ opts \in TuiOpts
        /\ opts.model = IF cmd.kind = "model" THEN cmd.what ELSE agent.opts.model
        /\ opts.agent = IF cmd.kind = "agent" THEN cmd.what ELSE agent.opts.agent
    BY <1>0, <1>1, <1>3, <2>1, OptsChange
  <2>3. agent' = [agent EXCEPT !.opts = opts] /\ Post(<<StatusMsg(opts)>>)
    BY <1>1, <1>3, <2>1 DEF TakeCommand
  <2>4. /\ agent' \in AgentRow /\ agent'.at = agent.at /\ agent'.opts = opts
        /\ agent'.ask = agent.ask /\ agent'.rounds = agent.rounds /\ agent'.turn = agent.turn
    BY <1>0, <2>2, <2>3 DEF AgentRow
  <2>5. PICK m : m = StatusMsg(opts)
    OBVIOUS
  <2>6. m \in WordRow \cup StatusRow /\ m.kind = "status" /\ m.opts = opts
    BY <2>2, <2>5 DEF StatusMsg, StatusRow
  <2>7. /\ Adds({m.kind})
        /\ ui.at # "gone" => Len(toScreen') = Len(toScreen) + 1
        /\ Len(toScreen') = Len(toScreen) + 1 => toScreen'[Len(toScreen) + 1] = m
    BY <2>3, <2>5, <2>6, PostOne
  <2> QED
    BY <1>0, <1>1, <1>3, <2>2, <2>4, <2>6, <2>7
<1> QED
  BY <1>2, <1>3

LEMMA TurnNoted ==
  ASSUME ScreenTypes, NEW row \in SendRow, tuiTold' = [tuiTold EXCEPT !.turns = Append(@, row)]
  PROVE  /\ tuiTold' \in ToldRow /\ tuiTold'.turns = Append(tuiTold.turns, row)
         /\ tuiTold'.sends = tuiTold.sends /\ tuiTold'.said = tuiTold.said
         /\ tuiTold'.ran = tuiTold.ran
<1>1. tuiTold \in ToldRow /\ tuiTold.turns \in Seq(SendRow)
  BY DEF ScreenTypes, ToldRow
<1>2. PICK q : q = Append(tuiTold.turns, row)
  OBVIOUS
<1>3. q \in Seq(SendRow)
  BY <1>1, <1>2, AppendProperties
<1>4. tuiTold' = [tuiTold EXCEPT !.turns = q]
  BY <1>2
<1> QED
  BY <1>1, <1>2, <1>3, <1>4 DEF ToldRow

-----------------------------------------------------------------------------
(* Consent. *)

LEMMA NoAnswer == << >> # <<TRUE>> /\ << >> # <<FALSE>> /\ <<TRUE>> # <<FALSE>>
<1>1. << >> # <<TRUE>> /\ << >> # <<FALSE>>
  OBVIOUS
<1>2. SUFFICES ASSUME <<TRUE>> = <<FALSE>> PROVE FALSE
  BY <1>1
<1>3. <<TRUE>>[1] = <<FALSE>>[1]
  BY <1>2
<1> QED
  BY <1>3

(* The agent moves and neither asks nor asked. *)
LEMMA ConsentQuiet ==
  ASSUME ScreenTypes, ConsentIsPassed, NEW K, "ask" \notin K, Adds(K),
         agent.at # "asking", agent' \in AgentRow, agent'.at # "asking",
         agent.rounds <= agent'.rounds, agent'.ask <= agent'.rounds,
         UNCHANGED <<ui, answers>>, tuiTold'.said = tuiTold.said, tuiTold'.ran = tuiTold.ran,
         agent'.at = "acting" => agent'.ask = 0
  PROVE  ConsentIsPassed'
<1>1. /\ agent.rounds \in Nat /\ agent'.rounds \in Nat /\ tuiTold.said \subseteq Nat \X BOOLEAN
      /\ tuiTold.ran \subseteq Nat /\ Len(toScreen) \in Nat /\ Len(toScreen') \in Nat
  BY LenProperties DEF ScreenTypes, AgentRow, ToldRow, Adds
<1>2. answers = << >> /\ answers' = << >> /\ ui.permission = 0 /\ ui'.permission = 0
  BY DEF ConsentIsPassed
<1>3. \A i \in 1 .. Len(toScreen') : toScreen'[i].kind # "ask"
  <2> SUFFICES ASSUME NEW i \in 1 .. Len(toScreen') PROVE toScreen'[i].kind # "ask"
    OBVIOUS
  <2>1. CASE i <= Len(toScreen)
    BY <1>1, <2>1 DEF ConsentIsPassed, Adds
  <2>2. CASE i > Len(toScreen)
    BY <2>2 DEF Adds
  <2> QED
    BY <1>1, <2>1, <2>2
<1>4. \A p \in tuiTold'.said : p[1] <= agent'.rounds
  <2> SUFFICES ASSUME NEW p \in tuiTold.said PROVE p[1] <= agent'.rounds
    OBVIOUS
  <2>1. p[1] \in Nat /\ p[1] <= agent.rounds
    BY <1>1 DEF ConsentIsPassed
  <2> QED
    BY <1>1, <2>1
<1>5. \A n \in tuiTold'.ran : n <= agent'.rounds /\ Allowed(n)'
  <2> SUFFICES ASSUME NEW n \in tuiTold.ran PROVE n <= agent'.rounds /\ Allowed(n)'
    OBVIOUS
  <2>1. n \in Nat /\ n <= agent.rounds /\ Allowed(n)
    BY <1>1 DEF ConsentIsPassed
  <2>2. n <= agent'.rounds
    BY <1>1, <2>1
  <2> QED
    BY <2>1, <2>2 DEF Allowed
<1>6. ui'.at = "gone" => toScreen' = << >>
  BY DEF ConsentIsPassed, Adds
<1> QED
  BY <1>2, <1>3, <1>4, <1>5, <1>6, NoAnswer DEF ConsentIsPassed

(* The screen moves and neither shows a request nor answers one.           *)
LEMMA ConsentScreen ==
  ASSUME ScreenTypes, ConsentIsPassed, UNCHANGED <<agent, answers>>,
         tuiTold'.said = tuiTold.said, tuiTold'.ran = tuiTold.ran,
         ui'.permission = ui.permission, ui.permission # 0 => ~Left',
         toScreen' = toScreen \/ toScreen' = << >>, ui'.at = "gone" => toScreen' = << >>
  PROVE  ConsentIsPassed'
<1>1. /\ agent'.ask <= agent'.rounds
      /\ agent'.at = "asking" => agent'.ask # 0 /\ agent'.ask \notin tuiTold'.ran
      /\ \A p \in tuiTold'.said : p[1] <= agent'.rounds
      /\ answers' # << >> => agent'.at = "asking"
  BY DEF ConsentIsPassed
<1>2. /\ \A n \in tuiTold'.ran : n <= agent'.rounds /\ Allowed(n)'
      /\ agent'.at = "acting" /\ agent'.ask # 0 => Allowed(agent.ask)'
      /\ answers' = <<TRUE>> => Allowed(agent.ask)'
  BY DEF ConsentIsPassed, Allowed
<1>3. ui'.permission # 0 =>
        /\ agent'.at = "asking" /\ agent'.ask = ui'.permission /\ answers' = << >>
        /\ Unsaid(agent.ask)' /\ ~Left'
  BY DEF ConsentIsPassed, Unsaid
<1>4. \A i \in 1 .. Len(toScreen') : toScreen'[i].kind = "ask" =>
        /\ agent'.at = "asking" /\ toScreen'[i].ask = agent'.ask /\ i = Len(toScreen')
        /\ answers' = << >> /\ Unsaid(agent.ask)' /\ ui'.permission = 0
  <2>1. CASE toScreen' = toScreen
    BY <2>1 DEF ConsentIsPassed, Unsaid
  <2>2. CASE toScreen' = << >>
    BY <2>2
  <2> QED
    BY <2>1, <2>2
<1> QED
  BY <1>1, <1>2, <1>3, <1>4 DEF ConsentIsPassed

LEMMA ConsentCall ==
  ASSUME ScreenTypes, ConsentIsPassed, CallTool
  PROVE  ConsentIsPassed'
<1>1. /\ agent.at = "choosing" /\ UNCHANGED <<ui, answers, tuiTold>>
      /\ agent' \in AgentRow /\ agent'.rounds = agent.rounds + 1
      /\ agent.rounds \in Nat /\ tuiTold.said \subseteq Nat \X BOOLEAN /\ tuiTold.ran \subseteq Nat
      /\ Len(toScreen) \in Nat
  BY CallShape, LenProperties DEF ScreenTypes, AgentRow, ToldRow
<1>2. CASE agent'.at = "acting" /\ agent'.ask = 0 /\ toScreen' = toScreen
  <2>1. Adds({}) /\ agent.rounds <= agent'.rounds /\ agent'.ask <= agent'.rounds
    BY <1>1, <1>2, AddsNone
  <2> QED
    BY <1>1, <1>2, <2>1, ConsentQuiet
<1>3. CASE agent'.at = "choosing" /\ agent'.ask = 0 /\ Adds({"tool"})
  <2>1. agent.rounds <= agent'.rounds /\ agent'.ask <= agent'.rounds /\ "ask" \notin {"tool"}
    BY <1>1, <1>3
  <2> QED
    BY <1>1, <1>3, <2>1, ConsentQuiet
<1>4. CASE /\ agent'.at = "asking" /\ agent'.ask = agent.rounds + 1 /\ Adds({"ask"})
           /\ Len(toScreen') <= Len(toScreen) + 1
           /\ Len(toScreen') = Len(toScreen) + 1 =>
                toScreen'[Len(toScreen) + 1].ask = agent.rounds + 1
  <2> DEFINE n == agent'.ask
  <2>1. /\ n \in Nat /\ n # 0 /\ n = agent.rounds + 1 /\ n = agent'.rounds
    BY <1>1, <1>4
  <2> HIDE DEF n
  <2>2. Unsaid(n)
    <3>1. ASSUME NEW b \in BOOLEAN, <<n, b>> \in tuiTold.said
          PROVE  FALSE
      <4>1. <<n, b>>[1] <= agent.rounds
        BY <3>1 DEF ConsentIsPassed
      <4>2. <<n, b>>[1] = n
        OBVIOUS
      <4>3. n <= agent.rounds
        BY <4>1, <4>2
      <4> QED
        BY <1>1, <2>1, <4>3
    <3> QED
      BY <3>1 DEF Unsaid
  <2>3. n \notin tuiTold.ran
    BY <1>1, <2>1 DEF ConsentIsPassed
  <2>4. answers = << >> /\ answers' = << >> /\ ui.permission = 0 /\ ui'.permission = 0
    BY <1>1 DEF ConsentIsPassed
  <2>5. \A i \in 1 .. Len(toScreen') : toScreen'[i].kind = "ask" =>
          i = Len(toScreen') /\ toScreen'[i].ask = n
    <3> SUFFICES ASSUME NEW i \in 1 .. Len(toScreen'), toScreen'[i].kind = "ask"
                 PROVE  i = Len(toScreen') /\ toScreen'[i].ask = n
      OBVIOUS
    <3>1. ~(i <= Len(toScreen))
      <4> SUFFICES ASSUME i <= Len(toScreen) PROVE FALSE
        OBVIOUS
      <4>1. i \in 1 .. Len(toScreen) /\ toScreen'[i] = toScreen[i]
        BY <1>1, <1>4 DEF Adds
      <4> QED
        BY <1>1, <4>1 DEF ConsentIsPassed
    <3>2. Len(toScreen') = Len(toScreen) + 1 /\ i = Len(toScreen) + 1
      <4>1. Len(toScreen') \in Nat
        BY <1>4, LenProperties DEF Adds
      <4> QED
        BY <1>1, <1>4, <3>1, <4>1
    <3> QED
      BY <1>4, <2>1, <3>2
  <2>6. \A p \in tuiTold.said : p[1] <= agent'.rounds
    <3> SUFFICES ASSUME NEW p \in tuiTold.said PROVE p[1] <= agent'.rounds
      OBVIOUS
    <3>1. p[1] \in Nat /\ p[1] <= agent.rounds
      BY <1>1 DEF ConsentIsPassed
    <3> QED
      BY <1>1, <3>1
  <2>7. \A x \in tuiTold.ran : x <= agent'.rounds /\ Allowed(x)
    <3> SUFFICES ASSUME NEW x \in tuiTold.ran PROVE x <= agent'.rounds /\ Allowed(x)
      OBVIOUS
    <3>1. x \in Nat /\ x <= agent.rounds /\ Allowed(x)
      BY <1>1 DEF ConsentIsPassed
    <3> QED
      BY <1>1, <3>1
  <2>8. ui.at = "gone" => toScreen' = << >>
    BY <1>4 DEF ConsentIsPassed, Adds
  <2>9. agent'.ask <= agent'.rounds
    BY <2>1 DEF n
  <2>10. /\ \A x \in tuiTold'.ran : x <= agent'.rounds /\ Allowed(x)'
         /\ \A p \in tuiTold'.said : p[1] <= agent'.rounds
    BY <1>1, <2>6, <2>7 DEF Allowed
  <2>11. /\ Unsaid(agent.ask)' /\ agent'.ask # 0 /\ agent'.ask \notin tuiTold'.ran
    BY <1>1, <2>1, <2>2, <2>3 DEF n, Unsaid
  <2>12. \A i \in 1 .. Len(toScreen') : toScreen'[i].kind = "ask" =>
           i = Len(toScreen') /\ toScreen'[i].ask = agent'.ask
    BY <2>5 DEF n
  <2>13. ui'.at = "gone" => toScreen' = << >>
    BY <1>1, <2>8
  <2> QED
    BY <1>4, <2>4, <2>9, <2>10, <2>11, <2>12, <2>13, NoAnswer DEF ConsentIsPassed
<1> QED
  BY <1>2, <1>3, <1>4, CallShape

(* An answer reaches the request it was given for. *)
LEMMA ConsentResolve ==
  ASSUME ScreenTypes, ConsentIsPassed, Resolve
  PROVE  ConsentIsPassed'
<1>1. /\ agent.at = "asking" /\ UNCHANGED <<ui, tuiTold>> /\ answers' = << >>
      /\ AgentMoves("acting") \/ AgentMoves("choosing")
      /\ answers # << >> \/ ui.at = "gone"
  BY ResolveShape, NoAnswer
<1>2. PICK K : "ask" \notin K /\ Adds(K)
  <2>1. Adds({}) \/ Adds({"tool"})
    BY ResolveShape, AddsNone
  <2> QED
    BY <2>1
<1>3. AgentMoves("acting") => answers = <<TRUE>>
  BY ResolveShape DEF AgentMoves
<1>4. /\ agent'.ask = agent.ask /\ agent'.rounds = agent.rounds
      /\ agent'.at = "acting" \/ agent'.at = "choosing"
      /\ agent'.at = "acting" => AgentMoves("acting")
  BY <1>1 DEF AgentMoves
<1>5. ui.permission = 0
  BY <1>1 DEF ConsentIsPassed, Left
<1>6. \A i \in 1 .. Len(toScreen) : toScreen[i].kind # "ask"
  BY <1>1 DEF ConsentIsPassed
<1>7. \A i \in 1 .. Len(toScreen') : toScreen'[i].kind # "ask"
  <2>1. Len(toScreen) \in Nat /\ Len(toScreen') \in Nat
    BY <1>2, LenProperties DEF ScreenTypes, Adds
  <2> QED
    BY <1>2, <1>6, <2>1 DEF Adds
<1>8. agent'.at = "acting" => Allowed(agent.ask)'
  BY <1>1, <1>3, <1>4 DEF ConsentIsPassed, Allowed
<1>9. /\ agent'.ask <= agent'.rounds
      /\ \A p \in tuiTold'.said : p[1] <= agent'.rounds
      /\ ui'.at = "gone" => toScreen' = << >>
  BY <1>1, <1>2, <1>4 DEF ConsentIsPassed, Adds
<1>10. \A n \in tuiTold'.ran : n <= agent'.rounds /\ Allowed(n)'
  BY <1>1, <1>4 DEF ConsentIsPassed, Allowed
<1> QED
  BY <1>1, <1>4, <1>5, <1>7, <1>8, <1>9, <1>10, NoAnswer DEF ConsentIsPassed

LEMMA ConsentAct ==
  ASSUME ScreenTypes, ConsentIsPassed, ActTool
  PROVE  ConsentIsPassed'
<1>1. /\ agent.at = "acting" /\ UNCHANGED <<ui, answers>> /\ Adds({"tool"})
      /\ tuiTold'.ran = tuiTold.ran \cup ({agent.ask} \ {0}) /\ tuiTold'.said = tuiTold.said
      /\ agent'.at = "choosing" /\ agent'.ask = agent.ask /\ agent'.rounds = agent.rounds
  BY ActShape DEF AgentMoves
<1>2. answers' = << >> /\ ui'.permission = 0
  BY <1>1 DEF ConsentIsPassed
<1>3. \A i \in 1 .. Len(toScreen') : toScreen'[i].kind # "ask"
  <2>1. Len(toScreen) \in Nat /\ Len(toScreen') \in Nat
    BY <1>1, LenProperties DEF ScreenTypes, Adds
  <2>2. \A i \in 1 .. Len(toScreen) : toScreen[i].kind # "ask"
    BY <1>1 DEF ConsentIsPassed
  <2> QED
    BY <1>1, <2>1, <2>2 DEF Adds
<1>4. \A n \in tuiTold'.ran : n <= agent'.rounds /\ Allowed(n)'
  BY <1>1 DEF ConsentIsPassed, Allowed
<1>5. /\ agent'.ask <= agent'.rounds
      /\ \A p \in tuiTold'.said : p[1] <= agent'.rounds
      /\ ui'.at = "gone" => toScreen' = << >>
  BY <1>1 DEF ConsentIsPassed, Adds
<1> QED
  BY <1>1, <1>2, <1>3, <1>4, <1>5, NoAnswer DEF ConsentIsPassed

LEMMA ConsentAnswer ==
  ASSUME ScreenTypes, ConsentIsPassed, AnswerKey
  PROVE  ConsentIsPassed' /\ answers' \in {<<TRUE>>, <<FALSE>>}
<1>1. PICK yes \in BOOLEAN :
        /\ ui.permission # 0 /\ UNCHANGED <<agent, toScreen, toAgent>>
        /\ ui'.at = "draining" /\ ui'.permission = 0
        /\ answers' = (IF Reads THEN Append(answers, yes) ELSE answers)
        /\ tuiTold'.said = tuiTold.said \cup {<<ui.permission, yes>>}
        /\ tuiTold'.ran = tuiTold.ran
  BY AnswerShape
<1>2. /\ agent.at = "asking" /\ agent.ask = ui.permission /\ answers = << >>
      /\ Unsaid(agent.ask) /\ agent.ask # 0 /\ agent.ask \notin tuiTold.ran
      /\ agent.ask <= agent.rounds
  BY <1>1 DEF ConsentIsPassed
<1>3. answers' = <<yes>>
  <2>1. Reads
    BY <1>2 DEF Reads
  <2>2. answers' = Append(<< >>, yes)
    BY <1>1, <1>2, <2>1
  <2> QED
    BY <2>2
<1>4. answers' \in {<<TRUE>>, <<FALSE>>}
  <2>1. CASE yes = TRUE
    BY <1>3, <2>1
  <2>2. CASE yes = FALSE
    BY <1>3, <2>2
  <2> QED
    BY <2>1, <2>2
<1>5. answers' = <<TRUE>> => Allowed(agent.ask)'
  <2> SUFFICES ASSUME answers' = <<TRUE>> PROVE Allowed(agent.ask)'
    OBVIOUS
  <2>1. yes = TRUE
    <3>1. CASE yes = FALSE
      BY <1>3, <3>1, NoAnswer
    <3> QED
      BY <3>1
  <2>2. <<agent.ask, TRUE>> \in tuiTold'.said
    BY <1>1, <1>2, <2>1
  <2>3. <<agent.ask, FALSE>> # <<ui.permission, TRUE>>
    <3>1. SUFFICES ASSUME <<agent.ask, FALSE>> = <<ui.permission, TRUE>> PROVE FALSE
      OBVIOUS
    <3>2. <<agent.ask, FALSE>>[2] = <<ui.permission, TRUE>>[2]
      BY <3>1
    <3> QED
      BY <3>2
  <2>4. <<agent.ask, FALSE>> \notin tuiTold'.said
    <3>1. <<agent.ask, FALSE>> \notin tuiTold.said
      BY <1>2 DEF Unsaid
    <3>2. tuiTold'.said = tuiTold.said \cup {<<ui.permission, TRUE>>}
      BY <1>1, <2>1
    <3> QED
      BY <2>3, <3>1, <3>2
  <2> QED
    BY <1>1, <2>2, <2>4 DEF Allowed
<1>6. \A n \in tuiTold'.ran : n <= agent'.rounds /\ Allowed(n)'
  <2> SUFFICES ASSUME NEW n \in tuiTold.ran PROVE n <= agent.rounds /\ Allowed(n)'
    BY <1>1
  <2>1. n <= agent.rounds /\ Allowed(n) /\ n # ui.permission
    BY <1>2 DEF ConsentIsPassed
  <2>2. ASSUME NEW b \in BOOLEAN
        PROVE  <<n, b>> \in tuiTold'.said <=> <<n, b>> \in tuiTold.said
    <3>1. <<n, b>> # <<ui.permission, yes>>
      BY <2>1
    <3> QED
      BY <1>1, <3>1
  <2> QED
    BY <2>1, <2>2 DEF Allowed
<1>7. \A p \in tuiTold'.said : p[1] <= agent'.rounds
  <2> SUFFICES ASSUME NEW p \in tuiTold'.said PROVE p[1] <= agent.rounds
    BY <1>1
  <2>1. CASE p \in tuiTold.said
    BY <2>1 DEF ConsentIsPassed
  <2>2. CASE p = <<ui.permission, yes>>
    <3>1. p[1] = ui.permission
      BY <2>2
    <3> QED
      BY <1>2, <3>1
  <2> QED
    BY <1>1, <2>1, <2>2
<1>8. \A i \in 1 .. Len(toScreen') : toScreen'[i].kind # "ask"
  BY <1>1 DEF ConsentIsPassed
<1>9. ui'.at # "gone"
  BY <1>1
<1>10. /\ agent'.at = "asking" /\ agent'.ask # 0 /\ agent'.ask \notin tuiTold'.ran
       /\ agent'.ask <= agent'.rounds /\ ui'.permission = 0
  BY <1>1, <1>2
<1>11. ConsentIsPassed'
  BY <1>5, <1>6, <1>7, <1>8, <1>9, <1>10 DEF ConsentIsPassed
<1> QED
  BY <1>4, <1>11

(* The messages after the oldest. *)
LEMMA Drained ==
  ASSUME ScreenTypes, Len(toScreen) > 0, toScreen' = Tail(toScreen)
  PROVE  /\ toScreen' \in Seq(WordRow \cup StatusRow)
         /\ Len(toScreen') = Len(toScreen) - 1 /\ Len(toScreen) \in Nat
         /\ \A i \in 1 .. Len(toScreen') : i + 1 \in 1 .. Len(toScreen) /\ toScreen'[i] = toScreen[i + 1]
         /\ \A i \in 2 .. Len(toScreen) : i - 1 \in 1 .. Len(toScreen') /\ toScreen'[i - 1] = toScreen[i]
<1> DEFINE Message == WordRow \cup StatusRow
<1>1. toScreen \in Seq(Message)
  BY DEF ScreenTypes
<1> HIDE DEF Message
<1>2. toScreen # << >> /\ Len(toScreen) \in Nat
  BY <1>1, EmptySeq, LenProperties
<1>3. /\ toScreen' \in Seq(Message) /\ Len(toScreen') = Len(toScreen) - 1
      /\ \A i \in 1 .. Len(toScreen') : toScreen'[i] = toScreen[i + 1]
  BY <1>1, <1>2, HeadTailProperties
<1>4. \A i \in 1 .. Len(toScreen') : i + 1 \in 1 .. Len(toScreen)
  BY <1>2, <1>3
<1>5. \A i \in 2 .. Len(toScreen) : i - 1 \in 1 .. Len(toScreen') /\ toScreen'[i - 1] = toScreen[i]
  <2> SUFFICES ASSUME NEW i \in 2 .. Len(toScreen)
               PROVE  i - 1 \in 1 .. Len(toScreen') /\ toScreen'[i - 1] = toScreen[i]
    OBVIOUS
  <2>1. PICK k \in 1 .. Len(toScreen') : k = i - 1
    BY <1>2, <1>3
  <2>2. toScreen'[k] = toScreen[k + 1] /\ k + 1 = i
    BY <1>2, <1>3, <2>1
  <2> QED
    BY <2>1, <2>2
<1> QED
  BY <1>2, <1>3, <1>4, <1>5 DEF Message

LEMMA ConsentDrain ==
  ASSUME ScreenTypes, ConsentIsPassed, Drain
  PROVE  ConsentIsPassed'
<1>1. PICK m : m = toScreen[1]
  OBVIOUS
<1>2. /\ ui.at = "draining" /\ ui'.at = "draining"
      /\ UNCHANGED <<agent, answers, tuiTold>>
      /\ Len(toScreen) > 0 /\ toScreen' = Tail(toScreen)
      /\ ui'.permission = IF m.kind = "ask" THEN m.ask ELSE ui.permission
  BY <1>1, DrainShape
<1>3. /\ Len(toScreen') = Len(toScreen) - 1 /\ Len(toScreen) \in Nat
      /\ \A i \in 1 .. Len(toScreen') : i + 1 \in 1 .. Len(toScreen) /\ toScreen'[i] = toScreen[i + 1]
  BY <1>2, Drained
<1>4. /\ agent'.ask <= agent'.rounds
      /\ agent'.at = "asking" => agent'.ask # 0 /\ agent'.ask \notin tuiTold'.ran
      /\ \A p \in tuiTold'.said : p[1] <= agent'.rounds
      /\ answers' # << >> => agent'.at = "asking"
      /\ ui'.at # "gone"
  BY <1>2 DEF ConsentIsPassed
<1>5. /\ \A n \in tuiTold'.ran : n <= agent'.rounds /\ Allowed(n)'
      /\ agent'.at = "acting" /\ agent'.ask # 0 => Allowed(agent.ask)'
      /\ answers' = <<TRUE>> => Allowed(agent.ask)'
  BY <1>2 DEF ConsentIsPassed, Allowed
<1>6. CASE m.kind = "ask"
  <2>1. /\ agent.at = "asking" /\ m.ask = agent.ask /\ Len(toScreen) = 1
        /\ answers = << >> /\ Unsaid(agent.ask)
    <3>1. 1 \in 1 .. Len(toScreen) /\ toScreen[1].kind = "ask"
      BY <1>1, <1>2, <1>3, <1>6
    <3>2. /\ agent.at = "asking" /\ toScreen[1].ask = agent.ask /\ 1 = Len(toScreen)
          /\ answers = << >> /\ Unsaid(agent.ask)
      BY <3>1 DEF ConsentIsPassed
    <3> QED
      BY <1>1, <3>2
  <2>2. \A i \in 1 .. Len(toScreen') : toScreen'[i].kind # "ask"
    BY <1>3, <2>1
  <2>3. /\ agent'.at = "asking" /\ agent'.ask = ui'.permission /\ answers' = << >>
        /\ Unsaid(agent.ask)' /\ ~Left'
    BY <1>2, <1>6, <2>1 DEF Unsaid, Left
  <2> QED
    BY <1>4, <1>5, <2>2, <2>3 DEF ConsentIsPassed
<1>7. CASE m.kind # "ask"
  <2>1. ui'.permission # 0 =>
          /\ agent'.at = "asking" /\ agent'.ask = ui'.permission /\ answers' = << >>
          /\ Unsaid(agent.ask)' /\ ~Left'
    BY <1>2, <1>7 DEF ConsentIsPassed, Unsaid, Left
  <2>2. \A i \in 1 .. Len(toScreen') : toScreen'[i].kind = "ask" =>
          /\ agent'.at = "asking" /\ toScreen'[i].ask = agent'.ask /\ i = Len(toScreen')
          /\ answers' = << >> /\ Unsaid(agent.ask)' /\ ui'.permission = 0
    <3> SUFFICES ASSUME NEW i \in 1 .. Len(toScreen'), toScreen'[i].kind = "ask"
                 PROVE  /\ agent'.at = "asking" /\ toScreen'[i].ask = agent'.ask
                        /\ i = Len(toScreen')
                        /\ answers' = << >> /\ Unsaid(agent.ask)' /\ ui'.permission = 0
      OBVIOUS
    <3>1. PICK k \in 1 .. Len(toScreen) : k = i + 1 /\ toScreen'[i] = toScreen[k]
      BY <1>3
    <3>2. /\ agent.at = "asking" /\ toScreen[k].ask = agent.ask /\ k = Len(toScreen)
          /\ answers = << >> /\ Unsaid(agent.ask) /\ ui.permission = 0
      BY <3>1 DEF ConsentIsPassed
    <3>3. i = Len(toScreen')
      BY <1>3, <3>1, <3>2
    <3> QED
      BY <1>2, <1>7, <3>1, <3>2, <3>3 DEF Unsaid
  <2> QED
    BY <1>4, <1>5, <2>1, <2>2 DEF ConsentIsPassed
<1> QED
  BY <1>6, <1>7

LEMMA ConsentStep ==
  ASSUME ScreenTypes, ConsentIsPassed, [TuiNext]_tuiVars
  PROVE  ConsentIsPassed'
<1>0. agent.ask \in Nat /\ agent.rounds \in Nat /\ agent.ask <= agent.rounds /\ agent \in AgentRow
  BY DEF ScreenTypes, AgentRow, ConsentIsPassed
<1>1. CASE TuiStart
  <2>1. /\ agent.at = "starting" /\ UNCHANGED <<ui, answers, tuiTold>>
        /\ AgentMoves("reading") \/ AgentMoves("failed")
        /\ Adds({}) \/ Adds({"fatal"})
    BY <1>1, StartShape, AddsNone
  <2>2. PICK K : "ask" \notin K /\ Adds(K)
    BY <2>1
  <2> QED
    BY <1>0, <2>1, <2>2, ConsentQuiet DEF AgentMoves
<1>2. CASE TuiEnds \/ TuiAborted
  <2>1. /\ agent.at = "failed" \/ agent.at # "asking"
        /\ AgentMoves("ended") /\ UNCHANGED <<ui, answers, tuiTold>> /\ Adds({})
    BY <1>2, EndsShape, AddsNone
  <2> QED
    BY <1>0, <2>1, ConsentQuiet DEF AgentMoves
<1>3. CASE TakeCommand
  <2>1. PICK cmd : cmd = toAgent[1]
    OBVIOUS
  <2>2. /\ agent.at = "reading" /\ UNCHANGED <<ui, answers, tuiTold>>
        /\ agent' \in AgentRow /\ agent'.ask = agent.ask /\ agent'.rounds = agent.rounds
        /\ agent'.at \in {"preparing", "reading"} /\ (Adds({}) \/ Adds({"status"}))
    BY <1>3, <2>1, TakeShape, AddsNone
  <2>3. PICK K : "ask" \notin K /\ Adds(K)
    BY <2>2
  <2> QED
    BY <1>0, <2>2, <2>3, ConsentQuiet
<1>4. CASE Prepare
  <2>1. /\ agent.at = "preparing" /\ UNCHANGED <<ui, answers>>
        /\ AgentMoves("thinking") \/ AgentMoves("failed")
        /\ Adds({}) \/ Adds({"fatal"})
    BY <1>4, PrepareShape, AddsNone
  <2>2. tuiTold'.said = tuiTold.said /\ tuiTold'.ran = tuiTold.ran
    <3>1. CASE tuiTold' = tuiTold
      BY <3>1
    <3>2. CASE tuiTold' = [tuiTold EXCEPT !.turns =
                             Append(@, [send |-> agent.turn, opts |-> agent.opts])]
      BY <3>2 DEF ScreenTypes, ToldRow
    <3> QED
      BY <1>4, <3>1, <3>2, PrepareShape
  <2>3. PICK K : "ask" \notin K /\ Adds(K)
    BY <2>1
  <2> QED
    BY <1>0, <2>1, <2>2, <2>3, ConsentQuiet DEF AgentMoves
<1>5. CASE Think
  <2>1. /\ agent.at = "thinking" /\ UNCHANGED <<ui, answers, tuiTold>>
        /\ agent' \in AgentRow /\ agent'.at \in {"choosing", "saving"}
        /\ agent'.ask = agent.ask /\ agent'.rounds = agent.rounds + 1 /\ Adds({"delta", "turn"})
    BY <1>5, ThinkShape
  <2>2. agent.rounds <= agent'.rounds /\ agent'.ask <= agent'.rounds
    BY <1>0, <2>1
  <2>3. "ask" \notin {"delta", "turn"}
    OBVIOUS
  <2> QED
    BY <2>1, <2>2, <2>3, ConsentQuiet
<1>6. CASE CallTool
  BY <1>6, ConsentCall
<1>7. CASE NoMoreCalls
  <2>1. /\ agent.at = "choosing" /\ UNCHANGED <<ui, answers, tuiTold>> /\ Adds({})
        /\ AgentMoves("thinking") \/ AgentMoves("saving")
    BY <1>7, NoMoreShape, AddsNone
  <2> QED
    BY <1>0, <2>1, ConsentQuiet DEF AgentMoves
<1>8. CASE Resolve
  BY <1>8, ConsentResolve
<1>9. CASE ActTool
  BY <1>9, ConsentAct
<1>10. CASE SaveTurn
  <2>1. /\ agent.at = "saving" /\ UNCHANGED <<ui, answers, tuiTold>> /\ Adds({"idle"})
        /\ AgentMoves("reading")
    BY <1>10, SaveShape
  <2> QED
    BY <1>0, <2>1, ConsentQuiet DEF AgentMoves
<1>11. CASE Drain
  BY <1>11, ConsentDrain
<1>12. CASE Draw \/ NoKey \/ QuitKey \/ Leave
  <2>1. /\ UNCHANGED <<agent, answers, tuiTold>> /\ ui'.permission = ui.permission
        /\ toScreen' = toScreen \/ toScreen' = << >>
        /\ ui'.at = "gone" => toScreen' = << >>
        /\ Left => ui.permission = 0
        /\ ui.permission = 0 \/ ~Left'
    BY <1>12, LoopShape DEF ScreenMoves, Left, ConsentIsPassed
  <2> QED
    BY <2>1, ConsentScreen
<1>13. CASE AnswerKey
  BY <1>13, ConsentAnswer
<1>14. CASE SwitchKey
  <2>1. /\ UNCHANGED <<agent, toScreen, answers, tuiTold>> /\ ui.permission = 0
        /\ ui'.permission = ui.permission /\ ui'.at # "gone"
    BY <1>14, SwitchShape
  <2> QED
    BY <2>1, ConsentScreen
<1>15. CASE EnterKey
  <2>1. /\ UNCHANGED <<agent, toScreen, answers>> /\ ui.permission = 0
        /\ ui'.permission = ui.permission /\ ui'.at # "gone"
        /\ tuiTold'.said = tuiTold.said /\ tuiTold'.ran = tuiTold.ran
    BY <1>15, EnterShape
  <2> QED
    BY <2>1, ConsentScreen
<1>16. CASE UNCHANGED tuiVars
  BY <1>16 DEF tuiVars, ConsentIsPassed, Allowed, Unsaid, Left
<1> QED
  BY <1>1, <1>2, <1>3, <1>4, <1>5, <1>6, <1>7, <1>8, <1>9, <1>10, <1>11, <1>12, <1>13, <1>14,
     <1>15, <1>16 DEF TuiNext

-----------------------------------------------------------------------------
(* Types. *)

LEMMA TypesStep ==
  ASSUME ScreenTypes, ConsentIsPassed, [TuiNext]_tuiVars
  PROVE  ScreenTypes'
<1>0. /\ agent \in AgentRow /\ ui \in UiRow /\ tuiTold \in ToldRow
      /\ toScreen \in Seq(WordRow \cup StatusRow) /\ toAgent \in Seq(CommandRow)
      /\ answers \in {<< >>, <<TRUE>>, <<FALSE>>} /\ << >> \in Seq(CommandRow)
      /\ << >> \in Seq(WordRow \cup StatusRow)
  <2>1. << >> \in Seq(CommandRow) /\ << >> \in Seq(WordRow \cup StatusRow)
    OBVIOUS
  <2> QED
    BY <2>1 DEF ScreenTypes
<1>1. CASE TuiStart
  BY <1>0, <1>1, StartShape DEF ScreenTypes, AgentMoves, Adds
<1>2. CASE TuiEnds \/ TuiAborted
  BY <1>0, <1>2, EndsShape DEF ScreenTypes, AgentMoves
<1>3. CASE TakeCommand
  <2>1. PICK cmd : cmd = toAgent[1]
    OBVIOUS
  <2>2. /\ UNCHANGED <<ui, answers, tuiTold>> /\ agent' \in AgentRow
        /\ Len(toAgent) > 0 /\ toAgent' = Tail(toAgent)
        /\ toScreen' = toScreen \/ Adds({"status"})
    BY <1>3, <2>1, TakeShape
  <2>3. toAgent' \in Seq(CommandRow)
    BY <1>0, <2>2, EmptySeq, HeadTailProperties
  <2> QED
    BY <1>0, <2>2, <2>3 DEF ScreenTypes, Adds
<1>4. CASE Prepare
  <2>1. /\ UNCHANGED <<ui, toAgent, answers>> /\ agent' \in AgentRow
        /\ toScreen' \in Seq(WordRow \cup StatusRow)
    BY <1>0, <1>4, PrepareShape DEF AgentMoves, Adds
  <2>2. PICK row : row = [send |-> agent.turn, opts |-> agent.opts]
    OBVIOUS
  <2>3. row \in SendRow
    BY <1>0, <2>2 DEF AgentRow, SendRow
  <2>4. tuiTold' = tuiTold \/ tuiTold' = [tuiTold EXCEPT !.turns = Append(@, row)]
    BY <1>4, <2>2, PrepareShape
  <2>5. tuiTold' \in ToldRow
    BY <1>0, <2>3, <2>4, TurnNoted
  <2> QED
    BY <1>0, <2>1, <2>5 DEF ScreenTypes
<1>5. CASE Think
  BY <1>0, <1>5, ThinkShape DEF ScreenTypes, Adds
<1>6. CASE CallTool
  BY <1>0, <1>6, CallShape DEF ScreenTypes, Adds
<1>7. CASE NoMoreCalls
  BY <1>0, <1>7, NoMoreShape DEF ScreenTypes, AgentMoves
<1>8. CASE Resolve
  BY <1>0, <1>8, ResolveShape DEF ScreenTypes, AgentMoves, Adds
<1>9. CASE ActTool
  BY <1>0, <1>9, ActShape DEF ScreenTypes, AgentMoves, Adds
<1>10. CASE SaveTurn
  BY <1>0, <1>10, SaveShape DEF ScreenTypes, AgentMoves, Adds
<1>11. CASE Drain
  <2>1. PICK m : m = toScreen[1]
    OBVIOUS
  <2>2. /\ ui' \in UiRow /\ UNCHANGED <<agent, toAgent, answers, tuiTold>>
        /\ Len(toScreen) > 0 /\ toScreen' = Tail(toScreen)
    BY <1>11, <2>1, DrainShape
  <2> QED
    BY <1>0, <2>2, Drained DEF ScreenTypes
<1>12. CASE Draw \/ NoKey \/ QuitKey \/ Leave
  BY <1>0, <1>12, LoopShape DEF ScreenTypes, ScreenMoves
<1>13. CASE AnswerKey
  BY <1>0, <1>13, AnswerShape, ConsentAnswer DEF ScreenTypes
<1>14. CASE SwitchKey
  <2>1. PICK cmd \in CommandRow :
          /\ UNCHANGED <<agent, toScreen, answers, tuiTold>> /\ ui' \in UiRow
          /\ toAgent' = IF Reads THEN Append(toAgent, cmd) ELSE toAgent
    BY <1>14, SwitchShape
  <2>2. toAgent' \in Seq(CommandRow)
    BY <1>0, <2>1, AppendProperties
  <2> QED
    BY <1>0, <2>1, <2>2 DEF ScreenTypes
<1>15. CASE EnterKey
  <2>1. PICK n : n = Sends + 1
    OBVIOUS
  <2>2. PICK cmd : cmd = Command("send", n)
    OBVIOUS
  <2>3. /\ UNCHANGED <<agent, toScreen, answers>> /\ ui' \in UiRow /\ tuiTold' \in ToldRow
        /\ toAgent' = IF Reads THEN Append(toAgent, cmd) ELSE toAgent
    BY <1>15, <2>1, <2>2, EnterShape
  <2>4. n \in Nat
    BY <1>0, <2>1, LenProperties DEF ToldRow, Sends
  <2>5. cmd \in CommandRow
    BY <2>2, <2>4 DEF Command, CommandRow
  <2>6. toAgent' \in Seq(CommandRow)
    BY <1>0, <2>3, <2>5, AppendProperties
  <2> QED
    BY <1>0, <2>3, <2>6 DEF ScreenTypes
<1>16. CASE UNCHANGED tuiVars
  BY <1>16 DEF tuiVars, ScreenTypes
<1> QED
  BY <1>1, <1>2, <1>3, <1>4, <1>5, <1>6, <1>7, <1>8, <1>9, <1>10, <1>11, <1>12, <1>13, <1>14,
     <1>15, <1>16 DEF TuiNext

-----------------------------------------------------------------------------
(* The options a message finds. *)

LEMMA ChosenAfterTake ==
  ASSUME NEW q \in Seq(CommandRow), Len(q) > 0, NEW k \in 2 .. Len(q) + 1, NEW f, NEW now, NEW v,
         Chosen(q, k, f, now, v)
  PROVE  Chosen(Tail(q), k - 1, f, IF q[1].kind = f THEN q[1].what ELSE now, v)
<1> DEFINE new == IF q[1].kind = f THEN q[1].what ELSE now
<1>0. q # << >> /\ Len(q) \in Nat
  BY EmptySeq, LenProperties
<1>1. Len(Tail(q)) = Len(q) - 1 /\ \A i \in 1 .. Len(q) - 1 : Tail(q)[i] = q[i + 1]
  BY <1>0, HeadTailProperties
<1>2. \A j \in 1 .. k - 2 : j + 1 \in 2 .. k - 1 /\ Tail(q)[j] = q[j + 1]
  BY <1>0, <1>1
<1>3. CASE \E i \in 1 .. k - 1 : /\ q[i].kind = f /\ q[i].what = v
                                 /\ \A j \in i + 1 .. k - 1 : q[j].kind # f
  <2>1. PICK i \in 1 .. k - 1 : /\ q[i].kind = f /\ q[i].what = v
                                /\ \A j \in i + 1 .. k - 1 : q[j].kind # f
    BY <1>3
  <2>2. CASE i = 1
    <3>1. new = v
      BY <2>1, <2>2
    <3>2. \A j \in 1 .. k - 2 : Tail(q)[j].kind # f
      <4> SUFFICES ASSUME NEW j \in 1 .. k - 2 PROVE Tail(q)[j].kind # f
        OBVIOUS
      <4>1. PICK l \in 2 .. k - 1 : l = j + 1 /\ Tail(q)[j] = q[l]
        BY <1>2
      <4> QED
        BY <2>1, <2>2, <4>1
    <3>3. \A j \in 1 .. (k - 1) - 1 : Tail(q)[j].kind # f
      BY <3>2
    <3> QED
      BY <3>1, <3>3 DEF Chosen
  <2>3. CASE i # 1
    <3>1. PICK h \in 1 .. k - 2 : h = i - 1
      BY <2>3
    <3>2. Tail(q)[h] = q[i]
      <4>1. Tail(q)[h] = q[h + 1] /\ h + 1 = i
        BY <1>2, <3>1
      <4> QED
        BY <4>1
    <3>3. \A j \in h + 1 .. k - 2 : Tail(q)[j].kind # f
      <4> SUFFICES ASSUME NEW j \in h + 1 .. k - 2 PROVE Tail(q)[j].kind # f
        OBVIOUS
      <4>1. PICK l \in 2 .. k - 1 : l = j + 1 /\ Tail(q)[j] = q[l]
        BY <1>2
      <4>2. l \in i + 1 .. k - 1
        BY <3>1, <4>1
      <4> QED
        BY <2>1, <4>1, <4>2
    <3>4. /\ h \in 1 .. (k - 1) - 1 /\ Tail(q)[h].kind = f /\ Tail(q)[h].what = v
          /\ \A j \in h + 1 .. (k - 1) - 1 : Tail(q)[j].kind # f
      BY <2>1, <3>2, <3>3
    <3> QED
      BY <3>4 DEF Chosen
  <2> QED
    BY <2>2, <2>3
<1>4. CASE (\A i \in 1 .. k - 1 : q[i].kind # f) /\ now = v
  <2>1. new = v
    BY <1>4
  <2>2. \A j \in 1 .. k - 2 : Tail(q)[j].kind # f
    <3> SUFFICES ASSUME NEW j \in 1 .. k - 2 PROVE Tail(q)[j].kind # f
      OBVIOUS
    <3>1. PICK l \in 2 .. k - 1 : l = j + 1 /\ Tail(q)[j] = q[l]
      BY <1>2
    <3> QED
      BY <1>4, <3>1
  <2>3. \A j \in 1 .. (k - 1) - 1 : Tail(q)[j].kind # f
    BY <2>2
  <2> QED
    BY <2>1, <2>3 DEF Chosen
<1> QED
  BY <1>3, <1>4 DEF Chosen

LEMMA Appended ==
  ASSUME NEW q \in Seq(CommandRow), NEW c \in CommandRow
  PROVE  /\ Append(q, c) \in Seq(CommandRow) /\ Len(q) \in Nat /\ Len(Append(q, c)) = Len(q) + 1
         /\ \A i \in 1 .. Len(q) : Append(q, c)[i] = q[i]
         /\ Append(q, c)[Len(q) + 1] = c
<1>1. \A i \in 1 .. Len(q) : Append(q, c)[i] = q[i]
  BY AppendProperties
<1>2. Append(q, c)[Len(q) + 1] = c
  BY AppendProperties
<1>3. Append(q, c) \in Seq(CommandRow) /\ Len(Append(q, c)) = Len(q) + 1
  BY AppendProperties
<1> QED
  BY <1>1, <1>2, <1>3, LenProperties

LEMMA ChosenBefore ==
  ASSUME NEW q \in Seq(CommandRow), NEW c \in CommandRow, NEW k \in 1 .. Len(q) + 1,
         NEW f, NEW now, NEW v, Chosen(q, k, f, now, v)
  PROVE  Chosen(Append(q, c), k, f, now, v)
<1>1. \A i \in 1 .. k - 1 : Append(q, c)[i] = q[i]
  BY Appended
<1> HIDE DEF Chosen
<1>2. CASE \E i \in 1 .. k - 1 : /\ q[i].kind = f /\ q[i].what = v
                                 /\ \A j \in i + 1 .. k - 1 : q[j].kind # f
  <2>1. PICK i \in 1 .. k - 1 : /\ q[i].kind = f /\ q[i].what = v
                                /\ \A j \in i + 1 .. k - 1 : q[j].kind # f
    BY <1>2
  <2>2. \A j \in i + 1 .. k - 1 : Append(q, c)[j].kind # f
    BY <1>1, <2>1
  <2> QED
    BY <1>1, <2>1, <2>2 DEF Chosen
<1>3. CASE (\A i \in 1 .. k - 1 : q[i].kind # f) /\ now = v
  BY <1>1, <1>3 DEF Chosen
<1> QED
  BY <1>2, <1>3 DEF Chosen

LEMMA ChosenLast ==
  ASSUME NEW q \in Seq(CommandRow), NEW c \in CommandRow,
         NEW f, NEW now, NEW v, Chosen(q, Len(q) + 1, f, now, v)
  PROVE  Chosen(Append(q, c), Len(Append(q, c)) + 1, f, now, IF c.kind = f THEN c.what ELSE v)
<1>1. PICK n \in Nat : n = Len(q)
  BY LenProperties
<1>2. PICK r : r = Append(q, c)
  OBVIOUS
<1>3. Len(r) = n + 1 /\ r[n + 1] = c /\ \A i \in 1 .. n : r[i] = q[i]
  BY <1>1, <1>2, Appended
<1>4. (Len(r) + 1) - 1 = n + 1
  BY <1>1, <1>3
<1>5. (n + 1) - 1 = n
  BY <1>1
<1>6. CASE c.kind = f
  <2>1. n + 1 \in 1 .. n + 1 /\ r[n + 1].kind = f /\ r[n + 1].what = c.what
    BY <1>1, <1>3, <1>6
  <2>2. \A j \in (n + 1) + 1 .. n + 1 : r[j].kind # f
    BY <1>1
  <2>3. Chosen(r, Len(r) + 1, f, now, c.what)
    BY <1>4, <2>1, <2>2 DEF Chosen
  <2> QED
    BY <1>2, <1>6, <2>3
<1>7. CASE c.kind # f
  <2>1. CASE \E i \in 1 .. n : /\ q[i].kind = f /\ q[i].what = v
                               /\ \A j \in i + 1 .. n : q[j].kind # f
    <3>1. PICK i \in 1 .. n : /\ q[i].kind = f /\ q[i].what = v
                              /\ \A j \in i + 1 .. n : q[j].kind # f
      BY <2>1
    <3>2. \A j \in i + 1 .. n + 1 : r[j].kind # f
      <4> SUFFICES ASSUME NEW j \in i + 1 .. n + 1 PROVE r[j].kind # f
        OBVIOUS
      <4>1. CASE j = n + 1
        BY <1>3, <1>7, <4>1
      <4>2. CASE j # n + 1
        <5>1. j \in 1 .. n /\ j \in i + 1 .. n
          BY <1>1, <4>2
        <5> QED
          BY <1>3, <3>1, <5>1
      <4> QED
        BY <4>1, <4>2
    <3>3. i \in 1 .. n + 1 /\ r[i].kind = f /\ r[i].what = v
      BY <1>1, <1>3, <3>1
    <3>4. Chosen(r, Len(r) + 1, f, now, v)
      BY <1>4, <3>2, <3>3 DEF Chosen
    <3> QED
      BY <1>2, <1>7, <3>4
  <2>2. CASE (\A i \in 1 .. n : q[i].kind # f) /\ now = v
    <3>1. \A i \in 1 .. n + 1 : r[i].kind # f
      <4> SUFFICES ASSUME NEW i \in 1 .. n + 1 PROVE r[i].kind # f
        OBVIOUS
      <4>1. CASE i = n + 1
        BY <1>3, <1>7, <4>1
      <4>2. CASE i # n + 1
        <5>1. i \in 1 .. n
          BY <1>1, <4>2
        <5> QED
          BY <1>3, <2>2, <5>1
      <4> QED
        BY <4>1, <4>2
    <3>2. Chosen(r, Len(r) + 1, f, now, v)
      BY <1>4, <2>2, <3>1 DEF Chosen
    <3> QED
      BY <1>2, <1>7, <3>2
  <2> QED
    BY <1>1, <1>5, <2>1, <2>2 DEF Chosen
<1> QED
  BY <1>6, <1>7

-----------------------------------------------------------------------------
(* Messages and the turns they start. *)

LEMMA QueueIsTyped ==
  ASSUME ScreenTypes
  PROVE  /\ toAgent \in Seq(CommandRow) /\ Len(toAgent) \in Nat
         /\ tuiTold.sends \in Seq(SendRow) /\ Sends \in Nat
         /\ tuiTold.turns \in Seq(SendRow) /\ Turns \in Nat
BY LenProperties DEF ScreenTypes, ToldRow, Sends, Turns

(* The queue and what was sent stay; the agent's turn goes on, ends or     *)
(* fails.                                                                  *)
LEMMA TurnsFrame ==
  ASSUME ScreenTypes, TurnsFollow, toAgent' = toAgent,
         tuiTold'.sends = tuiTold.sends, tuiTold'.turns = tuiTold.turns,
         agent'.opts = agent.opts, agent'.turn = agent.turn,
         ui'.opts = ui.opts, ~Left' => ~Left,
         \/ agent'.at = agent.at
         \/ agent'.at = "failed"
         \/ AtWork /\ agent.at # "preparing" /\ AtWork' /\ agent'.at # "preparing"
         \/ agent.at \in {"starting", "saving"} /\ agent'.at = "reading"
  PROVE  TurnsFollow'
<1>1. Sends' = Sends /\ Turns' = Turns /\ SendsQueued' = SendsQueued
  BY DEF Sends, Turns, SendsQueued
<1>2. /\ \A i \in 1 .. Sends' : tuiTold'.sends[i].send = i
      /\ Turns' <= Sends' /\ \A i \in 1 .. Turns' : tuiTold'.turns[i] = tuiTold'.sends[i]
  BY <1>1 DEF TurnsFollow
<1>3. Running' => Running
  BY DEF TurnsFollow, Running, AtWork
<1>4. /\ agent'.at = "ended" => toAgent' = << >>
      /\ Running' => \A i, j \in SendsQueued' : i = j
      /\ Running' /\ SendsQueued' = {} /\ ~AtWork' => Sends' = Turns'
  BY <1>1, <1>3 DEF TurnsFollow, Running, AtWork
<1>5. Running' => \A i \in SendsQueued' :
        /\ ~AtWork' /\ toAgent'[i].what = Sends' /\ Sends' = Turns' + 1
        /\ ChosenOpts(i, tuiTold.sends[Sends].opts)'
  BY <1>1, <1>3 DEF TurnsFollow, Running, AtWork, ChosenOpts
<1>6. agent'.at = "preparing" =>
        /\ agent'.turn = Sends' /\ Sends' = Turns' + 1
        /\ agent'.opts = tuiTold'.sends[Sends'].opts
  BY <1>1 DEF TurnsFollow, AtWork
<1>7. AtWork' /\ agent'.at # "preparing" => agent'.turn = Sends' /\ Sends' = Turns'
  BY <1>1 DEF TurnsFollow, AtWork
<1>8. Running' /\ ~Left' => ChosenOpts(Len(toAgent) + 1, ui.opts)'
  BY <1>3 DEF TurnsFollow, ChosenOpts
<1> QED
  BY <1>2, <1>4, <1>5, <1>6, <1>7, <1>8 DEF TurnsFollow

(* The task ends: what waits is dropped. *)
LEMMA TurnsEnd ==
  ASSUME ScreenTypes, TurnsFollow, toAgent' = << >>, agent'.at = "ended", UNCHANGED tuiTold
  PROVE  TurnsFollow'
<1>1. Sends' = Sends /\ Turns' = Turns /\ ~Running' /\ ~AtWork'
  BY DEF Sends, Turns, Running, AtWork
<1> QED
  BY <1>1 DEF TurnsFollow

(* The commands after the oldest. *)
LEMMA Taken ==
  ASSUME ScreenTypes, Len(toAgent) > 0, toAgent' = Tail(toAgent)
  PROVE  /\ toAgent' \in Seq(CommandRow)
         /\ Len(toAgent') = Len(toAgent) - 1 /\ Len(toAgent) \in Nat
         /\ \A i \in 1 .. Len(toAgent') : i + 1 \in 1 .. Len(toAgent) /\ toAgent'[i] = toAgent[i + 1]
         /\ \A i \in 2 .. Len(toAgent) : i - 1 \in 1 .. Len(toAgent') /\ toAgent'[i - 1] = toAgent[i]
<1>1. toAgent \in Seq(CommandRow)
  BY DEF ScreenTypes
<1>2. toAgent # << >> /\ Len(toAgent) \in Nat
  BY <1>1, EmptySeq, LenProperties
<1>3. /\ toAgent' \in Seq(CommandRow) /\ Len(toAgent') = Len(toAgent) - 1
      /\ \A i \in 1 .. Len(toAgent') : toAgent'[i] = toAgent[i + 1]
  BY <1>1, <1>2, HeadTailProperties
<1>4. \A i \in 1 .. Len(toAgent') : i + 1 \in 1 .. Len(toAgent)
  BY <1>2, <1>3
<1>5. \A i \in 2 .. Len(toAgent) : i - 1 \in 1 .. Len(toAgent') /\ toAgent'[i - 1] = toAgent[i]
  <2> SUFFICES ASSUME NEW i \in 2 .. Len(toAgent)
               PROVE  i - 1 \in 1 .. Len(toAgent') /\ toAgent'[i - 1] = toAgent[i]
    OBVIOUS
  <2>1. PICK k \in 1 .. Len(toAgent') : k = i - 1
    BY <1>2, <1>3
  <2>2. toAgent'[k] = toAgent[k + 1] /\ k + 1 = i
    BY <1>2, <1>3, <2>1
  <2> QED
    BY <2>1, <2>2
<1> QED
  BY <1>2, <1>3, <1>4, <1>5

(* With the oldest command taken, the choices behind it are as before.     *)
LEMMA TakenOpts ==
  ASSUME ScreenTypes, TakeCommand, NEW k \in 2 .. Len(toAgent) + 1, NEW opts, ChosenOpts(k, opts)
  PROVE  /\ Chosen(toAgent', k - 1, "model", agent'.opts.model, opts.model)
         /\ Chosen(toAgent', k - 1, "agent", agent'.opts.agent, opts.agent)
<1>1. PICK cmd : cmd = toAgent[1]
  OBVIOUS
<1>2. /\ Len(toAgent) > 0 /\ toAgent' = Tail(toAgent) /\ toAgent \in Seq(CommandRow)
      /\ agent'.opts.model = IF cmd.kind = "model" THEN cmd.what ELSE agent.opts.model
      /\ agent'.opts.agent = IF cmd.kind = "agent" THEN cmd.what ELSE agent.opts.agent
  BY <1>1, TakeShape, QueueIsTyped
<1>3. Chosen(Tail(toAgent), k - 1, "model",
             IF toAgent[1].kind = "model" THEN toAgent[1].what ELSE agent.opts.model, opts.model)
  BY <1>2, ChosenAfterTake DEF ChosenOpts
<1>4. Chosen(Tail(toAgent), k - 1, "agent",
             IF toAgent[1].kind = "agent" THEN toAgent[1].what ELSE agent.opts.agent, opts.agent)
  BY <1>2, ChosenAfterTake DEF ChosenOpts
<1> QED
  BY <1>1, <1>2, <1>3, <1>4

LEMMA TakenSwitch ==
  ASSUME ScreenTypes, Len(toAgent) > 0, toAgent' = Tail(toAgent)
  PROVE  /\ \A i \in SendsQueued' : i + 1 \in SendsQueued /\ i + 1 # 1
         /\ toAgent[1].kind # "send" => (SendsQueued' = {} <=> SendsQueued = {})
<1>1. /\ Len(toAgent') = Len(toAgent) - 1 /\ Len(toAgent) \in Nat
      /\ \A i \in 1 .. Len(toAgent') : i + 1 \in 1 .. Len(toAgent) /\ toAgent'[i] = toAgent[i + 1]
      /\ \A i \in 2 .. Len(toAgent) : i - 1 \in 1 .. Len(toAgent') /\ toAgent'[i - 1] = toAgent[i]
  BY Taken
<1>2. \A i \in SendsQueued' : i + 1 \in SendsQueued /\ i + 1 # 1
  BY <1>1 DEF SendsQueued
<1>3. ASSUME toAgent[1].kind # "send", NEW k \in SendsQueued
      PROVE  SendsQueued' # {}
  <2>1. k # 1
    BY <1>3 DEF SendsQueued
  <2>2. k \in 2 .. Len(toAgent) /\ toAgent[k].kind = "send"
    BY <1>1, <2>1 DEF SendsQueued
  <2>3. k - 1 \in SendsQueued'
    BY <1>1, <2>2 DEF SendsQueued
  <2> QED
    BY <2>3
<1> QED
  BY <1>2, <1>3

LEMMA TurnsTake ==
  ASSUME ScreenTypes, ScreenTypes', TurnsFollow, TakeCommand
  PROVE  TurnsFollow'
<1>1. PICK cmd : cmd = toAgent[1]
  OBVIOUS
<1>2. /\ agent.at = "reading" /\ UNCHANGED <<ui, tuiTold>>
      /\ Len(toAgent) > 0 /\ toAgent' = Tail(toAgent) /\ cmd \in CommandRow
      /\ \/ /\ cmd.kind = "send" /\ agent'.at = "preparing" /\ agent'.turn = cmd.what
            /\ agent'.opts = agent.opts
         \/ cmd.kind # "send" /\ agent'.at = "reading"
  BY <1>1, TakeShape
<1>3. /\ Len(toAgent') = Len(toAgent) - 1 /\ Len(toAgent) \in Nat
      /\ \A i \in 1 .. Len(toAgent') : i + 1 \in 1 .. Len(toAgent) /\ toAgent'[i] = toAgent[i + 1]
      /\ \A i \in 2 .. Len(toAgent) : i - 1 \in 1 .. Len(toAgent') /\ toAgent'[i - 1] = toAgent[i]
  BY <1>2, Taken
<1>4. Running /\ ~AtWork /\ Sends' = Sends /\ Turns' = Turns /\ Left' = Left /\ agent'.at # "ended"
  BY <1>2 DEF Running, AtWork, Sends, Turns, Left
<1>5. \A i \in SendsQueued' : i + 1 \in SendsQueued /\ i + 1 # 1
  BY <1>2, TakenSwitch
<1>6. \A i, j \in SendsQueued : i = j
  BY <1>4 DEF TurnsFollow
<1>7. \A i, j \in SendsQueued' : i = j
  <2> SUFFICES ASSUME NEW i \in SendsQueued', NEW j \in SendsQueued' PROVE i = j
    OBVIOUS
  <2>1. i + 1 = j + 1 /\ i \in Nat /\ j \in Nat
    BY <1>3, <1>5, <1>6 DEF SendsQueued
  <2> QED
    BY <2>1
<1>8. Running' /\ ~Left' => ChosenOpts(Len(toAgent) + 1, ui.opts)'
  <2> SUFFICES ASSUME ~Left PROVE ChosenOpts(Len(toAgent) + 1, ui.opts)'
    BY <1>4
  <2>1. PICK k \in 2 .. Len(toAgent) + 1 : k = Len(toAgent) + 1
    BY <1>2, <1>3
  <2>2. ChosenOpts(k, ui.opts)
    BY <1>4, <2>1 DEF TurnsFollow
  <2>3. /\ Chosen(toAgent', k - 1, "model", agent'.opts.model, ui.opts.model)
        /\ Chosen(toAgent', k - 1, "agent", agent'.opts.agent, ui.opts.agent)
    BY <2>2, TakenOpts
  <2>4. k - 1 = Len(toAgent') + 1 /\ ui'.opts = ui.opts
    BY <1>2, <1>3, <2>1
  <2> QED
    BY <2>3, <2>4 DEF ChosenOpts
<1>9. /\ \A i \in 1 .. Sends' : tuiTold'.sends[i].send = i
      /\ Turns' <= Sends' /\ \A i \in 1 .. Turns' : tuiTold'.turns[i] = tuiTold'.sends[i]
  BY <1>2, <1>4 DEF TurnsFollow
<1>10. CASE /\ cmd.kind = "send" /\ agent'.at = "preparing" /\ agent'.turn = cmd.what
            /\ agent'.opts = agent.opts
  <2>1. 1 \in SendsQueued
    BY <1>1, <1>2, <1>3, <1>10 DEF SendsQueued
  <2>2. SendsQueued' = {}
    BY <1>5, <1>6, <2>1
  <2>3. toAgent[1].what = Sends /\ Sends = Turns + 1 /\ ChosenOpts(1, tuiTold.sends[Sends].opts)
    BY <1>4, <2>1 DEF TurnsFollow
  <2>4. PICK opts : opts = tuiTold.sends[Sends].opts
    OBVIOUS
  <2>5. opts \in TuiOpts /\ agent.opts \in TuiOpts
    <3>1. Sends \in 1 .. Sends
      BY <2>3, QueueIsTyped
    <3>2. tuiTold.sends[Sends] \in SendRow
      BY <3>1, QueueIsTyped, ElementOfSeq DEF Sends
    <3> QED
      BY <2>4, <3>2 DEF SendRow, ScreenTypes, AgentRow
  <2>6. agent.opts.model = opts.model /\ agent.opts.agent = opts.agent
    BY <2>3, <2>4 DEF ChosenOpts, Chosen
  <2>7. agent.opts = opts
    BY <2>5, <2>6 DEF TuiOpts
  <2>8. agent'.turn = Sends' /\ Sends' = Turns' + 1 /\ agent'.opts = tuiTold'.sends[Sends'].opts
    BY <1>1, <1>2, <1>4, <1>10, <2>3, <2>4, <2>7
  <2>9. AtWork' /\ Running'
    BY <1>10 DEF AtWork, Running
  <2> QED
    BY <1>4, <1>7, <1>8, <1>9, <1>10, <2>2, <2>8, <2>9 DEF TurnsFollow
<1>11. CASE cmd.kind # "send" /\ agent'.at = "reading"
  <2>1. ~AtWork' /\ Running'
    BY <1>11 DEF AtWork, Running
  <2>2. \A i \in SendsQueued' :
          /\ toAgent'[i].what = Sends' /\ Sends' = Turns' + 1
          /\ ChosenOpts(i, tuiTold.sends[Sends].opts)'
    <3> SUFFICES ASSUME NEW i \in SendsQueued'
                 PROVE  /\ toAgent'[i].what = Sends' /\ Sends' = Turns' + 1
                        /\ ChosenOpts(i, tuiTold.sends[Sends].opts)'
      OBVIOUS
    <3>1. PICK k \in 2 .. Len(toAgent) + 1 : k = i + 1 /\ k \in SendsQueued /\ toAgent'[i] = toAgent[k]
      BY <1>3, <1>5 DEF SendsQueued
    <3>2. toAgent[k].what = Sends /\ Sends = Turns + 1 /\ ChosenOpts(k, tuiTold.sends[Sends].opts)
      BY <1>4, <3>1 DEF TurnsFollow
    <3>3. PICK opts : opts = tuiTold.sends[Sends].opts
      OBVIOUS
    <3>4. /\ Chosen(toAgent', k - 1, "model", agent'.opts.model, opts.model)
          /\ Chosen(toAgent', k - 1, "agent", agent'.opts.agent, opts.agent)
      BY <3>2, <3>3, TakenOpts
    <3>5. k - 1 = i /\ opts = tuiTold'.sends[Sends'].opts
      <4>1. i \in Nat
        BY <1>3 DEF SendsQueued
      <4> QED
        BY <1>2, <1>4, <3>1, <3>3, <4>1
    <3>6. /\ Chosen(toAgent', i, "model", agent'.opts.model, tuiTold'.sends[Sends'].opts.model)
          /\ Chosen(toAgent', i, "agent", agent'.opts.agent, tuiTold'.sends[Sends'].opts.agent)
      BY <3>4, <3>5
    <3> QED
      BY <1>4, <3>1, <3>2, <3>6 DEF ChosenOpts
  <2>3. SendsQueued' = {} => SendsQueued = {}
    BY <1>1, <1>2, <1>11, TakenSwitch
  <2>4. SendsQueued' = {} => Sends' = Turns'
    BY <1>4, <2>3 DEF TurnsFollow
  <2> QED
    BY <1>7, <1>8, <1>9, <1>11, <2>1, <2>2, <2>4 DEF TurnsFollow
<1> QED
  BY <1>2, <1>10, <1>11

(* A turn starts with the options its message was sent with. *)
LEMMA TurnsPrepare ==
  ASSUME ScreenTypes, TurnsFollow, Prepare
  PROVE  TurnsFollow'
<1>1. /\ agent.at = "preparing" /\ UNCHANGED <<ui, toAgent, answers>>
      /\ agent'.opts = agent.opts /\ agent'.turn = agent.turn
      /\ \/ /\ agent'.at = "thinking"
            /\ tuiTold' = [tuiTold EXCEPT !.turns =
                             Append(@, [send |-> agent.turn, opts |-> agent.opts])]
         \/ agent'.at = "failed" /\ UNCHANGED tuiTold
  BY PrepareShape DEF AgentMoves
<1>2. CASE agent'.at = "failed" /\ UNCHANGED tuiTold
  BY <1>1, <1>2, TurnsFrame DEF Left
<1>3. CASE /\ agent'.at = "thinking"
           /\ tuiTold' = [tuiTold EXCEPT !.turns =
                            Append(@, [send |-> agent.turn, opts |-> agent.opts])]
  <2>1. PICK row : row = [send |-> agent.turn, opts |-> agent.opts]
    OBVIOUS
  <2>2. /\ agent.turn = Sends /\ Sends = Turns + 1 /\ agent.opts = tuiTold.sends[Sends].opts
        /\ Sends \in 1 .. Sends
    BY <1>1, QueueIsTyped DEF TurnsFollow
  <2>3. tuiTold.sends[Sends] \in SendRow /\ tuiTold.sends[Sends].send = Sends
    BY <2>2, QueueIsTyped, ElementOfSeq DEF Sends, TurnsFollow
  <2>4. row \in SendRow /\ row = tuiTold.sends[Sends]
    BY <2>1, <2>2, <2>3 DEF SendRow
  <2>5. tuiTold'.turns = Append(tuiTold.turns, row) /\ tuiTold'.sends = tuiTold.sends
    BY <1>3, <2>1, <2>4, TurnNoted
  <2>6. /\ Turns' = Turns + 1 /\ tuiTold'.turns[Turns + 1] = row
        /\ \A i \in 1 .. Turns : tuiTold'.turns[i] = tuiTold.turns[i]
    BY <2>4, <2>5, QueueIsTyped, AppendProperties DEF Turns
  <2>7. Sends' = Sends /\ Sends' = Turns'
    BY <2>2, <2>5, <2>6 DEF Sends
  <2>8. \A i \in 1 .. Turns' : tuiTold'.turns[i] = tuiTold'.sends[i]
    <3> SUFFICES ASSUME NEW i \in 1 .. Turns + 1 PROVE tuiTold'.turns[i] = tuiTold.sends[i]
      BY <2>5, <2>6
    <3>1. CASE i = Turns + 1
      BY <2>2, <2>4, <2>6, <3>1
    <3>2. CASE i # Turns + 1
      <4>1. i \in 1 .. Turns
        BY <3>2, QueueIsTyped
      <4> QED
        BY <2>6, <4>1 DEF TurnsFollow
    <3> QED
      BY <3>1, <3>2
  <2>9. /\ Running /\ Running' /\ AtWork /\ AtWork' /\ SendsQueued' = SendsQueued
    BY <1>1, <1>3 DEF Running, AtWork, SendsQueued
  <2>10. SendsQueued' = {}
    BY <2>9 DEF TurnsFollow
  <2>11. ~Left' => ChosenOpts(Len(toAgent) + 1, ui.opts)'
    BY <1>1, <2>9 DEF TurnsFollow, ChosenOpts, Left
  <2>12. \A i \in 1 .. Sends' : tuiTold'.sends[i].send = i
    BY <2>5, <2>7 DEF TurnsFollow
  <2>13. Turns' <= Sends' /\ agent'.turn = Sends'
    BY <1>1, <2>2, <2>7, QueueIsTyped
  <2> QED
    BY <1>3, <2>7, <2>8, <2>9, <2>10, <2>11, <2>12, <2>13 DEF TurnsFollow
<1> QED
  BY <1>1, <1>2, <1>3

(* A command is added to the queue. *)
LEMMA AddedCommand ==
  ASSUME ScreenTypes, NEW cmd \in CommandRow, toAgent' = Append(toAgent, cmd)
  PROVE  /\ Len(toAgent') = Len(toAgent) + 1 /\ toAgent'[Len(toAgent) + 1] = cmd
         /\ \A i \in 1 .. Len(toAgent) : toAgent'[i] = toAgent[i]
         /\ SendsQueued' = SendsQueued \cup
                             (IF cmd.kind = "send" THEN {Len(toAgent) + 1} ELSE {})
<1>1. /\ Len(toAgent) \in Nat /\ Len(toAgent') = Len(toAgent) + 1
      /\ toAgent'[Len(toAgent) + 1] = cmd
      /\ \A i \in 1 .. Len(toAgent) : toAgent'[i] = toAgent[i]
  BY QueueIsTyped, Appended
<1>2. ASSUME NEW i
      PROVE  i \in SendsQueued' <=>
               i \in SendsQueued \/ (i = Len(toAgent) + 1 /\ cmd.kind = "send")
  <2>1. i \in 1 .. Len(toAgent') <=> i \in 1 .. Len(toAgent) \/ i = Len(toAgent) + 1
    BY <1>1
  <2>2. Len(toAgent) + 1 \notin 1 .. Len(toAgent)
    BY <1>1
  <2> QED
    BY <1>1, <2>1, <2>2 DEF SendsQueued
<1> QED
  BY <1>1, <1>2

LEMMA AddedOpts ==
  ASSUME ScreenTypes, NEW cmd \in CommandRow, toAgent' = Append(toAgent, cmd), UNCHANGED agent,
         NEW k \in 1 .. Len(toAgent) + 1, NEW opts, ChosenOpts(k, opts)
  PROVE  ChosenOpts(k, opts)'
<1>1. Chosen(toAgent', k, "model", agent.opts.model, opts.model)
  BY QueueIsTyped, ChosenBefore DEF ChosenOpts
<1>2. Chosen(toAgent', k, "agent", agent.opts.agent, opts.agent)
  BY QueueIsTyped, ChosenBefore DEF ChosenOpts
<1> QED
  BY <1>1, <1>2 DEF ChosenOpts

(* The screen's options are those behind every command. *)
LEMMA AddedLast ==
  ASSUME ScreenTypes, NEW cmd \in CommandRow, toAgent' = Append(toAgent, cmd), UNCHANGED agent,
         ChosenOpts(Len(toAgent) + 1, ui.opts),
         ui'.opts.model = IF cmd.kind = "model" THEN cmd.what ELSE ui.opts.model,
         ui'.opts.agent = IF cmd.kind = "agent" THEN cmd.what ELSE ui.opts.agent
  PROVE  ChosenOpts(Len(toAgent) + 1, ui.opts)'
<1>1. Chosen(toAgent', Len(toAgent') + 1, "model", agent.opts.model,
             IF cmd.kind = "model" THEN cmd.what ELSE ui.opts.model)
  BY QueueIsTyped, ChosenLast DEF ChosenOpts
<1>2. Chosen(toAgent', Len(toAgent') + 1, "agent", agent.opts.agent,
             IF cmd.kind = "agent" THEN cmd.what ELSE ui.opts.agent)
  BY QueueIsTyped, ChosenLast DEF ChosenOpts
<1> QED
  BY <1>1, <1>2 DEF ChosenOpts

LEMMA TurnsSwitch ==
  ASSUME ScreenTypes, TurnsFollow, SwitchKey
  PROVE  TurnsFollow'
<1>1. PICK cmd \in CommandRow :
        /\ cmd.kind # "send" /\ ~Left /\ UNCHANGED <<agent, tuiTold>>
        /\ ui'.at = (IF Reads THEN "draining" ELSE "quit")
        /\ ui'.opts.model = IF cmd.kind = "model" THEN cmd.what ELSE ui.opts.model
        /\ ui'.opts.agent = IF cmd.kind = "agent" THEN cmd.what ELSE ui.opts.agent
        /\ toAgent' = IF Reads THEN Append(toAgent, cmd) ELSE toAgent
  BY SwitchShape
<1>2. Sends' = Sends /\ Turns' = Turns /\ Running' = Running /\ AtWork' = AtWork
  BY <1>1 DEF Sends, Turns, Running, AtWork
<1>3. /\ \A i \in 1 .. Sends' : tuiTold'.sends[i].send = i
      /\ Turns' <= Sends' /\ \A i \in 1 .. Turns' : tuiTold'.turns[i] = tuiTold'.sends[i]
      /\ agent'.at = "preparing" =>
           /\ agent'.turn = Sends' /\ Sends' = Turns' + 1
           /\ agent'.opts = tuiTold'.sends[Sends'].opts
      /\ AtWork' /\ agent'.at # "preparing" => agent'.turn = Sends' /\ Sends' = Turns'
  BY <1>1, <1>2 DEF TurnsFollow
<1>4. CASE ~Reads
  <2>1. agent'.at = "ended" /\ ~Running' /\ toAgent' = toAgent
    BY <1>1, <1>4 DEF Reads, Running
  <2> QED
    BY <1>1, <1>3, <2>1 DEF TurnsFollow
<1>5. CASE Reads
  <2>1. /\ toAgent' = Append(toAgent, cmd) /\ agent'.at # "ended"
    BY <1>1, <1>5 DEF Reads
  <2>2. /\ SendsQueued' = SendsQueued /\ Len(toAgent) \in Nat
        /\ \A i \in 1 .. Len(toAgent) : toAgent'[i] = toAgent[i]
    BY <1>1, <2>1, AddedCommand, QueueIsTyped
  <2>3. /\ Running' => \A i, j \in SendsQueued' : i = j
        /\ Running' /\ SendsQueued' = {} /\ ~AtWork' => Sends' = Turns'
    BY <1>2, <2>2 DEF TurnsFollow
  <2>4. Running' => \A i \in SendsQueued' :
          /\ ~AtWork' /\ toAgent'[i].what = Sends' /\ Sends' = Turns' + 1
          /\ ChosenOpts(i, tuiTold.sends[Sends].opts)'
    <3> SUFFICES ASSUME Running, NEW i \in SendsQueued
                 PROVE  /\ ~AtWork' /\ toAgent'[i].what = Sends' /\ Sends' = Turns' + 1
                        /\ ChosenOpts(i, tuiTold.sends[Sends].opts)'
      BY <1>2, <2>2
    <3>1. /\ ~AtWork /\ toAgent[i].what = Sends /\ Sends = Turns + 1
          /\ ChosenOpts(i, tuiTold.sends[Sends].opts) /\ i \in 1 .. Len(toAgent)
      BY DEF TurnsFollow, SendsQueued
    <3>2. PICK opts : opts = tuiTold.sends[Sends].opts
      OBVIOUS
    <3>3. i \in 1 .. Len(toAgent) + 1 /\ ChosenOpts(i, opts)
      BY <2>2, <3>1, <3>2
    <3>4. ChosenOpts(i, opts)'
      BY <1>1, <2>1, <3>3, AddedOpts
    <3>5. opts = tuiTold'.sends[Sends'].opts
      BY <1>1, <1>2, <3>2
    <3> QED
      BY <1>2, <2>2, <3>1, <3>4, <3>5 DEF ChosenOpts
  <2>5. Running' /\ ~Left' => ChosenOpts(Len(toAgent) + 1, ui.opts)'
    <3> SUFFICES ASSUME Running PROVE ChosenOpts(Len(toAgent) + 1, ui.opts)'
      BY <1>2
    <3>1. ChosenOpts(Len(toAgent) + 1, ui.opts)
      BY <1>1 DEF TurnsFollow
    <3> QED
      BY <1>1, <2>1, <3>1, AddedLast
  <2> QED
    BY <1>3, <2>1, <2>3, <2>4, <2>5 DEF TurnsFollow
<1> QED
  BY <1>4, <1>5

LEMMA TurnsEnter ==
  ASSUME ScreenTypes, TurnsFollow, BusyIsTold, EnterKey
  PROVE  TurnsFollow'
<1>1. PICK n : n = Sends + 1
  OBVIOUS
<1>2. PICK cmd : cmd = Command("send", n)
  OBVIOUS
<1>3. PICK row : row = [send |-> n, opts |-> ui.opts]
  OBVIOUS
<1>4. /\ ~ui.busy /\ ~Left /\ UNCHANGED agent /\ ui'.at = (IF Reads THEN "draining" ELSE "quit")
      /\ ui'.opts = ui.opts /\ toAgent' = IF Reads THEN Append(toAgent, cmd) ELSE toAgent
      /\ tuiTold'.sends = Append(tuiTold.sends, row) /\ tuiTold'.turns = tuiTold.turns
  BY <1>1, <1>2, <1>3, EnterShape
<1>5. n \in Nat /\ Sends \in Nat /\ Turns \in Nat /\ Len(toAgent) \in Nat
  BY <1>1, QueueIsTyped
<1>6. /\ cmd \in CommandRow /\ cmd.kind = "send" /\ cmd.what = n
      /\ row \in SendRow /\ row.send = n /\ row.opts = ui.opts
  BY <1>2, <1>3, <1>5 DEF Command, CommandRow, SendRow, ScreenTypes, UiRow
<1>7. /\ Sends' = n /\ Turns' = Turns /\ tuiTold'.sends[n] = row
      /\ \A i \in 1 .. Sends : tuiTold'.sends[i] = tuiTold.sends[i]
  <2>1. tuiTold'.sends[Len(tuiTold.sends) + 1] = row
    BY <1>4, <1>6, QueueIsTyped, AppendProperties
  <2>2. Len(tuiTold'.sends) = Len(tuiTold.sends) + 1
    BY <1>4, <1>6, QueueIsTyped, AppendProperties
  <2>3. \A i \in 1 .. Len(tuiTold.sends) : tuiTold'.sends[i] = tuiTold.sends[i]
    BY <1>4, <1>6, QueueIsTyped, AppendProperties
  <2> QED
    BY <1>1, <1>4, <2>1, <2>2, <2>3 DEF Sends, Turns
<1>8. \A i \in 1 .. Sends' : tuiTold'.sends[i].send = i
  <2> SUFFICES ASSUME NEW i \in 1 .. n PROVE tuiTold'.sends[i].send = i
    BY <1>7
  <2>1. CASE i = n
    BY <1>6, <1>7, <2>1
  <2>2. CASE i # n
    <3>1. i \in 1 .. Sends
      BY <1>1, <1>5, <2>2
    <3> QED
      BY <1>7, <3>1 DEF TurnsFollow
  <2> QED
    BY <2>1, <2>2
<1>9. /\ Turns' <= Sends' /\ \A i \in 1 .. Turns' : tuiTold'.turns[i] = tuiTold'.sends[i]
  <2>1. Turns <= Sends /\ \A i \in 1 .. Turns : tuiTold.turns[i] = tuiTold.sends[i]
    BY DEF TurnsFollow
  <2>2. Turns <= n /\ \A i \in 1 .. Turns : i \in 1 .. Sends
    BY <1>1, <1>5, <2>1
  <2> QED
    BY <1>4, <1>7, <2>1, <2>2
<1>10. /\ Running' = Running /\ AtWork' = AtWork /\ agent'.at = agent.at
       /\ Running => SendsQueued = {} /\ ~AtWork
  BY <1>4 DEF Running, AtWork, BusyIsTold
<1>11. AtWork => Running
  BY DEF AtWork, Running
<1>12. ~AtWork' /\ agent'.at # "preparing"
  BY <1>10, <1>11 DEF AtWork
<1>13. CASE ~Reads
  <2>1. agent'.at = "ended" /\ ~Running' /\ toAgent' = toAgent
    BY <1>4, <1>13 DEF Reads, Running
  <2> QED
    BY <1>4, <1>8, <1>9, <1>12, <2>1 DEF TurnsFollow
<1>14. CASE Reads
  <2>1. toAgent' = Append(toAgent, cmd) /\ agent'.at # "ended"
    BY <1>4, <1>14 DEF Reads
  <2>2. CASE ~Running
    BY <1>8, <1>9, <1>10, <1>12, <2>1, <2>2 DEF TurnsFollow
  <2>3. CASE Running
    <3>1. PICK k \in 1 .. Len(toAgent) + 1 : k = Len(toAgent) + 1
      BY <1>5
    <3>2. SendsQueued' = {k} /\ toAgent'[k] = cmd
      BY <1>6, <1>10, <2>1, <2>3, <3>1, AddedCommand
    <3>3. ChosenOpts(k, ui.opts) /\ Sends = Turns
      BY <1>4, <1>10, <2>3, <3>1 DEF TurnsFollow
    <3>4. ChosenOpts(k, ui.opts)'
      <4>1. PICK opts : opts = ui.opts
        OBVIOUS
      <4>2. ChosenOpts(k, opts)'
        BY <1>4, <1>6, <2>1, <3>3, <4>1, AddedOpts
      <4> QED
        BY <1>4, <4>1, <4>2 DEF ChosenOpts
    <3>5. ChosenOpts(Len(toAgent) + 1, ui.opts)'
      BY <1>4, <1>6, <2>1, <3>1, <3>3, AddedLast
    <3>6. tuiTold'.sends[Sends'].opts = ui'.opts
      BY <1>4, <1>6, <1>7
    <3>7. ChosenOpts(k, tuiTold.sends[Sends].opts)'
      BY <3>4, <3>6 DEF ChosenOpts
    <3>8. \A i \in SendsQueued' :
            /\ ~AtWork' /\ toAgent'[i].what = Sends' /\ Sends' = Turns' + 1
            /\ ChosenOpts(i, tuiTold.sends[Sends].opts)'
      <4> SUFFICES ASSUME NEW i \in SendsQueued'
                   PROVE  /\ ~AtWork' /\ toAgent'[i].what = Sends' /\ Sends' = Turns' + 1
                          /\ ChosenOpts(i, tuiTold.sends[Sends].opts)'
        OBVIOUS
      <4>1. i = k
        BY <3>2
      <4>2. toAgent'[i].what = Sends' /\ Sends' = Turns' + 1
        BY <1>1, <1>6, <1>7, <3>2, <3>3, <4>1
      <4>3. ChosenOpts(i, tuiTold.sends[Sends].opts)'
        BY <3>7, <4>1 DEF ChosenOpts
      <4> QED
        BY <1>12, <4>2, <4>3
    <3>9. (\A i, j \in SendsQueued' : i = j) /\ SendsQueued' # {}
      BY <3>2
    <3> QED
      BY <1>8, <1>9, <1>10, <1>12, <2>1, <3>5, <3>8, <3>9 DEF TurnsFollow
  <2> QED
    BY <2>2, <2>3
<1> QED
  BY <1>13, <1>14

LEMMA TurnsStep ==
  ASSUME ScreenTypes, ScreenTypes', TurnsFollow, BusyIsTold, [TuiNext]_tuiVars
  PROVE  TurnsFollow'
<1>1. CASE TuiStart
  BY <1>1, StartShape, TurnsFrame DEF AgentMoves, Left
<1>2. CASE TuiEnds \/ TuiAborted
  BY <1>2, EndsShape, TurnsEnd DEF AgentMoves
<1>3. CASE TakeCommand
  BY <1>3, TurnsTake
<1>4. CASE Prepare
  BY <1>4, TurnsPrepare
<1>5. CASE Think
  BY <1>5, ThinkShape, TurnsFrame DEF AtWork, Left
<1>6. CASE CallTool
  BY <1>6, CallShape, TurnsFrame DEF AtWork, Left
<1>7. CASE NoMoreCalls
  BY <1>7, NoMoreShape, TurnsFrame DEF AtWork, Left, AgentMoves
<1>8. CASE Resolve
  BY <1>8, ResolveShape, TurnsFrame DEF AtWork, Left, AgentMoves
<1>9. CASE ActTool
  BY <1>9, ActShape, TurnsFrame DEF AtWork, Left, AgentMoves
<1>10. CASE SaveTurn
  BY <1>10, SaveShape, TurnsFrame DEF Left, AgentMoves
<1>11. CASE Drain
  <2>1. PICK m : m = toScreen[1]
    OBVIOUS
  <2>2. /\ ui.at = "draining" /\ ui'.opts = ui.opts /\ UNCHANGED <<agent, toAgent, tuiTold>>
    BY <1>11, <2>1, DrainShape
  <2> QED
    BY <2>2, TurnsFrame DEF Left
<1>12. CASE Draw \/ NoKey \/ QuitKey \/ Leave
  <2>1. /\ UNCHANGED <<agent, toAgent, tuiTold>> /\ ui'.opts = ui.opts
        /\ ~Left' => ~Left
    BY <1>12, LoopShape DEF ScreenMoves, Left
  <2> QED
    BY <2>1, TurnsFrame
<1>13. CASE AnswerKey
  <2>1. /\ UNCHANGED <<agent, toAgent>> /\ ui'.opts = ui.opts /\ ui.at = "keys"
        /\ tuiTold'.sends = tuiTold.sends /\ tuiTold'.turns = tuiTold.turns
    BY <1>13, AnswerShape DEF AnswerKey
  <2> QED
    BY <2>1, TurnsFrame DEF Left
<1>14. CASE SwitchKey
  BY <1>14, TurnsSwitch
<1>15. CASE EnterKey
  BY <1>15, TurnsEnter
<1>16. CASE UNCHANGED tuiVars
  BY <1>16, TurnsFrame DEF tuiVars, Left
<1> QED
  BY <1>1, <1>2, <1>3, <1>4, <1>5, <1>6, <1>7, <1>8, <1>9, <1>10, <1>11, <1>12, <1>13, <1>14,
     <1>15, <1>16 DEF TuiNext

-----------------------------------------------------------------------------
(* The screen is told when a turn is over. *)

LEMMA LeftIsFree ==
  ASSUME Left'
  PROVE  BusyIsTold' /\ StatusFollows'
BY DEF BusyIsTold, StatusFollows

(* A message of the longer channel is an old one or a new one.             *)
LEMMA OldOrNew ==
  ASSUME ScreenTypes, NEW K, Adds(K), NEW i \in 1 .. Len(toScreen')
  PROVE  \/ i \in 1 .. Len(toScreen) /\ toScreen'[i] = toScreen[i]
         \/ i > Len(toScreen) /\ toScreen'[i].kind \in K
<1>1. Len(toScreen) \in Nat /\ Len(toScreen') \in Nat
  BY LenProperties DEF ScreenTypes, Adds
<1> QED
  BY <1>1 DEF Adds

LEMMA NewIsOfTurn ==
  ASSUME ScreenTypes, NEW K, Adds(K), NEW i \in 1 .. Len(toScreen'), i > Len(toScreen),
         toScreen'[i].kind # "status"
  PROVE  toScreen'[i].of = agent.turn
BY DEF Adds

(* A turn goes on. *)
LEMMA BusyWork ==
  ASSUME ScreenTypes, TurnsFollow, BusyIsTold, AtWork, AtWork', agent'.at # "preparing",
         NEW K, Adds(K), K \subseteq {"delta", "turn", "tool", "ask"},
         UNCHANGED <<ui, toAgent>>, tuiTold'.sends = tuiTold.sends
  PROVE  BusyIsTold'
<1>1. CASE Left
  BY <1>1, LeftIsFree DEF Left
<1>2. CASE ~Left
  <2>1. /\ Sends' = Sends /\ SendsQueued' = SendsQueued /\ Running /\ Running'
        /\ agent.at \notin {"reading", "starting"} /\ agent'.at \notin {"starting", "failed", "ended"}
    BY DEF Sends, SendsQueued, Running, AtWork
  <2>2. SendsQueued = {} /\ agent.turn = Sends
    BY <2>1 DEF TurnsFollow
  <2>3. ui.busy
    BY <1>2, <2>1 DEF BusyIsTold
  <2>4. \A i \in 1 .. Len(toScreen) : ~Idles(i) /\ toScreen[i].kind # "fatal"
    BY <1>2, <2>1 DEF BusyIsTold
  <2>5. \A i \in 1 .. Len(toScreen) : Shows(i) => toScreen[i].of = Sends
    BY <1>2 DEF BusyIsTold
  <2>6. ASSUME NEW i \in 1 .. Len(toScreen')
        PROVE  /\ ~Idles(i)' /\ toScreen'[i].kind # "fatal"
               /\ Shows(i)' => toScreen'[i].of = Sends
    <3>1. CASE i \in 1 .. Len(toScreen) /\ toScreen'[i] = toScreen[i]
      BY <2>4, <2>5, <3>1 DEF Idles, Shows
    <3>2. CASE i > Len(toScreen) /\ toScreen'[i].kind \in K
      <4>1. toScreen'[i].of = agent.turn
        BY <3>2, NewIsOfTurn
      <4> QED
        BY <2>2, <3>2, <4>1 DEF Idles
    <3> QED
      BY <3>1, <3>2, OldOrNew
  <2> QED
    BY <2>1, <2>2, <2>3, <2>6 DEF BusyIsTold
<1> QED
  BY <1>1, <1>2

(* The task fails before or between turns. *)
LEMMA BusyFail ==
  ASSUME ScreenTypes, BusyIsTold, agent.at \in {"starting", "preparing"}, agent'.at = "failed",
         Adds({"fatal"}), UNCHANGED ui
  PROVE  BusyIsTold'
<1>1. CASE Left
  BY <1>1, LeftIsFree DEF Left
<1>2. CASE ~Left
  <2>1. \A i \in 1 .. Len(toScreen) : ~Idles(i) /\ ~Shows(i)
    BY <1>2 DEF BusyIsTold
  <2>2. \A i \in 1 .. Len(toScreen') : ~Idles(i)' /\ ~Shows(i)'
    <3> SUFFICES ASSUME NEW i \in 1 .. Len(toScreen') PROVE ~Idles(i)' /\ ~Shows(i)'
      OBVIOUS
    <3> QED
      BY <2>1, OldOrNew DEF Idles, Shows
  <2>3. ~Running'
    BY DEF Running
  <2> QED
    BY <2>2, <2>3 DEF BusyIsTold
<1> QED
  BY <1>1, <1>2

LEMMA BusyEnd ==
  ASSUME ScreenTypes, BusyIsTold, TuiEnds \/ TuiAborted
  PROVE  BusyIsTold'
<1>1. /\ agent.at = "failed" \/ Left
      /\ agent'.at = "ended" /\ UNCHANGED <<ui, toScreen>>
  BY EndsShape DEF AgentMoves
<1>2. CASE Left
  BY <1>1, <1>2, LeftIsFree DEF Left
<1>3. CASE ~Left
  <2>1. \A i \in 1 .. Len(toScreen') : ~Idles(i)' /\ ~Shows(i)'
    BY <1>1, <1>3 DEF BusyIsTold, Idles, Shows
  <2>2. ~Running' /\ agent'.at # "starting"
    BY <1>1 DEF Running
  <2> QED
    BY <2>1, <2>2 DEF BusyIsTold
<1> QED
  BY <1>2, <1>3

LEMMA BusyStart ==
  ASSUME ScreenTypes, BusyIsTold, TuiStart
  PROVE  BusyIsTold'
<1>1. /\ agent.at = "starting" /\ UNCHANGED <<ui, toAgent>>
      /\ \/ agent'.at = "reading" /\ toScreen' = toScreen
         \/ agent'.at = "failed" /\ Adds({"fatal"})
  BY StartShape DEF AgentMoves
<1>2. CASE agent'.at = "failed" /\ Adds({"fatal"})
  BY <1>1, <1>2, BusyFail
<1>3. CASE agent'.at = "reading" /\ toScreen' = toScreen
  <2>1. CASE Left
    BY <1>1, <2>1, LeftIsFree DEF Left
  <2>2. CASE ~Left
    <3>1. toScreen' = << >>
      BY <1>1, <1>3, <2>2 DEF BusyIsTold
    <3>2. \A i \in 1 .. Len(toScreen') : FALSE
      BY <3>1
    <3>3. /\ SendsQueued' = SendsQueued /\ Running /\ Running' /\ ~AtWork /\ ~AtWork'
      BY <1>1, <1>3 DEF SendsQueued, Running, AtWork
    <3>4. ui.busy <=> SendsQueued # {}
      BY <1>3, <2>2, <3>2, <3>3 DEF BusyIsTold
    <3> QED
      BY <1>1, <1>3, <3>2, <3>3, <3>4 DEF BusyIsTold
  <2> QED
    BY <2>1, <2>2
<1> QED
  BY <1>1, <1>2, <1>3

(* The last word of a turn. *)
LEMMA BusySave ==
  ASSUME ScreenTypes, TurnsFollow, BusyIsTold, SaveTurn
  PROVE  BusyIsTold'
<1>1. /\ agent.at = "saving" /\ UNCHANGED <<ui, toAgent, tuiTold>> /\ agent'.at = "reading"
      /\ Adds({"idle"}) /\ Len(toScreen') <= Len(toScreen) + 1
      /\ ui.at # "gone" => Len(toScreen') = Len(toScreen) + 1
  BY SaveShape DEF AgentMoves
<1>2. CASE Left
  BY <1>1, <1>2, LeftIsFree DEF Left
<1>3. CASE ~Left
  <2>1. /\ Sends' = Sends /\ SendsQueued' = SendsQueued /\ Running /\ Running'
        /\ AtWork /\ ~AtWork'
    BY <1>1 DEF Sends, SendsQueued, Running, AtWork
  <2>2. SendsQueued = {} /\ ui.busy
    BY <1>3, <2>1 DEF TurnsFollow, BusyIsTold
  <2>3. PICK n \in Nat : n = Len(toScreen) + 1 /\ Len(toScreen') = n
    <3>1. Len(toScreen) \in Nat /\ ui.at # "gone"
      BY <1>3, LenProperties DEF ScreenTypes, Left
    <3> QED
      BY <1>1, <3>1
  <2>4. Len(toScreen) \in Nat /\ n \in 1 .. Len(toScreen') /\ n > Len(toScreen)
    BY <2>3, LenProperties DEF ScreenTypes
  <2>5. Idles(n)' /\ ~Shows(n)'
    BY <1>1, <2>4 DEF Adds, Idles, Shows
  <2>6. \A i \in 1 .. Len(toScreen) : ~Idles(i) /\ toScreen[i].kind # "fatal"
    BY <1>1, <1>3, <2>1 DEF BusyIsTold
  <2>7. ASSUME NEW i \in 1 .. Len(toScreen')
        PROVE  /\ Idles(i)' => i = n
               /\ Shows(i)' => i < n /\ toScreen'[i].of = Sends
               /\ toScreen'[i].kind # "fatal"
    <3>1. CASE i \in 1 .. Len(toScreen) /\ toScreen'[i] = toScreen[i]
      <4>1. i < n
        BY <2>3, <2>4, <3>1
      <4>2. Shows(i) => toScreen[i].of = Sends
        BY <1>3, <3>1 DEF BusyIsTold
      <4> QED
        BY <2>6, <3>1, <4>1, <4>2 DEF Idles, Shows
    <3>2. CASE i > Len(toScreen) /\ toScreen'[i].kind \in {"idle"}
      <4>1. i = n
        BY <2>3, <2>4, <3>2
      <4> QED
        BY <2>5, <3>2, <4>1
    <3> QED
      BY <1>1, <3>1, <3>2, OldOrNew
  <2>8. \A i \in 1 .. Len(toScreen') : Idles(i)' =>
          /\ \A j \in 1 .. Len(toScreen') : Idles(j)' => i = j
          /\ \A j \in 1 .. Len(toScreen') : Shows(j)' => j < i
    BY <2>7
  <2>9. \E i \in 1 .. Len(toScreen') : Idles(i)'
    BY <2>4, <2>5
  <2> QED
    BY <1>1, <2>1, <2>2, <2>7, <2>8, <2>9 DEF BusyIsTold
<1> QED
  BY <1>2, <1>3

LEMMA BusyTake ==
  ASSUME ScreenTypes, TurnsFollow, BusyIsTold, TakeCommand
  PROVE  BusyIsTold'
<1>1. PICK cmd : cmd = toAgent[1]
  OBVIOUS
<1>2. /\ agent.at = "reading" /\ UNCHANGED <<ui, tuiTold>>
      /\ Len(toAgent) > 0 /\ toAgent' = Tail(toAgent)
      /\ \/ cmd.kind = "send" /\ agent'.at = "preparing" /\ toScreen' = toScreen
         \/ cmd.kind # "send" /\ agent'.at = "reading" /\ Adds({"status"})
  BY <1>1, TakeShape
<1>3. CASE Left
  BY <1>2, <1>3, LeftIsFree DEF Left
<1>4. CASE ~Left
  <2>1. /\ Running /\ ~AtWork /\ Sends' = Sends /\ Running'
    BY <1>2 DEF Running, AtWork, Sends
  <2>2. CASE cmd.kind = "send" /\ agent'.at = "preparing" /\ toScreen' = toScreen
    <3>1. 1 \in SendsQueued
      BY <1>1, <1>2, <2>2, QueueIsTyped DEF SendsQueued
    <3>2. \A i, j \in SendsQueued : i = j
      BY <2>1 DEF TurnsFollow
    <3>3. SendsQueued' = {}
      BY <1>2, <3>1, <3>2, TakenSwitch
    <3>4. ui.busy
      BY <1>4, <2>1, <3>1 DEF BusyIsTold
    <3>5. \A i \in 1 .. Len(toScreen) : ~Idles(i) /\ ~Shows(i) /\ toScreen[i].kind # "fatal"
      BY <1>4, <2>1, <3>1 DEF BusyIsTold
    <3>6. \A i \in 1 .. Len(toScreen') : ~Idles(i)' /\ ~Shows(i)' /\ toScreen'[i].kind # "fatal"
      BY <2>2, <3>5 DEF Idles, Shows
    <3>7. AtWork'
      BY <2>2 DEF AtWork
    <3> QED
      BY <1>2, <2>2, <3>4, <3>6, <3>7 DEF BusyIsTold
  <2>3. CASE cmd.kind # "send" /\ agent'.at = "reading" /\ Adds({"status"})
    <3>1. SendsQueued' = {} <=> SendsQueued = {}
      BY <1>1, <1>2, <2>3, TakenSwitch
    <3>2. ~AtWork'
      BY <2>3 DEF AtWork
    <3>3. ASSUME NEW i \in 1 .. Len(toScreen')
          PROVE  Idles(i)' \/ Shows(i)' \/ toScreen'[i].kind = "fatal" =>
                   i \in 1 .. Len(toScreen) /\ toScreen'[i] = toScreen[i]
      BY <2>3, OldOrNew DEF Idles, Shows
    <3>4. \A i \in 1 .. Len(toScreen') :
            /\ Idles(i)' => i \in 1 .. Len(toScreen) /\ Idles(i)
            /\ Shows(i)' => /\ i \in 1 .. Len(toScreen) /\ Shows(i)
                            /\ toScreen'[i].of = toScreen[i].of
            /\ toScreen'[i].kind # "fatal"
      <4> SUFFICES ASSUME NEW i \in 1 .. Len(toScreen')
                   PROVE  /\ Idles(i)' => i \in 1 .. Len(toScreen) /\ Idles(i)
                          /\ Shows(i)' => /\ i \in 1 .. Len(toScreen) /\ Shows(i)
                                          /\ toScreen'[i].of = toScreen[i].of
                          /\ toScreen'[i].kind # "fatal"
        OBVIOUS
      <4>1. \A k \in 1 .. Len(toScreen) : toScreen[k].kind # "fatal"
        BY <1>4, <2>1 DEF BusyIsTold
      <4> QED
        BY <3>3, <4>1 DEF Idles, Shows
    <3>5. \A i \in 1 .. Len(toScreen') : Idles(i)' =>
            /\ SendsQueued' = {} /\ ui'.busy
            /\ \A j \in 1 .. Len(toScreen') : Idles(j)' => i = j
            /\ \A j \in 1 .. Len(toScreen') : Shows(j)' => j < i
      BY <1>2, <1>4, <3>1, <3>4 DEF BusyIsTold
    <3>6. \A i \in 1 .. Len(toScreen') : Shows(i)' =>
            toScreen'[i].of = Sends' /\ ui'.busy /\ SendsQueued' = {}
      BY <1>2, <1>4, <2>1, <3>1, <3>4 DEF BusyIsTold
    <3>7. ui'.busy => SendsQueued' # {} \/ \E i \in 1 .. Len(toScreen') : Idles(i)'
      <4> SUFFICES ASSUME ui.busy, SendsQueued = {}
                   PROVE  \E i \in 1 .. Len(toScreen') : Idles(i)'
        BY <1>2, <3>1
      <4>1. PICK i \in 1 .. Len(toScreen) : Idles(i)
        BY <1>4, <2>1 DEF BusyIsTold
      <4>2. toScreen'[i] = toScreen[i] /\ i \in 1 .. Len(toScreen')
        <5>1. Len(toScreen) \in Nat /\ Len(toScreen') \in Nat
          BY <2>3, LenProperties DEF ScreenTypes, Adds
        <5> QED
          BY <2>3, <5>1 DEF Adds
      <4> QED
        BY <4>1, <4>2 DEF Idles
    <3>8. SendsQueued' # {} => ui'.busy
      BY <1>2, <1>4, <2>1, <3>1 DEF BusyIsTold
    <3> QED
      BY <2>1, <2>3, <3>2, <3>4, <3>5, <3>6, <3>7, <3>8 DEF BusyIsTold
  <2> QED
    BY <1>2, <2>2, <2>3
<1> QED
  BY <1>3, <1>4

(* The screen moves and is as busy as before. *)
LEMMA BusyScreen ==
  ASSUME BusyIsTold, UNCHANGED <<agent, toScreen>>, ui'.busy = ui.busy,
         tuiTold'.sends = tuiTold.sends, ~Left' => ~Left, SendsQueued' = SendsQueued
  PROVE  BusyIsTold'
<1>1. CASE Left'
  BY <1>1, LeftIsFree
<1>2. CASE ~Left'
  <2>1. /\ Sends' = Sends /\ (Running' <=> Running) /\ (AtWork' <=> AtWork) /\ (ui'.busy <=> ui.busy)
        /\ \A i : Idles(i)' <=> Idles(i)
        /\ \A i : Shows(i)' <=> Shows(i)
    BY DEF Sends, Running, AtWork, Idles, Shows
  <2>2. ~Left
    BY <1>2
  <2> QED
    BY <2>1, <2>2 DEF BusyIsTold
<1> QED
  BY <1>1, <1>2

LEMMA BusyDrain ==
  ASSUME ScreenTypes, BusyIsTold, Drain
  PROVE  BusyIsTold'
<1>1. PICK m : m = toScreen[1]
  OBVIOUS
<1>2. /\ ui.at = "draining" /\ UNCHANGED <<agent, toAgent, tuiTold>>
      /\ Len(toScreen) > 0 /\ toScreen' = Tail(toScreen)
      /\ IF m.kind \in {"idle", "fatal"} THEN ui'.busy = FALSE ELSE ui'.busy = ui.busy
  BY <1>1, DrainShape
<1>3. /\ Len(toScreen') = Len(toScreen) - 1 /\ Len(toScreen) \in Nat
      /\ \A i \in 1 .. Len(toScreen') : i + 1 \in 1 .. Len(toScreen) /\ toScreen'[i] = toScreen[i + 1]
      /\ \A i \in 2 .. Len(toScreen) : i - 1 \in 1 .. Len(toScreen') /\ toScreen'[i - 1] = toScreen[i]
  BY <1>2, Drained
<1>4. /\ ~Left /\ Sends' = Sends /\ SendsQueued' = SendsQueued
      /\ (Running' <=> Running) /\ (AtWork' <=> AtWork) /\ 1 \in 1 .. Len(toScreen)
  BY <1>2, <1>3 DEF Left, Sends, SendsQueued, Running, AtWork
<1>5. \A i \in 1 .. Len(toScreen') :
        /\ Idles(i)' <=> Idles(i + 1)
        /\ Shows(i)' <=> Shows(i + 1)
  BY <1>3 DEF Idles, Shows
<1>6. agent'.at = "starting" => FALSE
  <2>1. toScreen # << >>
    BY <1>3, <1>4
  <2> QED
    BY <1>2, <1>4, <2>1 DEF BusyIsTold
<1>7. \A i \in 1 .. Len(toScreen') : toScreen'[i].kind = "fatal" => ~Running'
  BY <1>3, <1>4 DEF BusyIsTold
<1>8. CASE m.kind = "idle"
  <2>1. /\ agent.at = "reading" /\ SendsQueued = {}
        /\ \A j \in 1 .. Len(toScreen) : Idles(j) => 1 = j
        /\ \A j \in 1 .. Len(toScreen) : Shows(j) => j < 1
    <3>1. Idles(1)
      BY <1>1, <1>8 DEF Idles
    <3> QED
      BY <1>4, <3>1 DEF BusyIsTold
  <2>2. \A i \in 1 .. Len(toScreen') : ~Idles(i)' /\ ~Shows(i)'
    <3> SUFFICES ASSUME NEW i \in 1 .. Len(toScreen') PROVE ~Idles(i)' /\ ~Shows(i)'
      OBVIOUS
    <3>1. PICK k \in 2 .. Len(toScreen) : k = i + 1
      BY <1>3
    <3>2. ~Idles(k) /\ ~Shows(k)
      BY <2>1, <3>1
    <3> QED
      BY <1>5, <3>1, <3>2
  <2>3. ~AtWork' /\ ui'.busy = FALSE /\ SendsQueued' = {}
    BY <1>2, <1>4, <1>8, <2>1 DEF AtWork
  <2> QED
    BY <1>6, <1>7, <2>2, <2>3 DEF BusyIsTold
<1>9. CASE m.kind = "fatal"
  <2>1. ~Running
    BY <1>1, <1>4, <1>9 DEF BusyIsTold
  <2>2. \A j \in 1 .. Len(toScreen) : ~Idles(j) /\ ~Shows(j)
    BY <1>4, <2>1 DEF BusyIsTold, Running
  <2>3. \A i \in 1 .. Len(toScreen') : ~Idles(i)' /\ ~Shows(i)'
    BY <1>3, <1>5, <2>2
  <2>4. ~Running' /\ ui'.busy = FALSE
    BY <1>2, <1>4, <1>9, <2>1
  <2> QED
    BY <1>6, <2>3, <2>4 DEF BusyIsTold
<1>10. CASE m.kind \notin {"idle", "fatal"}
  <2>1. /\ (ui'.busy <=> ui.busy) /\ ~Idles(1)
    BY <1>1, <1>2, <1>10 DEF Idles
  <2>2. ui'.busy => SendsQueued' # {} \/ AtWork' \/ ~Running' \/ \E i \in 1 .. Len(toScreen') : Idles(i)'
    <3> SUFFICES ASSUME ui.busy, SendsQueued = {}, ~AtWork, Running
                 PROVE  \E i \in 1 .. Len(toScreen') : Idles(i)'
      BY <1>4, <2>1
    <3>1. PICK k \in 1 .. Len(toScreen) : Idles(k)
      BY <1>4 DEF BusyIsTold
    <3>2. k \in 2 .. Len(toScreen)
      BY <1>3, <2>1, <3>1
    <3>3. k - 1 \in 1 .. Len(toScreen') /\ toScreen'[k - 1] = toScreen[k]
      BY <1>3, <3>2
    <3>4. Idles(k - 1)'
      BY <3>1, <3>3 DEF Idles
    <3> QED
      BY <3>3, <3>4
  <2>3. \A i \in 1 .. Len(toScreen') : Idles(i)' =>
          /\ agent'.at = "reading" /\ SendsQueued' = {} /\ ui'.busy
          /\ \A j \in 1 .. Len(toScreen') : Idles(j)' => i = j
          /\ \A j \in 1 .. Len(toScreen') : Shows(j)' => j < i
    <3> SUFFICES ASSUME NEW i \in 1 .. Len(toScreen'), Idles(i)'
                 PROVE  /\ agent'.at = "reading" /\ SendsQueued' = {} /\ ui'.busy
                        /\ \A j \in 1 .. Len(toScreen') : Idles(j)' => i = j
                        /\ \A j \in 1 .. Len(toScreen') : Shows(j)' => j < i
      OBVIOUS
    <3>1. PICK k \in 1 .. Len(toScreen) : k = i + 1 /\ Idles(k)
      BY <1>3, <1>5
    <3>2. /\ agent.at = "reading" /\ SendsQueued = {} /\ ui.busy
          /\ \A j \in 1 .. Len(toScreen) : Idles(j) => k = j
          /\ \A j \in 1 .. Len(toScreen) : Shows(j) => j < k
      BY <1>4, <3>1 DEF BusyIsTold
    <3>3. ASSUME NEW j \in 1 .. Len(toScreen')
          PROVE  (Idles(j)' => i = j) /\ (Shows(j)' => j < i)
      <4>1. PICK l \in 1 .. Len(toScreen) : l = j + 1 /\ (Idles(j)' <=> Idles(l)) /\ (Shows(j)' <=> Shows(l))
        BY <1>3, <1>5
      <4>2. (Idles(l) => k = l) /\ (Shows(l) => l < k)
        BY <3>2
      <4>3. i \in Nat /\ j \in Nat
        BY <1>3
      <4>4. (k = l => i = j) /\ (l < k => j < i)
        BY <3>1, <4>1, <4>3
      <4> QED
        BY <4>1, <4>2, <4>4
    <3> QED
      BY <1>2, <1>4, <2>1, <3>2, <3>3
  <2>4. \A i \in 1 .. Len(toScreen') : Shows(i)' =>
          /\ toScreen'[i].of = Sends' /\ ui'.busy /\ SendsQueued' = {}
          /\ agent'.at \notin {"starting", "preparing", "failed", "ended"}
    <3> SUFFICES ASSUME NEW i \in 1 .. Len(toScreen'), Shows(i)'
                 PROVE  /\ toScreen'[i].of = Sends' /\ ui'.busy /\ SendsQueued' = {}
                        /\ agent'.at \notin {"starting", "preparing", "failed", "ended"}
      OBVIOUS
    <3>1. PICK k \in 1 .. Len(toScreen) : k = i + 1 /\ Shows(k) /\ toScreen'[i] = toScreen[k]
      BY <1>3, <1>5
    <3>2. /\ toScreen[k].of = Sends /\ ui.busy /\ SendsQueued = {}
          /\ agent.at \notin {"starting", "preparing", "failed", "ended"}
      BY <1>4, <3>1 DEF BusyIsTold
    <3> QED
      BY <1>2, <1>4, <2>1, <3>1, <3>2
  <2>5. Running' /\ (SendsQueued' # {} \/ AtWork') => ui'.busy
    BY <1>4, <2>1 DEF BusyIsTold
  <2> QED
    BY <1>6, <1>7, <2>2, <2>3, <2>4, <2>5 DEF BusyIsTold
<1> QED
  BY <1>8, <1>9, <1>10

LEMMA BusyEnter ==
  ASSUME ScreenTypes, BusyIsTold, EnterKey
  PROVE  BusyIsTold'
<1>1. PICK n : n = Sends + 1
  OBVIOUS
<1>2. PICK cmd : cmd = Command("send", n)
  OBVIOUS
<1>3. /\ ~ui.busy /\ ~Left /\ UNCHANGED <<agent, toScreen>>
      /\ ui'.at = (IF Reads THEN "draining" ELSE "quit")
      /\ ui'.busy = TRUE /\ toAgent' = IF Reads THEN Append(toAgent, cmd) ELSE toAgent
  BY <1>1, <1>2, EnterShape
<1>4. CASE ~Reads
  <2>1. Left'
    BY <1>3, <1>4 DEF Left
  <2> QED
    BY <2>1, LeftIsFree
<1>5. CASE Reads
  <2>1. n \in Nat /\ cmd \in CommandRow /\ cmd.kind = "send"
    BY <1>1, <1>2, QueueIsTyped DEF Command, CommandRow
  <2>2. SendsQueued' # {}
    BY <1>3, <1>5, <2>1, AddedCommand
  <2>3. \A i \in 1 .. Len(toScreen) : ~Idles(i) /\ ~Shows(i)
    BY <1>3 DEF BusyIsTold
  <2>4. \A i \in 1 .. Len(toScreen') : ~Idles(i)' /\ ~Shows(i)'
    BY <1>3, <2>3 DEF Idles, Shows
  <2>5. /\ \A i \in 1 .. Len(toScreen') : toScreen'[i].kind = "fatal" => ~Running'
        /\ agent'.at = "starting" => toScreen' = << >>
    BY <1>3 DEF BusyIsTold, Running
  <2> QED
    BY <1>3, <2>2, <2>4, <2>5 DEF BusyIsTold
<1> QED
  BY <1>4, <1>5

LEMMA BusyStep ==
  ASSUME ScreenTypes, TurnsFollow, BusyIsTold, [TuiNext]_tuiVars
  PROVE  BusyIsTold'
<1>1. CASE TuiStart
  BY <1>1, BusyStart
<1>2. CASE TuiEnds \/ TuiAborted
  BY <1>2, BusyEnd
<1>3. CASE TakeCommand
  BY <1>3, BusyTake
<1>4. CASE Prepare
  <2>1. /\ agent.at = "preparing" /\ UNCHANGED <<ui, toAgent>>
        /\ \/ /\ agent'.at = "thinking" /\ toScreen' = toScreen
              /\ tuiTold' = [tuiTold EXCEPT !.turns =
                               Append(@, [send |-> agent.turn, opts |-> agent.opts])]
           \/ agent'.at = "failed" /\ Adds({"fatal"})
    BY <1>4, PrepareShape DEF AgentMoves
  <2>2. CASE agent'.at = "failed" /\ Adds({"fatal"})
    BY <2>1, <2>2, BusyFail
  <2>3. CASE /\ agent'.at = "thinking" /\ toScreen' = toScreen
             /\ tuiTold' = [tuiTold EXCEPT !.turns =
                              Append(@, [send |-> agent.turn, opts |-> agent.opts])]
    <3>1. tuiTold'.sends = tuiTold.sends
      BY <2>3 DEF ScreenTypes, ToldRow
    <3>2. AtWork /\ AtWork' /\ Adds({})
      BY <2>1, <2>3, AddsNone DEF AtWork
    <3> QED
      BY <2>1, <2>3, <3>1, <3>2, BusyWork
  <2> QED
    BY <2>1, <2>2, <2>3
<1>5. CASE Think
  <2>1. /\ AtWork /\ AtWork' /\ agent'.at # "preparing" /\ Adds({"delta", "turn"})
        /\ UNCHANGED <<ui, toAgent, tuiTold>>
    BY <1>5, ThinkShape DEF AtWork
  <2> QED
    BY <2>1, BusyWork
<1>6. CASE CallTool
  <2>1. /\ AtWork /\ AtWork' /\ agent'.at # "preparing" /\ UNCHANGED <<ui, toAgent, tuiTold>>
        /\ Adds({}) \/ Adds({"tool"}) \/ Adds({"ask"})
    BY <1>6, CallShape, AddsNone DEF AtWork
  <2>2. PICK K : Adds(K) /\ K \subseteq {"delta", "turn", "tool", "ask"}
    BY <2>1
  <2> QED
    BY <2>1, <2>2, BusyWork
<1>7. CASE NoMoreCalls
  <2>1. /\ AtWork /\ AtWork' /\ agent'.at # "preparing" /\ UNCHANGED <<ui, toAgent, tuiTold>>
        /\ Adds({})
    BY <1>7, NoMoreShape, AddsNone DEF AtWork, AgentMoves
  <2> QED
    BY <2>1, BusyWork
<1>8. CASE Resolve
  <2>1. /\ AtWork /\ AtWork' /\ agent'.at # "preparing" /\ UNCHANGED <<ui, toAgent, tuiTold>>
        /\ Adds({}) \/ Adds({"tool"})
    BY <1>8, ResolveShape, AddsNone DEF AtWork, AgentMoves
  <2>2. PICK K : Adds(K) /\ K \subseteq {"delta", "turn", "tool", "ask"}
    BY <2>1
  <2> QED
    BY <2>1, <2>2, BusyWork
<1>9. CASE ActTool
  <2>1. /\ AtWork /\ AtWork' /\ agent'.at # "preparing" /\ UNCHANGED <<ui, toAgent>>
        /\ Adds({"tool"}) /\ tuiTold'.sends = tuiTold.sends
    BY <1>9, ActShape DEF AtWork, AgentMoves
  <2> QED
    BY <2>1, BusyWork
<1>10. CASE SaveTurn
  BY <1>10, BusySave
<1>11. CASE Drain
  BY <1>11, BusyDrain
<1>12. CASE Draw \/ NoKey \/ QuitKey \/ Leave
  <2>1. \/ Left'
        \/ /\ UNCHANGED <<agent, toAgent, toScreen, tuiTold>> /\ ui'.busy = ui.busy
           /\ ~Left' => ~Left
    BY <1>12, LoopShape DEF ScreenMoves, Left
  <2> QED
    BY <2>1, BusyScreen, LeftIsFree DEF SendsQueued
<1>13. CASE AnswerKey
  <2>1. /\ UNCHANGED <<agent, toScreen, toAgent>> /\ ui'.busy = ui.busy /\ ui.at = "keys"
        /\ tuiTold'.sends = tuiTold.sends
    BY <1>13, AnswerShape DEF AnswerKey
  <2> QED
    BY <2>1, BusyScreen DEF Left, SendsQueued
<1>14. CASE SwitchKey
  <2>1. PICK cmd \in CommandRow :
          /\ cmd.kind # "send" /\ ~Left /\ UNCHANGED <<agent, toScreen, tuiTold>>
          /\ ui'.busy = ui.busy
          /\ toAgent' = IF Reads THEN Append(toAgent, cmd) ELSE toAgent
    BY <1>14, SwitchShape
  <2>2. SendsQueued' = SendsQueued
    <3>1. CASE Reads
      BY <2>1, <3>1, AddedCommand
    <3>2. CASE ~Reads
      BY <2>1, <3>2 DEF SendsQueued
    <3> QED
      BY <3>1, <3>2
  <2> QED
    BY <2>1, <2>2, BusyScreen
<1>15. CASE EnterKey
  BY <1>15, BusyEnter
<1>16. CASE UNCHANGED tuiVars
  BY <1>16, BusyScreen DEF tuiVars, Left, SendsQueued
<1> QED
  BY <1>1, <1>2, <1>3, <1>4, <1>5, <1>6, <1>7, <1>8, <1>9, <1>10, <1>11, <1>12, <1>13, <1>14,
     <1>15, <1>16 DEF TuiNext

-----------------------------------------------------------------------------
(* The transcript and the status line. *)

(* An item is added whose turn is the last one so far. *)
LEMMA ItemAdded ==
  ASSUME ScreenTypes, Transcript, NEW it \in ItemRow, ui'.items = Append(ui.items, it),
         it.of = Sends', Sends <= Sends', Sends' \in Nat,
         it.kind = "user" => Sends < Sends'
  PROVE  Transcript'
<1>1. ui.items \in Seq(ItemRow) /\ Len(ui.items) \in Nat /\ Sends \in Nat
  BY QueueIsTyped, LenProperties DEF ScreenTypes, UiRow
<1>2. PICK n \in Nat : n = Len(ui.items)
  BY <1>1
<1>3. /\ Len(ui'.items) = n + 1 /\ ui'.items[n + 1] = it
      /\ \A j \in 1 .. n : ui'.items[j] = ui.items[j]
  BY <1>1, <1>2, AppendProperties
<1>4. \A j \in 1 .. n : ui.items[j].of \in Nat /\ ui.items[j].of <= Sends
  <2> SUFFICES ASSUME NEW j \in 1 .. n PROVE ui.items[j].of \in Nat /\ ui.items[j].of <= Sends
    OBVIOUS
  <2>1. ui.items[j] \in ItemRow
    BY <1>1, <1>2, ElementOfSeq
  <2> QED
    BY <1>2, <2>1 DEF ItemRow, Transcript
<1>5. \A j \in 1 .. n + 1 : ui'.items[j].of <= Sends'
  <2> SUFFICES ASSUME NEW j \in 1 .. n + 1 PROVE ui'.items[j].of <= Sends'
    OBVIOUS
  <2>1. CASE j = n + 1
    BY <1>3, <2>1
  <2>2. CASE j # n + 1
    <3>1. j \in 1 .. n
      BY <1>2, <2>2
    <3> QED
      BY <1>1, <1>3, <1>4, <3>1
  <2> QED
    BY <2>1, <2>2
<1>6. ASSUME NEW j \in 1 .. n + 1, NEW i \in 1 .. j - 1
      PROVE  /\ ui'.items[i].of <= ui'.items[j].of
             /\ ui'.items[j].kind = "user" => ui'.items[i].of < ui'.items[j].of
  <2>1. i \in 1 .. n
    BY <1>2
  <2>2. ui'.items[i] = ui.items[i] /\ ui.items[i].of \in Nat /\ ui.items[i].of <= Sends
    BY <1>3, <1>4, <2>1
  <2>3. CASE j = n + 1
    BY <1>1, <1>3, <2>2, <2>3
  <2>4. CASE j # n + 1
    <3>1. j \in 1 .. n
      BY <1>2, <2>4
    <3>2. /\ ui.items[i].of <= ui.items[j].of
          /\ ui.items[j].kind = "user" => ui.items[i].of < ui.items[j].of
      BY <1>2, <3>1 DEF Transcript
    <3> QED
      BY <1>3, <2>2, <3>1, <3>2
  <2> QED
    BY <2>3, <2>4
<1>7. \A j \in 1 .. Len(ui'.items) : ui'.items[j].of <= Sends'
  BY <1>3, <1>5
<1>8. \A j \in 1 .. Len(ui'.items) : \A i \in 1 .. j - 1 :
        /\ ui'.items[i].of <= ui'.items[j].of
        /\ ui'.items[j].kind = "user" => ui'.items[i].of < ui'.items[j].of
  BY <1>3, <1>6
<1> QED
  BY <1>7, <1>8 DEF Transcript

LEMMA TranscriptFrame ==
  ASSUME Transcript, ui'.items = ui.items, tuiTold'.sends = tuiTold.sends
  PROVE  Transcript'
BY DEF Transcript, Sends

LEMMA TranscriptStep ==
  ASSUME ScreenTypes, ScreenTypes', BusyIsTold, Transcript, [TuiNext]_tuiVars
  PROVE  Transcript'
<1>1. CASE TuiStart
  BY <1>1, TranscriptFrame, StartShape
<1>2. CASE TuiEnds \/ TuiAborted
  BY <1>2, TranscriptFrame, EndsShape
<1>3. CASE TakeCommand
  BY <1>3, TranscriptFrame, TakeShape
<1>4. CASE Prepare
  <2>1. /\ UNCHANGED ui
        /\ \/ tuiTold' = tuiTold
           \/ tuiTold' = [tuiTold EXCEPT !.turns =
                            Append(@, [send |-> agent.turn, opts |-> agent.opts])]
    BY <1>4, PrepareShape
  <2>2. tuiTold'.sends = tuiTold.sends
    BY <2>1 DEF ScreenTypes, ToldRow
  <2> QED
    BY <2>1, <2>2, TranscriptFrame
<1>5. CASE Think
  BY <1>5, TranscriptFrame, ThinkShape
<1>6. CASE CallTool
  BY <1>6, TranscriptFrame, CallShape
<1>7. CASE NoMoreCalls
  BY <1>7, TranscriptFrame, NoMoreShape
<1>8. CASE Resolve
  BY <1>8, TranscriptFrame, ResolveShape
<1>9. CASE ActTool
  BY <1>9, TranscriptFrame, ActShape
<1>10. CASE SaveTurn
  BY <1>10, TranscriptFrame, SaveShape
<1>11. CASE Drain
  <2>1. PICK m : m = toScreen[1]
    OBVIOUS
  <2>2. /\ ui.at = "draining" /\ UNCHANGED tuiTold /\ Len(toScreen) > 0
        /\ \/ ui'.items = ui.items
           \/ /\ m.kind \in {"turn", "tool"}
              /\ \E it \in ItemRow :
                   /\ it.kind # "user" /\ it.of = m.of /\ ui'.items = Append(ui.items, it)
    BY <1>11, <2>1, DrainShape
  <2>3. CASE ui'.items = ui.items
    BY <2>2, <2>3, TranscriptFrame
  <2>4. CASE m.kind \in {"turn", "tool"} /\ ui'.items # ui.items
    <3>1. PICK it \in ItemRow : /\ it.kind # "user" /\ it.of = m.of
                                /\ ui'.items = Append(ui.items, it)
      BY <2>2, <2>4
    <3>2. m.of = Sends
      <4>1. 1 \in 1 .. Len(toScreen) /\ Shows(1) /\ ~Left
        BY <2>1, <2>2, <2>4, LenProperties DEF Shows, Left, ScreenTypes
      <4> QED
        BY <2>1, <4>1 DEF BusyIsTold
    <3>3. Sends' = Sends /\ Sends' \in Nat /\ Sends <= Sends'
      BY <2>2, QueueIsTyped DEF Sends
    <3> QED
      BY <3>1, <3>2, <3>3, ItemAdded
  <2> QED
    BY <2>2, <2>3, <2>4
<1>12. CASE Draw \/ NoKey \/ QuitKey \/ Leave
  BY <1>12, TranscriptFrame, LoopShape DEF ScreenMoves
<1>13. CASE AnswerKey
  BY <1>13, TranscriptFrame, AnswerShape
<1>14. CASE SwitchKey
  BY <1>14, TranscriptFrame, SwitchShape
<1>15. CASE EnterKey
  <2>1. PICK n : n = Sends + 1
    OBVIOUS
  <2>2. PICK it : it = [kind |-> "user", of |-> n, text |-> << >>]
    OBVIOUS
  <2>3. PICK row : row = [send |-> n, opts |-> ui.opts]
    OBVIOUS
  <2>4. /\ ui'.items = Append(ui.items, it) /\ tuiTold'.sends = Append(tuiTold.sends, row)
    BY <1>15, <2>1, <2>2, <2>3, EnterShape
  <2>5. n \in Nat /\ Sends \in Nat /\ Sends < n /\ Sends <= n
    BY <2>1, QueueIsTyped
  <2>6. it \in ItemRow /\ it.of = n /\ row \in SendRow
    BY EmptyText, <2>2, <2>3, <2>5 DEF ItemRow, SendRow, ScreenTypes, UiRow
  <2>7. Sends' = n
    BY <2>1, <2>4, <2>6, QueueIsTyped, AppendProperties DEF Sends
  <2> QED
    BY <2>4, <2>5, <2>6, <2>7, ItemAdded
<1>16. CASE UNCHANGED tuiVars
  BY <1>16, TranscriptFrame DEF tuiVars
<1> QED
  BY <1>1, <1>2, <1>3, <1>4, <1>5, <1>6, <1>7, <1>8, <1>9, <1>10, <1>11, <1>12, <1>13, <1>14,
     <1>15, <1>16 DEF TuiNext

-----------------------------------------------------------------------------
(* Whose text an item holds. *)

LEMMA TextIsTyped ==
  ASSUME ScreenTypes
  PROVE  /\ \A k \in 1 .. Len(ui.streaming) : ui.streaming[k] \in Nat
         /\ \A i \in 1 .. Len(toScreen) :
              toScreen[i].kind \in {"delta", "turn"} => toScreen[i].of \in Nat
         /\ Len(toScreen) \in Nat /\ Len(ui.streaming) \in Nat /\ Sends \in Nat
<1>1. ui.streaming \in Seq(Nat) /\ toScreen \in Seq(WordRow \cup StatusRow) /\ Sends \in Nat
  BY QueueIsTyped DEF ScreenTypes, UiRow
<1>2. \A k \in 1 .. Len(ui.streaming) : ui.streaming[k] \in Nat
  BY <1>1, ElementOfSeq
<1>3. \A i \in 1 .. Len(toScreen) : toScreen[i] \in WordRow \cup StatusRow
  BY <1>1, ElementOfSeq
<1>4. \A i \in 1 .. Len(toScreen) :
        toScreen[i].kind \in {"delta", "turn"} => toScreen[i].of \in Nat
  BY <1>3 DEF WordRow, StatusRow
<1> QED
  BY <1>1, <1>2, <1>4, LenProperties

LEMMA EndStays ==
  ASSUME ScreenTypes, NEW K, Adds(K), NEW i, NEW n, EndAt(i, n)
  PROVE  EndAt(i, n)'
<1>1. Len(toScreen') \in Nat /\ Len(toScreen) \in Nat /\ Len(toScreen') >= Len(toScreen)
  BY TextIsTyped, LenProperties DEF Adds
<1>2. i \in 1 .. Len(toScreen) /\ toScreen[i].kind = "turn" /\ toScreen[i].of = n
  BY DEF EndAt
<1>3. i \in 1 .. Len(toScreen') /\ toScreen'[i] = toScreen[i]
  BY <1>1, <1>2 DEF Adds
<1> QED
  BY <1>2, <1>3 DEF EndAt

(* No text is told or ended, and none moves. *)
LEMMA TextFrame ==
  ASSUME ScreenTypes, TextFollows, NEW K, "delta" \notin K, Adds(K),
         ui'.at # "gone" => ui.at # "gone", ui'.streaming = ui.streaming,
         ui'.items = ui.items, unended' = unended, Sends' = Sends
  PROVE  TextFollows'
<1>1. StreamingFollows'
  <2> SUFFICES ASSUME ui'.at # "gone", NEW k \in 1 .. Len(ui.streaming)
               PROVE  ui.streaming[k] <= Sends /\ (ui.streaming[k] \in unended \/ EndAt(1, ui.streaming[k])')
    BY DEF StreamingFollows, EndAt
  <2>1. ui.streaming[k] <= Sends /\ (ui.streaming[k] \in unended \/ EndAt(1, ui.streaming[k]))
    BY DEF TextFollows, StreamingFollows
  <2> QED
    BY <2>1, EndStays
<1>2. DeltasFollow'
  <2> SUFFICES ASSUME NEW i \in 1 .. Len(toScreen'), toScreen'[i].kind = "delta"
               PROVE  /\ toScreen'[i].of <= Sends
                      /\ toScreen'[i].of \in unended \/ EndAt(i + 1, toScreen[i].of)'
                      /\ toScreen'[i] = toScreen[i]
    BY DEF DeltasFollow, EndAt
  <2>1. i \in 1 .. Len(toScreen) /\ toScreen'[i] = toScreen[i]
    BY TextIsTyped, LenProperties DEF Adds
  <2>2. toScreen[i].of <= Sends /\ (toScreen[i].of \in unended \/ EndAt(i + 1, toScreen[i].of))
    BY <2>1 DEF TextFollows, DeltasFollow
  <2> QED
    BY <2>1, <2>2, EndStays
<1>3. TextsStand'
  BY DEF TextFollows, TextsStand
<1> QED
  BY <1>1, <1>2, <1>3 DEF TextFollows

LEMMA TextStill ==
  ASSUME ScreenTypes, TextFollows, toScreen' = toScreen,
         ui'.at # "gone" => ui.at # "gone", ui'.streaming = ui.streaming,
         ui'.items = ui.items, unended' = unended, Sends' = Sends
  PROVE  TextFollows'
<1>1. Adds({"idle"}) /\ "delta" \notin {"idle"}
  BY AddsNone
<1> QED
  BY <1>1, TextFrame

(* A text comes with its turn's end, or its turn fails. *)
LEMMA TextThink ==
  ASSUME ScreenTypes, TurnsFollow, TextFollows, Think
  PROVE  TextFollows'
<1>1. /\ agent.at = "thinking" /\ UNCHANGED <<ui, tuiTold>> /\ Adds({"delta", "turn"})
      /\ Len(toScreen) \in Nat /\ Sends \in Nat /\ Sends' = Sends
  BY ThinkShape, TextIsTyped DEF Sends
<1>2. agent.turn = Sends
  BY <1>1 DEF TurnsFollow, AtWork
<1>3. PICK text \in {<< >>, <<Tell("delta")>>}, at \in {"choosing", "saving"} :
        /\ Post(IF at = "choosing" THEN Append(text, Tell("turn")) ELSE text)
        /\ unended' = IF at = "saving" /\ text # << >> THEN unended \cup {agent.turn} ELSE unended
  BY DEF Think
<1>4. unended \subseteq unended'
  BY <1>3
<1>5. PICK d, t : d = Tell("delta") /\ t = Tell("turn")
  OBVIOUS
<1>6. /\ d \in WordRow \cup StatusRow /\ d.kind = "delta" /\ d.of = Sends
      /\ t \in WordRow \cup StatusRow /\ t.kind = "turn" /\ t.of = Sends
  BY <1>2, <1>5, TellIsWord
<1>7. PICK msgs : msgs = IF at = "choosing" THEN Append(text, t) ELSE text
  OBVIOUS
<1>8. /\ text \in Seq(WordRow \cup StatusRow) /\ Len(text) \in {0, 1}
      /\ \A i \in 1 .. Len(text) : text[i] = d
      /\ at = "saving" /\ Len(text) = 1 => Sends \in unended'
  <2> DEFINE Message == WordRow \cup StatusRow
  <2>1. d \in Message /\ (text = << >> \/ text = <<d>>)
    BY <1>3, <1>5, <1>6
  <2> HIDE DEF Message
  <2>2. CASE text = << >>
    BY <2>2 DEF Message
  <2>3. CASE text = <<d>>
    <3>1. text \in Seq(Message) /\ Len(text) = 1 /\ text[1] = d
      BY <2>1, <2>3
    <3>2. text # << >>
      <4>1. Len(text) # Len(<< >>)
        BY <3>1, EmptySeq, Z3
      <4> QED
        BY <4>1, Zenon
    <3> QED
      BY <1>2, <1>3, <3>1, <3>2 DEF Message
  <2> QED
    BY <2>1, <2>2, <2>3
<1>9. /\ msgs \in Seq(WordRow \cup StatusRow) /\ Len(msgs) \in Nat
      /\ \A i \in 1 .. Len(msgs) : msgs[i].kind = "delta" =>
           /\ msgs[i].of = Sends
           /\ \/ Sends \in unended'
              \/ i + 1 \in 1 .. Len(msgs) /\ msgs[i + 1].kind = "turn" /\ msgs[i + 1].of = Sends
  <2>1. CASE at = "saving"
    BY <1>6, <1>7, <1>8, <2>1
  <2>2. CASE at = "choosing"
    <3>1. PICK n \in {0, 1} : n = Len(text)
      BY <1>8
    <3>2. /\ msgs \in Seq(WordRow \cup StatusRow) /\ Len(msgs) = n + 1
          /\ \A i \in 1 .. n : msgs[i] = text[i]
          /\ msgs[n + 1] = t
      BY <1>6, <1>7, <1>8, <2>2, <3>1, AppendProperties
    <3>3. ASSUME NEW i \in 1 .. n + 1, msgs[i].kind = "delta"
          PROVE  msgs[i].of = Sends /\ i + 1 = n + 1
      <4>1. i # n + 1
        BY <1>6, <3>2, <3>3
      <4>2. i \in 1 .. n /\ i + 1 = n + 1
        BY <3>1, <4>1
      <4> QED
        BY <1>6, <1>8, <3>1, <3>2, <4>2
    <3> QED
      BY <1>6, <3>1, <3>2, <3>3
  <2> QED
    BY <2>1, <2>2
<1>10. CASE ui.at = "gone"
  <2>1. toScreen' = toScreen /\ ui'.at = "gone"
    BY <1>1, <1>10 DEF Adds
  <2>2. StreamingFollows' /\ DeltasFollow'
    BY <1>1, <1>4, <2>1 DEF TextFollows, DeltasFollow, StreamingFollows, EndAt
  <2>3. TextsStand'
    BY <1>1, <1>4 DEF TextFollows, TextsStand
  <2> QED
    BY <2>2, <2>3 DEF TextFollows
<1>11. CASE ui.at # "gone"
  <2>1. toScreen' = toScreen \o msgs
    BY <1>3, <1>5, <1>7, <1>11 DEF Post
  <2>2. PICK n \in Nat : n = Len(toScreen)
    BY <1>1
  <2>3. /\ Len(toScreen') = n + Len(msgs)
        /\ \A i \in 1 .. n + Len(msgs) : toScreen'[i] = IF i <= n THEN toScreen[i] ELSE msgs[i - n]
    BY <1>9, <2>1, <2>2, ConcatProperties DEF ScreenTypes
  <2>4. DeltasFollow'
    <3> SUFFICES ASSUME NEW i \in 1 .. n + Len(msgs), NEW m, m = toScreen'[i], m.kind = "delta"
                 PROVE  m.of <= Sends /\ (m.of \in unended' \/ EndAt(i + 1, m.of)')
      BY <1>1, <2>3 DEF DeltasFollow, EndAt
    <3>1. CASE i <= n
      <4>1. i \in 1 .. Len(toScreen) /\ m = toScreen[i]
        BY <1>9, <2>2, <2>3, <3>1
      <4>2. m.of <= Sends /\ (m.of \in unended \/ EndAt(i + 1, m.of))
        BY <4>1 DEF TextFollows, DeltasFollow
      <4> QED
        BY <1>1, <1>4, <4>2, EndStays
    <3>2. CASE i > n
      <4>1. PICK k \in 1 .. Len(msgs) : k = i - n
        BY <1>9, <2>2, <3>2
      <4>2. m = msgs[k]
        BY <1>9, <2>2, <2>3, <3>2, <4>1
      <4>3. /\ m.of = Sends
            /\ \/ Sends \in unended'
               \/ k + 1 \in 1 .. Len(msgs) /\ msgs[k + 1].kind = "turn" /\ msgs[k + 1].of = Sends
        BY <1>9, <4>1, <4>2
      <4>4. CASE k + 1 \in 1 .. Len(msgs) /\ msgs[k + 1].kind = "turn" /\ msgs[k + 1].of = Sends
        <5>1. i + 1 \in 1 .. n + Len(msgs) /\ i + 1 - n = k + 1 /\ ~(i + 1 <= n)
          BY <1>9, <2>2, <3>2, <4>1, <4>4
        <5>2. toScreen'[i + 1] = msgs[k + 1]
          BY <2>3, <5>1
        <5>3. EndAt(i + 1, Sends)'
          BY <1>1, <2>3, <4>4, <5>1, <5>2 DEF EndAt
        <5> QED
          BY <1>1, <4>3, <5>3 DEF EndAt
      <4> QED
        BY <1>1, <4>3, <4>4
    <3> QED
      BY <2>2, <3>1, <3>2
  <2>5. StreamingFollows'
    <3> SUFFICES ASSUME NEW k \in 1 .. Len(ui.streaming)
                 PROVE  /\ ui.streaming[k] <= Sends
                        /\ ui.streaming[k] \in unended' \/ EndAt(1, ui.streaming[k])'
      BY <1>1 DEF StreamingFollows, EndAt
    <3>1. ui.streaming[k] <= Sends /\ (ui.streaming[k] \in unended \/ EndAt(1, ui.streaming[k]))
      BY <1>11 DEF TextFollows, StreamingFollows
    <3> QED
      BY <1>1, <1>4, <3>1, EndStays
  <2>6. TextsStand'
    BY <1>1, <1>4 DEF TextFollows, TextsStand
  <2> QED
    BY <2>4, <2>5, <2>6 DEF TextFollows
<1> QED
  BY <1>10, <1>11

(* An item is added that holds text of its own turn, or what is left.      *)
LEMMA TextItem ==
  ASSUME ScreenTypes, TextsStand, NEW it \in ItemRow, ui'.items = Append(ui.items, it),
         unended' = unended,
         \A k \in 1 .. Len(it.text) : \/ it.text[k] = it.of
                                      \/ it.text[k] < it.of /\ it.text[k] \in unended
  PROVE  TextsStand'
<1>1. ui.items \in Seq(ItemRow) /\ Len(ui.items) \in Nat
  BY LenProperties DEF ScreenTypes, UiRow
<1>2. PICK n \in Nat : n = Len(ui.items)
  BY <1>1
<1>3. /\ Len(ui'.items) = n + 1 /\ ui'.items[n + 1] = it
      /\ \A j \in 1 .. n : ui'.items[j] = ui.items[j]
  BY <1>1, <1>2, AppendProperties
<1> SUFFICES ASSUME NEW j \in 1 .. n + 1, NEW x, x = ui'.items[j], NEW k \in 1 .. Len(x.text)
             PROVE  x.text[k] = x.of \/ (x.text[k] < x.of /\ x.text[k] \in unended)
  BY <1>3 DEF TextsStand
<1>4. CASE j = n + 1
  BY <1>3, <1>4
<1>5. CASE j # n + 1
  <2>1. j \in 1 .. Len(ui.items) /\ x = ui.items[j]
    BY <1>2, <1>3, <1>5
  <2> QED
    BY <2>1 DEF TextsStand
<1> QED
  BY <1>4, <1>5

(* A text is shown, or ended, or something else is. *)
LEMMA TextDrain ==
  ASSUME ScreenTypes, BusyIsTold, TextFollows, Drain
  PROVE  TextFollows'
<1>1. PICK m : m = toScreen[1]
  OBVIOUS
<1>2. /\ ui.at = "draining" /\ ui'.at = "draining" /\ Len(toScreen) > 0
      /\ toScreen' = Tail(toScreen) /\ UNCHANGED tuiTold
      /\ \/ ui'.items = ui.items
         \/ /\ m.kind \in {"turn", "tool"}
            /\ \E it \in ItemRow :
                 /\ it.kind # "user" /\ it.of = m.of /\ ui'.items = Append(ui.items, it)
                 /\ it.text = IF m.kind = "turn" THEN ui.streaming ELSE << >>
      /\ ui'.streaming = IF m.kind = "delta" THEN Append(ui.streaming, m.of)
                         ELSE IF m.kind = "turn" THEN << >> ELSE ui.streaming
  BY <1>1, DrainShape
<1>3. unended' = unended /\ Sends' = Sends
  BY <1>2 DEF Drain, Sends
<1>4. /\ Len(toScreen) \in Nat /\ 1 \in 1 .. Len(toScreen) /\ Len(toScreen') = Len(toScreen) - 1
      /\ \A i \in 1 .. Len(toScreen') : i + 1 \in 1 .. Len(toScreen) /\ toScreen'[i] = toScreen[i + 1]
      /\ \A i \in 2 .. Len(toScreen) : i - 1 \in 1 .. Len(toScreen') /\ toScreen'[i - 1] = toScreen[i]
  BY <1>2, Drained
<1>5. \A k \in 1 .. Len(ui.streaming) :
        /\ ui.streaming[k] \in Nat /\ ui.streaming[k] <= Sends
        /\ ui.streaming[k] \in unended \/ (m.kind = "turn" /\ ui.streaming[k] = m.of)
  BY <1>1, <1>2, TextIsTyped DEF TextFollows, StreamingFollows, EndAt
<1>6. ASSUME NEW i \in 1 .. Len(toScreen'), NEW n, EndAt(i + 1, n) PROVE EndAt(i, n)'
  BY <1>4, <1>6 DEF EndAt
<1>7. DeltasFollow'
  <2> SUFFICES ASSUME NEW i \in 1 .. Len(toScreen'), NEW x, x = toScreen'[i], x.kind = "delta"
               PROVE  x.of <= Sends /\ (x.of \in unended \/ EndAt(i + 1, x.of)')
    BY <1>3 DEF DeltasFollow, EndAt
  <2>1. PICK k \in 1 .. Len(toScreen) : k = i + 1 /\ x = toScreen[k]
    BY <1>4
  <2>2. x.of <= Sends /\ (x.of \in unended \/ EndAt(k + 1, x.of))
    BY <2>1 DEF TextFollows, DeltasFollow
  <2>3. CASE EndAt(k + 1, x.of)
    <3>1. k + 1 \in 2 .. Len(toScreen) /\ toScreen[k + 1].kind = "turn" /\ toScreen[k + 1].of = x.of
      BY <1>4, <2>1, <2>3 DEF EndAt
    <3>2. PICK j : j = k + 1
      OBVIOUS
    <3>3. j - 1 \in 1 .. Len(toScreen') /\ toScreen'[j - 1] = toScreen[j] /\ j - 1 = i + 1
      BY <1>4, <2>1, <3>1, <3>2
    <3> QED
      BY <2>2, <3>1, <3>2, <3>3 DEF EndAt
  <2> QED
    BY <2>2, <2>3
<1>8. StreamingFollows'
  <2>1. CASE m.kind = "delta"
    <3>1. ui.streaming \in Seq(Nat) /\ Len(ui.streaming) \in Nat /\ m.of \in Nat
      BY <1>1, <1>4, <2>1, TextIsTyped DEF ScreenTypes, UiRow
    <3>2. PICK n \in Nat : n = Len(ui.streaming)
      BY <3>1
    <3>3. /\ Len(ui'.streaming) = n + 1 /\ ui'.streaming[n + 1] = m.of
          /\ \A k \in 1 .. n : ui'.streaming[k] = ui.streaming[k]
      BY <1>2, <2>1, <3>1, <3>2, AppendProperties
    <3>4. m.of <= Sends /\ (m.of \in unended \/ EndAt(2, m.of))
      BY <1>1, <1>4, <2>1 DEF TextFollows, DeltasFollow
    <3>5. EndAt(2, m.of) => EndAt(1, m.of)'
      <4> SUFFICES ASSUME EndAt(2, m.of) PROVE EndAt(1, m.of)'
        OBVIOUS
      <4>1. 2 \in 2 .. Len(toScreen) /\ toScreen[2].kind = "turn" /\ toScreen[2].of = m.of
        BY <1>4 DEF EndAt
      <4>2. 1 \in 1 .. Len(toScreen') /\ toScreen'[1] = toScreen[2]
        BY <1>4, <4>1
      <4> QED
        BY <4>1, <4>2 DEF EndAt
    <3> SUFFICES ASSUME NEW k \in 1 .. n + 1, NEW x, x = ui'.streaming[k]
                 PROVE  x <= Sends /\ (x \in unended \/ EndAt(1, x)')
      BY <1>3, <3>3 DEF StreamingFollows, EndAt
    <3>6. CASE k = n + 1
      BY <3>3, <3>4, <3>5, <3>6
    <3>7. CASE k # n + 1
      <4>1. k \in 1 .. Len(ui.streaming) /\ x = ui.streaming[k]
        BY <3>2, <3>3, <3>7
      <4> QED
        BY <1>5, <2>1, <4>1
    <3> QED
      BY <3>6, <3>7
  <2>2. CASE m.kind = "turn"
    BY <1>2, <2>2 DEF StreamingFollows
  <2>3. CASE m.kind \notin {"delta", "turn"}
    BY <1>2, <1>3, <1>5, <2>3 DEF StreamingFollows
  <2> QED
    BY <2>1, <2>2, <2>3
<1>9. TextsStand'
  <2>1. CASE ui'.items = ui.items
    BY <1>3, <2>1 DEF TextFollows, TextsStand
  <2>2. CASE ui'.items # ui.items
    <3>1. PICK it \in ItemRow :
            /\ it.of = m.of /\ ui'.items = Append(ui.items, it) /\ m.kind \in {"turn", "tool"}
            /\ it.text = IF m.kind = "turn" THEN ui.streaming ELSE << >>
      BY <1>2, <2>2
    <3>2. m.of = Sends
      <4>1. Shows(1) /\ ~Left
        BY <1>1, <1>2, <3>1 DEF Shows, Left
      <4> QED
        BY <1>1, <1>4, <4>1 DEF BusyIsTold
    <3>3. ASSUME NEW k \in 1 .. Len(it.text)
          PROVE  it.text[k] = it.of \/ (it.text[k] < it.of /\ it.text[k] \in unended)
      <4>1. CASE m.kind = "turn"
        <5>1. it.text = ui.streaming /\ it.of = Sends /\ Sends \in Nat
          BY <3>1, <3>2, <4>1, TextIsTyped
        <5>2. /\ it.text[k] \in Nat /\ it.text[k] <= Sends
              /\ it.text[k] \in unended \/ it.text[k] = Sends
          BY <1>5, <3>2, <5>1
        <5> QED
          BY <5>1, <5>2
      <4>2. CASE m.kind # "turn"
        BY <3>1, <4>2
      <4> QED
        BY <4>1, <4>2
    <3> QED
      BY <1>3, <3>1, <3>3, TextItem DEF TextFollows
  <2> QED
    BY <2>1, <2>2
<1> QED
  BY <1>7, <1>8, <1>9 DEF TextFollows

LEMMA TextEnter ==
  ASSUME ScreenTypes, TextFollows, EnterKey
  PROVE  TextFollows'
<1>1. PICK n : n = Sends + 1
  OBVIOUS
<1>2. PICK it : it = [kind |-> "user", of |-> n, text |-> << >>]
  OBVIOUS
<1>3. PICK row : row = [send |-> n, opts |-> ui.opts]
  OBVIOUS
<1>4. /\ ~Left /\ ui'.at # "gone" /\ toScreen' = toScreen /\ ui'.items = Append(ui.items, it)
      /\ ui'.streaming = ui.streaming /\ tuiTold'.sends = Append(tuiTold.sends, row)
  BY <1>1, <1>2, <1>3, EnterShape
<1>5. unended' = unended
  BY DEF EnterKey, Sending
<1>6. n \in Nat /\ Sends \in Nat /\ it \in ItemRow /\ row \in SendRow
  <2>1. n \in Nat /\ Sends \in Nat
    BY <1>1, QueueIsTyped
  <2>2. it \in ItemRow
    BY <1>2, <2>1, EmptyText DEF ItemRow
  <2>3. row \in SendRow
    BY <1>3, <2>1 DEF SendRow, ScreenTypes, UiRow
  <2> QED
    BY <2>1, <2>2, <2>3
<1>7. Sends' = n
  BY <1>1, <1>4, <1>6, QueueIsTyped, AppendProperties DEF Sends
<1>8. \A k \in Nat : k <= Sends => k <= Sends'
  BY <1>1, <1>6, <1>7
<1>9. StreamingFollows'
  <2>1. ui.at # "gone"
    BY <1>4 DEF Left
  <2> QED
    BY <1>4, <1>5, <1>8, <2>1, TextIsTyped DEF TextFollows, StreamingFollows, EndAt
<1>10. DeltasFollow'
  BY <1>4, <1>5, <1>8, TextIsTyped DEF TextFollows, DeltasFollow, EndAt
<1>11. TextsStand'
  <2>1. \A k \in 1 .. Len(it.text) : FALSE
    BY <1>2
  <2> QED
    BY <1>4, <1>5, <1>6, <2>1, TextItem DEF TextFollows
<1> QED
  BY <1>9, <1>10, <1>11 DEF TextFollows

LEMMA TextStep ==
  ASSUME ScreenTypes, TurnsFollow, BusyIsTold, TextFollows, [TuiNext]_tuiVars
  PROVE  TextFollows'
<1>1. CASE TuiStart
  <2>1. /\ UNCHANGED <<ui, tuiTold, unended>>
        /\ Adds({"fatal"})
    BY <1>1, StartShape, AddsNone DEF TuiStart
  <2> QED
    BY <2>1, TextFrame DEF Sends
<1>2. CASE TuiEnds \/ TuiAborted
  <2>1. UNCHANGED <<ui, toScreen, tuiTold, unended>>
    BY <1>2 DEF TuiEnds, TuiAborted
  <2> QED
    BY <2>1, TextStill DEF Sends
<1>3. CASE TakeCommand
  <2>1. UNCHANGED <<ui, tuiTold, unended>>
    BY <1>3 DEF TakeCommand
  <2>2. Adds({"status"})
    BY <1>3, TakeShape, AddsNone
  <2> QED
    BY <2>1, <2>2, TextFrame DEF Sends
<1>4. CASE Prepare
  <2>1. /\ UNCHANGED <<ui, unended>> /\ Adds({"fatal"})
        /\ \/ tuiTold' = tuiTold
           \/ tuiTold' = [tuiTold EXCEPT !.turns =
                            Append(@, [send |-> agent.turn, opts |-> agent.opts])]
    BY <1>4, PrepareShape, AddsNone DEF Prepare
  <2>2. tuiTold'.sends = tuiTold.sends
    BY <2>1 DEF ScreenTypes, ToldRow
  <2> QED
    BY <2>1, <2>2, TextFrame DEF Sends
<1>5. CASE Think
  BY <1>5, TextThink
<1>6. CASE CallTool
  <2>1. UNCHANGED <<ui, tuiTold, unended>>
    BY <1>6 DEF CallTool
  <2>2. Adds({"tool"}) \/ Adds({"ask"})
    BY <1>6, CallShape, AddsNone
  <2> QED
    BY <2>1, <2>2, TextFrame DEF Sends
<1>7. CASE NoMoreCalls
  <2>1. UNCHANGED <<ui, toScreen, tuiTold, unended>>
    BY <1>7 DEF NoMoreCalls
  <2> QED
    BY <2>1, TextStill DEF Sends
<1>8. CASE Resolve
  <2>1. UNCHANGED <<ui, tuiTold, unended>>
    BY <1>8 DEF Resolve
  <2>2. Adds({"tool"})
    BY <1>8, ResolveShape, AddsNone
  <2> QED
    BY <2>1, <2>2, TextFrame DEF Sends
<1>9. CASE ActTool
  <2>1. UNCHANGED <<ui, unended>> /\ tuiTold' = [tuiTold EXCEPT !.ran = @ \cup ({agent.ask} \ {0})]
    BY <1>9 DEF ActTool
  <2>2. tuiTold'.sends = tuiTold.sends
    BY <2>1 DEF ScreenTypes, ToldRow
  <2>3. Adds({"tool"})
    BY <1>9, ActShape
  <2> QED
    BY <2>1, <2>2, <2>3, TextFrame DEF Sends
<1>10. CASE SaveTurn
  <2>1. UNCHANGED <<ui, tuiTold, unended>>
    BY <1>10 DEF SaveTurn
  <2>2. Adds({"idle"})
    BY <1>10, SaveShape
  <2> QED
    BY <2>1, <2>2, TextFrame DEF Sends
<1>11. CASE Drain
  BY <1>11, TextDrain
<1>12. CASE Draw \/ NoKey \/ QuitKey
  <2>1. UNCHANGED <<toScreen, tuiTold, unended>>
    BY <1>12 DEF Draw, NoKey, QuitKey
  <2>2. /\ ui'.streaming = ui.streaming /\ ui'.items = ui.items
        /\ ui.at # "gone"
    BY <1>12, LoopShape DEF ScreenMoves, Draw, NoKey, QuitKey
  <2> QED
    BY <2>1, <2>2, TextStill DEF Sends
<1>13. CASE Leave
  <2>1. UNCHANGED <<tuiTold, unended>> /\ toScreen' = << >>
    BY <1>13 DEF Leave
  <2>2. ui'.at = "gone" /\ ui'.items = ui.items
    BY <1>13, LoopShape DEF ScreenMoves, Draw, NoKey, QuitKey, Leave, Left
  <2> QED
    BY <2>1, <2>2 DEF TextFollows, StreamingFollows, DeltasFollow, TextsStand
<1>14. CASE AnswerKey
  <2>1. UNCHANGED <<toScreen, unended>> /\ ui.at # "gone"
    BY <1>14 DEF AnswerKey
  <2>2. ui'.streaming = ui.streaming /\ ui'.items = ui.items /\ tuiTold'.sends = tuiTold.sends
    BY <1>14, AnswerShape
  <2> QED
    BY <2>1, <2>2, TextStill DEF Sends
<1>15. CASE SwitchKey
  <2>1. UNCHANGED <<toScreen, tuiTold, unended>> /\ ui.at # "gone"
    BY <1>15 DEF SwitchKey
  <2>2. ui'.streaming = ui.streaming /\ ui'.items = ui.items
    BY <1>15, SwitchShape
  <2> QED
    BY <2>1, <2>2, TextStill DEF Sends
<1>16. CASE EnterKey
  BY <1>16, TextEnter
<1>17. CASE UNCHANGED tuiVars
  <2>1. UNCHANGED <<ui, toScreen, tuiTold, unended>>
    BY <1>17 DEF tuiVars
  <2> QED
    BY <2>1, TextStill DEF Sends
<1> QED
  BY <1>1, <1>2, <1>3, <1>4, <1>5, <1>6, <1>7, <1>8, <1>9, <1>10, <1>11, <1>12, <1>13, <1>14,
     <1>15, <1>16, <1>17 DEF TuiNext

-----------------------------------------------------------------------------
(* Nothing of the options moves. *)
LEMMA StatusFrame ==
  ASSUME ScreenTypes, StatusFollows, Running' => Running, ~Left' => ~Left,
         UNCHANGED toAgent, agent'.opts = agent.opts, ui'.status = ui.status,
         NEW K, Adds(K), "status" \notin K
  PROVE  StatusFollows'
<1> SUFFICES ASSUME Running', ~Left' PROVE StatusFollows'
  BY DEF StatusFollows
<1>0. Len(toScreen) \in Nat /\ Len(toScreen') \in Nat /\ Running /\ ~Left
  BY LenProperties DEF ScreenTypes, Adds
<1>1. \A i \in 1 .. Len(toScreen) : i \in 1 .. Len(toScreen') /\ toScreen'[i] = toScreen[i]
  BY <1>0 DEF Adds
<1>2. \A i \in 1 .. Len(toScreen') : toScreen'[i].kind = "status" =>
        i \in 1 .. Len(toScreen) /\ toScreen'[i] = toScreen[i]
  BY OldOrNew
<1>3. CASE \E i \in 1 .. Len(toAgent) : toAgent[i].kind # "send"
  BY <1>3 DEF StatusFollows
<1>4. CASE \E i \in 1 .. Len(toScreen) :
             /\ toScreen[i].kind = "status" /\ toScreen[i].opts = agent.opts
             /\ \A j \in 1 .. Len(toScreen) : toScreen[j].kind = "status" => j <= i
  <2>1. PICK i \in 1 .. Len(toScreen) :
          /\ toScreen[i].kind = "status" /\ toScreen[i].opts = agent.opts
          /\ \A j \in 1 .. Len(toScreen) : toScreen[j].kind = "status" => j <= i
    BY <1>4
  <2>2. /\ i \in 1 .. Len(toScreen') /\ toScreen'[i].kind = "status"
        /\ toScreen'[i].opts = agent'.opts
        /\ \A j \in 1 .. Len(toScreen') : toScreen'[j].kind = "status" => j <= i
    BY <1>1, <1>2, <2>1
  <2> QED
    BY <2>2 DEF StatusFollows
<1>5. CASE /\ \A i \in 1 .. Len(toScreen) : toScreen[i].kind # "status"
           /\ ui.status = agent.opts
  <2>1. \A i \in 1 .. Len(toScreen') : toScreen'[i].kind # "status"
    BY <1>2, <1>5
  <2> QED
    BY <1>5, <2>1 DEF StatusFollows
<1> QED
  BY <1>0, <1>3, <1>4, <1>5 DEF StatusFollows

LEMMA StatusTake ==
  ASSUME ScreenTypes, StatusFollows, TakeCommand
  PROVE  StatusFollows'
<1>1. PICK cmd : cmd = toAgent[1]
  OBVIOUS
<1>2. /\ agent.at = "reading" /\ UNCHANGED <<ui, tuiTold>>
      /\ Len(toAgent) > 0 /\ toAgent' = Tail(toAgent)
      /\ \/ cmd.kind = "send" /\ agent'.opts = agent.opts /\ toScreen' = toScreen
         \/ /\ cmd.kind # "send" /\ Adds({"status"})
            /\ ui.at # "gone" => /\ Len(toScreen') = Len(toScreen) + 1
                                  /\ toScreen'[Len(toScreen) + 1].kind = "status"
                                  /\ toScreen'[Len(toScreen) + 1].opts = agent'.opts
  BY <1>1, TakeShape
<1>3. /\ Len(toAgent) \in Nat
      /\ \A i \in 2 .. Len(toAgent) : i - 1 \in 1 .. Len(toAgent') /\ toAgent'[i - 1] = toAgent[i]
  BY <1>2, Taken
<1>4. CASE Left
  BY <1>2, <1>4, LeftIsFree DEF Left
<1>5. CASE ~Left /\ cmd.kind = "send"
  <2>1. agent'.opts = agent.opts /\ toScreen' = toScreen /\ Running
    BY <1>2, <1>5 DEF Running
  <2>2. CASE \E i \in 1 .. Len(toAgent) : toAgent[i].kind # "send"
    <3>1. PICK i \in 2 .. Len(toAgent) : toAgent[i].kind # "send"
      BY <1>1, <1>3, <1>5, <2>2
    <3>2. i - 1 \in 1 .. Len(toAgent') /\ toAgent'[i - 1] = toAgent[i]
      BY <1>3
    <3>3. \E k \in 1 .. Len(toAgent') : toAgent'[k].kind # "send"
      BY <3>1, <3>2
    <3> QED
      BY <3>3 DEF StatusFollows
  <2>3. CASE ~ \E i \in 1 .. Len(toAgent) : toAgent[i].kind # "send"
    BY <1>2, <1>5, <2>1, <2>3 DEF StatusFollows
  <2> QED
    BY <2>2, <2>3
<1>6. CASE ~Left /\ cmd.kind # "send"
  <2>1. /\ Len(toScreen') = Len(toScreen) + 1 /\ Len(toScreen) \in Nat
        /\ toScreen'[Len(toScreen) + 1].kind = "status"
        /\ toScreen'[Len(toScreen) + 1].opts = agent'.opts
    BY <1>2, <1>6, LenProperties DEF Left, ScreenTypes
  <2>2. PICK n \in 1 .. Len(toScreen') : n = Len(toScreen) + 1
    BY <2>1
  <2>3. /\ toScreen'[n].kind = "status" /\ toScreen'[n].opts = agent'.opts
        /\ \A j \in 1 .. Len(toScreen') : toScreen'[j].kind = "status" => j <= n
    BY <2>1, <2>2
  <2> QED
    BY <2>3 DEF StatusFollows
<1> QED
  BY <1>4, <1>5, <1>6

LEMMA StatusDrain ==
  ASSUME ScreenTypes, StatusFollows, Drain
  PROVE  StatusFollows'
<1>1. PICK m : m = toScreen[1]
  OBVIOUS
<1>2. /\ ui.at = "draining" /\ UNCHANGED <<agent, toAgent, tuiTold>>
      /\ Len(toScreen) > 0 /\ toScreen' = Tail(toScreen)
      /\ ui'.status = IF m.kind = "status" THEN m.opts ELSE ui.status
  BY <1>1, DrainShape
<1>3. /\ Len(toScreen') = Len(toScreen) - 1 /\ Len(toScreen) \in Nat
      /\ \A i \in 1 .. Len(toScreen') : i + 1 \in 1 .. Len(toScreen) /\ toScreen'[i] = toScreen[i + 1]
      /\ \A i \in 2 .. Len(toScreen) : i - 1 \in 1 .. Len(toScreen') /\ toScreen'[i - 1] = toScreen[i]
  BY <1>2, Drained
<1> SUFFICES ASSUME Running' PROVE StatusFollows'
  BY DEF StatusFollows
<1>4. Running /\ ~Left
  BY <1>2 DEF Running, Left
<1>5. CASE \E i \in 1 .. Len(toAgent) : toAgent[i].kind # "send"
  BY <1>2, <1>5 DEF StatusFollows
<1>6. CASE \E i \in 1 .. Len(toScreen) :
             /\ toScreen[i].kind = "status" /\ toScreen[i].opts = agent.opts
             /\ \A j \in 1 .. Len(toScreen) : toScreen[j].kind = "status" => j <= i
  <2>1. PICK i \in 1 .. Len(toScreen) :
          /\ toScreen[i].kind = "status" /\ toScreen[i].opts = agent.opts
          /\ \A j \in 1 .. Len(toScreen) : toScreen[j].kind = "status" => j <= i
    BY <1>6
  <2>2. CASE i = 1
    <3>1. ui'.status = agent'.opts
      BY <1>1, <1>2, <2>1, <2>2
    <3>2. \A j \in 1 .. Len(toScreen') : toScreen'[j].kind # "status"
      <4> SUFFICES ASSUME NEW j \in 1 .. Len(toScreen') PROVE toScreen'[j].kind # "status"
        OBVIOUS
      <4>1. PICK k \in 1 .. Len(toScreen) : k = j + 1 /\ toScreen'[j] = toScreen[k]
        BY <1>3
      <4>2. ~(k <= i)
        BY <1>3, <2>2, <4>1
      <4> QED
        BY <2>1, <4>1, <4>2
    <3> QED
      BY <3>1, <3>2 DEF StatusFollows
  <2>3. CASE i # 1
    <3>1. PICK k \in 1 .. Len(toScreen') : k = i - 1 /\ toScreen'[k] = toScreen[i]
      BY <1>3, <2>1, <2>3
    <3>2. \A j \in 1 .. Len(toScreen') : toScreen'[j].kind = "status" => j <= k
      <4> SUFFICES ASSUME NEW j \in 1 .. Len(toScreen'), toScreen'[j].kind = "status" PROVE j <= k
        OBVIOUS
      <4>1. PICK l \in 1 .. Len(toScreen) : l = j + 1 /\ toScreen'[j] = toScreen[l]
        BY <1>3
      <4>2. l <= i
        BY <2>1, <4>1
      <4> QED
        BY <1>3, <3>1, <4>1, <4>2
    <3>3. toScreen'[k].kind = "status" /\ toScreen'[k].opts = agent'.opts
      BY <1>2, <2>1, <3>1
    <3> QED
      BY <3>2, <3>3 DEF StatusFollows
  <2> QED
    BY <2>2, <2>3
<1>7. CASE /\ \A i \in 1 .. Len(toScreen) : toScreen[i].kind # "status"
           /\ ui.status = agent.opts
  <2>1. \A j \in 1 .. Len(toScreen') : toScreen'[j].kind # "status"
    BY <1>3, <1>7
  <2>2. m.kind # "status"
    BY <1>1, <1>2, <1>3, <1>7
  <2> QED
    BY <1>2, <1>7, <2>1, <2>2 DEF StatusFollows
<1> QED
  BY <1>4, <1>5, <1>6, <1>7 DEF StatusFollows

(* A command joins the queue. *)
LEMMA StatusAdded ==
  ASSUME ScreenTypes, StatusFollows, ~Left, NEW cmd \in CommandRow, UNCHANGED <<agent, toScreen>>,
         cmd.kind = "send" => ui'.status = ui.status,
         \/ Left'
         \/ toAgent' = Append(toAgent, cmd)
  PROVE  StatusFollows'
<1>1. CASE Left'
  BY <1>1, LeftIsFree
<1>2. CASE toAgent' = Append(toAgent, cmd)
  <2>1. /\ Len(toAgent') = Len(toAgent) + 1 /\ toAgent'[Len(toAgent) + 1] = cmd
        /\ \A i \in 1 .. Len(toAgent) : toAgent'[i] = toAgent[i]
        /\ Len(toAgent) \in Nat /\ (Running' <=> Running)
    BY <1>2, AddedCommand, QueueIsTyped DEF Running
  <2>2. CASE cmd.kind # "send"
    <3>1. PICK n \in 1 .. Len(toAgent') : n = Len(toAgent) + 1
      BY <2>1
    <3>2. toAgent'[n].kind # "send"
      BY <2>1, <2>2, <3>1
    <3> QED
      BY <3>2 DEF StatusFollows
  <2>3. CASE cmd.kind = "send"
    <3>1. (\E i \in 1 .. Len(toAgent) : toAgent[i].kind # "send")
            => \E i \in 1 .. Len(toAgent') : toAgent'[i].kind # "send"
      <4> SUFFICES ASSUME NEW i \in 1 .. Len(toAgent), toAgent[i].kind # "send"
                   PROVE  \E k \in 1 .. Len(toAgent') : toAgent'[k].kind # "send"
        OBVIOUS
      <4>1. i \in 1 .. Len(toAgent') /\ toAgent'[i].kind # "send"
        BY <2>1
      <4> QED
        BY <4>1
    <3> QED
      BY <2>1, <2>3, <3>1 DEF StatusFollows
  <2> QED
    BY <2>2, <2>3
<1> QED
  BY <1>1, <1>2

LEMMA StatusStep ==
  ASSUME ScreenTypes, ConsentIsPassed, StatusFollows, [TuiNext]_tuiVars
  PROVE  StatusFollows'
<1>0. "status" \notin {"fatal"} /\ "status" \notin {"tool"} /\ "status" \notin {"ask"}
      /\ "status" \notin {"idle"} /\ "status" \notin {"delta", "turn"} /\ "status" \notin {}
  OBVIOUS
<1>1. CASE TuiStart
  <2>1. /\ Running /\ UNCHANGED <<ui, toAgent>> /\ agent'.opts = agent.opts
        /\ Adds({}) \/ Adds({"fatal"})
    BY <1>1, StartShape, AddsNone DEF AgentMoves, Running
  <2> QED
    BY <1>0, <2>1, StatusFrame DEF Left
<1>2. CASE TuiEnds \/ TuiAborted
  <2>1. ~Running'
    BY <1>2, EndsShape DEF AgentMoves, Running
  <2> QED
    BY <2>1 DEF StatusFollows
<1>3. CASE TakeCommand
  BY <1>3, StatusTake
<1>4. CASE Prepare
  <2>1. /\ Running /\ UNCHANGED <<ui, toAgent>> /\ agent'.opts = agent.opts
        /\ Adds({}) \/ Adds({"fatal"})
    BY <1>4, PrepareShape, AddsNone DEF AgentMoves, Running
  <2> QED
    BY <1>0, <2>1, StatusFrame DEF Left
<1>5. CASE Think
  <2>1. /\ Running /\ UNCHANGED <<ui, toAgent>> /\ agent'.opts = agent.opts
        /\ Adds({"delta", "turn"})
    BY <1>5, ThinkShape DEF Running
  <2> QED
    BY <1>0, <2>1, StatusFrame DEF Left
<1>6. CASE CallTool
  <2>1. /\ Running /\ UNCHANGED <<ui, toAgent>> /\ agent'.opts = agent.opts
        /\ Adds({}) \/ Adds({"tool"}) \/ Adds({"ask"})
    BY <1>6, CallShape, AddsNone DEF Running
  <2> QED
    BY <1>0, <2>1, StatusFrame DEF Left
<1>7. CASE NoMoreCalls
  <2>1. /\ Running /\ UNCHANGED <<ui, toAgent>> /\ agent'.opts = agent.opts /\ Adds({})
    BY <1>7, NoMoreShape, AddsNone DEF AgentMoves, Running
  <2> QED
    BY <1>0, <2>1, StatusFrame DEF Left
<1>8. CASE Resolve
  <2>1. /\ Running /\ UNCHANGED <<ui, toAgent>> /\ agent'.opts = agent.opts
        /\ Adds({}) \/ Adds({"tool"})
    BY <1>8, ResolveShape, AddsNone DEF AgentMoves, Running
  <2> QED
    BY <1>0, <2>1, StatusFrame DEF Left
<1>9. CASE ActTool
  <2>1. /\ Running /\ UNCHANGED <<ui, toAgent>> /\ agent'.opts = agent.opts /\ Adds({"tool"})
    BY <1>9, ActShape DEF AgentMoves, Running
  <2> QED
    BY <1>0, <2>1, StatusFrame DEF Left
<1>10. CASE SaveTurn
  <2>1. /\ Running /\ UNCHANGED <<ui, toAgent>> /\ agent'.opts = agent.opts /\ Adds({"idle"})
    BY <1>10, SaveShape DEF AgentMoves, Running
  <2> QED
    BY <1>0, <2>1, StatusFrame DEF Left
<1>11. CASE Drain
  BY <1>11, StatusDrain
<1>12. CASE Draw \/ NoKey \/ QuitKey \/ Leave
  <2>1. CASE Left'
    BY <2>1, LeftIsFree
  <2>2. CASE ~Left'
    <3>1. /\ UNCHANGED <<agent, toAgent, toScreen>> /\ ui'.status = ui.status
          /\ ~Left
      BY <1>12, <2>2, LoopShape DEF ScreenMoves, Left
    <3>2. Adds({}) /\ (Running' => Running)
      BY <3>1, AddsNone DEF Running
    <3> QED
      BY <1>0, <3>1, <3>2, StatusFrame
  <2> QED
    BY <2>1, <2>2
<1>13. CASE AnswerKey
  <2>1. /\ UNCHANGED <<agent, toScreen, toAgent>> /\ ui'.status = ui.status /\ ui.at = "keys"
    BY <1>13, AnswerShape DEF AnswerKey
  <2>2. Adds({}) /\ (Running' => Running) /\ ~Left
    BY <2>1, AddsNone DEF Running, Left
  <2> QED
    BY <1>0, <2>1, <2>2, StatusFrame
<1>14. CASE SwitchKey
  <2>1. PICK cmd \in CommandRow :
          /\ cmd.kind # "send" /\ ~Left /\ UNCHANGED <<agent, toScreen>>
          /\ ui'.at = (IF Reads THEN "draining" ELSE "quit")
          /\ toAgent' = IF Reads THEN Append(toAgent, cmd) ELSE toAgent
    BY <1>14, SwitchShape
  <2>2. Left' \/ toAgent' = Append(toAgent, cmd)
    BY <2>1 DEF Left
  <2> QED
    BY <2>1, <2>2, StatusAdded
<1>15. CASE EnterKey
  <2>1. PICK n : n = Sends + 1
    OBVIOUS
  <2>2. PICK cmd : cmd = Command("send", n)
    OBVIOUS
  <2>3. /\ ~Left /\ UNCHANGED <<agent, toScreen>> /\ ui'.status = ui.status
        /\ ui'.at = (IF Reads THEN "draining" ELSE "quit")
        /\ toAgent' = IF Reads THEN Append(toAgent, cmd) ELSE toAgent
    BY <1>15, <2>1, <2>2, EnterShape
  <2>4. cmd \in CommandRow
    BY <2>1, <2>2, QueueIsTyped DEF Command, CommandRow
  <2>5. Left' \/ toAgent' = Append(toAgent, cmd)
    BY <2>3 DEF Left
  <2> QED
    BY <2>3, <2>4, <2>5, StatusAdded
<1>16. CASE UNCHANGED tuiVars
  BY <1>16 DEF tuiVars, StatusFollows, Running, Left
<1> QED
  BY <1>1, <1>2, <1>3, <1>4, <1>5, <1>6, <1>7, <1>8, <1>9, <1>10, <1>11, <1>12, <1>13, <1>14,
     <1>15, <1>16 DEF TuiNext

-----------------------------------------------------------------------------

LEMMA ScreenInit == TuiInit => ScreenInv
<1> SUFFICES ASSUME TuiInit PROVE ScreenInv
  OBVIOUS
<1>1. PICK opts \in TuiOpts :
        /\ agent = [at |-> "starting", opts |-> opts, turn |-> 0, ask |-> 0, rounds |-> 0]
        /\ ui = [at |-> "draining", opts |-> opts, status |-> opts, busy |-> FALSE,
                     permission |-> 0, streaming |-> << >>, items |-> << >>, switches |-> 0]
        /\ toScreen = << >> /\ toAgent = << >> /\ answers = << >>
        /\ tuiTold = [sends |-> << >>, turns |-> << >>, said |-> {}, ran |-> {}]
  BY DEF TuiInit
<1>2. /\ agent.at = "starting" /\ agent.ask = 0 /\ agent.rounds = 0 /\ agent.opts = opts
      /\ ui.at = "draining" /\ ui.opts = opts /\ ui.status = opts /\ ui.busy = FALSE
      /\ ui.permission = 0 /\ ui.items = << >> /\ ui.streaming = << >>
      /\ tuiTold.sends = << >> /\ tuiTold.turns = << >> /\ tuiTold.said = {} /\ tuiTold.ran = {}
  BY <1>1
<1>3. ScreenTypes
  <2>1. agent \in AgentRow
    BY <1>1 DEF AgentRow, AgentPlace
  <2>2. ui \in UiRow
    <3>1. << >> \in Seq(Nat) /\ << >> \in Seq(ItemRow)
      OBVIOUS
    <3> QED
      BY <1>1, <3>1 DEF UiRow
  <2>3. tuiTold \in ToldRow
    <3>1. << >> \in Seq(SendRow) /\ {} \in SUBSET (Nat \X BOOLEAN) /\ {} \in SUBSET Nat
      OBVIOUS
    <3> QED
      BY <1>1, <3>1 DEF ToldRow
  <2>4. /\ toScreen \in Seq(WordRow \cup StatusRow) /\ toAgent \in Seq(CommandRow)
        /\ answers \in {<< >>, <<TRUE>>, <<FALSE>>}
    BY <1>1
  <2> QED
    BY <2>1, <2>2, <2>3, <2>4 DEF ScreenTypes
<1>4. ConsentIsPassed
  BY <1>1, <1>2, NoAnswer DEF ConsentIsPassed
<1>5. /\ Sends = 0 /\ Turns = 0 /\ SendsQueued = {} /\ ~AtWork /\ Running /\ ~Left
      /\ Len(toAgent) = 0 /\ Len(toScreen) = 0
  BY <1>1, <1>2 DEF Sends, Turns, SendsQueued, AtWork, Running, Left
<1>6. TurnsFollow
  <2>1. ChosenOpts(Len(toAgent) + 1, ui.opts)
    BY <1>2, <1>5 DEF ChosenOpts, Chosen
  <2> QED
    BY <1>2, <1>5, <2>1 DEF TurnsFollow
<1>7. BusyIsTold
  BY <1>1, <1>2, <1>5 DEF BusyIsTold
<1>8. Transcript
  BY <1>2 DEF Transcript
<1>9. StatusFollows
  BY <1>2, <1>5 DEF StatusFollows
<1>10. TextFollows
  BY <1>1, <1>2 DEF TextFollows, StreamingFollows, DeltasFollow, TextsStand
<1> QED
  BY <1>3, <1>4, <1>6, <1>7, <1>8, <1>9, <1>10 DEF ScreenInv

LEMMA ScreenStep == ScreenInv /\ [TuiNext]_tuiVars => ScreenInv'
<1> SUFFICES ASSUME ScreenInv, [TuiNext]_tuiVars PROVE ScreenInv'
  OBVIOUS
<1>1. ScreenTypes /\ ConsentIsPassed /\ TurnsFollow /\ BusyIsTold /\ Transcript
      /\ TextFollows /\ StatusFollows
  BY DEF ScreenInv
<1>2. ScreenTypes' /\ ConsentIsPassed'
  BY <1>1, TypesStep, ConsentStep
<1>3. TurnsFollow' /\ BusyIsTold'
  BY <1>1, <1>2, TurnsStep, BusyStep
<1>4. Transcript' /\ TextFollows' /\ StatusFollows'
  BY <1>1, <1>2, TranscriptStep, TextStep, StatusStep
<1> QED
  BY <1>2, <1>3, <1>4 DEF ScreenInv

LEMMA ScreenTells == ScreenInv => ScreenTellsTheRun
<1> SUFFICES ASSUME ScreenInv PROVE ScreenTellsTheRun
  OBVIOUS
<1>0. ScreenTypes /\ ConsentIsPassed /\ TurnsFollow /\ BusyIsTold /\ Transcript
      /\ TextFollows /\ StatusFollows
  BY DEF ScreenInv
<1>1. ToolsRanWithConsent
  BY <1>0 DEF ConsentIsPassed, Allowed, ToolsRanWithConsent
<1>2. ModalIsTheRequest
  BY <1>0 DEF ConsentIsPassed, ModalIsTheRequest
<1>3. TurnsAreAsSent
  <2>1. DOMAIN tuiTold.turns = 1 .. Turns
    BY <1>0, QueueIsTyped, LenProperties DEF Turns
  <2> QED
    BY <1>0, <2>1 DEF TurnsFollow, TurnsAreAsSent, Sends, Turns
<1>4. OneTurnAtATime
  <2>1. AtWork => Running
    BY DEF AtWork, Running
  <2>2. CASE Running
    BY <1>0, <2>1, <2>2 DEF TurnsFollow, BusyIsTold, OneTurnAtATime
  <2>3. CASE agent.at = "ended"
    <3>1. SendsQueued = {}
      BY <1>0, <2>3 DEF TurnsFollow, SendsQueued
    <3> QED
      BY <2>3, <3>1 DEF AtWork, OneTurnAtATime
  <2> QED
    BY <2>2, <2>3 DEF Running, OneTurnAtATime
<1>5. TranscriptIsInOrder
  <2>1. ui.items \in Seq(ItemRow) /\ DOMAIN ui.items = 1 .. Len(ui.items)
    BY <1>0, LenProperties DEF ScreenTypes, UiRow
  <2>2. \A j \in 1 .. Len(ui.items) : DOMAIN ui.items[j].text = 1 .. Len(ui.items[j].text)
    BY <2>1, ElementOfSeq, LenProperties DEF ItemRow
  <2> QED
    BY <1>0, <2>1, <2>2 DEF Transcript, TextFollows, TextsStand, TranscriptIsInOrder
<1>6. RestIsTold
  <2> SUFFICES ASSUME agent.at = "reading", toAgent = << >>, toScreen = << >>, ~Left
               PROVE  ~ui.busy /\ ui.status = agent.opts /\ ui.opts = agent.opts
    BY DEF RestIsTold
  <2>1. /\ Len(toAgent) = 0 /\ Len(toScreen) = 0 /\ SendsQueued = {} /\ ~AtWork /\ Running
    BY DEF SendsQueued, AtWork, Running
  <2>2. ~ui.busy
    BY <1>0, <2>1 DEF BusyIsTold
  <2>3. ui.status = agent.opts
    BY <1>0, <2>1 DEF StatusFollows
  <2>4. ChosenOpts(1, ui.opts)
    BY <1>0, <2>1 DEF TurnsFollow
  <2>5. agent.opts.model = ui.opts.model /\ agent.opts.agent = ui.opts.agent
    BY <2>4 DEF ChosenOpts, Chosen
  <2>6. agent.opts \in TuiOpts /\ ui.opts \in TuiOpts
    BY <1>0 DEF ScreenTypes, AgentRow, UiRow
  <2>7. ui.opts = agent.opts
    BY <2>5, <2>6 DEF TuiOpts
  <2> QED
    BY <2>2, <2>3, <2>7
<1> QED
  BY <1>1, <1>2, <1>3, <1>4, <1>5, <1>6 DEF ScreenTellsTheRun

(* What the screen shows, asks and sends is what the agent's task does, in *)
(* whatever order the two threads run (tui_app.rs, `run` and the agent's   *)
(* task): no tool runs without its own yes, turns keep the order and the   *)
(* choices of their messages, and at rest nothing is left to be told.      *)
THEOREM ScreenStaysTrue == TuiSpec => []ScreenTellsTheRun
<1>1. ScreenInv => ScreenTellsTheRun
  BY ScreenTells
<1>2. TuiInit => ScreenInv
  BY ScreenInit
<1>3. ScreenInv /\ [TuiNext]_tuiVars => ScreenInv'
  BY ScreenStep
<1> QED
  BY <1>1, <1>2, <1>3, PTL DEF TuiSpec
=============================================================================
