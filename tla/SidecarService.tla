----------------------------- MODULE SidecarService -----------------------------
(***************************************************************************)
(* The long-lived Python servers of a dashboard, for prompts and for the   *)
(* squad's memory (`SidecarService`, `MemoryService` in                    *)
(* crates/btv-sidecar/src/service.rs, their supervisors and clients): one  *)
(* process per service, started by the first caller and again when its     *)
(* health check fails.  The socket's path belongs to the workspace:        *)
(* dashboards of the same workspace, one after the other or at once, share *)
(* it; a channel that lost its server reconnects to whoever listens there. *)
(***************************************************************************)
EXTENDS Naturals, FiniteSets

CONSTANTS
  SvcCaller,    \* requests that need the service
  Board,        \* dashboards of the workspace
  ServerProc,   \* bound: the processes that may be started, each once
  NoServer, NoCall

ASSUME ServiceConstants == NoServer \notin ServerProc /\ NoCall \notin SvcCaller

VARIABLES
  open,       \* the dashboards that run
  path,       \* who listens at the socket's path, if it is there
  serverOf,   \* per dashboard: the process of its state
  peer,       \* per dashboard: the process at the other end of its channel
  locked,     \* per dashboard: who holds the lock of its state
  asks,       \* per caller: its dashboard and where `client` is
  starts,     \* per caller: the process it started
  life        \* per process: "new", "starting", "up", "hung" or "dead"

svcVars == <<open, path, serverOf, peer, locked, asks, starts, life>>

SvcInit ==
  /\ open = Board
  /\ path = NoServer
  /\ serverOf = [d \in Board |-> NoServer]
  /\ peer = [d \in Board |-> NoServer]
  /\ locked = [d \in Board |-> NoCall]
  /\ asks \in [SvcCaller -> [board : Board, at : {"new"}]]
  /\ starts = [c \in SvcCaller |-> NoServer]
  /\ life = [p \in ServerProc |-> "new"]

At(c, where) == asks' = [asks EXCEPT ![c].at = where]
Mine(c) == asks[c].board
Unlocks(c) == locked' = [locked EXCEPT ![Mine(c)] = NoCall]
Up(p) == p # NoServer /\ life[p] = "up"

-----------------------------------------------------------------------------
(* `client`. *)

LockService(c) ==
  /\ asks[c].at = "new" /\ Mine(c) \in open
  /\ locked[Mine(c)] = NoCall
  /\ locked' = [locked EXCEPT ![Mine(c)] = c]
  /\ At(c, "checking")
  /\ UNCHANGED <<open, path, serverOf, peer, starts, life>>

(* Whom a health check over the channel reaches. *)
Reached(d) == IF peer[d] # NoServer /\ life[peer[d]] # "dead" THEN peer[d] ELSE path

(* Nobody is there: the call fails, where a server that hangs keeps it.    *)
Fails(d) == Reached(d) \notin {p \in ServerProc : life[p] \in {"up", "hung"}}

Healthy(c) ==
  /\ asks[c].at = "checking" /\ serverOf[Mine(c)] # NoServer
  /\ Up(Reached(Mine(c)))
  /\ peer' = [peer EXCEPT ![Mine(c)] = Reached(Mine(c))]
  /\ Unlocks(c)
  /\ At(c, "served")
  /\ UNCHANGED <<open, path, serverOf, starts, life>>

(* The old socket is removed, whosever it is, before the process is        *)
(* started; starting it may fail.                                          *)
SpawnServer(c) ==
  /\ path' = NoServer
  /\ \/ \E p \in ServerProc :
          /\ life[p] = "new"
          /\ life' = [life EXCEPT ![p] = "starting"]
          /\ starts' = [starts EXCEPT ![c] = p]
          /\ At(c, "starting")
          /\ UNCHANGED locked
     \/ /\ Unlocks(c)
        /\ At(c, "unavailable")
        /\ UNCHANGED <<life, starts>>

(* There is no process yet or the check fails; one that hangs neither      *)
(* answers nor fails.                                                      *)
StartServer(c) ==
  /\ asks[c].at = "checking"
  /\ serverOf[Mine(c)] = NoServer \/ Fails(Mine(c))
  /\ SpawnServer(c)
  /\ UNCHANGED <<open, serverOf, peer>>

LifeWithout(p) == [q \in ServerProc |-> IF q = p THEN "dead" ELSE life[q]]

(* `wait_ready` finds a healthy server at the path and keeps the process;  *)
(* the one it replaces is dropped, and killed.                             *)
KeepServer(c) ==
  /\ asks[c].at = "starting" /\ Up(path)
  /\ life' = LifeWithout(serverOf[Mine(c)])
  /\ serverOf' = [serverOf EXCEPT ![Mine(c)] = starts[c]]
  /\ peer' = [peer EXCEPT ![Mine(c)] = path]
  /\ starts' = [starts EXCEPT ![c] = NoServer]
  /\ Unlocks(c)
  /\ At(c, "served")
  /\ UNCHANGED <<open, path>>

(* Bug (before the supervisor's Drop): the process is left running. *)
GiveUpOrphaning(c) ==
  /\ asks[c].at = "starting"
  /\ starts' = [starts EXCEPT ![c] = NoServer]
  /\ Unlocks(c)
  /\ At(c, "unavailable")
  /\ UNCHANGED <<open, path, serverOf, peer, life>>

(* The process ends before it is ready, the deadline passes between two    *)
(* checks, or the request is dropped: the supervisor kills the process.    *)
GiveUp(c) ==
  /\ asks[c].at = "starting"
  /\ life' = LifeWithout(starts[c])
  /\ starts' = [starts EXCEPT ![c] = NoServer]
  /\ Unlocks(c)
  /\ At(c, "unavailable")
  /\ UNCHANGED <<open, path, serverOf, peer>>

DropChecking(c) ==
  /\ asks[c].at = "checking"
  /\ Unlocks(c)
  /\ At(c, "unavailable")
  /\ UNCHANGED <<open, path, serverOf, peer, starts, life>>

(* The handler's call, after the lock is released: whoever the channel     *)
(* reaches now answers; the others of this service may have replaced the   *)
(* process meanwhile, and the call fails ("rpc_error").                    *)
AskServer(c) ==
  /\ asks[c].at = "served" /\ Mine(c) \in open
  /\ IF Up(Reached(Mine(c)))
       THEN /\ peer' = [peer EXCEPT ![Mine(c)] = Reached(Mine(c))]
            /\ At(c, "answered")
       ELSE /\ Fails(Mine(c))
            /\ At(c, "rpc_error")
            /\ UNCHANGED peer
  /\ UNCHANGED <<open, path, serverOf, locked, starts, life>>

-----------------------------------------------------------------------------
(* Binding takes the path over from whoever listened there. *)
ServerBinds(p) ==
  /\ life[p] = "starting"
  /\ life' = [life EXCEPT ![p] = "up"]
  /\ path' = p
  /\ UNCHANGED <<open, serverOf, peer, locked, asks, starts>>

ServerHangsUp(p) ==
  /\ life[p] = "up"
  /\ life' = [life EXCEPT ![p] = "hung"]
  /\ UNCHANGED <<open, path, serverOf, peer, locked, asks, starts>>

ServerDiesAlone(p) ==
  /\ life[p] \in {"starting", "up", "hung"}
  /\ life' = LifeWithout(p)
  /\ UNCHANGED <<open, path, serverOf, peer, locked, asks, starts>>

(* A dashboard is stopped by a signal: no destructor runs, and its servers, *)
(* each in a process group of its own, stay.                               *)
BoardStops(d) ==
  /\ open' = open \ {d}
  /\ d \in open
  /\ asks' = [c \in SvcCaller |-> IF Mine(c) = d /\ asks[c].at \notin {"answered", "rpc_error"}
                                  THEN [asks[c] EXCEPT !.at = "unavailable"] ELSE asks[c]]
  /\ UNCHANGED <<path, serverOf, peer, locked, starts, life>>

SvcNext ==
  \/ \E c \in SvcCaller :
       \/ LockService(c) \/ Healthy(c) \/ StartServer(c) \/ KeepServer(c) \/ GiveUp(c)
       \/ DropChecking(c) \/ AskServer(c)
  \/ \E p \in ServerProc : ServerBinds(p) \/ ServerHangsUp(p) \/ ServerDiesAlone(p)
  \/ \E d \in Board : BoardStops(d)

SvcSpec == SvcInit /\ [][SvcNext]_svcVars

(* While its dashboard runs, a live process is the one its service keeps   *)
(* or one a caller has started: a failed start, a dropped request and a    *)
(* restart leave none behind ("órfão rodando para sempre"), and there are  *)
(* never more than the kept one and the one about to replace it.           *)
NoServerIsForgotten ==
  LET Living == {p \in ServerProc : life[p] \in {"starting", "up", "hung"}}
      Of(d) == {serverOf[d]} \cup {starts[c] : c \in {e \in SvcCaller : Mine(e) = d}}
  IN /\ Living \subseteq UNION {Of(d) : d \in Board}
     /\ \A d \in open : Cardinality(Living \cap Of(d)) <= 2
     /\ \A d \in open : \A c, e \in SvcCaller :
          Mine(c) = d /\ Mine(e) = d /\ starts[c] # NoServer /\ starts[e] # NoServer => c = e
=============================================================================
