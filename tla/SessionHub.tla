------------------------------- MODULE SessionHub -------------------------------
(***************************************************************************)
(* The web agent's sessions (crates/btv-cli/src/web_agent.rs): the handler *)
(* of a message makes the session, takes its `busy` flag and spawns a task *)
(* on a blocking thread; the task asks the user for permissions through    *)
(* the session's one `pending` slot and gives the flag back.  Each action  *)
(* is one critical section of the hub's mutex or one step outside it.      *)
(***************************************************************************)
EXTENDS Naturals, Sequences, FiniteSets, SequencesExt

CONSTANTS
  Session,
  Post,         \* messages posted, each to a session of its choice
  MaxSessions,  \* the cap of live sessions
  MaxAsks       \* bound: permission requests of all messages

ASSUME SessionHubConstants ==
  /\ MaxSessions \in Nat
  /\ MaxAsks \in Nat
  /\ IsFiniteSet(Session)

VARIABLES
  sess,      \* the hub's map: live, busy, pending request (0: none), log
  post,      \* per message: where its handler or task is
  nextReq,   \* next_request_id
  said,      \* history: the answers the hub took, as <<request, allow>>
  ran        \* history: the requests whose tool then ran

webVars == <<sess, post, nextReq, said, ran>>

NoSession == [live |-> FALSE, busy |-> FALSE, pending |-> 0, log |-> << >>]
Live == {s \in Session : sess[s].live}

(* Where a message holds the flag of its session. *)
Holding == {"started", "running", "asking", "waiting", "answered", "told", "tooling", "ended", "failed"}
HolderOf(s) == {p \in Post : post[p].session = s /\ post[p].at \in Holding}

WebInit ==
  /\ sess = [s \in Session |-> NoSession]
  /\ post \in [Post -> [at : {"sent"}, session : Session, req : {0}, reply : {"none"},
                       allowed : {FALSE}]]
  /\ nextReq = 1
  /\ said = {}
  /\ ran = {}

WebGoes(p, phase) == post' = [post EXCEPT ![p].at = phase]

(* What the browser is told: a request asked, its tool denied, started or  *)
(* finished, the end of a message (`SessionEvent`; texts, turns and tools  *)
(* the rules decide on their own are left out).                            *)
WebEvent(kind, p) == [kind |-> kind, req |-> IF kind = "end" THEN 0 ELSE post[p].req, of |-> p]
Log(p, kind) == sess' = [sess EXCEPT ![post[p].session].log = Append(@, WebEvent(kind, p))]

-----------------------------------------------------------------------------
(* The handlers. *)

(* 429 when the cap is reached. *)
EnsureSession(p) ==
  LET s == post[p].session
  IN  /\ post[p].at = "sent"
      /\ IF sess[s].live \/ Cardinality(Live) < MaxSessions
         THEN /\ sess' = [sess EXCEPT ![s].live = TRUE]
              /\ WebGoes(p, "ensured")
         ELSE /\ WebGoes(p, "over")
              /\ UNCHANGED sess
      /\ UNCHANGED <<nextReq, said, ran>>

(* Bug: the flag is not looked at. *)
TryStartBlind(p) ==
  /\ post[p].at = "ensured"
  /\ sess' = [sess EXCEPT ![post[p].session].busy = TRUE]
  /\ WebGoes(p, "started")
  /\ UNCHANGED <<nextReq, said, ran>>

(* 409 when the session is busy. *)
TryStart(p) ==
  /\ post[p].at = "ensured"
  /\ IF sess[post[p].session].busy
     THEN WebGoes(p, "over") /\ UNCHANGED sess
     ELSE /\ sess' = [sess EXCEPT ![post[p].session].busy = TRUE]
          /\ WebGoes(p, "started")
  /\ UNCHANGED <<nextReq, said, ran>>

(* Bug: the flag stays when there is no provider. *)
CannotStartKeepsBusy(p) ==
  /\ post[p].at = "started"
  /\ WebGoes(p, "over")
  /\ UNCHANGED <<sess, nextReq, said, ran>>

(* No current directory, or no provider (`prepare`). *)
CannotStart(p) ==
  /\ post[p].at = "started"
  /\ sess' = [sess EXCEPT ![post[p].session].busy = FALSE]
  /\ WebGoes(p, "over")
  /\ UNCHANGED <<nextReq, said, ran>>

(* The task is spawned; the ledger, the tools or the durable session may   *)
(* fail before the loop begins.                                            *)
Spawn(p) ==
  /\ post[p].at = "started"
  /\ \E phase \in {"running", "failed"} : WebGoes(p, phase)
  /\ UNCHANGED <<sess, nextReq, said, ran>>

(* `subscribe` makes the session it is asked for. *)
SubscribeEvents(s) ==
  /\ ~sess[s].live
  /\ sess' = [sess EXCEPT ![s].live = TRUE]
  /\ UNCHANGED <<post, nextReq, said, ran>>

(* An answer to a request the client has seen; 404 when the slot holds     *)
(* another or none.                                                        *)
ResolvePermission(s) ==
  /\ sess[s].pending # 0
  /\ \E r \in 1 .. nextReq - 1, allow \in {"allow", "deny"} :
       /\ \E e \in Range(sess[s].log) : e.kind = "asked" /\ e.req = r
       /\ sess[s].pending = r
       /\ said' = said \cup {<<r, allow>>}
       /\ post' = [p \in Post |-> IF post[p].req = sess[s].pending
                                  THEN [post[p] EXCEPT !.reply = allow] ELSE post[p]]
  /\ sess' = [sess EXCEPT ![s].pending = 0]
  /\ UNCHANGED <<nextReq, ran>>

-----------------------------------------------------------------------------
(* The task: the agent loop and `request_permission`. *)

Ask(p) ==
  /\ post[p].at = "running"
  /\ nextReq <= MaxAsks
  /\ sess' = [sess EXCEPT ![post[p].session].pending = nextReq]
  /\ post' = [post EXCEPT ![p].at = "asking", ![p].req = nextReq, ![p].reply = "none",
                           ![p].allowed = FALSE]
  /\ nextReq' = nextReq + 1
  /\ UNCHANGED <<said, ran>>

PublishAsk(p) ==
  /\ post[p].at = "asking"
  /\ Log(p, "asked")
  /\ WebGoes(p, "waiting")
  /\ UNCHANGED <<nextReq, said, ran>>

(* `recv_timeout` returns with the answer. *)
AskReturns(p) ==
  /\ post[p].at = "waiting"
  /\ post[p].reply # "none"
  /\ post' = [post EXCEPT ![p].at = "answered", ![p].allowed = post[p].reply = "allow"]
  /\ UNCHANGED <<sess, nextReq, said, ran>>

(* Bug: silence is consent. *)
AskTimesOutAllowing(p) ==
  /\ post[p].at = "waiting"
  /\ post[p].reply = "none"
  /\ post' = [post EXCEPT ![p].at = "answered", ![p].allowed = TRUE]
  /\ UNCHANGED <<sess, nextReq, said, ran>>

(* The deadline passes: denied.  What is answered from here to ForgetAsk   *)
(* is taken by the hub and read by nobody.                                 *)
AskTimesOut(p) ==
  /\ post[p].at = "waiting"
  /\ post[p].reply = "none"
  /\ WebGoes(p, "answered")
  /\ UNCHANGED <<sess, nextReq, said, ran>>

(* The last critical section of `request_permission`. *)
ForgetAsk(p) ==
  /\ post[p].at = "answered"
  /\ sess' = [sess EXCEPT ![post[p].session].pending = 0]
  /\ WebGoes(p, "told")
  /\ UNCHANGED <<nextReq, said, ran>>

BackToLoop(p) ==
  post' = [post EXCEPT ![p].at = "running", ![p].req = 0, ![p].reply = "none", ![p].allowed = FALSE]

(* `run_tool`: denied, or started and run. *)
DenyTool(p) ==
  /\ post[p].at = "told" /\ ~post[p].allowed
  /\ Log(p, "denied")
  /\ BackToLoop(p)
  /\ UNCHANGED <<nextReq, said, ran>>

StartTool(p) ==
  /\ post[p].at = "told" /\ post[p].allowed
  /\ Log(p, "started")
  /\ ran' = ran \cup {post[p].req}
  /\ WebGoes(p, "tooling")
  /\ UNCHANGED <<nextReq, said>>

FinishTool(p) ==
  /\ post[p].at = "tooling"
  /\ Log(p, "finished")
  /\ BackToLoop(p)
  /\ UNCHANGED <<nextReq, said, ran>>

LoopEnds(p) ==
  /\ post[p].at = "running"
  /\ \E phase \in {"ended", "failed"} : WebGoes(p, phase)
  /\ UNCHANGED <<sess, nextReq, said, ran>>

(* `finish_busy`, before the end is announced. *)
FinishBusy(p) ==
  /\ post[p].at \in {"ended", "failed"}
  /\ sess' = [sess EXCEPT ![post[p].session].busy = FALSE]
  /\ WebGoes(p, "freed")
  /\ UNCHANGED <<nextReq, said, ran>>

(* Done, or Error. *)
PublishEnd(p) ==
  /\ post[p].at = "freed"
  /\ Log(p, "end")
  /\ WebGoes(p, "over")
  /\ UNCHANGED <<nextReq, said, ran>>

SendMessageHandler(p) == EnsureSession(p) \/ TryStart(p) \/ CannotStart(p)

RequestPermission(p) ==
  Ask(p) \/ PublishAsk(p) \/ AskReturns(p) \/ AskTimesOut(p) \/ ForgetAsk(p)

RunWebTool(p) == DenyTool(p) \/ StartTool(p) \/ FinishTool(p)

WebTask(p) ==
  Spawn(p) \/ RequestPermission(p) \/ RunWebTool(p) \/ LoopEnds(p) \/ FinishBusy(p) \/ PublishEnd(p)

WebNext ==
  \/ \E p \in Post : SendMessageHandler(p) \/ WebTask(p)
  \/ \E s \in Session : SubscribeEvents(s) \/ ResolvePermission(s)

WebSpec == WebInit /\ [][WebNext]_webVars

(* A spawned task goes on as long as what it waits for has a deadline: a   *)
(* request has one, and a provider that falls silent (`read_timeout`; one  *)
(* that goes on sending is taken to end).  A tool's run has none, so its   *)
(* end is not among the fair steps, nor is anybody's answer.               *)
GoesOn(p) ==
  \/ Spawn(p) \/ RequestPermission(p) \/ DenyTool(p) \/ StartTool(p)
  \/ LoopEnds(p) \/ FinishBusy(p) \/ PublishEnd(p)

WebFairness == \A p \in Post : WF_webVars(GoesOn(p))

-----------------------------------------------------------------------------
(* Properties. *)

WebTypeOK ==
  /\ \A s \in Session : /\ sess[s].live \in BOOLEAN /\ sess[s].busy \in BOOLEAN
                        /\ sess[s].pending \in 0 .. nextReq - 1
                        /\ ~sess[s].live => sess[s] = NoSession
  /\ \A p \in Post : /\ post[p].session \in Session
                     /\ post[p].at \in Holding \cup {"sent", "ensured", "freed", "over"}
                     /\ post[p].reply \in {"none", "allow", "deny"}
  /\ said \subseteq (1 .. nextReq - 1) \X {"allow", "deny"}

(* A session is busy exactly while one message holds it, over every way a  *)
(* handler or a task may fail; the request in `pending` is that message's, *)
(* so what clears or answers it is never another's; and a message whose    *)
(* end is announced no longer holds the session (`try_start`, ADR 0018;    *)
(* "libera ANTES de anunciar").  A browser that reads the log sees a tool  *)
(* start, and it runs, only after an "allow" the hub took for the request  *)
(* shown before (fail-closed, ADR 0017), and the tools of a message over   *)
(* before its end.                                                         *)
SessionHasOneActor ==
  \A s \in Session :
    LET log == sess[s].log
        before(i, kind) == \E j \in 1 .. i - 1 : log[j].kind = kind /\ log[j].req = log[i].req
    IN  /\ Cardinality(HolderOf(s)) <= 1
        /\ sess[s].busy <=> HolderOf(s) # {}
        /\ sess[s].pending # 0 =>
             \E p \in HolderOf(s) : /\ post[p].req = sess[s].pending
                                    /\ post[p].at \in {"asking", "waiting", "answered"}
        /\ \A i \in DOMAIN log :
             /\ log[i].kind \in {"denied", "started"} => before(i, "asked")
             /\ log[i].kind = "started" => <<log[i].req, "allow">> \in said
             /\ log[i].kind = "end" =>
                  /\ log[i].of \notin HolderOf(s)
                  /\ \A j \in i + 1 .. Len(log) : log[j].of # log[i].of
                  /\ \A j \in 1 .. i - 1 : log[j].of = log[i].of /\ log[j].kind = "started" =>
                       \E k \in j .. i : log[k].kind = "finished" /\ log[k].req = log[j].req
             /\ log[i].kind = "denied" => log[i].req \notin ran

(* Whatever the user does not answer and whatever fails, a busy session    *)
(* becomes free again, unless it comes to a tool that never ends: it stays *)
(* busy for nothing else ("chamado sempre ao fim da tarefa",               *)
(* `finish_busy`).  Once the tool ends, the same holds of what follows.    *)
SessionComesFree ==
  \A s \in Session :
    sess[s].busy ~> ~sess[s].busy \/ \E p \in HolderOf(s) : post[p].at = "tooling"

(* What the code promises and `subscribe` does not keep: the cap of live   *)
(* sessions ("aplica o teto de sessões vivas simultâneas").                *)
LiveSessionsBounded == Cardinality(Live) <= MaxSessions
=============================================================================
