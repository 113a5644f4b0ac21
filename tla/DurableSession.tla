----------------------------- MODULE DurableSession -----------------------------
(***************************************************************************)
(* A durable conversation: `DurableSession` (crates/btv-core/src/session.rs) *)
(* over the event store (crates/btv-store/src/events.rs), driven by        *)
(* `btv run`, `btv chat` and the web task (main.rs, web_agent.rs), with    *)
(* the turns of the agent loop (agent_loop.rs) and compaction              *)
(* (compaction.rs).  Writers are processes that opened one session id.     *)
(*                                                                         *)
(* A message is [kind, by]: "user" a user's text, "text" an assistant's    *)
(* turn without tool use, "tools" one whose tools are then run, "cut" one  *)
(* whose tools are not run because the provider stopped for another reason *)
(* (max_tokens), "results" the results, "summary" an epoch's baseline.     *)
(* Stored events are messages too, and the marks "started" and "epoch".    *)
(***************************************************************************)
EXTENDS Naturals, Sequences, FiniteSets

CONSTANTS
  Writer,
  Limit,      \* messages at which the policy wants a compaction
  MaxSteps,   \* steps of one turn of the loop
  MaxEvents   \* bound: events in the store and messages in memory as a turn begins

ASSUME DurableConstants ==
  /\ Limit \in Nat /\ MaxSteps \in Nat \ {0} /\ MaxEvents \in Nat

VARIABLES
  events,     \* the store: the aggregate's events, by seq
  dur         \* per writer: at, head, msgs, persisted, steps

durVars == <<events, dur>>

Kinds == {"user", "text", "tools", "cut", "results", "summary"}
Marks == {"started", "epoch"}
Msg(kind, w) == [kind |-> kind, by |-> w]

Closed == [at |-> "closed", head |-> 0, msgs |-> <<>>, persisted |-> 0, steps |-> 0]

DurInit ==
  /\ events = <<>>
  /\ dur = [w \in Writer |-> Closed]

-----------------------------------------------------------------------------
(* The event store. *)

(* The last "started" or "epoch": the replay begins after it. *)
LastMark(log) ==
  IF \E i \in DOMAIN log : log[i].kind \in Marks
  THEN CHOOSE i \in DOMAIN log : /\ log[i].kind \in Marks
                                 /\ \A j \in DOMAIN log : log[j].kind \in Marks => j <= i
  ELSE 0

Replay(log) == SubSeq(log, LastMark(log) + 1, Len(log))

(* `append` succeeds at the expected head only, in one transaction. *)
Appends(expected, new) ==
  /\ Len(events) = expected
  /\ events' = events \o new

(* Bug: the head is not compared. *)
AppendsAnywhere(expected, new) == events' = events \o new

-----------------------------------------------------------------------------
(* `open`: the head first, then the events, in two reads. *)

ReadHead(w) ==
  /\ dur[w].at = "closed"
  /\ Len(events) < MaxEvents
  /\ dur' = [dur EXCEPT ![w].at = IF Len(events) = 0 THEN "new" ELSE "headed",
                        ![w].head = Len(events)]
  /\ UNCHANGED events

CreateSession(w) ==
  /\ dur[w].at = "new"
  /\ \/ /\ Appends(0, <<Msg("started", w)>>)
        /\ dur' = [dur EXCEPT ![w].at = "open", ![w].head = 1]
     \/ /\ Len(events) # 0
        /\ dur' = [dur EXCEPT ![w] = Closed]
        /\ UNCHANGED events

ReadEvents(w) ==
  /\ dur[w].at = "headed"
  /\ dur' = [dur EXCEPT ![w].at = "open", ![w].msgs = Replay(events),
                        ![w].persisted = Len(Replay(events))]
  /\ UNCHANGED events

OpenDurable(w) == ReadHead(w) \/ CreateSession(w) \/ ReadEvents(w)

-----------------------------------------------------------------------------
(* `maybe_compact`. *)

NeedsCompaction(msgs) == Len(msgs) >= Limit

(* `is_safe_boundary`: the last message is an assistant's, with no tool    *)
(* use left.                                                               *)
IsSafeBoundary(msgs) == msgs # <<>> /\ msgs[Len(msgs)].kind = "text"

(* When the policy wants it, or whoever chats (`/compact`).  The summary is *)
(* a call of the model; when it fails so does the command.                  *)
Summarize(w) ==
  /\ dur[w].at = "open"
  /\ IsSafeBoundary(dur[w].msgs)
  /\ Len(events) < MaxEvents
  /\ \/ dur' = [dur EXCEPT ![w].at = "summed"]
     \/ dur' = [dur EXCEPT ![w] = Closed]
  /\ UNCHANGED events

Compact(w) ==
  /\ dur[w].at = "summed"
  /\ \/ /\ Appends(dur[w].head, <<Msg("epoch", w), Msg("summary", w)>>)
        /\ dur' = [dur EXCEPT ![w].at = "compacted", ![w].head = @ + 2,
                              ![w].msgs = <<Msg("summary", w)>>, ![w].persisted = 1]
     \/ /\ Len(events) # dur[w].head
        /\ dur' = [dur EXCEPT ![w] = Closed]
        /\ UNCHANGED events

MaybeCompact(w) == Summarize(w) \/ Compact(w)

-----------------------------------------------------------------------------
(* One turn. *)

PushUser(w) ==
  /\ \/ dur[w].at = "compacted"
     \/ /\ dur[w].at = "open"
        /\ ~(NeedsCompaction(dur[w].msgs) /\ IsSafeBoundary(dur[w].msgs))
  /\ Len(events) < MaxEvents /\ Len(dur[w].msgs) < MaxEvents
  /\ dur' = [dur EXCEPT ![w].at = "turn", ![w].steps = 0,
                        ![w].msgs = Append(@, Msg("user", w))]
  /\ UNCHANGED events

(* The provider fails, or answers: with text, with a turn that is cut, or  *)
(* with tools to run.                                                      *)
Generate(w) ==
  /\ dur[w].at = "turn"
  /\ \/ dur' = [dur EXCEPT ![w].at = "broken"]
     \/ \E kind \in {"text", "cut"} :
          dur' = [dur EXCEPT ![w].at = "answered", ![w].msgs = Append(@, Msg(kind, w))]
     \/ dur' = [dur EXCEPT ![w].at = "running", ![w].msgs = Append(@, Msg("tools", w))]
  /\ UNCHANGED events

(* Each tool has a result, run, denied, unknown or failed; MaxSteps ends   *)
(* the loop after the last ones.                                           *)
RunTools(w) ==
  /\ dur[w].at = "running"
  /\ dur' = [dur EXCEPT ![w].at = IF dur[w].steps + 1 = MaxSteps THEN "broken" ELSE "turn",
                        ![w].steps = @ + 1,
                        ![w].msgs = Append(@, Msg("results", w))]
  /\ UNCHANGED events

ContinueRun(w) == Generate(w) \/ RunTools(w)

(* Bug: a head that moved is taken over. *)
PersistNewRebased(w) ==
  /\ dur[w].at \in {"answered", "broken"}
  /\ LET new == SubSeq(dur[w].msgs, dur[w].persisted + 1, Len(dur[w].msgs))
     IN  /\ AppendsAnywhere(dur[w].head, new)
         /\ dur' = [dur EXCEPT ![w].at = "kept",
                               ![w].head = Len(events) + Len(new),
                               ![w].persisted = Len(dur[w].msgs)]

(* Bug: a turn is kept as it goes, before its tools have run. *)
PersistNewEager(w) ==
  /\ dur[w].at \in {"answered", "broken", "running"}
  /\ LET new == SubSeq(dur[w].msgs, dur[w].persisted + 1, Len(dur[w].msgs))
     IN  /\ Appends(dur[w].head, new)
         /\ dur' = [dur EXCEPT ![w].at = IF @ = "answered" THEN "kept" ELSE @,
                               ![w].head = @ + Len(new),
                               ![w].persisted = Len(dur[w].msgs)]

(* `persist_new`: also after a failed turn; a conflict is reported and the *)
(* history in memory goes on.                                              *)
PersistNew(w) ==
  /\ dur[w].at \in {"answered", "broken"}
  /\ LET new == SubSeq(dur[w].msgs, dur[w].persisted + 1, Len(dur[w].msgs))
     IN  \/ /\ Appends(dur[w].head, new)
            /\ dur' = [dur EXCEPT ![w].at = IF @ = "broken" THEN "lost" ELSE "kept",
                                  ![w].head = @ + Len(new),
                                  ![w].persisted = Len(dur[w].msgs)]
         \/ /\ Len(events) # dur[w].head
            /\ dur' = [dur EXCEPT ![w].at = IF @ = "broken" THEN "lost" ELSE "kept"]
            /\ UNCHANGED events

(* The chat asks for the next line; a run, a web message, or a chat whose  *)
(* turn failed ends here.                                                  *)
NextTurn(w) ==
  /\ \/ dur[w].at = "kept" /\ dur' = [dur EXCEPT ![w].at = "open"]
     \/ dur[w].at \in {"kept", "lost"} /\ dur' = [dur EXCEPT ![w] = Closed]
  /\ UNCHANGED events

(* The process dies: what was not kept is gone. *)
WriterDies(w) ==
  /\ dur[w].at # "closed"
  /\ dur' = [dur EXCEPT ![w] = Closed]
  /\ UNCHANGED events

RunOnce(w) ==
  \/ OpenDurable(w) \/ MaybeCompact(w) \/ PushUser(w) \/ ContinueRun(w) \/ PersistNew(w)
  \/ NextTurn(w)

DurNext == \E w \in Writer : RunOnce(w) \/ WriterDies(w)

DurSpec == DurInit /\ [][DurNext]_durVars

-----------------------------------------------------------------------------
(* Properties. *)

DurTypeOK ==
  /\ events \in Seq([kind : Kinds \cup Marks, by : Writer])
  /\ dur \in [Writer -> [at : {"closed", "new", "headed", "open", "summed", "compacted", "turn",
                               "running", "answered", "broken", "kept", "lost"},
                         head : Nat, msgs : Seq([kind : Kinds, by : Writer]),
                         persisted : Nat, steps : 0 .. MaxSteps]]

(* In what is sent to the model, the results of a turn's tools follow it,  *)
(* over compactions, failures and resumed sessions, unless the provider    *)
(* cut the turn.                                                           *)
PairedIn(msgs) ==
  /\ msgs[1].kind # "results"
  /\ \A i \in 1 .. Len(msgs) - 1 : msgs[i].kind = "tools" <=> msgs[i + 1].kind = "results"

(* A writer whose head is the store's has in memory what a replay of the   *)
(* store gives: whoever else writes to the session, nobody appends to a    *)
(* history he has not read, and no turn is kept twice or in pieces ("A     *)
(* concorrência otimista da head detecta dois processos escrevendo na      *)
(* mesma sessão"); and no tool is parted from its result ("nunca se corta  *)
(* um par tool_use/tool_result ao meio").                                  *)
HistoryIsCoherent ==
  \A w \in Writer :
    /\ dur[w].at \notin {"closed", "new", "headed"} =>
         /\ dur[w].persisted <= Len(dur[w].msgs)
         /\ dur[w].head = Len(events) => Replay(events) = SubSeq(dur[w].msgs, 1, dur[w].persisted)
    /\ dur[w].at = "turn" => PairedIn(dur[w].msgs)

(* What the module says of the pair and a cut turn breaks. *)
NoToolUseWithoutResult ==
  \A w \in Writer : dur[w].at = "turn" =>
    \A i \in 1 .. Len(dur[w].msgs) : dur[w].msgs[i].kind # "cut"
=============================================================================
