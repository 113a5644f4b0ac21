------------------------------- MODULE TuiApp -------------------------------
(***************************************************************************)
(* `btv tui` (crates/btv-cli/src/tui_app.rs, crates/btv-tui/src/lib.rs):   *)
(* the screen's loop on the main thread and the agent's task, joined by    *)
(* three channels: messages to the screen, commands to the agent, answers  *)
(* to its permission requests.  The loop applies every message, draws, and *)
(* then takes at most one key; the agent blocks its thread on an answer.   *)
(* Notices, which only add a line to the transcript, are left out.         *)
(***************************************************************************)
EXTENDS Naturals, Sequences, SequencesExt

CONSTANTS
  TuiModels,     \* length of MODEL_CHOICES; the number itself: another model
  MaxSends,      \* bound: messages the user sends
  MaxSwitches,   \* bound: times the user changes the model or the agent
  MaxRounds      \* bound: the model's turns and the tool calls, together

ASSUME TuiConstants ==
  /\ TuiModels \in Nat \ {0}
  /\ MaxSends \in Nat /\ MaxSwitches \in Nat /\ MaxRounds \in Nat

VARIABLES
  agent,     \* the task: where it is, its `opts`, its turn and its request
  ui,        \* `TuiState` and `ui_opts`, and where the loop is
  toScreen,  \* evt channel
  toAgent,   \* input channel
  answers,   \* resp channel
  tuiTold,   \* history: what was sent and answered, what ran
  unended    \* history: the turns that failed in the middle of a text

tuiVars == <<agent, ui, toScreen, toAgent, answers, tuiTold, unended>>

TuiOpts == [model : 0 .. TuiModels, agent : {"build", "plan", "other"}]

(* What the agent tells the screen.  `of` is the turn it is about, `ask`   *)
(* the request: neither is in the code's message, both name what it says.  *)
TuiMsg(kind, of, ask) == [kind |-> kind, of |-> of, ask |-> ask]
Tell(kind) == TuiMsg(kind, agent.turn, 0)
StatusMsg(opts) == [kind |-> "status", opts |-> opts]
Command(kind, what) == [kind |-> kind, what |-> what]

(* Where the loop has left: the input channel is closed, then the rest.    *)
Left == ui.at \in {"quit", "gone"}
Reads == agent.at # "ended"

TuiInit ==
  \E opts \in TuiOpts :
    /\ agent = [at |-> "starting", opts |-> opts, turn |-> 0, ask |-> 0, rounds |-> 0]
    /\ ui = [at |-> "draining", opts |-> opts, status |-> opts, busy |-> FALSE,
                 permission |-> 0, streaming |-> << >>, items |-> << >>, switches |-> 0]
    /\ toScreen = << >>
    /\ toAgent = << >>
    /\ answers = << >>
    /\ tuiTold = [sends |-> << >>, turns |-> << >>, said |-> {}, ran |-> {}]
    /\ unended = {}

-----------------------------------------------------------------------------
(* The agent's task. *)

(* `send` to a dropped receiver is not looked at. *)
Post(msgs) == toScreen' = IF ui.at = "gone" THEN toScreen ELSE toScreen \o msgs

AgentGoes(at, msgs) ==
  /\ agent' = [agent EXCEPT !.at = at]
  /\ Post(msgs)

(* The registry, the ledger and the durable session. *)
TuiStart ==
  /\ agent.at = "starting"
  /\ \/ AgentGoes("reading", << >>)
     \/ AgentGoes("failed", <<Tell("fatal")>>)
  /\ UNCHANGED <<ui, toAgent, answers, tuiTold, unended>>

(* The ends of the channels are dropped when the task ends. *)
TuiEnds ==
  /\ \/ agent.at = "failed"
     \/ agent.at = "reading" /\ toAgent = << >> /\ Left
  /\ agent' = [agent EXCEPT !.at = "ended"]
  /\ toAgent' = << >>
  /\ UNCHANGED <<ui, toScreen, answers, tuiTold, unended>>

(* `agent.abort()`: only where the task awaits. *)
TuiAborted ==
  /\ Left
  /\ agent.at \in {"starting", "reading", "preparing", "thinking"}
  /\ agent' = [agent EXCEPT !.at = "ended"]
  /\ toAgent' = << >>
  /\ UNCHANGED <<ui, toScreen, answers, tuiTold, unended>>

(* Bug: a turn runs with the options the screen has now. *)
TakeCommandLate ==
  /\ agent.at = "reading"
  /\ toAgent # << >>
  /\ toAgent' = Tail(toAgent)
  /\ LET cmd == Head(toAgent)
     IN  IF cmd.kind = "send"
         THEN /\ agent' = [agent EXCEPT !.at = "preparing", !.turn = cmd.what,
                                        !.opts = ui.opts]
              /\ UNCHANGED toScreen
         ELSE UNCHANGED <<agent, toScreen>>
  /\ UNCHANGED <<ui, answers, tuiTold, unended>>

TakeCommand ==
  /\ agent.at = "reading"
  /\ toAgent # << >>
  /\ toAgent' = Tail(toAgent)
  /\ LET cmd == Head(toAgent)
     IN  IF cmd.kind = "send"
         THEN /\ agent' = [agent EXCEPT !.at = "preparing", !.turn = cmd.what]
              /\ UNCHANGED toScreen
         ELSE LET opts == [agent.opts EXCEPT ![cmd.kind] = cmd.what]
              IN  /\ agent' = [agent EXCEPT !.opts = opts]
                  /\ Post(<<StatusMsg(opts)>>)
  /\ UNCHANGED <<ui, answers, tuiTold, unended>>

(* `build_loop`: an unknown agent has no profile. *)
BuildsLoop(opts) == opts.agent \in {"build", "plan"}

(* The loop is built of the options and the session may be compacted: an   *)
(* unknown agent and a failed compaction end the task.                     *)
Prepare ==
  /\ agent.at = "preparing"
  /\ \/ /\ BuildsLoop(agent.opts)
        /\ AgentGoes("thinking", << >>)
        /\ tuiTold' = [tuiTold EXCEPT !.turns =
                         Append(@, [send |-> agent.turn, opts |-> agent.opts])]
     \/ /\ AgentGoes("failed", <<Tell("fatal")>>)
        /\ UNCHANGED tuiTold
  /\ UNCHANGED <<ui, toAgent, answers, unended>>

(* The model's turn: text, then its end or an error (`?` leaves the loop). *)
Think ==
  /\ agent.at = "thinking"
  /\ agent.rounds < MaxRounds
  /\ \E text \in {<< >>, <<Tell("delta")>>}, at \in {"choosing", "saving"} :
       /\ agent' = [agent EXCEPT !.at = at, !.rounds = @ + 1]
       /\ Post(IF at = "choosing" THEN Append(text, Tell("turn")) ELSE text)
       /\ unended' = IF at = "saving" /\ text # << >> THEN unended \cup {agent.turn} ELSE unended
  /\ UNCHANGED <<ui, toAgent, answers, tuiTold>>

(* A call of the model's turn: the rules allow it, deny it or ask. *)
CallTool ==
  /\ agent.at = "choosing"
  /\ agent.rounds < MaxRounds
  /\ LET n == agent.rounds + 1
     IN  \/ /\ agent' = [agent EXCEPT !.at = "acting", !.rounds = n, !.ask = 0]
            /\ UNCHANGED toScreen
         \/ /\ agent' = [agent EXCEPT !.rounds = n, !.ask = 0]
            /\ Post(<<Tell("tool")>>)
         \/ /\ agent' = [agent EXCEPT !.rounds = n, !.at = "asking", !.ask = n]
            /\ Post(<<TuiMsg("ask", agent.turn, n)>>)
  /\ UNCHANGED <<ui, toAgent, answers, tuiTold, unended>>

(* No more calls: the next turn of the model, or the end of the run (a     *)
(* last turn, or the limit of steps, which is an error).                   *)
NoMoreCalls ==
  /\ agent.at = "choosing"
  /\ \E at \in {"thinking", "saving"} : agent' = [agent EXCEPT !.at = at]
  /\ UNCHANGED <<ui, toScreen, toAgent, answers, tuiTold, unended>>

(* Bug: no answer is taken for a yes. *)
ResolveByDefault ==
  /\ agent.at = "asking"
  /\ IF answers # << >>
     THEN /\ answers' = Tail(answers)
          /\ IF Head(answers) THEN AgentGoes("acting", << >>)
             ELSE AgentGoes("choosing", <<Tell("tool")>>)
     ELSE /\ ui.at = "gone"
          /\ AgentGoes("acting", << >>)
          /\ UNCHANGED answers
  /\ UNCHANGED <<ui, toAgent, tuiTold, unended>>

(* `recv`: an answer, or the screen's end of the channel is dropped. *)
Resolve ==
  /\ agent.at = "asking"
  /\ IF answers # << >>
     THEN /\ answers' = Tail(answers)
          /\ IF Head(answers) THEN AgentGoes("acting", << >>)
             ELSE AgentGoes("choosing", <<Tell("tool")>>)
     ELSE /\ ui.at = "gone"
          /\ AgentGoes("choosing", <<Tell("tool")>>)
          /\ UNCHANGED answers
  /\ UNCHANGED <<ui, toAgent, tuiTold, unended>>

ActTool ==
  /\ agent.at = "acting"
  /\ AgentGoes("choosing", <<Tell("tool")>>)
  /\ tuiTold' = [tuiTold EXCEPT !.ran = @ \cup ({agent.ask} \ {0})]
  /\ UNCHANGED <<ui, toAgent, answers, unended>>

(* What the run added is persisted, and `Idle` comes last. *)
SaveTurn ==
  /\ agent.at = "saving"
  /\ AgentGoes("reading", <<Tell("idle")>>)
  /\ UNCHANGED <<ui, toAgent, answers, tuiTold, unended>>

-----------------------------------------------------------------------------
(* The screen's loop. *)

(* An item of turn `of`; `text` is whose text it holds. *)
AddItem(s, kind, of, text) ==
  [s EXCEPT !.items = Append(@, [kind |-> kind, of |-> of, text |-> text])]

(* Bug: the end of a turn leaves its text in `streaming`. *)
ApplyKeepsText(s, m) ==
  CASE m.kind = "delta"  -> [s EXCEPT !.streaming = Append(@, m.of)]
    [] m.kind = "turn"   -> IF s.streaming = << >> THEN s
                            ELSE AddItem(s, "assistant", m.of, s.streaming)
    [] m.kind = "tool"   -> AddItem(s, "tool", m.of, << >>)
    [] m.kind = "ask"    -> [s EXCEPT !.permission = m.ask]
    [] m.kind = "status" -> [s EXCEPT !.status = m.opts]
    [] m.kind \in {"idle", "fatal"} -> [s EXCEPT !.busy = FALSE]

(* `apply`, with `finish_turn`, which takes all of `streaming`: also what  *)
(* an earlier turn left there that failed before its end.                  *)
Apply(s, m) ==
  CASE m.kind = "delta"  -> [s EXCEPT !.streaming = Append(@, m.of)]
    [] m.kind = "turn"   -> IF s.streaming = << >> THEN s
                            ELSE [AddItem(s, "assistant", m.of, s.streaming) EXCEPT !.streaming = << >>]
    [] m.kind = "tool"   -> AddItem(s, "tool", m.of, << >>)
    [] m.kind = "ask"    -> [s EXCEPT !.permission = m.ask]
    [] m.kind = "status" -> [s EXCEPT !.status = m.opts]
    [] m.kind \in {"idle", "fatal"} -> [s EXCEPT !.busy = FALSE]

Drain ==
  /\ ui.at = "draining"
  /\ toScreen # << >>
  /\ ui' = Apply(ui, Head(toScreen))
  /\ toScreen' = Tail(toScreen)
  /\ UNCHANGED <<agent, toAgent, answers, tuiTold, unended>>

(* Every message is applied before the screen is drawn (`render`). *)
Draw ==
  /\ ui.at = "draining"
  /\ toScreen = << >>
  /\ ui' = [ui EXCEPT !.at = "keys"]
  /\ UNCHANGED <<agent, toScreen, toAgent, answers, tuiTold, unended>>

(* No key in 50 ms, a key that does nothing, or one that edits the input. *)
NoKey ==
  /\ ui.at = "keys"
  /\ ui' = [ui EXCEPT !.at = "draining"]
  /\ UNCHANGED <<agent, toScreen, toAgent, answers, tuiTold, unended>>

(* Bug: the modal stays after its answer. *)
AnswerKeyKeepsModal ==
  /\ ui.at = "keys"
  /\ ui.permission # 0
  /\ \E yes \in BOOLEAN :
       /\ answers' = Append(answers, yes)
       /\ tuiTold' = [tuiTold EXCEPT !.said = @ \cup {<<ui.permission, yes>>}]
  /\ ui' = [ui EXCEPT !.at = "draining"]
  /\ UNCHANGED <<agent, toScreen, toAgent, unended>>

(* The modal takes the keyboard: s, y; n, Esc. *)
AnswerKey ==
  /\ ui.at = "keys"
  /\ ui.permission # 0
  /\ \E yes \in BOOLEAN :
       /\ answers' = IF Reads THEN Append(answers, yes) ELSE answers
       /\ tuiTold' = [tuiTold EXCEPT !.said = @ \cup {<<ui.permission, yes>>}]
  /\ ui' = [ui EXCEPT !.at = "draining", !.permission = 0]
  /\ UNCHANGED <<agent, toScreen, toAgent, unended>>

NextModel(m) == IF m = TuiModels THEN 0 ELSE (m + 1) % TuiModels
NextAgent(a) == IF a = "build" THEN "plan" ELSE "build"

(* Ctrl+M and Ctrl+G: the screen's options change at once, the agent's     *)
(* when it takes the command; a channel without its reader ends the loop.  *)
SwitchKey ==
  /\ ui.at = "keys"
  /\ ui.permission = 0
  /\ ui.switches < MaxSwitches
  /\ \E cmd \in {Command("model", NextModel(ui.opts.model)),
                 Command("agent", NextAgent(ui.opts.agent))} :
       LET opts == [ui.opts EXCEPT ![cmd.kind] = cmd.what]
       IN  /\ ui' = [ui EXCEPT !.opts = opts, !.status = opts, !.switches = @ + 1,
                                       !.at = IF Reads THEN "draining" ELSE "quit"]
           /\ toAgent' = IF Reads THEN Append(toAgent, cmd) ELSE toAgent
  /\ UNCHANGED <<agent, toScreen, answers, tuiTold, unended>>

Sending ==
  LET n == Len(tuiTold.sends) + 1
      s == AddItem(ui, "user", n, << >>)
  IN  /\ ui.at = "keys"
      /\ ui.permission = 0
      /\ n <= MaxSends
      /\ ui' = [s EXCEPT !.busy = TRUE, !.at = IF Reads THEN "draining" ELSE "quit"]
      /\ toAgent' = IF Reads THEN Append(toAgent, Command("send", n)) ELSE toAgent
      /\ tuiTold' = [tuiTold EXCEPT !.sends = Append(@, [send |-> n, opts |-> ui.opts])]
      /\ UNCHANGED <<agent, toScreen, answers, unended>>

(* Bug: a message is sent while a turn runs. *)
EnterKeyWhileBusy == Sending

(* Enter, on a text that is not blank. *)
EnterKey ==
  /\ ~ui.busy
  /\ Sending

(* Ctrl+C, or Esc without a modal. *)
QuitKey ==
  /\ ui.at = "keys"
  /\ ui.permission = 0
  /\ ui' = [ui EXCEPT !.at = "quit"]
  /\ UNCHANGED <<agent, toScreen, toAgent, answers, tuiTold, unended>>

(* `run_tui` returns: the screen's ends of the channels are dropped. *)
Leave ==
  /\ ui.at = "quit"
  /\ ui' = [ui EXCEPT !.at = "gone"]
  /\ toScreen' = << >>
  /\ UNCHANGED <<agent, toAgent, answers, tuiTold, unended>>

TuiNext ==
  \/ TuiStart \/ TuiEnds \/ TuiAborted \/ TakeCommand \/ Prepare \/ Think
  \/ CallTool \/ NoMoreCalls \/ Resolve \/ ActTool \/ SaveTurn
  \/ Drain \/ Draw \/ NoKey \/ AnswerKey \/ SwitchKey \/ EnterKey \/ QuitKey \/ Leave

-----------------------------------------------------------------------------
(* Properties. *)

TuiTypes ==
  /\ agent \in [at : {"starting", "reading", "preparing", "thinking", "choosing", "asking",
                      "acting", "saving", "failed", "ended"},
                opts : TuiOpts, turn : 0 .. MaxSends, ask : 0 .. MaxRounds,
                rounds : 0 .. MaxRounds]
  /\ ui.at \in {"draining", "keys", "quit", "gone"}
  /\ answers \in {<< >>, <<TRUE>>, <<FALSE>>}

SendsQueued == {i \in 1 .. Len(toAgent) : toAgent[i].kind = "send"}
AtWork == agent.at \notin {"starting", "reading", "failed", "ended"}

(* A tool that was asked about runs only after the user said yes to that   *)
(* very request on the screen.                                             *)
ToolsRanWithConsent ==
  \A n \in tuiTold.ran : <<n, TRUE>> \in tuiTold.said /\ <<n, FALSE>> \notin tuiTold.said

(* The modal shows the request the agent waits on, and no answer to an     *)
(* earlier one is on its way to it.                                        *)
ModalIsTheRequest ==
  ui.permission # 0 =>
    agent.at = "asking" /\ agent.ask = ui.permission /\ answers = << >>

(* Turns run in the order of their messages, each with the model and the   *)
(* agent that were chosen when it was sent.                                *)
TurnsAreAsSent ==
  /\ Len(tuiTold.turns) <= Len(tuiTold.sends)
  /\ \A i \in DOMAIN tuiTold.turns : tuiTold.turns[i] = tuiTold.sends[i]

(* At most one message is under way, and then the screen says busy (until  *)
(* the task fails: what is sent as it ends is lost).                       *)
OneTurnAtATime ==
  agent.at # "failed" =>
    /\ \A i, j \in SendsQueued : i = j
    /\ AtWork => SendsQueued = {}
    /\ (SendsQueued # {} \/ AtWork) /\ ~Left => ui.busy

(* What a turn did stands below its message and above the next, and so     *)
(* does its text, but for a text the turn failed in the middle of: that    *)
(* one is never ended, and stands where the next text ends, if one does.   *)
TranscriptIsInOrder ==
  \A j \in DOMAIN ui.items :
    /\ \A i \in 1 .. j - 1 :
         /\ ui.items[i].of <= ui.items[j].of
         /\ ui.items[j].kind = "user" => ui.items[i].of < ui.items[j].of
    /\ \A k \in DOMAIN ui.items[j].text :
         LET turn == ui.items[j].text[k]
         IN  turn = ui.items[j].of \/ (turn < ui.items[j].of /\ turn \in unended)

(* With nothing on its way the screen is not busy and names the model and  *)
(* the agent that the next turn will have.                                 *)
RestIsTold ==
  agent.at = "reading" /\ toAgent = << >> /\ toScreen = << >> /\ ~Left =>
    ~ui.busy /\ ui.status = agent.opts /\ ui.opts = agent.opts

(* What the screen shows and asks is what the agent's task does: the       *)
(* user's answers, choices and messages reach it as they were given, in    *)
(* whatever order the two threads run.                                     *)
ScreenTellsTheRun ==
  /\ ToolsRanWithConsent
  /\ ModalIsTheRequest
  /\ TurnsAreAsSent
  /\ OneTurnAtATime
  /\ TranscriptIsInOrder
  /\ RestIsTold

TuiSpec == TuiInit /\ [][TuiNext]_tuiVars
=============================================================================
