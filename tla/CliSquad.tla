-------------------------------- MODULE CliSquad --------------------------------
(***************************************************************************)
(* `btv squad` on the terminal (crates/btv-cli/src/squad.rs, and run_once  *)
(* of main.rs): the task goes to the squad of a Python process, which      *)
(* calls back for tools and approvals; if that fails, to a single agent in *)
(* this process; if that fails too, to nobody.  A call whose caller is     *)
(* gone leaves behind what it was blocked on: a prompt that will take the  *)
(* next line typed, a tool that runs to its end.                           *)
(***************************************************************************)
EXTENDS Integers, Sequences, FiniteSets

CONSTANTS
  MaxActions,   \* bound: tool calls and approval requests, of either level
  CliScope,     \* what their arguments name
  MaxTurns      \* max_steps

CliCall == 1 .. MaxActions

VARIABLES
  cli,      \* where the command is: [level, at, profile, turns]
  action,   \* per call: [by, at, tool, scope, declared, code]
  prompts,  \* the calls at a [s/N] prompt, in the order they read the terminal
  shown,    \* history: the scope the prompt of a call showed
  agreed,   \* history: the calls approved, by a line typed or by --yes
  acted,    \* history: the calls whose tool ran well
  book      \* the ledger: [kind, of], `of` a call or a level

cliVars == <<cli, action, prompts, shown, agreed, acted, book>>

NoAction == [by |-> "none", at |-> "none", tool |-> "none",
             scope |-> "none", declared |-> "none", code |-> 0]

CliInit ==
  /\ \E p \in {"build", "plan", "unknown"} :
       cli = [level |-> "squad", at |-> "spawn", profile |-> p, turns |-> 0]
  /\ action = [c \in CliCall |-> NoAction]
  /\ prompts = << >>
  /\ shown = [c \in CliCall |-> "none"]
  /\ agreed = {} /\ acted = {}
  /\ book = {}

(* `append_entry`, `Session::record` and `note`: what fails is only printed. *)
Noted(kind, of) == book' \in {book, book \cup {[kind |-> kind, of |-> of]}}
(* `Session::open` and `finish`: a failure is the caller's. *)
Written(kind, of) == book' = book \cup {[kind |-> kind, of |-> of]}

At(level, stage) == cli' = [cli EXCEPT !.level = level, !.at = stage]
CallAt(c, stage, code) ==
  action' = [action EXCEPT ![c].at = stage, ![c].code = code, ![c].declared = "none"]

-----------------------------------------------------------------------------
(* The permission engine.  The squad has the `build` profile whatever the  *)
(* command was given, the agent the one it was given.                      *)
EvaluateScope(c) ==
  LET profile == IF action[c].by = "squad" THEN "build" ELSE cli.profile
  IN  CASE action[c].tool = "hitl" -> "ask"
        [] action[c].tool = "read" -> "allow"
        [] OTHER -> IF profile = "build" THEN "ask" ELSE "deny"

(* Bug: the scope asked about is the one the caller declares. *)
ScopeOfDeclared(c) == action[c].declared

(* `Tool::scope` of the arguments. *)
ScopeOf(c) == action[c].scope

-----------------------------------------------------------------------------
(* A call: of the squad over the socket, of the agent in its loop. *)

CallsFor(c, level, tools) ==
  /\ action[c].at = "none" /\ \A d \in 1 .. c - 1 : action[d].at # "none"
  /\ \E t \in tools, s, d \in CliScope :
       action' = [action EXCEPT ![c] =
         [NoAction EXCEPT !.by = level, !.at = "received", !.tool = t, !.scope = s, !.declared = d]]

(* `RunTool` and `RequestPermission` while the squad's stream is on. *)
SquadCalls(c) ==
  /\ cli.level = "squad" /\ cli.at = "stream"
  /\ CallsFor(c, "squad", {"read", "edit", "hitl", "nonesuch"})
  /\ UNCHANGED <<cli, prompts, shown, agreed, acted, book>>

(* `core_run_tool` and `AgentLoop::run_tool`: an unknown tool or arguments  *)
(* that do not parse are an error, then the permission, by --yes or asked.  *)
Judge(c) ==
  /\ action[c].at = "received"
  /\ IF action[c].tool = "nonesuch" THEN CallAt(c, "answered", 1) /\ UNCHANGED <<prompts, shown, agreed, book>>
     ELSE \/ /\ EvaluateScope(c) = "allow"
             /\ CallAt(c, "running", 0)
             /\ UNCHANGED <<prompts, shown, agreed, book>>
          \/ /\ EvaluateScope(c) = "deny"
             /\ CallAt(c, "answered", -1)
             /\ Noted("denied", c)
             /\ UNCHANGED <<prompts, shown, agreed>>
          \/ /\ EvaluateScope(c) = "ask"
             /\ shown' = [shown EXCEPT ![c] = ScopeOf(c)]
             /\ prompts' = Append(prompts, c)
             /\ CallAt(c, "asking", 0)
             /\ UNCHANGED <<agreed, book>>
  /\ UNCHANGED <<cli, acted>>

(* A line is typed, or the input ends (--yes answers at once): the first    *)
(* prompt takes it, even one whose call is gone.                            *)
TypeLine(yes) ==
  /\ prompts # << >>
  /\ LET c == Head(prompts)
     IN  CASE action[c].at = "dropped" -> UNCHANGED <<action, agreed, book>>
           [] action[c].at # "dropped" /\ yes ->
                /\ CallAt(c, IF action[c].tool = "hitl" THEN "answered" ELSE "running", 0)
                /\ agreed' = agreed \cup {c}
                /\ UNCHANGED book
           [] OTHER ->
                /\ CallAt(c, "answered", -1)
                /\ IF action[c].tool = "hitl" THEN UNCHANGED book ELSE Noted("denied", c)
                /\ UNCHANGED agreed
  /\ prompts' = Tail(prompts)
  /\ UNCHANGED <<cli, shown, acted>>

(* The tool runs, in `spawn_blocking` for the squad: it ends also when its  *)
(* call is gone, but then nobody notes it.                                  *)
ToolRuns(c) ==
  \E ok \in BOOLEAN :
    /\ action[c].at \in {"running", "orphan"}
    /\ acted' = IF ok THEN acted \cup {c} ELSE acted
    /\ IF action[c].at = "orphan" THEN CallAt(c, "over", 0) /\ UNCHANGED book
       ELSE /\ CallAt(c, "answered", IF ok THEN 0 ELSE 1)
            /\ Noted(IF ok THEN "ran" ELSE "failed", c)
    /\ UNCHANGED <<cli, prompts, shown, agreed>>

(* The squad's process is gone, and with its connection the call's future. *)
HangUp(c) ==
  /\ cli.level # "squad"
  /\ action[c].by = "squad" /\ action[c].at \in {"received", "asking", "running"}
  /\ CallAt(c, IF action[c].at = "running" THEN "orphan" ELSE "dropped", 0)
  /\ UNCHANGED <<cli, prompts, shown, agreed, acted, book>>

-----------------------------------------------------------------------------
(* `try_squad`. *)

Stages == <<"spawn", "session", "verify", "execute", "stream">>

(* Spawn and health, `Session::open`, the /verify before, `ExecuteTask`. *)
PrepareSquad ==
  \E i \in 1 .. 4 :
    /\ cli.level = "squad" /\ cli.at = Stages[i]
    /\ At("squad", Stages[i + 1])
    /\ IF cli.at = "session" THEN Written("start", "squad") ELSE UNCHANGED book
    /\ UNCHANGED <<action, prompts, shown, agreed, acted>>

(* Any of them fails: the session, if it was opened, is left open. *)
PrepareFails ==
  /\ cli.level = "squad" /\ cli.at \in {"spawn", "session", "verify", "execute"}
  /\ At("agent", "boot")
  /\ UNCHANGED <<action, prompts, shown, agreed, acted, book>>

(* `render_and_record`: the stream completes, or brings an error or breaks. *)
StreamCompletes ==
  /\ cli.level = "squad" /\ cli.at = "stream"
  /\ \A c \in CliCall : action[c].at \in {"none", "answered"}
  /\ At("squad", "over")
  /\ Noted("success", "squad")
  /\ UNCHANGED <<action, prompts, shown, agreed, acted>>

StreamFails ==
  /\ cli.level = "squad" /\ cli.at = "stream"
  /\ At("agent", "boot")
  /\ Noted("failure", "squad")
  /\ UNCHANGED <<action, prompts, shown, agreed, acted>>

-----------------------------------------------------------------------------
(* `run_once`. *)

(* An unknown profile has no loop; then the session, its vetting notes and  *)
(* the durable session.                                                     *)
BootAgent ==
  /\ cli.level = "agent" /\ cli.at = "boot"
  /\ cli.profile # "unknown"
  /\ At("agent", "turn")
  /\ Written("start", "agent")
  /\ UNCHANGED <<action, prompts, shown, agreed, acted>>

BootFails ==
  /\ cli.level = "agent" /\ cli.at = "boot"
  /\ At("safe", "over")
  /\ IF cli.profile = "unknown" THEN UNCHANGED book ELSE Noted("start", "agent")
  /\ UNCHANGED <<action, prompts, shown, agreed, acted>>

(* A turn asks for tools, run one after the other, or is the last. *)
AgentCalls(c) ==
  /\ cli.level = "agent" /\ cli.at = "turn"
  /\ cli.turns < MaxTurns
  /\ \A d \in CliCall : action[d].by = "agent" => action[d].at = "answered"
  /\ CallsFor(c, "agent", {"read", "edit", "nonesuch"})
  /\ cli' = [cli EXCEPT !.turns = @ + 1]
  /\ UNCHANGED <<prompts, shown, agreed, acted, book>>

(* The loop ends well, or with an error of the model or the last turn; an   *)
(* ending that cannot be noted is a failure too.                            *)
AgentEnds(ok) ==
  /\ cli.level = "agent" /\ cli.at = "turn"
  /\ \A d \in CliCall : action[d].by = "agent" => action[d].at = "answered"
  /\ \/ Written(IF ok THEN "success" ELSE "failure", "agent") /\ At(IF ok THEN "agent" ELSE "safe", "over")
     \/ UNCHANGED book /\ At("safe", "over")
  /\ UNCHANGED <<action, prompts, shown, agreed, acted>>

TrySquad == PrepareSquad \/ PrepareFails \/ StreamCompletes \/ StreamFails
CliRunOnce == BootAgent \/ BootFails \/ \E ok \in BOOLEAN : AgentEnds(ok)
CoreRunTool(c) == Judge(c) \/ ToolRuns(c)

CliNext ==
  \/ TrySquad
  \/ CliRunOnce
  \/ \E yes \in BOOLEAN : TypeLine(yes)
  \/ \E c \in CliCall : SquadCalls(c) \/ AgentCalls(c) \/ CoreRunTool(c) \/ HangUp(c)

CliSpec == CliInit /\ [][CliNext]_cliVars

-----------------------------------------------------------------------------
(* Properties. *)

NotedAs(kind, of) == [kind |-> kind, of |-> of] \in book

(* Over both levels and the fall from one to the other: a tool acts only    *)
(* where the engine allows it or a human agreed to that very call, having   *)
(* been shown the scope it acts on (`core_run_tool`: the scope the network  *)
(* declares is never used); a prompt left by a call that is gone takes a    *)
(* line but runs nothing; -1 means it never ran, and what the ledger says   *)
(* of it and of the two sessions is so.                                     *)
EffectsWerePermitted ==
  /\ \A c \in acted :
       /\ action[c].tool \in {"read", "edit"}
       /\ action[c].tool = "edit" =>
            /\ c \in agreed
            /\ shown[c] = action[c].scope
            /\ action[c].by = "agent" => cli.profile = "build"
  /\ \A c \in CliCall :
       /\ action[c].code = -1 => c \notin acted
       /\ NotedAs("denied", c) \/ NotedAs("failed", c) => c \notin acted
       /\ NotedAs("ran", c) => c \in acted
  /\ NotedAs("success", "squad") => ~NotedAs("start", "agent")
  /\ \A l \in {"squad", "agent"} :
       /\ ~(NotedAs("success", l) /\ NotedAs("failure", l))
       /\ NotedAs("success", l) \/ NotedAs("failure", l) => NotedAs("start", l)
=============================================================================
