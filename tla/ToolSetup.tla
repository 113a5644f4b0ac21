------------------------------- MODULE ToolSetup -------------------------------
(***************************************************************************)
(* How a session gets its tools (crates/btv-cli/src/skills.rs over         *)
(* btv-verify's vetter.rs and btv-tools): the four of its own, then the    *)
(* skills of the repository, those of the user, the tools that MCP servers *)
(* announce and the queries of language servers.  A skill is vetted, its   *)
(* steps take their time, and its manifest is read again: the directory    *)
(* may have been edited meanwhile.                                         *)
(***************************************************************************)
EXTENDS Naturals, Sequences, SequencesExt

CONSTANTS
  OwnSkill,      \* directories under <root>/skills
  UserSkill,     \* directories under <root>/.btv/skills
  SkillName,     \* the names a manifest may give
  OwnTool,       \* `default_set`
  McpName,       \* the full names of what a declared MCP server may announce
  LspName,       \* the full names of a language server's queries
  MaxEdits       \* bound: edits of the directories

(* The skills of the repository and those of the user lie apart. *)
ASSUME SetupConstants == OwnSkill \cap UserSkill = {} /\ IsFiniteSet(OwnTool)

SkillDir == OwnSkill \cup UserSkill

VARIABLES
  disk,       \* per directory: its manifest and what its files show
  edits,      \* how often the user has edited one
  stage,      \* what `build_registry_with_vetting` is at
  todo,       \* the directories of this stage it has not come to
  vetted,     \* the directory at hand and the decision about it
  decided,    \* history, per directory: the decision of this load
  toolset,    \* `ToolRegistry`, in order
  statuses    \* the statuses for the ledger, in order

setupVars == <<disk, edits, stage, todo, vetted, decided, toolset, statuses>>

(* No readable manifest; or one with its name and perhaps no entrypoint,   *)
(* over files that check clean or not and steps of its own that pass or not.*)
Manifests ==
  {[readable |-> FALSE]} \cup
  [readable : {TRUE}, name : SkillName, entry : BOOLEAN, critical : BOOLEAN, passes : BOOLEAN]

Nothing == [dir |-> "none"]

SetupInit ==
  /\ disk \in [SkillDir -> Manifests]
  /\ edits = 0
  /\ stage = "own"
  /\ todo = OwnSkill
  /\ vetted = Nothing
  /\ decided = [d \in SkillDir |-> "none"]
  /\ toolset = SetToSeq({[name |-> n, from |-> "default", dir |-> "none", boxed |-> FALSE] : n \in OwnTool})
  /\ statuses = << >>

EditSkill(d) ==
  /\ edits < MaxEdits
  /\ disk' \in {[disk EXCEPT ![d] = m] : m \in Manifests \ {disk[d]}}
  /\ edits' = edits + 1
  /\ UNCHANGED <<stage, todo, vetted, decided, toolset, statuses>>

-----------------------------------------------------------------------------
(* `load_skills`. *)

(* `vet_skill`: a manifest that cannot be read blocks, a critical finding  *)
(* or a failed step too.                                                   *)
Decision(m) ==
  IF m.readable /\ ~m.critical /\ m.passes THEN "vet" ELSE "block"

Vet(d) ==
  /\ stage \in {"own", "user"} /\ d \in todo /\ vetted = Nothing
  /\ vetted' = [dir |-> d, decision |-> Decision(disk[d])]
  /\ decided' = [decided EXCEPT ![d] = Decision(disk[d])]
  /\ UNCHANGED <<disk, edits, stage, todo, toolset, statuses>>

Named(n) == \E i \in DOMAIN toolset : toolset[i].name = n

(* Bug: the collision is looked for only among the skills. *)
RegisterOverBuiltins(tool) ==
  toolset' = IF \E i \in DOMAIN toolset : toolset[i].name = tool.name /\ toolset[i].from = "skill"
             THEN toolset ELSE Append(toolset, tool)

Register(tool) == toolset' = IF Named(tool.name) THEN toolset ELSE Append(toolset, tool)

(* The manifest is read again: the status has its name; a skill that was   *)
(* blocked, is unreadable by now, has no entrypoint or whose name is taken *)
(* is not registered.                                                      *)
Admit ==
  /\ vetted # Nothing
  /\ LET d == vetted.dir
         m == disk[d]
     IN /\ statuses' = Append(statuses, [dir |-> d, status |-> vetted.decision])
        /\ todo' = todo \ {d}
        /\ IF vetted.decision = "vet" /\ m.readable /\ m.entry
           THEN Register([name |-> m.name, from |-> "skill", dir |-> d, boxed |-> d \in UserSkill])
           ELSE UNCHANGED toolset
  /\ vetted' = Nothing
  /\ UNCHANGED <<disk, edits, stage, decided>>

NextStage ==
  /\ stage \in {"own", "user"} /\ todo = {} /\ vetted = Nothing
  /\ stage' = IF stage = "own" THEN "user" ELSE "mcp"
  /\ todo' = IF stage = "own" THEN UserSkill ELSE {}
  /\ UNCHANGED <<disk, edits, vetted, decided, toolset, statuses>>

-----------------------------------------------------------------------------
(* `load_mcp_servers` and `load_lsp_servers`. *)

(* The tools with one more of this name, unless one has it. *)
WithTool(tools, name, from) ==
  IF \E i \in DOMAIN tools : tools[i].name = name THEN tools
  ELSE Append(tools, [name |-> name, from |-> from, dir |-> "none", boxed |-> FALSE])

(* Up to two tools, one after the other; a server may be out of reach, or   *)
(* announce a name twice: the file may declare it twice.                   *)
RegisterAll(names, from) ==
  \/ UNCHANGED toolset
  \/ \E n \in names : toolset' = WithTool(toolset, n, from)
  \/ \E m, n \in names : toolset' = WithTool(WithTool(toolset, m, from), n, from)

LoadMcp ==
  /\ stage = "mcp"
  /\ RegisterAll(McpName, "mcp")
  /\ stage' = "lsp"
  /\ UNCHANGED <<disk, edits, todo, vetted, decided, statuses>>

LoadLsp ==
  /\ stage = "lsp"
  /\ RegisterAll(LspName, "lsp")
  /\ stage' = "ready"
  /\ UNCHANGED <<disk, edits, todo, vetted, decided, statuses>>

SetupNext ==
  \/ \E d \in SkillDir : EditSkill(d) \/ Vet(d)
  \/ Admit \/ NextStage \/ LoadMcp \/ LoadLsp

SetupSpec == SetupInit /\ [][SetupNext]_setupVars

(* Whatever name the model calls, one tool answers: no skill, server or    *)
(* query shadows a tool that was there before, however the directories     *)
(* change during the load.  A skill among the tools was approved by this   *)
(* load, and the ledger is given the decision about every directory; a     *)
(* user's skill runs in the container and nowhere else ("é o que impede o  *)
(* vetting de ser decorativo").                                            *)
OneToolPerName ==
  /\ \A i, j \in DOMAIN toolset : toolset[i].name = toolset[j].name => i = j
  /\ \A i \in DOMAIN toolset : toolset[i].from = "skill" =>
       /\ decided[toolset[i].dir] = "vet"
       /\ [dir |-> toolset[i].dir, status |-> "vet"] \in ToSet(statuses)
       /\ toolset[i].boxed <=> toolset[i].dir \in UserSkill
  /\ stage = "ready" => \A d \in SkillDir : [dir |-> d, status |-> decided[d]] \in ToSet(statuses)
=============================================================================
