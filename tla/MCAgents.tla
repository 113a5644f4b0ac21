-------------------------------- MODULE MCAgents --------------------------------
(* The agents' machinery for TLC: the web sessions, the durable session, the *)
(* permission rules, the language server, the orchestrator, the core sockets *)
(* and an MCP server's session.  Each behaviour is one of one part, the      *)
(* others keep an initial state.  Scopes are paths: "in/" covers the file in *)
(* it, "" all.                                                               *)
EXTENDS SessionHub, DurableSession, RulePolicy, LspClient, Orchestrator, CoreSocket,
  CliSquad, McpSession

VARIABLE part

MCCovers(prefix) == IF prefix = "in/" THEN {"in/f"} ELSE {"in/f", "out", ""}
MCDefaultRules(profile) ==
  <<[tool |-> "edit", scope |-> NoPrefix, decision |-> IF profile = "plan" THEN "deny" ELSE "ask"]>>

AgentsInit ==
  /\ part \in {"web", "durable", "rules", "lsp", "squad", "socket", "cli", "mcp"}
  /\ DurInit /\ RuleInit /\ LspInit /\ SocketInit /\ McpInit
  /\ OrcInit
  /\ part # "squad" => orc.roster /\ orc.wire = "pass"
  /\ CliInit
  /\ part # "cli" => cli.profile = "build"
  /\ WebInit
  /\ part # "web" => \A p, q \in Post : post[p].session = CHOOSE s \in Session : TRUE

AgentsNext ==
  \/ /\ part = "web" /\ WebNext
     /\ UNCHANGED <<part, durVars, ruleVars, lspVars, orcVars, socketVars, cliVars, mcpVars>>
  \/ /\ part = "durable" /\ DurNext
     /\ UNCHANGED <<part, webVars, ruleVars, lspVars, orcVars, socketVars, cliVars, mcpVars>>
  \/ /\ part = "rules" /\ RuleNext
     /\ UNCHANGED <<part, webVars, durVars, lspVars, orcVars, socketVars, cliVars, mcpVars>>
  \/ /\ part = "lsp" /\ LspNext
     /\ UNCHANGED <<part, webVars, durVars, ruleVars, orcVars, socketVars, cliVars, mcpVars>>
  \/ /\ part = "squad" /\ OrcNext
     /\ UNCHANGED <<part, webVars, durVars, ruleVars, lspVars, socketVars, cliVars, mcpVars>>
  \/ /\ part = "socket" /\ SocketNext
     /\ UNCHANGED <<part, webVars, durVars, ruleVars, lspVars, orcVars, cliVars, mcpVars>>
  \/ /\ part = "cli" /\ CliNext
     /\ UNCHANGED <<part, webVars, durVars, ruleVars, lspVars, orcVars, socketVars, mcpVars>>
  \/ /\ part = "mcp" /\ McpNext
     /\ UNCHANGED <<part, webVars, durVars, ruleVars, lspVars, orcVars, socketVars, cliVars>>

AgentsSpec ==
  /\ AgentsInit
  /\ [][AgentsNext]_<<part, webVars, durVars, ruleVars, lspVars, orcVars, socketVars, cliVars, mcpVars>>
  /\ WebFairness /\ McpFairness
=============================================================================
