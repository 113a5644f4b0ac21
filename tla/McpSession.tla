------------------------------ MODULE McpSession ------------------------------
(***************************************************************************)
(* One session with an MCP server (`McpSession` in                         *)
(* crates/btv-tools/src/mcp.rs): the tools of a server share a thread that *)
(* connects when the first command comes, serves the commands of a channel *)
(* one at a time, each with a deadline, and ends when nobody holds the     *)
(* session any more.  The console's probe is a session of one command,     *)
(* whose caller gives up before the thread does.                           *)
(***************************************************************************)
EXTENDS Naturals, Sequences

CONSTANTS
  McpCaller,    \* those that send one command each
  NoCaller,
  Links         \* bound: connections, each to a server process of its own

ASSUME McpConstants == NoCaller \notin McpCaller /\ Links \in Nat

VARIABLES
  inbox,      \* the channel: the commands sent and not taken
  serving,    \* whose command the thread is at
  doing,      \* "idle", "connecting", "operating" or "ended"
  link,       \* `client`: the connection, or 0
  mcpServer,     \* per connection: its server process
  told,       \* per caller: what it was answered
  held,       \* does the registry, or the probe, still hold the session?
  expired     \* history: connections an operation has timed out on

mcpVars == <<inbox, serving, doing, link, mcpServer, told, held, expired>>

Unsent == [kind |-> "none"]
Waits == [kind |-> "waiting"]

McpInit ==
  /\ inbox = << >>
  /\ serving = NoCaller
  /\ doing = "idle"
  /\ link = 0
  /\ mcpServer = [n \in 1 .. Links |-> "new"]
  /\ told = [c \in McpCaller |-> Unsent]
  /\ held = TRUE
  /\ expired = {}

(* `call` and `list_tools`: the caller holds the session while it waits,   *)
(* without a deadline of its own.                                          *)
SendCommand(c) ==
  /\ held /\ told[c] = Unsent
  /\ inbox' = Append(inbox, c)
  /\ told' = [told EXCEPT ![c] = Waits]
  /\ UNCHANGED <<serving, doing, link, mcpServer, held, expired>>

DropSession ==
  /\ held
  /\ \A c \in McpCaller : told[c] # Waits
  /\ held' = FALSE
  /\ UNCHANGED <<inbox, serving, doing, link, mcpServer, told, expired>>

-----------------------------------------------------------------------------
(* `session_loop`. *)

TakeCommand ==
  /\ doing = "idle" /\ inbox # << >>
  /\ serving' = Head(inbox)
  /\ inbox' = Tail(inbox)
  /\ doing' = IF link = 0 THEN "connecting" ELSE "operating"
  /\ UNCHANGED <<link, mcpServer, told, held, expired>>

Tells(answer) ==
  /\ told' = [told EXCEPT ![serving] = answer]
  /\ serving' = NoCaller
  /\ doing' = "idle"

(* A connection that is dropped ends its server. *)
Ended(n) == [mcpServer EXCEPT ![n] = "dead"]

Connects ==
  /\ doing = "connecting"
  /\ \E n \in 1 .. Links :
       /\ mcpServer[n] = "new"
       /\ mcpServer' = [mcpServer EXCEPT ![n] = "up"]
       /\ link' = n
  /\ doing' = "operating"
  /\ UNCHANGED <<inbox, serving, told, held, expired>>

(* It cannot be started, refuses the handshake, or takes too long; the     *)
(* next command tries again.                                               *)
ConnectFails ==
  /\ doing = "connecting"
  /\ Tells([kind |-> "error"])
  /\ UNCHANGED <<inbox, link, mcpServer, held, expired>>

Answered ==
  /\ doing = "operating" /\ mcpServer[link] = "up"
  /\ Tells([kind |-> "result", by |-> link, of |-> serving])
  /\ UNCHANGED <<inbox, link, mcpServer, held, expired>>

(* The server answers an error, or is gone; the connection is kept. *)
OperationFails ==
  /\ doing = "operating" /\ mcpServer[link] \in {"up", "dead"}
  /\ Tells([kind |-> "error"])
  /\ UNCHANGED <<inbox, link, mcpServer, held, expired>>

(* Bug: the connection outlives the operation that timed out on it. *)
OperationTimesOutKeeping ==
  /\ doing = "operating"
  /\ expired' = expired \cup {link}
  /\ Tells([kind |-> "error"])
  /\ UNCHANGED <<inbox, link, mcpServer, held>>

(* Bug: the operation itself has no deadline; one on a server that hangs   *)
(* ends with the server.                                                   *)
OperationTimesOutNever ==
  /\ doing = "operating" /\ mcpServer[link] # "hung"
  /\ expired' = expired \cup {link}
  /\ mcpServer' = Ended(link)
  /\ link' = 0
  /\ Tells([kind |-> "error"])
  /\ UNCHANGED <<inbox, held>>

OperationTimesOut ==
  /\ doing = "operating"
  /\ expired' = expired \cup {link}
  /\ mcpServer' = Ended(link)
  /\ link' = 0
  /\ Tells([kind |-> "error"])
  /\ UNCHANGED <<inbox, held>>

(* The channel is closed: nobody holds the session. *)
EndsSession ==
  /\ doing = "idle" /\ inbox = << >> /\ ~held
  /\ doing' = "ended"
  /\ mcpServer' = IF link = 0 THEN mcpServer ELSE Ended(link)
  /\ link' = 0
  /\ UNCHANGED <<inbox, serving, told, held, expired>>

-----------------------------------------------------------------------------
McpServerHangs(n) ==
  /\ mcpServer[n] = "up"
  /\ mcpServer' = [mcpServer EXCEPT ![n] = "hung"]
  /\ UNCHANGED <<inbox, serving, doing, link, told, held, expired>>

McpServerDies(n) ==
  /\ mcpServer[n] \in {"up", "hung"}
  /\ mcpServer' = Ended(n)
  /\ UNCHANGED <<inbox, serving, doing, link, told, held, expired>>

SessionStep ==
  \/ TakeCommand \/ Connects \/ ConnectFails \/ Answered \/ OperationFails
  \/ OperationTimesOut \/ EndsSession

McpNext ==
  \/ \E c \in McpCaller : SendCommand(c)
  \/ DropSession
  \/ SessionStep
  \/ \E n \in 1 .. Links : McpServerHangs(n) \/ McpServerDies(n)

(* The thread runs, and its deadlines pass. *)
McpFairness == WF_mcpVars(SessionStep)

OwnAnswersOnly ==
  /\ \A c \in McpCaller : told[c].kind = "result" => told[c].of = c
  /\ link \notin expired
  /\ \A n \in 1 .. Links : mcpServer[n] \in {"up", "hung"} => n = link
  /\ doing = "ended" => \A c \in McpCaller : told[c] # Waits

(* A result is the caller's own; a server that left a command without an   *)
(* answer is given no other one, no server process is left without its     *)
(* connection, nor a command unanswered when the thread has ended          *)
(* (`session_loop`, "a thread SEMPRE termina").  And the session comes to  *)
(* rest again and again, every command answered, for a server that hangs   *)
(* takes its deadline from the thread, not the thread.                     *)
CommandsAreServed == []OwnAnswersOnly /\ []<>(\A c \in McpCaller : told[c] # Waits)
=============================================================================
