-------------------------------- MODULE LspClient ------------------------------
(***************************************************************************)
(* The language-server client (crates/btv-tools/src/lsp.rs).  A query has  *)
(* the session's mutex from its first step to its last, so there is one at *)
(* a time; it writes the server's stdin under a mutex of its own, which    *)
(* the reader thread takes too, to answer what the server asks.  The two   *)
(* pipes are bounded, and a write to a full one blocks.                    *)
(***************************************************************************)
EXTENDS Naturals, Sequences

CONSTANTS
  PipeSize,     \* messages a pipe holds
  MaxRequests,  \* bound: requests sent, the handshake among them
  MaxAsked      \* bound: requests and notifications the server sends

ASSUME LspConstants == {PipeSize, MaxRequests, MaxAsked} \subseteq Nat

VARIABLES
  lspProc,    \* the session's slot: "none", or the server "starting", "up"
  server,     \* its process: alive, what it is writing, the requests due an answer
  toServer,   \* the pipe to it: requests by id, 0 for what is sent without an id of ours
  fromServer, \* the pipe from it: [id, says], the id 0 but for a response
  stdinLock,  \* who has the mutex of stdin
  query,      \* the query: its kind, where it is, the request it waits for, the response it has
  nextId,     \* of requests; it begins again with a process, here it goes on
  opened,     \* whether didOpen was sent
  reader,     \* the reader: "reading", or it has a request to answer, or it ended
  shared,     \* the responses not yet taken, the diagnostics last published; dead
  asked,      \* what the server has sent unasked
  lspTold        \* what the tool told last: [kind, asked, from, as]

lspVars == <<lspProc, server, toServer, fromServer, stdinLock, query, nextId, opened, reader,
             shared, asked, lspTold>>

LspQuery == {"position", "symbol", "diagnostics"}   \* position: definition and references
NoResponse == [id |-> 0, says |-> "nothing"]
NoQuery == [kind |-> "none", at |-> "idle", id |-> 0, has |-> NoResponse]
ToldError(kind) == [kind |-> kind, asked |-> 0, from |-> 0, as |-> "error"]
NothingShared == [responses |-> {}, diagnostics |-> "none", dead |-> FALSE]

LspInit ==
  /\ lspProc = "none"
  /\ server = [alive |-> FALSE, out |-> << >>, due |-> {}]
  /\ toServer = << >> /\ fromServer = << >>
  /\ stdinLock = "none"
  /\ query = NoQuery
  /\ nextId = 0
  /\ opened = FALSE
  /\ reader = "none"
  /\ shared = NothingShared
  /\ asked = 0
  /\ lspTold = ToldError("none")

Sent(m) == toServer' = Append(toServer, m)

-----------------------------------------------------------------------------
(* The query's thread. *)

(* `LspTool::run`: an argument that is missing, or a file that cannot be   *)
(* read (`read_file`; a symbol has none), is told before the server is.    *)
Refused ==
  /\ query.at = "idle"
  /\ \E kind \in LspQuery :
       lspTold' = ToldError(kind)
  /\ UNCHANGED <<lspProc, server, toServer, fromServer, stdinLock, query, nextId, opened, reader,
                 shared, asked>>

(* `ensure_started`: a slot in use is used, whether its server lives.      *)
EnsureStarted ==
  /\ query.at = "idle"
  /\ nextId < MaxRequests
  /\ \E kind \in LspQuery :
       IF lspProc = "up"
       THEN query' = [query EXCEPT !.kind = kind, !.at = "started"] /\ UNCHANGED <<lspProc, server, reader>>
       ELSE /\ lspProc' = "starting"
            /\ server' = [alive |-> TRUE, out |-> << >>, due |-> {}]
            /\ reader' = "reading"
            /\ query' = [query EXCEPT !.kind = kind, !.at = "asking"]
  /\ UNCHANGED <<toServer, fromServer, stdinLock, nextId, opened, shared, asked, lspTold>>

(* `ensure_open`: didOpen once per document; a symbol query opens none, and *)
(* diagnostics are not asked for.                                          *)
EnsureOpen ==
  /\ query.at = "started"
  /\ query' = [query EXCEPT !.at = IF query.kind # "symbol" /\ ~opened THEN "opening"
                                   ELSE IF query.kind = "diagnostics" THEN "polling" ELSE "asking"]
  /\ UNCHANGED <<lspProc, server, toServer, fromServer, stdinLock, nextId, opened, reader, shared, asked, lspTold>>

(* The mutex of stdin: for a request, didOpen or `initialized`. *)
QueryLocks ==
  /\ query.at \in {"asking", "opening", "greeting"}
  /\ stdinLock = "none"
  /\ stdinLock' = "query"
  /\ UNCHANGED <<lspProc, server, toServer, fromServer, query, nextId, opened, reader, shared, asked, lspTold>>

(* `write_msg`: blocks on a full pipe; fails when nobody reads it. *)
QueryWrites ==
  /\ stdinLock = "query"
  /\ server.alive
  /\ Len(toServer) < PipeSize
  /\ stdinLock' = "none"
  /\ \/ /\ query.at = "asking"
        /\ Sent(nextId + 1)
        /\ nextId' = nextId + 1
        /\ query' = [query EXCEPT !.at = "waiting", !.id = nextId + 1, !.has = NoResponse]
        /\ UNCHANGED <<lspProc, opened>>
     \/ /\ query.at = "opening"
        /\ Sent(0)
        /\ opened' = TRUE
        /\ query' = [query EXCEPT !.at = "started"]
        /\ UNCHANGED <<lspProc, nextId>>
     \/ /\ query.at = "greeting"
        /\ Sent(0)
        /\ lspProc' = "up"
        /\ query' = [query EXCEPT !.at = "started"]
        /\ UNCHANGED <<nextId, opened>>
  /\ UNCHANGED <<server, fromServer, reader, shared, asked, lspTold>>

QueryWriteFails ==
  /\ stdinLock = "query"
  /\ ~server.alive
  /\ stdinLock' = "none"
  /\ query' = [query EXCEPT !.at = "failed"]
  /\ nextId' = IF query.at = "asking" THEN nextId + 1 ELSE nextId
  /\ UNCHANGED <<lspProc, server, toServer, fromServer, opened, reader, shared, asked, lspTold>>

(* `request` finds the response with its id, and takes it away. *)
Takes(r) ==
  /\ query' = [query EXCEPT !.at = "answered", !.has = r]
  /\ shared' = [shared EXCEPT !.responses = @ \ {r}]
  /\ UNCHANGED <<lspProc, server, toServer, fromServer, stdinLock, nextId, opened, reader, asked, lspTold>>

(* Bug: the first response at hand is taken, whosever it is. *)
TakeFirstResponse == query.at = "waiting" /\ \E r \in shared.responses : Takes(r)

TakeResponse == query.at = "waiting" /\ \E r \in shared.responses : r.id = query.id /\ Takes(r)

(* The server is dead, or the deadline passes. *)
GiveUp ==
  /\ query.at = "waiting"
  /\ \A r \in shared.responses : r.id # query.id
  /\ query' = [query EXCEPT !.at = "failed"]
  /\ UNCHANGED <<lspProc, server, toServer, fromServer, stdinLock, nextId, opened, reader, shared, asked, lspTold>>

(* `is_empty`, `is_retryable_lsp_error`: the answers a server that still   *)
(* indexes gives.                                                          *)
Unready(r) == r.says \in {"empty", "modified"}

(* `retry_until_ready`: and there is time, the same query asks again.      *)
Retry ==
  /\ query.at = "answered"
  /\ lspProc = "up"
  /\ Unready(query.has)
  /\ nextId < MaxRequests
  /\ query' = [query EXCEPT !.at = "asking"]
  /\ UNCHANGED <<lspProc, server, toServer, fromServer, stdinLock, nextId, opened, reader, shared, asked, lspTold>>

(* The handshake is answered: `initialized` is next. *)
Handshaken ==
  /\ query.at = "answered"
  /\ lspProc = "starting"
  /\ query' = [query EXCEPT !.at = IF query.has.says \in {"modified", "error"} THEN "failed" ELSE "greeting"]
  /\ UNCHANGED <<lspProc, server, toServer, fromServer, stdinLock, nextId, opened, reader, shared, asked, lspTold>>

(* What `LspTool::run` returns: the response rendered, or an error. *)
ToolTells(as) ==
  /\ lspTold' = IF as = "error" THEN ToldError(query.kind)
             ELSE [kind |-> query.kind, asked |-> query.id, from |-> query.has.id, as |-> as]
  /\ query' = NoQuery

(* A handshake that fails kills the server and joins the reader (`Drop`).  *)
HandshakeFails ==
  /\ query.at = "failed"
  /\ lspProc = "starting"
  /\ IF server.alive
     THEN server' = [server EXCEPT !.alive = FALSE] /\ UNCHANGED <<lspProc, fromServer, toServer, query, lspTold, reader, shared>>
     ELSE /\ reader = "ended"
          /\ lspProc' = "none"
          /\ toServer' = << >> /\ fromServer' = << >>
          /\ reader' = "none"
          /\ shared' = NothingShared
          /\ ToolTells("error")
          /\ UNCHANGED server
  /\ UNCHANGED <<stdinLock, nextId, opened, asked>>

(* `diagnostics`: what the reader has stashed; an empty report, or none by *)
(* the end of the budget, is lspTold as a clean file (`render_diagnostics`).  *)
PollDiagnostics ==
  /\ query.at = "polling"
  /\ ToolTells(IF shared.dead THEN "error" ELSE IF shared.diagnostics = "some" THEN "found" ELSE "clean")
  /\ UNCHANGED <<lspProc, server, toServer, fromServer, stdinLock, nextId, opened, reader, shared, asked>>

(* The query returns; the process stays for the next, dead or alive. *)
QueryReturns ==
  /\ query.at \in {"answered", "failed"}
  /\ lspProc = "up"
  /\ ToolTells(IF query.at = "failed" \/ query.has.says \in {"modified", "error"} THEN "error" ELSE query.has.says)
  /\ UNCHANGED <<lspProc, server, toServer, fromServer, stdinLock, nextId, opened, reader, shared, asked>>

Query ==
  \/ Refused \/ EnsureStarted \/ EnsureOpen \/ QueryLocks \/ QueryWrites \/ QueryWriteFails
  \/ TakeResponse \/ GiveUp \/ Retry \/ PollDiagnostics
  \/ Handshaken \/ HandshakeFails \/ QueryReturns

-----------------------------------------------------------------------------
(* The reader's thread, `reader_loop`. *)

(* An error of `read_msg`: the queries that wait are lspTold, and it ends. *)
ReaderStops ==
  /\ reader' = "ended"
  /\ shared' = [shared EXCEPT !.dead = TRUE]

(* `read_msg`, and where each message goes; one it cannot read (a length   *)
(* that is no number, a body that is no JSON) ends it with the server at   *)
(* work.                                                                   *)
ReaderReads ==
  /\ reader = "reading"
  /\ fromServer # << >>
  /\ fromServer' = Tail(fromServer)
  /\ LET m == Head(fromServer) IN
     \/ m.says = "ask" /\ reader' = "answering" /\ UNCHANGED shared
     \/ /\ m.says = "diagnostics"
        /\ shared' = [shared EXCEPT !.diagnostics = "some"]
        /\ UNCHANGED reader
     \/ /\ m.id # 0
        /\ shared' = [shared EXCEPT !.responses = @ \cup {m}]
        /\ UNCHANGED reader
     \/ m.says = "garbage" /\ ReaderStops
  /\ UNCHANGED <<lspProc, server, toServer, stdinLock, query, nextId, opened, asked, lspTold>>

ReaderLocks ==
  /\ reader = "answering"
  /\ stdinLock = "none"
  /\ stdinLock' = "reader"
  /\ UNCHANGED <<lspProc, server, toServer, fromServer, query, nextId, opened, reader, shared, asked, lspTold>>

(* `respond_server_request`; an error is not looked at. *)
ReaderAnswers ==
  /\ stdinLock = "reader"
  /\ server.alive => Len(toServer) < PipeSize
  /\ stdinLock' = "none"
  /\ reader' = "reading"
  /\ toServer' = IF server.alive THEN Append(toServer, 0) ELSE toServer
  /\ UNCHANGED <<lspProc, server, fromServer, query, nextId, opened, shared, asked, lspTold>>

(* The end of the stream. *)
ReaderEnds ==
  /\ reader = "reading"
  /\ fromServer = << >>
  /\ ~server.alive
  /\ ReaderStops
  /\ UNCHANGED <<lspProc, server, toServer, fromServer, stdinLock, query, nextId, opened, asked, lspTold>>

ReaderLoop == ReaderReads \/ ReaderLocks \/ ReaderAnswers \/ ReaderEnds

-----------------------------------------------------------------------------
(* The server: it reads when it has nothing to write, answers or leaves    *)
(* unanswered, in any order, asks, and may die.                            *)

ServerReads ==
  /\ server.alive /\ server.out = << >>
  /\ toServer # << >>
  /\ toServer' = Tail(toServer)
  /\ IF Head(toServer) = 0 THEN UNCHANGED server
     ELSE server' = [server EXCEPT !.due = @ \cup {Head(toServer)}]
  /\ UNCHANGED <<lspProc, fromServer, stdinLock, query, nextId, opened, reader, shared, asked, lspTold>>

ServerSays ==
  /\ server.alive /\ server.out = << >>
  /\ \/ /\ \E id \in server.due, says \in {"found", "empty", "modified", "error"} :
             server' = [server EXCEPT !.out = <<[id |-> id, says |-> says]>>, !.due = @ \ {id}]
        /\ UNCHANGED asked
     \/ /\ asked < MaxAsked
        /\ \E says \in {"ask", "diagnostics", "garbage"} :
             server' = [server EXCEPT !.out = <<[id |-> 0, says |-> says]>>]
        /\ asked' = asked + 1
  /\ UNCHANGED <<lspProc, toServer, fromServer, stdinLock, query, nextId, opened, reader, shared, lspTold>>

ServerWrites ==
  /\ server.alive /\ server.out # << >>
  /\ Len(fromServer) < PipeSize
  /\ fromServer' = fromServer \o server.out
  /\ server' = [server EXCEPT !.out = << >>]
  /\ UNCHANGED <<lspProc, toServer, stdinLock, query, nextId, opened, reader, shared, asked, lspTold>>

ServerDies ==
  /\ server.alive
  /\ server' = [server EXCEPT !.alive = FALSE]
  /\ UNCHANGED <<lspProc, toServer, fromServer, stdinLock, query, nextId, opened, reader, shared, asked, lspTold>>

LspNext ==
  \/ Query
  \/ ReaderLoop
  \/ ServerReads \/ ServerSays \/ ServerWrites \/ ServerDies

LspSpec == LspInit /\ [][LspNext]_lspVars

-----------------------------------------------------------------------------
(* Properties. *)

(* A query is given the answer to its own request, however many timed out  *)
(* before it and whenever their answers come (`request`), and tells that   *)
(* answer: places for places, nothing only when the server said nothing.   *)
AnswersMatchRequests ==
  lspTold.as \in {"found", "empty"} /\ lspTold.kind # "diagnostics" => lspTold.asked # 0 /\ lspTold.from = lspTold.asked

(* What the constants of the module say ("o reader de fundo drenando o     *)
(* stdout continuamente", "em vez de pendurar a thread da consulta para    *)
(* sempre") and the mutex of stdin does not keep: the query never blocks   *)
(* on a pipe that only the reader it keeps waiting could make move.        *)
ReaderAlwaysDrains ==
  ~ (/\ stdinLock = "query" /\ Len(toServer) = PipeSize
     /\ reader = "answering"
     /\ server.alive /\ server.out # << >> /\ Len(fromServer) = PipeSize)
=============================================================================
