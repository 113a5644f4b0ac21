# Formal models of BuildToValue

TLA+ models, TLC runs and TLAPS proofs for the Rust and Python code of this
repository. Paths are relative to the repository. `squad_agent.rs`,
`btv_agent.rs`, `web_agent.rs`, `squad.rs` and `main.rs` are under
`crates/btv-cli/src`; `service.rs`, `squad_client.rs` and `core_server.rs` under
`crates/btv-sidecar/src`; `ledger.rs`, `btv.rs` and `pg.rs` under
`crates/btv-store/src`; `server.py`, `orchestrator.py` and `agents/` under
`python/packages/btv-squad/src/btv_squad`.

## 1. The system

BuildToValue lets a user activate a *squad* of agents from a gallery, follow its
work, approve what it asks for and collect what it delivers. The same agents
serve a terminal (`btv run`, `chat`, `squad`, `tui`) and web sessions.

| part | state it keeps | operations | interacts with |
|---|---|---|---|
| **SquadHub** (`squad_agent.rs`) | per task: event log, broadcast sender, pending gate, inbox, stopped flag, abort handle, tool notes; one mutex over all | new_task, publish, finish_task, subscribe, request/resolve_hitl, push/take_user_message, note_tool_run, register_abort, emergency_stop | everything below |
| **Squad runner** (`run_squad_task`) | a tokio task per squad, its lease of the pool, a gRPC stream | boot, receive and publish, report, finish, abort | hub, pool, orchestrator, ledger |
| **Activation, watcher, gate handlers** (`btv_agent.rs`) | the run row, deliverables, facts | activate, approve a gate, ask for an adjustment, write the final status, deliver | hub, SQLite store, ledger |
| **Squad process pool** (`service.rs`) | permits, free list, a process per slot | acquire, drop of lease and guard | runner, sidecar processes |
| **Prompt and memory services** (`service.rs`, `supervisor.rs`) | one Python server each, behind one lock | start, health check, restart, ask, stop with the dashboard | handlers, sockets of the workspace |
| **Python orchestrator** (`server.py`, `orchestrator.py`, `agents/`) | event queue, plan, votes, ReAct loop, memories | ExecuteTask, gates, RunTool, Generate, remember, recall | core server over a Unix socket |
| **Core gRPC server** (`core_server.rs`) | a listener on one socket path | bind, route a call to its backend | orchestrator, hub, tools |
| **Ledger** (`ledger.rs`, `pg.rs`) | a hash chain per tenant | append, migrate, verify, export | every writer of facts, in several processes |
| **Web agent sessions** (`web_agent.rs`) | per session: log, busy flag, pending permission | message, permission, answer | agent loop |
| **Agent loop, permissions, sessions** (`btv-core`, `rule_store.rs`, `events.rs`) | conversation, rules, events | turn, tool call, evaluate, compact, persist, reopen | gateway, tools, stores |
| **Gateway, cache, rate limit, adapters** (`btv-llm`, `cache.rs`, `rate_limit_gen.rs`) | provider order, window of call times, cached turns, stream state | generate with fallback, aggregate a stream, record usage | providers |
| **Stores** (`btv-store`) | SQLite and PostgreSQL tables: runs, deliverables, users, personas, publications, sessions, prompts | upsert, list, migrate, delete | dashboard, terminals, several processes |
| **Tenants and the border** (`tenant_extractor.rs`, `guard.rs`) | mode, sessions | guard the origin, resolve the tenant twice | every handler |
| **Tools** (`btv-tools`, `skills.rs`, `btv-verify`) | registry, processes, containers, connections of MCP and LSP servers | run, vet, register, query, verify | agents, `/verify` |
| **Terminal** (`main.rs`, `squad.rs`, `tui_app.rs`) | the screen, prompts of the line, a fallback chain | run, chat, squad with fallback, screen and keys | all of the above |

What is hard about it: the hub's callers are HTTP handlers, gRPC handlers, the
runner and the watcher, which interleave at every lock; a user may answer a
gate that has just timed out; a kill-switch may fall between any two steps; the
orchestrator is another process with deadlines of its own, which nobody stops;
the run row, the library and the ledger are written one after the other; the
dashboard may crash between them, and another may start on the same directory;
processes, pipes and sockets fail on their own; two processes migrate one file.
`PROJECT.json` lists these hazards at their lines, each with the properties
that would catch it.

What makes each part correct:

* *hub* - nobody waits for a verdict that cannot come; a verdict is the answer
  delivered or a denial, once; a subscriber sees every event once and in order;
  guidance reaches one model turn; a stop reaches every waiter and every stream;
* *squad's life* - a row lives the domain's states, its status is how the run
  ended, nothing is written without an approval or delivered without a note,
  no fact without its state, and every run ends;
* *pool and services* - a slot per permit, a holder per slot, an owner per
  process, and nobody waits behind a leak;
* *ledger* - one whole chain per tenant, never rewritten, whose verification is
  right whatever happens beside it;
* *core server* - a call reaches the backend of the task that made it, or nobody;
* *orchestrator* - nothing runs that was not agreed, nothing is approved that
  was not done;
* *web sessions, durable sessions, rules* - one actor per session, an answer
  for its own request, a history nobody appends to unread, the user's last word;
* *gateway, streams* - a caller is given a turn a provider gave, whole, however
  it was cut and however calls race; never more calls than the rate;
* *stores and border* - a save is whole or nothing, a call looks indivisible,
  what a request sees is its own tenant's and its session's;
* *tools* - one tool per name, an answer that is final, a process that ends, a
  text that is told as it is;
* *terminal* - a tool acts only with consent to that very call, over both
  levels of the fallback; the screen shows what the agent does.

## 2. Modules

| module | models | checked in |
|---|---|---|
| `HumanGate` | abstract: what a human gate promises its caller | `hub_gate` |
| `SquadHub` | the hub, one action per critical section | `hub_gate`, `hub_streams` |
| `RunLifecycle` | abstract: the life of a persisted run (`RunStatus`, `Run`) | `run_life` |
| `SquadRun` | composition: activation, runner, orchestrator, tools, kill-switch, gate handlers, watcher, crash and restart, over the hub | `run_life`, `run_ending`, `run_faults`, `x_kill`, `x_ledger` |
| `SquadPool`, `SidecarService` | the pool of squad processes; the Python services of a dashboard | `pool` |
| `ToolProcess`, `ToolSetup`, `TextTools` | a command and its process; how a session gets its tools; what is told and written of a text | `pool` |
| `WireStream`, `PromptLibrary`, `TuiApp` | a model's turn over HTTP; saved prompts; the terminal screen | `pool` |
| `Ledger`, `PgLedger` | the ledger of SQLite and of PostgreSQL | `ledger`, `x_migrate` |
| `TenantBorder`, `Profiles`, `PgProfiles`, `RunStore` | sessions and the border; users, personas and publications on both adapters; runs and deliverables on both | `ledger` |
| `SquadMemory`, `LlmGateway`, `VerifyJob` | the agents' memory; what stands before the providers; `/verify` | `ledger` |
| `SessionHub`, `DurableSession`, `RulePolicy` | web sessions; a durable conversation; permission rules | `agents` |
| `LspClient`, `McpSession` | clients of a language server and of an MCP server | `agents` |
| `Orchestrator`, `CoreSocket`, `CliSquad` | one task of the Python squad; how it finds its backend; `btv squad` on the terminal | `agents`, `x_socket` |
| `MCSquadHub`, `MCSquadRun`, `MCSquadEnding`, `MCLedger`, `MCCoreSocket` | constants and symmetry for TLC | |
| `MCProcesses`, `MCStores`, `MCAgents` | unions of parts that share nothing: each behaviour is one of one part | |
| `SquadHubProofs`, `SquadRunProofs`, `SquadPoolProofs`, `LedgerProofs`, `SessionHubProofs`, `StoreProofs`, `AgentProofs`, `ProcessProofs` | theorems | |

`HumanGate` and `RunLifecycle` are implemented by `SquadHub` (`GateIsHumanGate`)
and `SquadRun` (`RunHasItsLifecycle`) under refinement mappings. The
unions exist because each of their parts is small: a union's Init picks one
part, whose Next then runs alone, so a run checks all of them at once and a
property of one is checked in the states of that one.

### SquadHub

`tasks[t]` is the `SquadTaskState` of id `t` (`open` stands for `tx.is_some()`),
`known` the keys of the map, `issued` the ids `new_task` gave out. A method that
takes the mutex once is one action. One that takes it more than once is split,
with the place its caller has reached in a variable of its own: `gate` and
`chan` for `request_hitl` and the oneshot it waits on, `post` for
`push_user_message` (enqueue, then echo), `stop` for `emergency_stop` (flag,
abort and denial; publish; finish), `gen` for the drain of the inbox, one lock
per message, by `inject_cockpit_context`. `sse` is the subscribers: what each
was sent (`seen`), what its broadcast receiver holds (`rx`, of capacity `Lag`)
and whether it lost something (`lagged`). Text is left out: an event is its
kind, or the user message it echoes. `HubNext` is the hub alone, with callers in
any order their guards allow; `SquadRun` reuses the same actions with the callers
the program has.

### SquadRun

One variable per participant holds the point it has reached: `act` (the
activation handler from `start_squad_task` on), `run` (the runner), `orch` and
`stream` (the orchestrator and the events it has sent), `tool` (a RunTool call:
asking, running on its blocking thread, done), `watch` (the status watcher),
`hand` (the handlers of a gate). `lease` is the pool's only slot; `notes` the
`edit` runs the hub noted, `disk` what was really written. `row`, `lib` and
`facts` survive a crash. Each action ends at a lock's release or at an await.

* `Aborted` takes the runner at an await. Its lease is dropped with it; the
  orchestrator is not stopped (`server.py:237` awaits it) and the core server it
  calls is a task nobody aborts.
* `ReactTimeout` is `developer.py:249`: it cancels the RunTool call, never the
  blocking thread the call started.
* `GateRelease`, `GateRecord`, `GateFact` are `aprovar_gate_handler`: release in
  the hub, row under the store's lock, fact under the ledger's.
* `WatchCheckStop` and `WatchReadLog` are two locks of the hub, as in the code.
* `Crash` loses all memory; `Restart` reconciles; `OtherStart` is a second
  dashboard on the same directory, which reconciles too.
* `Faults` names what may fail: the store, the ledger, the sidecar, the provider.

`RunLifecycle` is implemented under the refinement `status <- row.status`,
`gates <- row.gates`, `delivered <- lib`, with no second dashboard.

### SquadPool and SidecarService

`at[c]` is the await of `acquire` a caller has reached, or the stage of the drop
of its guard or lease. `permits` and `queue` are the semaphore, `free` the list
of free slots (as a set: which slot is popped first makes no difference),
`busy` the lock of a slot's state, `kept` the process in it, `young` the process
a caller has started and not yet kept. Locals are dropped in the order the
compiler drops them: supervisor, lock of the state, slot, permit; so an aborted
caller kills its process and frees the lock, then pushes the slot, then returns the
permit, with other callers in between. A process that dies is `dead`; one that
accepts a call and never answers is `hung`, and the health check on it has no
deadline. `wait_ready` looks at its own only between two checks. `SquadRun` keeps
the pool as `lease`, the only slot of its production capacity.

`SidecarService` is the two long-lived servers. `asks[c]` is where a caller is in
`client` (waiting for the lock, checking health, starting, asking), `starts[c]` the
process it has spawned and not yet kept, `path` who listens at the socket the
dashboards of a workspace share, `peer` who is at the other end of the channel,
which reconnects by itself to whoever listens there.

### Ledger and PgLedger

`rows` is what is committed, `lock` the connection whose transaction holds the
file's write lock. A transaction is visible when it commits, so `Insert` is the
INSERT with its COMMIT and `Migrate` the whole batch; `CheckSchema` is a step of
its own because it reads outside of it. `verify_chain` is a read of the tenants
and one per tenant; `export` and `recent` are reads of one chain. `chain_hash` is
the sequence of bodies it commits to: equal hashes mean equal histories, the
assumption that SHA-256 does not collide. Old bodies name no tenant; the port
without context writes none and belongs to LOCAL. `MaxRows` bounds the file.

In `PgLedger` nobody locks: a transaction reads the top of its tenant's chain,
computes and inserts. An INSERT of a number that an uncommitted transaction holds
waits for it, and conflicts with a number that is taken (the primary key); after a conflict
the transaction is dropped and the next of `MaxTries` tries begins. A commit's
answer may be lost, so what was committed and what was `acked` differ.

### The border and the stores of the dashboard

`TenantBorder` takes a request through the guard of its Origin, the layer over
every route, and the extractor of the handler, in the order the router has them, with
time and revocations between. Only the handlers that declare `Tenant` (`declares`) have the extractor; the
others (a session's messages and permissions, the rules, the matrix) have the layer alone, which drops the
context it resolved (`SkipExtractor`), and work on LOCAL's stores. `usedAt` is when each token was resolved (a use renews the
idle deadline), `ranAs` which tenant's stores handlers ran on, and whether they wrote. `mode` is fixed at start: a dashboard in
SaaS mode without resolver answers 500 to all.

`Profiles` is the handlers over the SQLite repositories: a statement under the
store's mutex, then the ledger's (`caller[c].at = "telling"`), with other
handlers between; `squads` are the teams started with the prompts they run with. `PgProfiles` is the
same repositories as transactions of several processes: each action is one
statement, with row locks and READ COMMITTED reads, and `tx[c]` keeps as history the
values its row has had since the call began.

`RunStore` has both adapters of `RunRepository`, opening and migration of an old
file, a save alone or with its deliverables, statement by statement, and a
console's page that lists deliverables and runs in two reads and downloads one.

`PromptLibrary`: requests of the dashboard share a connection under a mutex,
terminals have one each; `toggle_favorite` is a read and a write (`desk`), which only the mutex
makes one. `by` and `inverted` count, as history, how often and from where a row was inverted.

`SquadMemory`: `corpus` is the file as the pieces written to it, a line longer than the
buffer being two; `scribe` the writers, `reader` the load of the one who recalls, with
the stamp it took first, and `cache` what it keeps until the stamp changes.

`VerifyJob`: the one slot `vslot`, the thread of each run, `truth` the processes'
real endings, `shown` the last answer to a poll.

`LlmGateway`: the cache above the limiter above the chain of providers. `stamps` is the
limiter's queue (`Live` is what `poll` leaves of it), `call[c]` a call with its open stream, `given` the turns providers gave. The
telemetry's events are counted by model, and `ModelUsage`, `EstimateCost`, `UsageTotal`
and `HitRate` are what the dashboard computes of them.

### The agents

`SessionHub`: `sess[s]` is the hub's entry (busy flag, pending request, log), `post[p]` where a
message's handler or its blocking task is. Each critical section of the mutex is an action;
publishing an event is another, so an end is announced after the flag is given back, as in the code.

`DurableSession`: `events` is the aggregate in the store, `dur[w]` a process with the
session open: the head it believes in, its messages, how many it has persisted. Append is
conditional on the head. A turn is an assistant's message with or without tools, one cut by the token
limit, or tool results; compaction replaces the front by a summary and never cuts a pair.

`RulePolicy`: the table with its ids, two handlers that change a rule and then tell the ledger,
and `Evaluate`, `Overlay` and `MatrixRow` as operators, checked against `LastWord`, which says
what the user last said.

`LspClient`: one query at a time owns the session; the reader thread and the query
share stdin under a mutex; both pipes are bounded. `toServer` and `fromServer` hold requests and
responses by id. `McpSession`: the channel of commands, the thread that serves them one at a time, the
connections (`link`) and their server processes; `held` says whether anybody still holds the session.

`Orchestrator`: `orc.at` is the await `execute_complex_task` has reached; votes are numbers in tenths, as
the weights of `consensus.py` need. `developer` is the ReAct loop or, at a step that names no action, the
one call without tools (`ImplementWithoutTools`, whose result has no key `tool_calls`), `designer` the other half of a
parallel step, `results` what steps claim beside whether an edit or bash of theirs answered exit code 0 (`mutated`).

`CoreSocket`: `file` is who bound the socket's path last, `coreServer` and
`runner` the state of each task, `peer` whom its orchestrator is connected to.

`CliSquad`: `cli` is the level of the fallback and its turn, `action` the tool calls of both levels,
`prompts` the `[s/N]` prompts that wait for a line of the terminal in order, `book` the ledger. A call whose
caller is gone leaves its prompt or its tool behind.

### Tools, streams and the screen

`ToolProcess` runs a command in the four ways the program has (bash, skill, container, step): the process, a
helper it leaves behind, the pipe's content, the deadline, the container. `ToolSetup` is the load of a
session's tools: `disk` may be edited between the vetting of a directory and the second reading of its
manifest. `TextTools` has the read, grep and edit tools with the bound on what they tell, the diff and
the exports (docx, xlsx, svg, pdf) of a text of symbols, among them a letter of two bytes, a carriage return
and a control character; each is compared with what it should say by a definition of its own (`ReadsAreExact`,
`GrepsAreComplete`: number, byte column and trimmed line of every match, cut or in its overflow file;
`EditsAreTold`; `ExportsHoldTheText`: what can be read back, and what the format or the font loses).

`WireStream`: the provider writes events of either protocol, of letters of one byte or two and with either line end
(`coding`); the transport hands the bytes on in any cuts, `SseParser` and the aggregator put the turn together. `cut`
remembers the letters that came in two chunks, of which `TurnIsAsMeant` expects nothing but a replacement.

`TuiApp`: the screen's loop (`ui`) and the agent's task (`agent`), joined by three channels. The loop applies
every message, draws, and takes at most one key; the agent blocks its thread on an answer. An item of the transcript
has the message it stands below (`of`) and whose text it holds (`text`); `unended` remembers the turns that failed in the
middle of a text, the only ones whose text may stand below a later message.

## 3. Runs

| run | bounds | checks |
|---|---|---|
| `hub_gate` | 1 task, 3 gate calls, 2 kill-switch calls | `GatesStayLive` (`PendingMatchesWaiters`, `StopUnblocksGates`), `GateIsHumanGate` (refinement of `HumanGate` with liveness) |
| `hub_streams` | 1 task, 1 subscriber, 2 messages, 2 Generate calls, 1 orchestrator event, 1 kill, channel of 2 | `StreamHasNoGap`, `GuidanceGoesToOneTurn`, `StoppedStreamsEnd` |
| `run_life` | 1 squad, 2 gate calls, 1 gate handler, 1 kill, 1 file, 1 crash | `StatusTellsTheEnding`, `WrittenOnlyIfApproved`, `RunHasItsLifecycle` (refinement of `RunLifecycle`) |
| `run_ending` (`MCSquadEnding`) | 1 squad alone with 1 gate call, 1 file, 1 progress event, 1 kill, sidecar faults; or 2 squads for the slot, 1 gate call nobody allows, 1 kill of the first at work while the other waits | `RunsEnd` |
| `run_faults` | 1 squad, 1 call, 1 message, 1 progress event, every fault, 1 crash, a second dashboard | `FactsFollowRow` |
| `pool` (`MCProcesses`) | pool: 3 callers, 2 slots, 3 processes, aborts and hangs; services: 3 callers, 2 dashboards, 2 processes; commands: 1 call of each way, pipe of 1; tools: a skill of the repository and one of the user, 1 edit, one MCP and one LSP name; streams: 4 events, 8 bytes on the wire, letters of two bytes or line ends of two; prompts: 2 requests, 1 chat, 2 prompts, 3 inversions; screen: 2 messages, 1 switch, 3 rounds, 2 models; texts: up to 3 symbols (of 5 read, 3 edited, 11 exported), words of 2, output of 8 bytes, 2 matches | `SlotsAreSound`, `NoServerIsForgotten`, `AnswersAreFinal`, `OneToolPerName`, `TurnIsAsMeant`, `IdsKeepTheirPrompt`, `ScreenTellsTheRun`, `TextIsTold`, `AcquireEnds` |
| `ledger` (`MCStores`) | SQLite: 3 connections, 2 tenants, a new file or an old one of 1 or 2 rows, 3 rows; PostgreSQL: 3 connections, 2 tries, 4 calls; border: 1 token, 2 tenants, 2 requests, 3 hosts, lifetimes of 3 and 2, 4 instants; profiles: 3 requests, 1 user, 1 persona, 1 squad; PostgreSQL profiles: 2 connections, 2 tenants, 1 row, 3 calls; memory: 3 memories, 1 asked for, 3 loads; gateway: 3 calls, 2 providers, streams of 1 delta, rate of 1, window of 2; runs: 2 connections, 2 tenants, 1 task, 2 saves, either adapter, a new file or an old one; verify: 2 runs of 1 or 2 steps | `ChainsAreWhole`, `VerificationIsExact`, `HistoryIsKept`, `PgChainIsWhole`, `SessionsAreEnforced`, `TrailIsTrue`, `CallsLookAtomic`, `RecallIsUpToDate`, `TurnsAreSound`, `UsageIsReal`, `SavesAreWhole`, `PollsTellTheRun` |
| `agents` (`MCAgents`) | web: 2 sessions under a cap of 1, 2 messages, 2 requests; durable: 2 processes, compaction at 2, 4 events; rules: 2 requests, 2 rules; LSP: 3 requests, pipes of 1, 1 unasked; orchestrator: plan of 2, 2 turns, confidences 0, .3, .9; socket: 3 tasks; terminal: 2 calls, 2 turns; MCP: 3 commands, 2 connections | `SessionHasOneActor`, `HistoryIsCoherent`, `LastWordWins`, `AnswersMatchRequests`, `WorkIsSanctioned`, `EndedTasksAnswerNobody`, `EffectsWerePermitted`, `SessionComesFree`, `CommandsAreServed` |

Why the bounds are enough: a gate has one pending entry, so three calls give a
displaced one, a displacing one and one that outlives both; two kills cover a
repeated stop; a channel of two with a log of at least three events lags; squads meet
only at the hub's map, which is per task, at the pool, and at the socket's path, which have
parts of their own; three callers on two slots give one that waits while
another's start fails and a third is aborted; three connections give two that
migrate or append while the third verifies; a window of two with a rate of one makes the
third call sleep twice; a pipe of one message is full as soon as one is not read; two processes
started for one service are the one kept and the one that replaces it; the watcher, the handlers and the
reconciliation write a row once each per task, so one task meets every order of
them. What a theorem of section 5 states holds for every bound.

Not every bound can be larger in a run of minutes. `LosesEvents` (the telemetry may
fail) is FALSE in `ledger`; with TRUE `UsageIsReal` holds too, over 1.3 million states.
`CHECK_DEADLOCK FALSE` is everywhere: a system whose users are done and whose runs have ended stops.

Each property of these runs has at least one mutant in `PROJECT.json`: a definition of the model in which a
plausible bug was put, and which TLC finds by that property. The `x_*` runs each refute one
sentence of the source; see section 6.

## 4. Fairness

`HubFairness` and `ExecutorFairness` are weak fairness of what the tokio
executor polls when it is ready: a woken or timed-out waiter, the rest of a
handler, the runner at an await that returned, the watcher, a blocking thread.
Nothing is owed by users: no gate is answered, no message sent, no stop requested
unless they want to. `OrchestratorFairness`, used only for `RunsEnd`, says that an
orchestrator which gets its verdict goes on, and that one at work ends: its ReAct
loop has at most 12 steps and 600 s. That a runner which waits for the slot may also fail is owed to nobody
(`RunnerGoesOn`): `RunsEnd` gets it out of the queue by the slot alone.

`AcquireEnds` needs that the steps of a caller of the pool and its drops are taken;
that a server answers or dies is not assumed, a caller may be aborted instead. `WebFairness` is the
task of a message on its blocking thread (`SessionComesFree`): the provider's answer or failure and the
permission's deadline come. The end of a tool is not assumed, since `agent_loop.rs:202` gives `tool.run` no deadline and bash
joins its pipes' threads (`bash.rs:105`) without one: the property is that a session stays busy for nothing else. A provider has a
deadline for silence (`gateway.rs:49`); that one which goes on sending ends is assumed, and that the task does not panic. `McpFairness` is the session's thread and its deadlines (`CommandsAreServed`).

## 5. Proofs

Every theorem holds for any values of the constants under the named `ASSUME`s of
its modules (mostly that the `No...` values are no members of the sets they stand
outside of, that finite resources are finite, that capacities are positive); no bound
of TLC is a hypothesis. Where a theorem has a hypothesis of its own it is stated
below with the reason. The argument is always an inductive invariant: the initial
states satisfy it, each action preserves it (one lemma per action or per group of
actions that change the same variables), it implies the property, and the last step is temporal.
What makes a proof is the strengthening; the table says what each needed.

| theorem | property | inductive invariant, and why the property alone is not inductive |
|---|---|---|
| `SquadHubProofs`: `HubTypes`, `PendingIsLive` | `PendingMatchesWaiters` | `HubInv`: types, the property, `IdleIsEmpty`. A call that was not made must have an empty channel, or `RequestHitl` could make pending a call that was answered. |
| `StopUnblocks` | `StopUnblocksGates` | from `HubInv`: a waiting call without an answer is the pending one, which the stop answers; with `PendingIsLive` it gives `GatesAreLive`, that `GatesStayLive` holds |
| `HubImplementsGate` | safety of `GateIsHumanGate` | from `HubInv`: each step of the hub is a step of `HumanGate` or changes neither phase nor answer |
| `StreamsAreWhole` | `StreamHasNoGap` | `StreamInv`: an open task's receivers have a sender, ended means closed, and what was given and is queued is the log, or a prefix of it |
| `GuidanceIsGivenOnce` | `GuidanceGoesToOneTurn` | `MessageInv`: an accepted message is in one inbox or in one Generate's turns (`PlacesAreOwn`), once (`RealOnesAreKept`) |
| `SquadPoolProofs`: `PoolTypes`, `PermitFindsSlot`, `PopNeverPanics`, `PoolIsExclusive`, `PoolIsSound` | `SlotsAreSound` | `PoolInv`: `OnePerPermit` (permits left, and callers that have one but no slot, are as many as the free slots) and `HoldersHoldSlots`. "A permit means a slot" forgets the caller that has pushed its slot and not yet returned its permit. |
| `PoolIsSupervised` | | `HeldInv`: a starter holds the process it starts, replaces only a dead one, and what is kept was started. An injection of the living processes into the slots bounds them. |
| `TurnsStaySound` | `TurnsAreSound` | `GatewayInv`: what is cached was given (`TurnsAreGiven`); a stream's words are its provider's, in order, and the end of what was shown (`CallFacts`); the limiter's queue is the end of everything that was started, and what it dropped is older than the window (`QueueIsRecent`). The property looks at all calls ever started and the code only at its queue, which is what makes this part needed. |
| `LedgerProofs`: `AppendsAreSerial` | | `LockInv`: a connection is in a transaction exactly when it holds the lock |
| `ChainsStayWhole`, `RowsAreKept`, `VerificationsAreExact` | `ChainsAreWhole`, `HistoryIsKept`, `VerificationIsExact` | `ChainInv`, `ScanInv`: the rows of a chain are numbered and linked, and what a scan has read is a prefix of them. Hypothesis: no empty ledger from before tenants (`0 \notin OldSizes`); `x_migrate` shows why. |
| `PgLedgerTypes`, `PgChainsAreWhole` | `PgChainIsWhole` | `PgInv`: rows are linked, a transaction's number continues what it read, a number is one row's, a row is one call's, what was acknowledged is kept |
| `SquadRunProofs`: `RunTypes`, `LedgerFollowsRows` | `FactsFollowRow` | `RowInv`: activations follow rows, exports follow the library, gates follow rows - with every fault and a second dashboard |
| `RunsImplementLifecycle` | safety of `RunHasItsLifecycle` | each step is a step of `RunLifecycle` under `status <- row.status`, `gates <- row.gates`, `delivered <- lib`, or none. `NobodyWhenDown`, `DecidedIsTerminal`, `OpenWhileWatched`, `DeliversTheConcluded`. Hypotheses: the store does not fail (a status that was not saved is delivered all the same) and there is no second dashboard (its reconciliation writes rows it knows nothing of). |
| `StatusIsTheEnding` | `StatusTellsTheEnding` | why a run ended, carried from the hub to the row: `StopsAreHeld`, `EndsAreExplained`, `WatcherIsRight`, `DownAfterCrash`, `RowsTellTheEnding`. Hypothesis: no second dashboard. |
| `WritingIsApproved` | `WrittenOnlyIfApproved` | `AllowedWasSaid`, `ToolsHaveGates`, `FilesWereApproved`, `OrchestratorsAskForThemselves`, `KnownFilesExist`: a file written has a gate of its own that was allowed, wherever its call is now. Hypothesis: the store does not fail. |
| `StoreProofs`: `SessionsHold` | `SessionsAreEnforced` | `BorderInv`: deadlines hold (`DeadlinesHold`), uses fall within them (`UsesWereActive`), a request past the layer was accepted by it (`LayerAsked`), handlers ran on the stores of the token's tenant if they declare it, else on LOCAL's (`RunsAreTold`), no foreign write got in (`WritesAreLocal`) |
| `PollsAreTrue` | `PollsTellTheRun` | `JobInv`: the slot is the run's whose thread is at work; its evidence is a prefix of the real endings |
| `CallsAreAtomic` | `CallsLookAtomic` | `CallInv`: what a row holds now is always among what a call has seen since it began. `set_pin` may answer Ok for a user removed between its two statements. |
| `TrailsAreTrue` | `TrailIsTrue` | `TrailInv`: what a request has still to tell is so, was not told, and is no other request's (`PendingIsOwn`). A removed user is never alive again, so a second removal finds nobody to tell of. |
| `SavesAreKept` | `SavesAreWhole` | `SavesInv`: an ongoing save is nobody else's and nothing of it is committed; what its transaction has written is one row, with the id of the row it rewrites, and the first of its deliverables; transactions at once are PostgreSQL's and of different rows; nobody saves in a file that is not migrated; a page's runs were read after its deliverables |
| `SessionHubProofs`: `SessionsAreExclusive` | `SessionHasOneActor` | `WebInv`: who holds the busy flag, whose a request is, and the log's grammar (asked before started, started allowed, ends last, tools finish, denied never ran) |
| `AgentProofs`: `EndedAnswerNobody` | `EndedTasksAnswerNobody` | `SocketInv`: an ended task's server is aborted |
| `WorkStaysSanctioned` | `WorkIsSanctioned` | `OrcInv`: a tool that runs has a vote or a verdict behind it; a result tells of a mutating call only if it was made, and of none only if there was none or its step names no action (`CallsWereMade`); before the consent there are no results, so that the plan they speak of is the one that stays. With a trust of .5 of newcomers the human is always asked, which the proof finds by arithmetic over any votes. |
| `EffectsArePermitted` | `EffectsWerePermitted` | `CliInv`: prompts wait in order for calls that asked, and the ledger's session has one start before its end |
| `AnswersAreOwn` | `AnswersMatchRequests` | `LspInv`: responses on the pipe have ids that were asked, whoever polls asked for diagnostics |
| `LastWordDecides` | `LastWordWins` | ids grow with history and the rows are what history leaves standing, so the first row that matches, latest first, is the last word; that there is a latest one is the well-foundedness of finite sets (`LeastNat`) |
| `HistoriesAreCoherent` | `HistoryIsCoherent` | `DurInv`: a writer whose head is the store's has in memory what a replay gives (`WritersAreSound`). Replay begins at the last mark of a compaction; that there is a last one is carried along as an invariant, where an argument about every sequence would need induction. |
| `ProcessProofs`: `ServersAreOwned` | `NoServerIsForgotten` | `SvcInv`: who checks or starts holds the lock, a start is awaited, a living process is kept or being started |
| `PromptsKeepIds` | `IdsKeepTheirPrompt` | `LibraryInv`: what an inverting request read is still so unless another place has inverted since (`ReadIsCurrent`); the mutex excludes two requests |
| `NamesAreUnique` | `OneToolPerName` | `SetupInv`: directories dealt with are never vetted again (`Past`) |
| `AnswersStand` | `AnswersAreFinal` | `CommandInv`, per job: nothing is lost, it starts once, ends are real, an answer stands; and a container is only of a call whose way is the container, without which a bash call could lose one |
| `ScreenStaysTrue` | `ScreenTellsTheRun` | `ScreenInv`: a request is on its way, in the modal or answered, and is the last message (`ConsentIsPassed`); a waiting message has exactly the choices made before it in front of it (`Chosen`, `TurnsFollow`); the screen is busy while a message is under way or its `Idle` is, and what a turn shows comes before its end (`BusyIsTold`); a text not yet in the transcript is that of the turn whose end comes next, or its turn failed (`TextFollows`); a change is not yet taken, not yet told, or the status says it (`StatusFollows`) |

The proofs found what TLC could not tell. `RunStore` had a `CASE` with overlapping
guards, whose meaning is either arm's and of which TLC takes the first: its theorem failed until
the guards were made exclusive, as the order of the code's returns has them. `CommandInv` and `PendingIsOwn`
were first written without the parts named above, and the step that broke them was found by the prover.

Only model-checked:

* liveness (`StoppedStreamsEnd`, `RunsEnd`, `AcquireEnds`, `SessionComesFree`, `CommandsAreServed`, and
  the liveness of `GateIsHumanGate`) and the refinements' fairness: the prover has no ENABLED;
* what recursion or a fold computes: `TextIsTold` (rows, words and diffs of any text), the aggregation
  of `WireStream`'s turn (`TurnIsAsMeant`), the sums of `LlmGateway`'s `UsageIsReal`, the records
  `SquadMemory` parses (`RecallIsUpToDate`): induction over data is out of the prover's reach.

## 6. Where the code and its words disagree

Each of these runs refutes one sentence:

| run | sentence | what happens |
|---|---|---|
| `x_kill` (`KillSwitchWins`) | "kill-switch > erro no log > concluída" (`btv_agent.rs:439`) | a stopped run is written as `erro` |
| `x_ledger` (`LedgerApprovalsAreReal`) | "aprova o gate HITL pendente" (`btv_agent.rs:627`) | the approval of a request that was denied is recorded |
| `x_migrate` (`ChainsAreWhole`) | "a cadeia global existente VIRA a cadeia do tenant LOCAL" (`ledger.rs:91`) | of two processes that open an empty old file, the later gives LOCAL what another tenant appended since |
| `x_socket` (`CallsReachOwnTask`) | "nunca duas tarefas vivas ao mesmo tempo disputando o bind" (`squad_agent.rs:603`) | an orchestrator's first call lands in the backend of another task |

Properties the modules state, no run checks, and TLC finds violated:

| property | what happens |
|---|---|
| `SquadRun`: `OneTaskAlive` | the kill frees the slot while the orchestrator goes on (`squad_agent.rs:15`: "só uma tarefa viva por vez") |
| `SquadRun`: `DeliveriesAreComplete` | a file written by a cancelled call is not delivered (`btv_agent.rs:482`: "Arquivos REAIS gravados pelas ferramentas viram itens") |
| `SessionHub`: `LiveSessionsBounded` | subscribing makes sessions beyond the cap |
| `DurableSession`: `NoToolUseWithoutResult` | a turn cut by the token limit leaves tool uses without results |
| `TenantBorder`: `ListedSessionsAreActive` | a session is listed as active after its deadline |
| `Profiles`: `PublicationIsAsTold` | the ledger's last word on a publication is not the one in force |
| `LlmGateway`: `WaitIsBounded` (with `MaxClock` 3) | a caller woken late by others waits longer than `max_wait` |
| `LspClient`: `ReaderAlwaysDrains` (with `MaxAsked` 2) | query, reader and server wait on each other: the query blocks on a full stdin whose mutex the reader needs |
| `SquadMemory`: `MemoriesAreFound` | a line written in two pieces with another's between is lost |
| `WireStream`: `TurnIsWhole` | a letter cut in two is replaced (`from_utf8_lossy` of each chunk, `sse.rs:25`); of a stream framed with CRLF no event ends (`sse.rs:27`: "tolera \r\n\r\n") |
| `PromptLibrary`: `FavoriteIsInverted` | of two inversions by two processes one is lost ("Inverte o favorito") |
| `TextTools`: `ExportsAreReadable` | a docx or xlsx with a control character is not well-formed (`convert.rs:58`; `:66`: "mínimo, mas válido"), a PDF shows a letter of two bytes as two others |
| `TextTools`: `EditsKeepOthersWork` | what another wrote between an edit's read and its write is lost |

Met while modelling, without a property of their own:

*Squads.* A message to a finished task is accepted and never read (`squad_agent.rs:934` says "inexistente ou
já encerrada"); messages drained for a Generate that then fails are lost. The orchestrator outlives the
kill-switch, works beside the next task and opens gates (`squad_agent.rs:65`: "nenhum passo novo deve seguir"). A stale
gate is released with 200 and no record (`btv_agent.rs:627`). `set_status` overwrites what a second
dashboard reconciled (`ports.rs:74`: "terminal → nada"), and two dashboards seed the same next task number
(`main.rs:391`), so that their runs share a row. After a failed `set_status` a run is delivered and then
reconciled to `encerrada` (`btv_agent.rs:463`: "run com erro/encerrado não entrega"). A run that cannot be saved leaves
its squad at work without a row (`btv_agent.rs:302` before `:350`). The emergency stop's event comes after the stream's close
(`squad_agent.rs:345`), and `no_provider`'s entry is never finished (`:811`). A later run that
overwrites a file changes what an earlier deliverable's download serves.

*Orchestrator.* A consensus without the human needs the architect sure and the others unsure: with equal confidences
the weights .9, .6, .5 give .45. A replan's steps never run (`orchestrator.py:386`). Success is emitted before
`remember_decision` (`orchestrator.py:281`), whose failure ends the approved task with an error. A step the model gave no `action` is worked without
tools, and its claim of completion passes the auditor's gate (`auditor.py:107`), which says so of proposals only; of a mutating call
the exit code is enough (`bash ls`), as `auditor.py:29` says.

*Processes.* `wait_ready`'s timeout is looked at between health checks only (`squad_client.rs:171`: "até
`timeout`"), and health checks have no deadline: a hung server blocks the service's lock. Supervisors pipe stderr and never drain
it. A dashboard stopped by a signal leaves its Python servers; two of one workspace remove each other's
socket and may answer through each other's server. A `/verify` step's timeout can be recorded for a process that exited
0 while a grandchild holds its stdout; without timeout the step then waits for ever. bash's timeout kills only `sh`; output that is
not UTF-8 is dropped whole; `run_entrypoint` reads its pipes only after the exit. `/verify` ignores an invalid btv.toml and runs
defaults (`config.rs:69`: "falhar alto"); no steps are a Pass. An MCP server that died keeps its connection. A language server that died is never
restarted, and what is not published within the budget is told as a clean file. The web agent's registry does not record its
vetting. A skill may be edited between vetting and registration.

*Sessions, rules, stores.* A web session's end may be published after the next message's first
events ("libera ANTES de anunciar"). Overrides fail open when rules.db does not open (`web_agent.rs:659`); a rule stands
though its ledger append fails. Ledger failures after a change are printed and the answer is 200. `delete_override` is not told to the
ledger; `update` and `delete_custom` answer 500 for what is not there. User calls by id are not scoped by tenant. PostgreSQL's `set_pin` answers Ok although the user was
removed between its two statements. The second of two openers of an old file with rows fails if another tenant has appended meanwhile;
the removal of a chain's last entries is not found (`ledger.rs:5`: "qualquer adulteração retroativa"). A dashboard without web agent has
the origin guard but not the tenant layer; in SaaS mode the routes that do not declare `Tenant` (`web_agent.rs:899`) need a session of
whatever tenant and then work on LOCAL's ledger and rules; `issue_session` accepts user ids `ActorId::new` refuses later.

*Models and streams.* A truncated stream is an `EndTurn` that is cached; the cache's key leaves out max_tokens;
`llm.call` is recorded under the requested model even when a fallback answered.

*Terminal and tools.* Safe mode prints "nenhuma ação de escrita foi tomada" (`squad.rs:568`) although earlier levels may have written; a
failed `/verify` in `try_squad` leaves a session without its end; an orphan prompt takes the next line typed; a tool of a dropped
call runs without its ledger entry (`squad.rs:44`). In the TUI the text of a failed turn merges into the next (`TranscriptIsInOrder` lets that text and no other), a message sent as the task ends leaves the
screen busy for ever, and so does a panic of the agent; the status of an earlier choice may show after a newer one. `edit` counts "aa" once in "aaa" (`edit.rs`: "deve ser única"), an
empty `old_string` matches an empty file, a change of the final newline shows an empty diff; grep tells a limit at exactly 200 and
nothing of unreadable files; a PDF has one page, and what runs over it is not seen.

## 7. What is left out, and what is next

Not modelled: the doctor, sandbox and LSP consoles; contract, golden and schema crates; generated
bindings; the legacy `BtvStore` API that only tests and the seed use; tables of tiers and prices; the review and prompt-forge packages' text analysis;
the web front end. Within modelled parts: building of HTTP requests, parsing of manifests and identifiers, the
directory walk and the regular expressions of grep, checksums. `PROJECT.json` gives the reason for each. The PostgreSQL
repositories of runs and profiles are modelled as they are in `pg.rs`, though the dashboard wires only sessions and ledger to them yet.

Next: `RecallIsUpToDate`, `TurnIsAsMeant`, `TextIsTold` and `UsageIsReal` compute over sequences and bags of
any length and stay with TLC, though their parts without recursion (the memory's stamp against its file, the
bound on what a tool tells) can be stated and proved on their own.
