------------------------------- MODULE LlmGateway ------------------------------
(***************************************************************************)
(* What stands between a turn and the providers: the prompt cache          *)
(* (crates/btv-cli/src/cache.rs), under it the sliding-window limiter      *)
(* (rate_limit_gen.rs, btv-llm/src/rate_limit.rs), under it the chain of   *)
(* providers with their streams (btv-llm/src/gateway.rs); and what both    *)
(* record of the calls in the telemetry, which the dashboard sums up by    *)
(* model (btv-store/src/telemetry.rs).  One generator serves calls at      *)
(* once; no lock is held across a call.                                    *)
(***************************************************************************)
EXTENDS Naturals, Sequences, SequencesExt, FiniteSets, FiniteSetsExt

CONSTANTS
  Call,
  Chat,         \* what a request says: model, system, tools and messages
  Temperature,  \* with NoKey: those the contract of the hash refuses
  NoKey,
  LosesEvents,  \* whether recording an event may fail
  Priced,       \* the requests whose model has a price in the table
  Providers,    \* how many are configured
  Rate,         \* max_requests
  Window,
  MaxWait,      \* max_wait
  MaxClock,     \* bound: the clock
  MaxDeltas     \* bound: text deltas of one stream

ASSUME LlmGatewayConstants ==
  /\ {Providers, Rate, Window, MaxWait, MaxClock, MaxDeltas} \subseteq Nat
  /\ Rate > 0 /\ Window > 0
  /\ NoKey \in Temperature
  /\ Priced \subseteq Chat

VARIABLES
  clock,
  stamps,    \* the limiter's queue
  cached,    \* the cache: per key the turn, or none
  call,      \* per call: where it is
  telemetry, \* the table of events: per name and model how many, and their tokens
  given,     \* history: the turns providers gave, as <<request, turn>>
  started    \* history: when calls went on to the providers

llmVars == <<clock, stamps, cached, call, telemetry, given, started>>

LlmRequest == [chat : Chat, temperature : Temperature]
NoTurn == << <<0, 0>> >>
NewCall == [at |-> "new", request |-> CHOOSE r \in LlmRequest : TRUE, wake |-> 0, since |-> 0,
         provider |-> 1, partial |-> << >>, shown |-> << >>, turn |-> NoTurn]

CallEvent == {"llm.call", "cache.hit", "cache.miss"}

LlmInit ==
  /\ clock = 0
  /\ stamps = << >>
  /\ cached = [r \in LlmRequest |-> NoTurn]
  /\ \E asked \in [Call -> LlmRequest] : call = [c \in Call |-> [NewCall EXCEPT !.request = asked[c]]]
  /\ telemetry = [e \in CallEvent \X Chat |-> [rows |-> 0, tokens |-> 0]]
  /\ given = {}
  /\ started = << >>

LlmTick ==
  /\ clock < MaxClock
  /\ clock' = clock + 1
  /\ UNCHANGED <<stamps, cached, call, telemetry, given, started>>

-----------------------------------------------------------------------------
(* `Telemetry::record`: a failure is printed and nothing else. *)
Record(event, r, tokens) ==
  \/ telemetry' = [telemetry EXCEPT ![<<event, r.chat>>] =
                     [rows |-> @.rows + 1, tokens |-> @.tokens + tokens]]
  \/ LosesEvents /\ UNCHANGED telemetry

(* `summary`: the rate of hits, of no calls none. *)
EventsNamed(event) == FoldFunction(LAMBDA e, sum : e.rows + sum, 0,
                              [c \in Chat |-> telemetry[<<event, c>>]])
HitRate == LET asked == EventsNamed("cache.hit") + EventsNamed("cache.miss")
           IN  IF asked = 0 THEN << >> ELSE <<EventsNamed("cache.hit"), asked>>

(* `model_usage`, by the model of the request.  *)
ModelUsage(chat) ==
  [calls |-> telemetry[<<"llm.call", chat>>].rows,
   hits |-> telemetry[<<"cache.hit", chat>>].rows,
   misses |-> telemetry[<<"cache.miss", chat>>].rows,
   tokens |-> telemetry[<<"llm.call", chat>>].tokens]

(* The cost of a model without a price is none, and not in the total. *)
EstimateCost(chat) == IF chat \in Priced THEN {ModelUsage(chat).tokens} ELSE {}
UsageTotal == FoldSet(LAMBDA c, sum : ModelUsage(c).tokens + sum, 0,
                      {c \in Chat : EstimateCost(c) # {}})

-----------------------------------------------------------------------------
(* Bug: the temperature is not in the envelope. *)
CacheKeyOfChat(r) == [r EXCEPT !.temperature = CHOOSE x \in Temperature : x # NoKey]

(* `cache_key` *)
CacheKey(r) == r

(* The cache's `get`, and its `put`, whose failure is ignored. *)
StoredTurn(r) == cached[CacheKey(r)]
StoreTurn(r, turn) ==
  cached' \in {cached} \cup
    (IF r.temperature = NoKey THEN {} ELSE {[cached EXCEPT ![CacheKey(r)] = turn]})

(* `CachedGenerator::generate` up to the inner call. *)
LookUpTurn(c) ==
  LET r == call[c].request
      hit == StoredTurn(r)
  IN  /\ call[c].at = "new"
      /\ \/ /\ r.temperature # NoKey /\ hit # NoTurn
            /\ call' = [call EXCEPT ![c].at = "hit", ![c].shown = hit, ![c].turn = hit]
            /\ Record("cache.hit", r, 0)
         \/ /\ r.temperature = NoKey \/ hit = NoTurn
            /\ call' = [call EXCEPT ![c].at = "acquiring", ![c].wake = clock, ![c].since = clock]
            /\ IF r.temperature = NoKey THEN UNCHANGED telemetry ELSE Record("cache.miss", r, 0)
      /\ UNCHANGED <<clock, stamps, cached, given, started>>

(* The queue without the stamps at its front that the window has left. *)
Live ==
  LET gone == CHOOSE n \in 0 .. Len(stamps) :
                /\ \A i \in 1 .. n : clock - stamps[i] >= Window
                /\ n < Len(stamps) => clock - stamps[n + 1] < Window
  IN  SubSeq(stamps, gone + 1, Len(stamps))

(* Bug: a caller that slept takes its place without asking again. *)
PollOnce(c) ==
  /\ call[c].at = "acquiring"
  /\ clock >= call[c].wake
  /\ \/ /\ Len(Live) < Rate \/ call[c].wake > call[c].since
        /\ stamps' = Append(Live, clock)
        /\ started' = Append(started, clock)
        /\ call' = [call EXCEPT ![c].at = "calling", ![c].wake = 0, ![c].since = 0]
     \/ /\ Len(Live) >= Rate /\ call[c].wake = call[c].since
        /\ stamps' = Live
        /\ call' = [call EXCEPT ![c].wake = Head(Live) + Window]
        /\ UNCHANGED started
  /\ UNCHANGED <<clock, cached, telemetry, given>>

(* `RateLimiter::poll`, again after each sleep. *)
Poll(c) ==
  LET wait == Window - (clock - Head(Live))
  IN  /\ call[c].at = "acquiring"
      /\ clock >= call[c].wake
      /\ \/ /\ Len(Live) < Rate
            /\ stamps' = Append(Live, clock)
            /\ started' = Append(started, clock)
            /\ call' = [call EXCEPT ![c].at = "calling", ![c].wake = 0, ![c].since = 0]
         \/ /\ Len(Live) >= Rate
            /\ stamps' = Live
            /\ call' = IF wait > MaxWait THEN [call EXCEPT ![c] = [NewCall EXCEPT !.at = "limited"]]
                       ELSE [call EXCEPT ![c].wake = clock + wait]
            /\ UNCHANGED started
      /\ UNCHANGED <<clock, cached, telemetry, given>>

(* A delta of the open stream, shown at once. *)
Delta(c) ==
  LET d == <<call[c].provider, Len(call[c].partial) + 1>>
  IN  /\ call[c].at = "calling"
      /\ Len(call[c].partial) < MaxDeltas
      /\ call' = [call EXCEPT ![c].partial = Append(@, d), ![c].shown = Append(@, d)]
      /\ UNCHANGED <<clock, stamps, cached, telemetry, given, started>>

(* Bug: a call is recorded whether or not a provider answers it. *)
ProviderFailsCounted(c) ==
  /\ call[c].at = "calling"
  /\ call' = IF call[c].provider < Providers
             THEN [call EXCEPT ![c].provider = @ + 1, ![c].partial = << >>]
             ELSE [call EXCEPT ![c] = [NewCall EXCEPT !.at = "failed", !.request = call[c].request]]
  /\ Record("llm.call", call[c].request, 0)
  /\ UNCHANGED <<clock, stamps, cached, given, started>>

(* No connection, an HTTP error, or the stream breaks: the next provider   *)
(* begins a turn of its own; after the last, AllFailed.                    *)
ProviderFails(c) ==
  /\ call[c].at = "calling"
  /\ call' = IF call[c].provider < Providers
             THEN [call EXCEPT ![c].provider = @ + 1, ![c].partial = << >>]
             ELSE [call EXCEPT ![c] = [NewCall EXCEPT !.at = "failed", !.request = call[c].request]]
  /\ UNCHANGED <<clock, stamps, cached, telemetry, given, started>>

(* The stream ends, with or without a stop reason: the turn is what has    *)
(* come, and the cache's if it can be written.                             *)
StreamEnds(c) ==
  LET r == call[c].request
      turn == call[c].partial
  IN  /\ call[c].at = "calling"
      /\ given' = given \cup {<<r, turn>>}
      /\ call' = [call EXCEPT ![c] = [NewCall EXCEPT !.at = "done", !.request = r, !.turn = turn,
                                                  !.shown = call[c].shown]]
      /\ StoreTurn(r, turn)
      /\ Record("llm.call", r, Len(turn))
      /\ UNCHANGED <<clock, stamps, started>>

CallProvider(c) == Delta(c) \/ ProviderFails(c) \/ StreamEnds(c)

RateLimitedGenerate(c) == Poll(c) \/ CallProvider(c)

LlmNext == LlmTick \/ \E c \in Call : LookUpTurn(c) \/ RateLimitedGenerate(c)

LlmSpec == LlmInit /\ [][LlmNext]_llmVars

-----------------------------------------------------------------------------
(* Properties. *)

(* What the dashboard shows of a model was consumed, all of it when no     *)
(* event is lost and never more ("nunca fabricado"): its turns from        *)
(* providers with their tokens, its answers from the cache, and no cost    *)
(* for a model without a price.                                            *)
UsageIsReal ==
  LET Answers(where, chat) == {c \in Call : call[c].at = where /\ call[c].request.chat = chat}
      Tokens(calls) == FoldSet(LAMBDA c, sum : Len(call[c].turn) + sum, 0, calls)
      Told(shown, real) == IF LosesEvents THEN shown <= real ELSE shown = real
  IN  /\ \A m \in Chat :
           /\ Told(ModelUsage(m).calls, Cardinality(Answers("done", m)))
           /\ Told(ModelUsage(m).hits, Cardinality(Answers("hit", m)))
           /\ Told(ModelUsage(m).tokens, Tokens(Answers("done", m)))
      /\ HitRate # << >> => HitRate[1] <= HitRate[2]
      /\ Told(UsageTotal, Tokens(UNION {Answers("done", m) : m \in Priced}))

(* A call is answered with a turn one provider gave to this very request,  *)
(* whole and alone, however calls race for the cache; what was streamed    *)
(* ends with that turn, though what failed providers said may come before  *)
(* (`generate`, "evitar colisões"); and no window of time holds more calls *)
(* to providers than the rate, however many callers sleep and wake at once *)
(* (`RateLimiter`, "no máximo `max_requests` chamadas a cada `window`").   *)
TurnsAreSound ==
  /\ \A c \in Call : call[c].at \in {"done", "hit"} =>
       /\ <<call[c].request, call[c].turn>> \in given
       /\ \A i \in DOMAIN call[c].turn : call[c].turn[i] = <<call[c].turn[1][1], i>>
       /\ IsSuffix(call[c].turn, call[c].shown)
  /\ \A i \in DOMAIN started :
       i + Rate \in DOMAIN started => started[i + Rate] - started[i] >= Window

(* What the doc of RateLimiter says and the loop of `acquire` does not     *)
(* keep: a caller waits "nunca mais que `max_wait`".                       *)
WaitIsBounded == \A c \in Call : call[c].at = "acquiring" => call[c].wake <= call[c].since + MaxWait
=============================================================================
