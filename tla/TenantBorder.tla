------------------------------ MODULE TenantBorder ------------------------------
(***************************************************************************)
(* Sessions of the SaaS mode (crates/btv-store/src/pg.rs) and the border   *)
(* that turns a request's token into a tenant                              *)
(* (crates/btv-cli/src/tenant_extractor.rs), below the guard of its Origin *)
(* (crates/btv-server/src/guard.rs).  A request is resolved by the layer   *)
(* over every route, which keeps nothing of it, and again by the extractor *)
(* of the routes that declare it (the product's, btv_agent.rs); time       *)
(* passes and sessions are revoked between.  The other routes (messages    *)
(* and permissions of web_agent.rs, the dashboard's) work on the process's *)
(* own stores, which are LOCAL's.                                          *)
(***************************************************************************)
EXTENDS Naturals

CONSTANTS
  Token,
  BrTenant,
  BrLocal,        \* TenantId::LOCAL
  Request,
  NoToken,
  Host,         \* of the Origin header of a page
  NoHost,       \* no Origin header
  Loopback,     \* 127.0.0.1, localhost, ::1
  TrustedHosts, \* BTV_TRUSTED_ORIGINS
  AbsTtl,       \* 30 days
  IdleTtl,      \* 24 hours
  MaxNow        \* bound: the clock

ASSUME TenantBorderConstants ==
  /\ AbsTtl \in Nat /\ IdleTtl \in Nat /\ MaxNow \in Nat \ {0}
  /\ NoToken \notin Token /\ NoHost \notin Host

VARIABLES
  mode,      \* BTV_MODE at start: "local", "saas", or "unplugged" (saas without resolver)
  now,
  table,     \* sessions: by token hash
  request,   \* requests on their way through the border
  usedAt,    \* history: when each token was resolved
  askedBy,   \* history: the requests tokens were resolved for
  ranAs      \* history: handlers run, by whose request, for which tenant, and whether they wrote

borderVars == <<mode, now, table, request, usedAt, askedBy, ranAs>>

Unissued == [tenant |-> BrLocal, issued |-> 0, absolute |-> 0, idle |-> 0, revokedAt |-> 0]
NotRevoked == MaxNow + 1
Least(a, b) == IF a <= b THEN a ELSE b

BorderInit ==
  /\ mode \in {"local", "saas", "unplugged"}
  /\ now = 1
  /\ table = [k \in Token |-> Unissued]
  /\ request \in [Request -> [at : {"new"}, declares : BOOLEAN, mutates : BOOLEAN,
                            origin : Host \cup {NoHost}, bearer : Token \cup {NoToken}, cookie : Token \cup {NoToken},
                            tenant : {BrLocal}]]
  /\ askedBy = {}
  /\ usedAt = [k \in Token |-> {}]
  /\ ranAs = {}

Hour ==
  /\ now < MaxNow
  /\ now' = now + 1
  /\ UNCHANGED <<mode, table, request, usedAt, askedBy, ranAs>>

(* `gerar_token`: a new token is one no table holds. *)
NewToken(k) == table[k] = Unissued

(* `issue_session`, by the operator *)
IssueSession(k) ==
  /\ NewToken(k)
  /\ \E t \in BrTenant :
       table' = [table EXCEPT ![k] = [tenant |-> t, issued |-> now, absolute |-> now + AbsTtl,
                                      idle |-> now + IdleTtl, revokedAt |-> NotRevoked]]
  /\ UNCHANGED <<mode, now, request, usedAt, askedBy, ranAs>>

(* `revoke_session`: by hash and tenant; another tenant's is as unknown. *)
RevokeSession(k, t) ==
  /\ table[k].tenant = t
  /\ table[k].revokedAt = NotRevoked
  /\ table' = [table EXCEPT ![k].revokedAt = now]
  /\ UNCHANGED <<mode, now, request, usedAt, askedBy, ranAs>>

(* `list_sessions` *)
ListSessions(t) == {k \in Token : table[k].tenant = t /\ table[k].revokedAt = NotRevoked}

(* The WHERE of `resolve_session` *)
Resolves(k) ==
  /\ table[k].revokedAt = NotRevoked
  /\ now < table[k].absolute
  /\ now < table[k].idle

(* Its SET, in the same statement *)
Renew(k) == [table EXCEPT ![k].idle = Least(now + IdleTtl, table[k].absolute)]

(* `origin_allowed`: a page of this machine or of a host the operator       *)
(* trusts.                                                                 *)
OriginAllowed(host) == host \in Loopback \cup TrustedHosts

(* `extrair_token`: the header wins over the cookie. *)
TokenOf(r) == IF request[r].bearer # NoToken THEN request[r].bearer ELSE request[r].cookie

Answer(r, phase, tenant) ==
  request' = [request EXCEPT ![r].at = phase, ![r].tenant = tenant]

(* The outermost layer: a write from a page of another host is answered 403. *)
RequireLocalOrigin(r) ==
  LET from == request[r].origin
      foreign == request[r].mutates /\ from # NoHost /\ ~OriginAllowed(from)
  IN  /\ request[r].at = "new"
      /\ Answer(r, IF foreign THEN "forbidden" ELSE "admitted", BrLocal)
      /\ UNCHANGED <<mode, now, table, usedAt, askedBy, ranAs>>

(* `resolver_contexto` for the layer or for the extractor: 500 without a   *)
(* resolver, 401 without a token, when it does not resolve or the store    *)
(* fails.                                                                  *)
Resolve(r, from, to, tenant) ==
  LET k == TokenOf(r)
  IN  /\ request[r].at = from
      /\ \/ mode = "local" /\ Answer(r, to, tenant) /\ UNCHANGED <<table, usedAt, askedBy>>
         \/ /\ mode = "saas" /\ k # NoToken
            /\ Resolves(k)
            /\ table' = Renew(k)
            /\ usedAt' = [usedAt EXCEPT ![k] = @ \cup {now}]
            /\ askedBy' = askedBy \cup {r}
            /\ Answer(r, to, tenant)
         \/ /\ mode # "local"
            /\ Answer(r, IF mode = "saas" THEN "unauthorized" ELSE "misconfigured", BrLocal)
            /\ UNCHANGED <<table, usedAt, askedBy>>
      /\ UNCHANGED <<mode, now, ranAs>>

(* Bug: the layers in the other order, the tenant's outermost. *)
GuardaTenantFirst(r) ==
  \/ Resolve(r, "new", "new", BrLocal) /\ r \notin askedBy
  \/ Resolve(r, "admitted", "guarded", BrLocal)

(* `autoriza_borda`: the context it resolved is dropped (`map(|_| ())`). *)
GuardaTenant(r) == Resolve(r, "admitted", "guarded", BrLocal)

(* The context: LOCAL's in the local mode, else that of the token's row. *)
ContextOf(r) == IF mode = "local" THEN BrLocal ELSE table[TokenOf(r)].tenant

(* Bug: the extractor trusts the layer and falls back to LOCAL. *)
ExtractTenantTrusting(r) ==
  LET k == TokenOf(r)
  IN  /\ request[r].at = "guarded" /\ request[r].declares
      /\ Answer(r, "running", IF mode = "saas" /\ k # NoToken /\ Resolves(k)
                              THEN table[k].tenant ELSE BrLocal)
      /\ UNCHANGED <<mode, now, table, usedAt, askedBy, ranAs>>

(* Before the body of a handler that declares `Tenant` *)
ExtractTenant(r) == request[r].declares /\ Resolve(r, "guarded", "running", ContextOf(r))

(* A handler without it takes no context, and its stores write LOCAL's. *)
SkipExtractor(r) ==
  /\ request[r].at = "guarded" /\ ~request[r].declares
  /\ Answer(r, "running", BrLocal)
  /\ UNCHANGED <<mode, now, table, usedAt, askedBy, ranAs>>

(* What a handler writes is its tenant's; one that only reads, or that is  *)
(* refused by its store, writes nothing.                                   *)
RunHandler(r) ==
  /\ request[r].at = "running"
  /\ \E wrote \in {FALSE, request[r].mutates} :
       ranAs' = ranAs \cup {[by |-> r, tenant |-> request[r].tenant, wrote |-> wrote]}
  /\ Answer(r, "answered", request[r].tenant)
  /\ UNCHANGED <<mode, now, table, usedAt, askedBy>>

BorderNext ==
  \/ Hour
  \/ \E k \in Token : IssueSession(k) \/ \E t \in BrTenant : RevokeSession(k, t)
  \/ \E r \in Request : RequireLocalOrigin(r) \/ GuardaTenant(r) \/ ExtractTenant(r)
                        \/ SkipExtractor(r) \/ RunHandler(r)

BorderSpec == BorderInit /\ [][BorderNext]_borderVars

-----------------------------------------------------------------------------
(* Properties. *)

AtHome(r) == request[r].mutates => request[r].origin \in {NoHost} \cup Loopback \cup TrustedHosts

(* A token is accepted only from its issue to its absolute deadline, each  *)
(* time within the idle time of the use before, never after its revocation *)
(* (`resolve_session`, "LEAST(now()+24h, absoluta)").  In saas mode no     *)
(* handler runs but for a request whose own token was accepted; one that   *)
(* declares `Tenant` reads and writes the rows of the tenant that token    *)
(* was issued to, and only the others, and the local mode, write LOCAL's   *)
(* (`resolver_contexto`, "NUNCA fallback para LOCAL"); without a resolver  *)
(* none runs.  A write from a foreign page reaches neither the sessions    *)
(* nor a handler (`merged_router`, "rejeita cross-origin antes de tocar    *)
(* auth").                                                                 *)
SessionsAreEnforced ==
  /\ \A k \in Token : \A u \in usedAt[k] :
       /\ table[k].issued <= u /\ u < table[k].issued + AbsTtl
       /\ u <= table[k].revokedAt
       /\ \E b \in {table[k].issued} \cup {b \in usedAt[k] : b < u} : u < b + IdleTtl
  /\ \A h \in ranAs :
       /\ mode = "local" \/ (mode = "saas" /\ h.by \in askedBy)
       /\ h.tenant = IF request[h.by].declares THEN ContextOf(h.by) ELSE BrLocal
       /\ AtHome(h.by)
  /\ \A r \in askedBy : AtHome(r) /\ TokenOf(r) # NoToken /\ usedAt[TokenOf(r)] # {}

(* What the doc of `list_sessions` says and its WHERE does not keep: the   *)
(* sessions listed are active ("Lista as sessões ATIVAS").                 *)
ListedSessionsAreActive == \A t \in BrTenant : \A k \in ListSessions(t) : Resolves(k)
=============================================================================
