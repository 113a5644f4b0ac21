-------------------------------- MODULE MCStores --------------------------------
(* What several connections, processes or calls share, for TLC: each        *)
(* behaviour is one of one store, the others keep an initial state.         *)
EXTENDS Ledger, PgLedger, TenantBorder, Profiles, SquadMemory, LlmGateway, VerifyJob,
  PgProfiles, RunStore, TLC

VARIABLE store

MCConfiguredSteps == <<"check">>
MCDefaultSteps == <<"test", "lint">>

(* One request is a GET without Origin that carries a cookie, to a route   *)
(* that declares the extractor; another varies in its route, or in how it  *)
(* carries its token, or in where it comes from.                           *)
CarriesCookie(r) == request[r].bearer = NoToken /\ request[r].cookie # NoToken
ComesFromShell(r) == ~request[r].mutates /\ request[r].origin = NoHost
PlainGet(r) == CarriesCookie(r) /\ ComesFromShell(r) /\ request[r].declares

StoresInit ==
  /\ store \in {"sqlite", "postgres", "border", "profiles", "memory", "gateway", "verify",
               "pgprofiles", "runs"}
  /\ RsInit
  /\ store # "runs" => adapter = "postgres"
  /\ PgInit /\ ProfilesInit /\ MemInit
  /\ BorderInit
  /\ store # "border" => mode = "local"
  /\ store # "border" \/ mode = "unplugged" => \A r \in Request : PlainGet(r)
  /\ PlainGet(CHOOSE r \in Request : TRUE)
  /\ \A r \in Request : CarriesCookie(r) \/ ComesFromShell(r)
  /\ \A r \in Request : request[r].declares \/ (CarriesCookie(r) /\ ComesFromShell(r))
  /\ PpInit
  /\ store # "pgprofiles" => ppTable = "users"
  /\ VerifyInit
  /\ store # "verify" => btvToml = "absent"
  /\ LlmInit
  /\ store # "gateway" => \A c \in Call : call[c] = NewCall
  /\ Init
  /\ store # "sqlite" => schema = "old" /\ \A r \in rows : r.seq = 1

StoresNext ==
  \/ /\ store = "sqlite" /\ Next
     /\ UNCHANGED <<store, pgVars, borderVars, profileVars, memVars, llmVars, verifyVars, ppVars, rsVars>>
  \/ /\ store = "postgres" /\ PgNext
     /\ UNCHANGED <<store, vars, borderVars, profileVars, memVars, llmVars, verifyVars, ppVars, rsVars>>
  \/ /\ store = "border" /\ BorderNext
     /\ UNCHANGED <<store, vars, pgVars, profileVars, memVars, llmVars, verifyVars, ppVars, rsVars>>
  \/ /\ store = "profiles" /\ ProfilesNext
     /\ UNCHANGED <<store, vars, pgVars, borderVars, memVars, llmVars, verifyVars, ppVars, rsVars>>
  \/ /\ store = "memory" /\ MemNext
     /\ UNCHANGED <<store, vars, pgVars, borderVars, profileVars, llmVars, verifyVars, ppVars, rsVars>>
  \/ /\ store = "gateway" /\ LlmNext
     /\ UNCHANGED <<store, vars, pgVars, borderVars, profileVars, memVars, verifyVars, ppVars, rsVars>>
  \/ /\ store = "verify" /\ VerifyNext
     /\ UNCHANGED <<store, vars, pgVars, borderVars, profileVars, memVars, llmVars, ppVars, rsVars>>
  \/ /\ store = "pgprofiles" /\ PpNext
     /\ UNCHANGED <<store, vars, pgVars, borderVars, profileVars, memVars, llmVars, verifyVars, rsVars>>
  \/ /\ store = "runs" /\ RsNext
     /\ UNCHANGED <<store, vars, pgVars, borderVars, profileVars, memVars, llmVars, verifyVars, ppVars>>

StoresSpec ==
  /\ StoresInit
  /\ [][StoresNext]_<<store, vars, pgVars, borderVars, profileVars, memVars, llmVars, verifyVars,
                      ppVars, rsVars>>

(* Connections, callers and calls are one set of model values. *)
Symmetric == Permutations(Conn)
=============================================================================
