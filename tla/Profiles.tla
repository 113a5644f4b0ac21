-------------------------------- MODULE Profiles -------------------------------
(***************************************************************************)
(* Users, persona prompts and template publication: the handlers of        *)
(* crates/btv-cli/src/btv_agent.rs over the repositories of                *)
(* crates/btv-store/src/btv.rs.  A handler works under the store's mutex,  *)
(* lets it go, and then tells the ledger under the ledger's.               *)
(***************************************************************************)
EXTENDS Naturals, Sequences, FiniteSets

CONSTANTS
  PfTenant,
  Caller,       \* requests
  MaxUsers,     \* bound: users ever made
  MaxCustoms,   \* bound: personas ever made
  Pin,          \* what a body's `pin` may be, "" and NoPin (absent) among them
  NoPin,
  MaxSquads     \* bound: squads started

ASSUME ProfilesConstants ==
  {MaxUsers, MaxCustoms, MaxSquads} \subseteq Nat /\ {"", NoPin} \subseteq Pin

VARIABLES
  users,      \* rows by id, which is global and never used again (AUTOINCREMENT)
  customs,    \* the personas a tenant made, likewise
  published,  \* template_pub, per tenant
  overrides,  \* persona_overrides: [tenant, role, prompt]
  caller,     \* per request: its tenant, what it has still to tell, its answer
  squads,     \* the squads started: their tenant and the prompts they run with
  told        \* the ledger's facts of each tenant, in order

profileVars == <<users, customs, published, overrides, caller, squads, told>>

Role == {"role"}
Prompt == {"on", "off"}
NoFact == [kind |-> "none"]
Idle == [at |-> "idle", tenant |-> CHOOSE t \in PfTenant : TRUE, fact |-> NoFact, answer |-> "none"]

ProfilesInit ==
  /\ users = << >> /\ customs = << >>
  /\ published = [t \in PfTenant |-> "builtin"]
  /\ overrides = {}
  /\ caller = [c \in Caller |-> Idle]
  /\ squads = << >>
  /\ told = [t \in PfTenant |-> << >>]

-----------------------------------------------------------------------------
(* The repositories.  WHERE tenant_id = ?1 AND id = ?2: a row of another   *)
(* tenant is not found.                                                    *)
Found(rows, t, id) == id \in DOMAIN rows /\ rows[id].tenant = t /\ rows[id].alive

(* The PIN's hash: an empty or absent PIN leaves the profile open. *)
PinHash(pin) == IF pin = "" THEN NoPin ELSE pin

Create(t, pin) ==
  users' = Append(users, [tenant |-> t, alive |-> TRUE, active |-> TRUE, pin |-> PinHash(pin)])
RemoveUser(id) == users' = [users EXCEPT ![id].alive = FALSE]
SetActive(id, active) == users' = [users EXCEPT ![id].active = active]
SetPin(id, pin) == users' = [users EXCEPT ![id].pin = PinHash(pin)]
PinCheck(id, pin) ==
  CASE users[id].pin = NoPin -> "no_pin" [] PinHash(pin) = users[id].pin -> "ok" [] OTHER -> "wrong"

ListOverrides(t) == {o \in overrides : o.tenant = t}
OverridesOf(t, roles) == {o \in ListOverrides(t) : o.role \in roles}
SetOverride(t, role, prompt) ==
  overrides' = (overrides \ OverridesOf(t, {role})) \cup {[tenant |-> t, role |-> role, prompt |-> prompt]}
DeleteOverride(t, role) == overrides' = overrides \ OverridesOf(t, {role})
ClearOverrides(t) == overrides' = overrides \ OverridesOf(t, Role)

InsertCustom(t, prompt) ==
  customs' = Append(customs, [tenant |-> t, alive |-> TRUE, prompt |-> prompt])
UpdateCustom(id, prompt) == customs' = [customs EXCEPT ![id].prompt = prompt]
DeleteCustom(id) == customs' = [customs EXCEPT ![id].alive = FALSE]

(* What the other repositories list to one tenant. *)
ListCustom(t) == {id \in DOMAIN customs : Found(customs, t, id)}
ListPublished(t) == published[t]
ListUsers(t) == {id \in DOMAIN users : Found(users, t, id)}

(* The prompt a role has: its override, or the archetype's. *)
PromptPadrao == "default"
PromptEfetivo(t, role) ==
  IF OverridesOf(t, {role}) = {} THEN PromptPadrao ELSE (CHOOSE o \in OverridesOf(t, {role}) : TRUE).prompt

(* list_overrides and list_custom under one lock: whom a squad is made of,  *)
(* and the team its task describes.                                         *)
Roster(t) ==
  {<<role, PromptEfetivo(t, role)>> : role \in Role} \cup
  {<<"custom", id, customs[id].prompt>> : id \in ListCustom(t)}
MontarDescricao(roster) == {member[Len(member)] : member \in roster}

SetPublished(t, value) == published' = [published EXCEPT ![t] = value]

-----------------------------------------------------------------------------
(* What the ledger is told.  A prompt is told by its hash, which is modelled *)
(* as the prompt (no collision).                                            *)

WireKind ==
  [SquadActivated |-> "btv.squad_activated", PersonaUpdated |-> "btv.persona_updated",
   TemplatePublished |-> "btv.template_published", FlowSaved |-> "btv.flow_saved",
   UserRemoved |-> "btv.user_removed"]

(* `prompt_hashes`: only a persona of the tenant's own is marked `custom`. *)
PromptHashes(roster) ==
  {IF m[1] = "custom" THEN [papel |-> m[2], custom |-> TRUE, sha |-> m[3]]
   ELSE [papel |-> m[1], sha |-> m[2]] : m \in roster}

(* `payload_wire`. *)
ActivationPayload(fact) == [run_id |-> fact.run, prompt_hashes |-> PromptHashes(fact.roster)]
PayloadWire(fact) ==
  CASE fact.kind = "SquadActivated" -> ActivationPayload(fact)
    [] fact.kind = "PersonaUpdated" -> [prompt_sha256 |-> fact.prompt]
    [] fact.kind = "TemplatePublished" -> [publicado |-> fact.published]
    [] fact.kind = "FlowSaved" -> [nome |-> "flow"]
    [] fact.kind = "UserRemoved" -> [id |-> fact.id]

EntryDeDominio(fact) == [kind |-> WireKind[fact.kind], payload |-> PayloadWire(fact)]

-----------------------------------------------------------------------------
(* The handlers. *)
Answers(c, t, status) ==
  caller' = [caller EXCEPT ![c] = [at |-> "done", tenant |-> t, fact |-> NoFact, answer |-> status]]
Tells(c, t, fact) ==
  caller' = [caller EXCEPT ![c] = [at |-> "telling", tenant |-> t, fact |-> fact, answer |-> "200"]]

CreateUserHandler(c, t) ==
  /\ Len(users) < MaxUsers
  /\ \E pin \in Pin : Create(t, pin)
  /\ Answers(c, t, "201")
  /\ UNCHANGED <<customs, published, overrides, squads, told>>

(* Bug: that no row was deleted goes unnoticed. *)
DeleteUserTellsAnyway(c, t) ==
  /\ \E id \in DOMAIN users :
       /\ IF Found(users, t, id) THEN RemoveUser(id) ELSE UNCHANGED users
       /\ Tells(c, t, [kind |-> "UserRemoved", id |-> id])
  /\ UNCHANGED <<customs, published, overrides, squads, told>>

DeleteUserHandler(c, t) ==
  /\ \E id \in DOMAIN users :
       \/ Found(users, t, id) /\ RemoveUser(id) /\ Tells(c, t, [kind |-> "UserRemoved", id |-> id])
       \/ ~Found(users, t, id) /\ UNCHANGED users /\ Answers(c, t, "404")
  /\ UNCHANGED <<customs, published, overrides, squads, told>>

SetUserAtivoHandler(c, t) ==
  /\ \E id \in DOMAIN users, active \in BOOLEAN :
       \/ Found(users, t, id) /\ SetActive(id, active) /\ Answers(c, t, "200")
       \/ ~Found(users, t, id) /\ UNCHANGED users /\ Answers(c, t, "404")
  /\ UNCHANGED <<customs, published, overrides, squads, told>>

SetUserPinHandler(c, t) ==
  /\ \E id \in DOMAIN users, pin \in Pin :
       \/ Found(users, t, id) /\ SetPin(id, pin) /\ Answers(c, t, "200")
       \/ ~Found(users, t, id) /\ UNCHANGED users /\ Answers(c, t, "404")
  /\ UNCHANGED <<customs, published, overrides, squads, told>>

VerifyUserPinHandler(c, t) ==
  /\ \E id \in DOMAIN users, pin \in Pin \ {NoPin} :
       Answers(c, t, IF Found(users, t, id) THEN PinCheck(id, pin) ELSE "404")
  /\ UNCHANGED <<users, customs, published, overrides, squads, told>>

SetPublicacaoHandler(c, t) ==
  /\ \E value \in Prompt : SetPublished(t, value) /\ Tells(c, t, [kind |-> "TemplatePublished", published |-> value])
  /\ UNCHANGED <<users, customs, overrides, squads, told>>

SetOverrideHandler(c, t) ==
  /\ \E role \in Role, prompt \in Prompt :
       SetOverride(t, role, prompt) /\ Tells(c, t, [kind |-> "PersonaUpdated", prompt |-> prompt])
  /\ UNCHANGED <<users, customs, published, squads, told>>

(* Restoring a default is not told to the ledger, and no row is an answer  *)
(* of 200 as well.                                                         *)
DeleteOverrideHandler(c, t) ==
  /\ \E role \in Role : DeleteOverride(t, role)
  /\ Answers(c, t, "200")
  /\ UNCHANGED <<users, customs, published, squads, told>>

ClearOverridesHandler(c, t) ==
  /\ ClearOverrides(t)
  /\ Answers(c, t, "200")
  /\ UNCHANGED <<users, customs, published, squads, told>>

CreateCustomHandler(c, t) ==
  /\ Len(customs) < MaxCustoms
  /\ \E prompt \in Prompt : InsertCustom(t, prompt)
  /\ Answers(c, t, "201")
  /\ UNCHANGED <<users, published, overrides, squads, told>>

(* A persona that is not the tenant's is answered with 500, not with 404. *)
UpdateCustomHandler(c, t) ==
  /\ \E id \in DOMAIN customs, prompt \in Prompt :
       \/ Found(customs, t, id) /\ UpdateCustom(id, prompt) /\ Answers(c, t, "200")
       \/ ~Found(customs, t, id) /\ UNCHANGED customs /\ Answers(c, t, "500")
  /\ UNCHANGED <<users, published, overrides, squads, told>>

DeleteCustomHandler(c, t) ==
  /\ \E id \in DOMAIN customs :
       \/ Found(customs, t, id) /\ DeleteCustom(id) /\ Answers(c, t, "200")
       \/ ~Found(customs, t, id) /\ UNCHANGED customs /\ Answers(c, t, "500")
  /\ UNCHANGED <<users, published, overrides, squads, told>>

(* A flow lives nowhere but in its fact: here the ledger's failure is the  *)
(* answer.                                                                 *)
SalvarFluxoHandler(c, t) ==
  /\ \/ told' = [told EXCEPT ![t] = Append(@, EntryDeDominio([kind |-> "FlowSaved"]))] /\ Answers(c, t, "201")
     \/ UNCHANGED told /\ \E status \in {"422", "500"} : Answers(c, t, status)
  /\ UNCHANGED <<users, customs, published, overrides, squads>>

(* The squad is started with the personas as they are, before its run is   *)
(* saved: a run that cannot be saved has a squad at work, and no fact.     *)
AtivarSquadHandler(c, t) ==
  /\ \/ /\ Len(squads) < MaxSquads
        /\ squads' = Append(squads, [tenant |-> t, roster |-> Roster(t), team |-> MontarDescricao(Roster(t))])
        /\ caller' = [caller EXCEPT ![c] = [at |-> "saving", tenant |-> t, answer |-> "202",
                        fact |-> [kind |-> "SquadActivated", run |-> Len(squads) + 1, roster |-> Roster(t)]]]
     \/ UNCHANGED squads /\ \E status \in {"404", "422", "503"} : Answers(c, t, status)
  /\ UNCHANGED <<users, customs, published, overrides, told>>

(* Bug: the hashes are those of the personas when the run is saved. *)
SaveActivationRereads(c) ==
  /\ caller[c].at = "saving"
  /\ caller' = [caller EXCEPT ![c].at = "telling", ![c].fact.roster = Roster(caller[c].tenant)]
  /\ UNCHANGED <<users, customs, published, overrides, squads, told>>

(* Run::activate, save, get and activation_event. *)
SaveActivation(c) ==
  /\ caller[c].at = "saving"
  /\ \/ caller' = [caller EXCEPT ![c].at = "telling"]
     \/ \E status \in {"422", "500"} : Answers(c, caller[c].tenant, status)
  /\ UNCHANGED <<users, customs, published, overrides, squads, told>>

(* The pages.  A role's prompt is `editado` if its override says something  *)
(* else than the archetype; a template no catalogue has is answered 404.    *)
ListPersonasHandler(c, t) ==
  /\ \/ Answers(c, t, IF \E o \in ListOverrides(t) : o.prompt # PromptPadrao THEN "editado" ELSE "200")
     \/ Answers(c, t, "404")
  /\ UNCHANGED <<users, customs, published, overrides, squads, told>>

ListUsersHandler(c, t) ==
  /\ Answers(c, t, IF ListUsers(t) = {} THEN "empty" ELSE "200")
  /\ UNCHANGED <<users, customs, published, overrides, squads, told>>

ListPublicacaoHandler(c, t) ==
  /\ Answers(c, t, ListPublished(t))
  /\ UNCHANGED <<users, customs, published, overrides, squads, told>>

(* store_error: every handler of the store answers 500 and changes nothing. *)
StoreFails(c, t) ==
  Answers(c, t, "500") /\ UNCHANGED <<users, customs, published, overrides, squads, told>>

(* The ledger's critical section; its failure is printed and the answer is *)
(* a success all the same.                                                 *)
Tell(c) ==
  /\ caller[c].at = "telling"
  /\ told' \in {told, [told EXCEPT ![caller[c].tenant] = Append(@, EntryDeDominio(caller[c].fact))]}
  /\ Answers(c, caller[c].tenant, caller[c].answer)
  /\ UNCHANGED <<users, customs, published, overrides, squads>>

Handles(c, t) ==
  /\ caller[c].at = "idle"
  /\ \/ CreateUserHandler(c, t) \/ DeleteUserHandler(c, t) \/ SetUserAtivoHandler(c, t)
     \/ SetUserPinHandler(c, t) \/ VerifyUserPinHandler(c, t)
     \/ SetPublicacaoHandler(c, t) \/ SetOverrideHandler(c, t)
     \/ DeleteOverrideHandler(c, t) \/ ClearOverridesHandler(c, t)
     \/ CreateCustomHandler(c, t) \/ UpdateCustomHandler(c, t) \/ DeleteCustomHandler(c, t)
     \/ ListPersonasHandler(c, t) \/ ListUsersHandler(c, t) \/ ListPublicacaoHandler(c, t)
     \/ SalvarFluxoHandler(c, t) \/ AtivarSquadHandler(c, t) \/ StoreFails(c, t)

ProfilesNext == \E c \in Caller : Tell(c) \/ SaveActivation(c) \/ \E t \in PfTenant : Handles(c, t)

ProfilesSpec == ProfilesInit /\ [][ProfilesNext]_profileVars

-----------------------------------------------------------------------------
(* Properties. *)

(* The ledger tells of a removal only if the tenant's user is gone, and    *)
(* once, however many requests ask for it (`delete_user_handler`); and the *)
(* prompts it tells an activation's squad of are those the squad runs      *)
(* with, however personas are edited meanwhile (`ativar_squad_handler`,    *)
(* "hash de procedência MENTINDO sobre o que rodou").                      *)
TrailIsTrue ==
  \A t \in PfTenant : \A i, j \in DOMAIN told[t] :
    LET entry == told[t][i]
        of == entry.payload
    IN  /\ entry.kind = "btv.user_removed" =>
             /\ users[of.id].tenant = t
             /\ ~users[of.id].alive
             /\ entry = told[t][j] => i = j
        /\ entry.kind = "btv.squad_activated" =>
             /\ squads[of.run_id].tenant = t
             /\ of.prompt_hashes = PromptHashes(squads[of.run_id].roster)
             /\ {h.sha : h \in of.prompt_hashes} = squads[of.run_id].team
             /\ told[t][j].kind = entry.kind /\ told[t][j].payload.run_id = of.run_id => i = j

(* What "auditado" of `set_publicacao_handler` says and the two critical   *)
(* sections do not keep: when no request is on its way and the ledger has  *)
(* every fact, its last word on a publication is the one in force.         *)
PublicationIsAsTold ==
  \A t \in PfTenant :
    LET facts == SelectSeq(told[t], LAMBDA f : f.kind = "btv.template_published")
    IN  (\A c \in Caller : caller[c].at # "telling") /\ Len(facts) = Cardinality(Caller)
          => facts[Len(facts)].payload.publicado = published[t]
=============================================================================
