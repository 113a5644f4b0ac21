------------------------------- MODULE RulePolicy -------------------------------
(***************************************************************************)
(* Permission rules: the table of the user's overrides                     *)
(* (crates/btv-store/src/rule_store.rs), the handlers that set and revoke  *)
(* them and tell the ledger (crates/btv-cli/src/web_agent.rs), and how a   *)
(* session decides with them (crates/btv-core/src/permission.rs).          *)
(***************************************************************************)
EXTENDS Naturals, Sequences, FiniteSets

CONSTANTS
  Profile, Tool, Scope,
  Prefix,        \* scope prefixes; Covers says which scopes start with one
  Covers(_),
  EmptyScope,    \* the scope the matrix is asked about
  NoPrefix,      \* the scope of a rule of the matrix
  DefaultRules(_),  \* the rules of a profile, as a sequence
  Editor,        \* requests to the rule handlers
  MaxSets        \* bound: rules ever set

Decision == {"allow", "ask", "deny"}

ASSUME RuleConstants ==
  /\ NoPrefix \notin Prefix /\ MaxSets \in Nat
  /\ \A profile \in Profile :
       DefaultRules(profile) \in Seq([tool : Tool, scope : Prefix \cup {NoPrefix}, decision : Decision])

VARIABLES
  rules,      \* the table
  ruleId,     \* the last id given
  editor,     \* per request: what its handler is doing
  edits       \* history: what was done to the table, in order

ruleVars == <<rules, ruleId, editor, edits>>

Key == [profile : Profile, tool : Tool, scope : Prefix \cup {NoPrefix}]
KeyOf(r) == [profile |-> r.profile, tool |-> r.tool, scope |-> r.scope]
Rule(id, key, decision) ==
  [id |-> id, profile |-> key.profile, tool |-> key.tool, scope |-> key.scope,
   decision |-> decision]

Edit(op, r) == [op |-> op, rule |-> r]
Idle == [at |-> "idle"]

RuleInit ==
  /\ rules = {}
  /\ ruleId = 0
  /\ editor = [e \in Editor |-> Idle]
  /\ edits = <<>>

-----------------------------------------------------------------------------
(* Deciding. *)

(* `list_for_profile`: scoped rules first, the newest first within each. *)
Precedes(r, q) ==
  IF (r.scope = NoPrefix) # (q.scope = NoPrefix) THEN q.scope = NoPrefix ELSE q.id < r.id

RowsOf(profile) == {r \in rules : r.profile = profile}
InOrder(rows, Before(_, _)) ==
  CHOOSE seq \in [1 .. Cardinality(rows) -> rows] :
    \A i, j \in DOMAIN seq : i < j => Before(seq[i], seq[j])

(* Bug: the rows as they were inserted. *)
OverridesByAge(profile) == InOrder(RowsOf(profile), LAMBDA r, q : r.id < q.id)

OverridesFor(profile) == InOrder(RowsOf(profile), Precedes)

Overlay(profile) == OverridesFor(profile) \o DefaultRules(profile)

Matches(r, tool, scope) ==
  r.tool = tool /\ (r.scope = NoPrefix \/ scope \in Covers(r.scope))

(* `evaluate`: the first rule that matches; none: ask. *)
Evaluate(engine, tool, scope) ==
  LET hits == {i \in DOMAIN engine : Matches(engine[i], tool, scope)}
  IN  IF hits = {} THEN "ask"
      ELSE engine[CHOOSE i \in hits : \A j \in hits : i <= j].decision

(* `get_matrix_handler`: the decision of each profile and tool on no scope. *)
MatrixRow(profile, tool) == Evaluate(Overlay(profile), tool, EmptyScope)

-----------------------------------------------------------------------------
(* The handlers: the table, then the ledger. *)

(* `set`: delete and insert in one transaction. *)
SetRule(e) ==
  /\ editor[e] = Idle
  /\ ruleId < MaxSets
  /\ \E key \in Key, decision \in Decision :
       LET new == Rule(ruleId + 1, key, decision)
       IN  /\ rules' = {r \in rules : KeyOf(r) # key} \cup {new}
           /\ edits' = Append(edits, Edit("set", new))
           /\ editor' = [editor EXCEPT ![e] = [at |-> "telling", edit |-> Edit("set", new)]]
  /\ ruleId' = ruleId + 1

(* `get`: what is to be revoked, for the ledger's entry. *)
LookUp(e) ==
  /\ editor[e] = Idle
  /\ \E r \in rules : editor' = [editor EXCEPT ![e] = [at |-> "found", edit |-> Edit("revoke", r)]]
  /\ UNCHANGED <<rules, ruleId, edits>>

(* Bug: what was looked up is told whether or not it was removed. *)
RevokeBlind(e) ==
  /\ editor[e].at = "found"
  /\ rules' = rules \ {editor[e].edit.rule}
  /\ edits' = IF editor[e].edit.rule \in rules THEN Append(edits, editor[e].edit) ELSE edits
  /\ editor' = [editor EXCEPT ![e].at = "telling"]
  /\ UNCHANGED ruleId

(* `remove`: a rule that is gone by now is a 404 and no entry. *)
Revoke(e) ==
  /\ editor[e].at = "found"
  /\ LET gone == editor[e].edit.rule.id \notin {r.id : r \in rules}
     IN  /\ rules' = {r \in rules : r.id # editor[e].edit.rule.id}
         /\ edits' = IF gone THEN edits ELSE Append(edits, editor[e].edit)
         /\ editor' = [editor EXCEPT ![e] = IF gone THEN Idle ELSE [@ EXCEPT !.at = "telling"]]
  /\ UNCHANGED ruleId

(* The entry is appended, or it is not: the handler fails, or dies, and    *)
(* the change stands without it.                                           *)
TellLedger(e) ==
  /\ editor[e].at = "telling"
  /\ editor' = [editor EXCEPT ![e] = Idle]
  /\ UNCHANGED <<rules, ruleId, edits>>

SetRuleHandler(e) == SetRule(e) \/ TellLedger(e)
RevokeRuleHandler(e) == LookUp(e) \/ Revoke(e) \/ TellLedger(e)

RuleNext == \E e \in Editor : SetRuleHandler(e) \/ RevokeRuleHandler(e)

RuleSpec == RuleInit /\ [][RuleNext]_ruleVars

-----------------------------------------------------------------------------
(* Properties. *)

(* What the user last said, and did not take back, of each key. *)
Standing ==
  {i \in DOMAIN edits :
     /\ edits[i].op = "set"
     /\ \A j \in i + 1 .. Len(edits) :
          /\ edits[j].op = "set" => KeyOf(edits[j].rule) # KeyOf(edits[i].rule)
          /\ edits[j].op = "revoke" => edits[j].rule # edits[i].rule}
LatestOf(I) == CHOOSE i \in I : \A j \in I : j <= i
LastWord(profile, tool, scope) ==
  LET said == {i \in Standing : /\ edits[i].rule.profile = profile
                                /\ Matches(edits[i].rule, tool, scope)}
      scoped == {i \in said : edits[i].rule.scope # NoPrefix}
  IN  IF scoped # {} THEN edits[LatestOf(scoped)].rule.decision
      ELSE IF said # {} THEN edits[LatestOf(said)].rule.decision
      ELSE Evaluate(DefaultRules(profile), tool, scope)

(* A session decides by the last word the user has standing on the scope,  *)
(* before what he has on the whole tool, before the profile's default,     *)
(* however rules were set again, revoked and overlapped (`overlay`,        *)
(* `list_for_profile`), and the matrix of the console shows the decision   *)
(* that stands ("decisão EFETIVA"); and the ledger is told of each change  *)
(* that was made by one request only, over two that revoke one rule, or    *)
(* revoke what is set again meanwhile.                                     *)
LastWordWins ==
  /\ \A profile \in Profile, tool \in Tool, scope \in Scope :
       Evaluate(Overlay(profile), tool, scope) = LastWord(profile, tool, scope)
  /\ \A profile \in Profile, tool \in Tool :
       MatrixRow(profile, tool) = LastWord(profile, tool, EmptyScope)
  /\ \A e \in Editor : editor[e].at = "telling" =>
       /\ \E i \in DOMAIN edits : edits[i] = editor[e].edit
       /\ \A f \in Editor \ {e} : editor[f].at = "telling" => editor[e].edit # editor[f].edit
=============================================================================
