------------------------------- MODULE PgProfiles ------------------------------
(***************************************************************************)
(* Users, persona prompts and template publication of the PostgreSQL       *)
(* adapter (crates/btv-store/src/pg.rs).  What the SQLite adapter does in  *)
(* one statement under a mutex is here a transaction among those of other  *)
(* processes: each action is one statement, with the row locks and the     *)
(* READ COMMITTED reads of PostgreSQL.  Every call means one row of its    *)
(* own tenant, or each row of a list for itself.                           *)
(***************************************************************************)
EXTENDS Naturals, FiniteSets

CONSTANTS
  PpConn,
  PpTenant,
  Key,         \* ids of users and personas, roles of overrides, templates
  Value,       \* what a row may say: a PIN's hash, whether active, a prompt
  Absent,      \* no row
  MaxOps       \* bound: calls of all connections

ASSUME PpConstants == MaxOps \in Nat /\ Absent \notin Value

VARIABLES
  ppTable,       \* the table this behaviour is about: calls on two share nothing
  stored,      \* per row: its committed value
  numbered,    \* the ids the serial column has given out
  tx,          \* per connection: its transaction
  asked,       \* calls made
  answered     \* history: the last call answered

ppVars == <<ppTable, stored, numbered, tx, asked, answered>>

Row == PpTenant \X Key
NoTx == [at |-> "none", op |-> "none", row |-> CHOOSE r \in Row : TRUE, value |-> Absent,
         found |-> Absent, span |-> {}]

PpInit ==
  /\ ppTable \in {"users", "custom_personas", "persona_overrides", "template_pub"}
  /\ stored = [r \in Row |-> Absent]
  /\ numbered = {}
  /\ tx = [c \in PpConn |-> NoTx]
  /\ asked = 0
  /\ answered = [op |-> "none", row |-> CHOOSE r \in Row : TRUE, answer |-> "none", span |-> {}]

(* A row that was written is held until its transaction ends: a statement  *)
(* of another that would write it waits.                                   *)
Holds(c) == tx[c].at = "written" /\ tx[c].found # Absent
LockedByOther(c) == \E d \in PpConn \ {c} : Holds(d) /\ tx[d].row = tx[c].row

-----------------------------------------------------------------------------
(* The statements. *)
Begun(c, op) == tx[c].at = "begun" /\ tx[c].op = op
Wrote(c, found) ==
  /\ tx' = [tx EXCEPT ![c].at = "written", ![c].found = found]
  /\ UNCHANGED <<ppTable, stored, asked, answered>>

(* INSERT ... RETURNING id: the number is spent, whatever becomes of the row. *)
InsertsRow(c, op) ==
  /\ Begun(c, op) /\ tx[c].row[2] \notin numbered
  /\ numbered' = numbered \cup {tx[c].row[2]}
  /\ Wrote(c, tx[c].value)

(* UPDATE or DELETE ... WHERE tenant_id = $1 AND id = $2 *)
TouchesRow(c, op) ==
  /\ Begun(c, op) /\ ~LockedByOther(c)
  /\ Wrote(c, stored[tx[c].row])
  /\ UNCHANGED numbered

(* INSERT ... ON CONFLICT DO UPDATE *)
UpsertsRow(c, op) ==
  /\ Begun(c, op) /\ ~LockedByOther(c)
  /\ Wrote(c, tx[c].value)
  /\ UNCHANGED numbered

(* SELECT: waits for nobody. *)
SelectsRow(c, op, next) ==
  /\ Begun(c, op)
  /\ tx' = [tx EXCEPT ![c].at = next, ![c].found = stored[tx[c].row]]
  /\ UNCHANGED <<ppTable, stored, numbered, asked, answered>>

PgCreate(c) == InsertsRow(c, "create")
PgRemove(c) == TouchesRow(c, "remove")
PgSetActive(c) == TouchesRow(c, "set_active")
PgVerifyPin(c) == SelectsRow(c, "verify_pin", "read")
PgListUsers(c) == SelectsRow(c, "list", "read")

(* The salt is read first; that the row may be gone at the UPDATE is not   *)
(* looked at.                                                              *)
PgSetPin(c) ==
  /\ \/ SelectsRow(c, "set_pin", IF stored[tx[c].row] = Absent THEN "missed" ELSE "salted")
     \/ /\ tx[c].at = "salted" /\ ~LockedByOther(c)
        /\ Wrote(c, stored[tx[c].row])
        /\ UNCHANGED numbered

PgInsertCustom(c) == InsertsRow(c, "insert_custom")
PgUpdateCustom(c) == TouchesRow(c, "update_custom")
PgDeleteCustom(c) == TouchesRow(c, "delete_custom")
PgListCustom(c) == SelectsRow(c, "list_custom", "read")
PgSetOverride(c) == UpsertsRow(c, "set_override")
PgDeleteOverride(c) == TouchesRow(c, "delete_override")
PgClearOverrides(c) == TouchesRow(c, "clear_overrides")
PgListOverrides(c) == SelectsRow(c, "list_overrides", "read")
PgSetPublished(c) == UpsertsRow(c, "set_published")
PgListPublished(c) == SelectsRow(c, "list_published", "read")

-----------------------------------------------------------------------------
Inserts == {"create", "insert_custom"}
Upserts == {"set_override", "set_published"}
Updates == {"set_active", "set_pin", "update_custom"}
Deletes == {"remove", "delete_custom"}
Clears == {"delete_override", "clear_overrides"}
Reads == {"list", "verify_pin", "list_custom", "list_overrides", "list_published"}

CallsOn ==
  [users |-> {"create", "remove", "set_active", "set_pin", "verify_pin", "list"},
   custom_personas |-> {"insert_custom", "update_custom", "delete_custom", "list_custom"},
   persona_overrides |-> {"set_override", "delete_override", "clear_overrides", "list_overrides"},
   template_pub |-> {"set_published", "list_published"}]

(* What a call that found `value` in its row answers, and leaves there: no *)
(* row is NotFound, except where its absence is what was asked for.        *)
AnswerTo(op, value) ==
  CASE op \in Reads -> value
    [] op \in Updates \cup Deletes /\ value = Absent -> "NotFound"
    [] OTHER -> "Ok"
Left(op, value, old) ==
  CASE op \in Inserts \cup Upserts -> value
    [] op \in Updates -> IF old = Absent THEN Absent ELSE value
    [] op \in Deletes \cup Clears -> Absent
    [] OTHER -> old

(* begin, fixa_tenant *)
PgBegin(c) ==
  /\ tx[c].at = "none" /\ asked < MaxOps
  /\ asked' = asked + 1
  /\ \E op \in CallsOn[ppTable], row \in Row, value \in Value :
       tx' = [tx EXCEPT ![c] = [at |-> "begun", op |-> op, row |-> row, value |-> value,
                                found |-> Absent, span |-> {stored[row]}]]
  /\ UNCHANGED <<ppTable, stored, numbered, answered>>

(* Bug: nobody looks at the number of rows. *)
AnswerBlind(c) == IF tx[c].op \in Deletes THEN "Ok" ELSE AnswerTo(tx[c].op, tx[c].found)

(* rows_affected, or the row read; set_pin goes by the row of its SELECT.  *)
PgAnswer(c) ==
  CASE tx[c].op = "set_pin" -> IF tx[c].at = "missed" THEN "NotFound" ELSE "Ok"
    [] OTHER -> AnswerTo(tx[c].op, tx[c].found)

(* commit; the answer.  Whoever is in a call on that row has seen it       *)
(* change.                                                                 *)
EndTx(c) ==
  LET row == tx[c].row
      new == IF Holds(c) THEN Left(tx[c].op, tx[c].value, stored[row]) ELSE stored[row]
  IN  /\ tx[c].at \in {"read", "missed", "written"}
      /\ stored' = [stored EXCEPT ![row] = new]
      /\ answered' = [op |-> tx[c].op, row |-> row, answer |-> PgAnswer(c), span |-> tx[c].span]
      /\ tx' = [d \in PpConn |->
           IF d = c THEN NoTx
           ELSE IF tx[d].at # "none" /\ tx[d].row = row THEN [tx[d] EXCEPT !.span = @ \cup {new}]
           ELSE tx[d]]
      /\ UNCHANGED <<ppTable, numbered, asked>>

(* A statement fails or the process dies: Storage, and nothing is written. *)
PgTxFails(c) ==
  /\ tx[c].at # "none"
  /\ tx' = [tx EXCEPT ![c] = NoTx]
  /\ UNCHANGED <<ppTable, stored, numbered, asked, answered>>

PpNext == \E c \in PpConn :
  \/ PgBegin(c) \/ EndTx(c) \/ PgTxFails(c)
  \/ PgCreate(c) \/ PgRemove(c) \/ PgSetActive(c) \/ PgSetPin(c) \/ PgVerifyPin(c) \/ PgListUsers(c)
  \/ PgInsertCustom(c) \/ PgUpdateCustom(c) \/ PgDeleteCustom(c) \/ PgListCustom(c)
  \/ PgSetOverride(c) \/ PgDeleteOverride(c) \/ PgClearOverrides(c) \/ PgListOverrides(c)
  \/ PgSetPublished(c) \/ PgListPublished(c)

PpSpec == PpInit /\ [][PpNext]_ppVars

-----------------------------------------------------------------------------
(* However the transactions of several processes interleave, a call is     *)
(* answered as if it had been alone with its row at one moment between its *)
(* begin and its answer ("0 linhas = não existe NESTE tenant"): so no      *)
(* removal is answered Ok twice, nobody is shown a row whose removal had   *)
(* been answered, and a row is found again only if it was never removed.   *)
CallsLookAtomic ==
  answered.op # "none" => \E value \in answered.span : answered.answer = AnswerTo(answered.op, value)
=============================================================================
