-------------------------------- MODULE RunStore --------------------------------
(***************************************************************************)
(* The rows of runs and deliverables under both adapters of                *)
(* `RunRepository` (crates/btv-store/src/btv.rs and pg.rs): connections of *)
(* several processes open the store, an old SQLite file is migrated, and   *)
(* runs are saved alone or with their deliverables.  Each action is one    *)
(* statement; what a transaction has written is its own until it commits.  *)
(***************************************************************************)
EXTENDS Naturals, Sequences, FiniteSets, FiniteSetsExt

CONSTANTS
  RsConn,
  RsTenant,
  RsLocal,     \* LOCAL_TENANT
  NoOwner,     \* a row from before tenants
  RsTask,
  MaxSaves     \* bound: saves of all connections

ASSUME RunStoreConstants ==
  RsLocal \in RsTenant /\ NoOwner \notin RsTenant /\ MaxSaves \in Nat

VARIABLES
  adapter,     \* "sqlite" or "postgres"
  shape,       \* the file's tables: "none", "old" (without tenants) or "new"
  runRows,     \* committed: [tenant, task, id, by]
  deliveries,  \* committed: [tenant, run, task, by, n]
  client,      \* per connection: where it is, its save, and what its transaction has written
  saves,       \* the saves asked for: [tenant, task, items]
  savedOk,     \* history: the saves answered Ok
  ids,         \* the ids given to runs
  page         \* a console's page: the deliverables listed, the runs listed after, a download

storedVars == <<adapter, shape, runRows, deliveries, client, saves, savedOk, ids>>
rsVars == <<storedVars, page>>

NoPage == [tenant |-> NoOwner, items |-> {}, runs |-> {}, at |-> "blank"]

Shut == [at |-> "closed", save |-> 0, run |-> {}, made |-> {}]

RsInit ==
  /\ adapter \in {"sqlite", "postgres"}
  /\ IF adapter = "postgres" THEN shape = "new" ELSE shape \in {"none", "old"}
  /\ runRows = IF shape # "old" THEN {}
               ELSE {[tenant |-> NoOwner, task |-> CHOOSE k \in RsTask : TRUE, id |-> 1, by |-> 0]}
  /\ deliveries = {[tenant |-> NoOwner, run |-> r.id, task |-> r.task, by |-> 0, n |-> 1] : r \in runRows}
  /\ client = [c \in RsConn |-> Shut]
  /\ saves = << >>
  /\ savedOk = {}
  /\ ids = Cardinality(runRows)
  /\ page = NoPage

ClientAt(c, where) == client' = [client EXCEPT ![c].at = where]
RsIdle(c) == client' = [client EXCEPT ![c] = [Shut EXCEPT !.at = "open"]]

-----------------------------------------------------------------------------
(* Opening. *)

(* `init`: CREATE TABLE IF NOT EXISTS; the other adapter's migrations are  *)
(* serialised by their own table.                                          *)
CreateTables(c) ==
  /\ client[c].at = "closed"
  /\ shape' = IF shape = "none" THEN "new" ELSE shape
  /\ ClientAt(c, "created")
  /\ UNCHANGED <<adapter, runRows, deliveries, saves, savedOk, ids>>

LookAtSchema(c) ==
  /\ client[c].at = "created"
  /\ ClientAt(c, IF shape = "old" THEN "migrating" ELSE "open")
  /\ UNCHANGED <<adapter, shape, runRows, deliveries, saves, savedOk, ids>>

(* `migrate_legacy`, one transaction; on a file migrated meanwhile its first *)
(* statement fails, and so does the open.                                    *)
MigrateRows(c) ==
  /\ client[c].at = "migrating"
  /\ \A d \in RsConn : client[d].at # "writing"
  /\ IF shape = "old"
     THEN /\ shape' = "new"
          /\ runRows' = {[r EXCEPT !.tenant = RsLocal] : r \in runRows}
          /\ deliveries' = {[v EXCEPT !.tenant = RsLocal] : v \in deliveries}
          /\ ClientAt(c, "open")
     ELSE ClientAt(c, "closed") /\ UNCHANGED <<shape, runRows, deliveries>>
  /\ UNCHANGED <<adapter, saves, savedOk, ids>>

OpenStore(c) == CreateTables(c) \/ LookAtSchema(c) \/ MigrateRows(c)

-----------------------------------------------------------------------------
(* Saving. *)

Save(c) == saves[client[c].save]
RunRowsOf(save) == {r \in runRows : r.tenant = save.tenant /\ r.task = save.task}

(* A deliverable handed over with the run may be another tenant's; only the *)
(* last, for a refusal ends the save.                                       *)
AskSave(c) ==
  /\ client[c].at = "open"
  /\ Len(saves) < MaxSaves
  /\ \E t \in RsTenant, k \in RsTask :
     \E items \in {<< >>} \cup {[i \in 1 .. n |-> IF i = n THEN o ELSE t] : n \in 1 .. 2, o \in RsTenant} :
       saves' = Append(saves, [tenant |-> t, task |-> k, items |-> items])
  /\ client' = [client EXCEPT ![c].at = "asked", ![c].save = Len(saves) + 1]
  /\ UNCHANGED <<adapter, shape, runRows, deliveries, savedOk, ids>>

(* SQLite has one writer at a time, PostgreSQL one of each row. *)
Blocked(c) ==
  \E d \in RsConn \ {c} :
    /\ client[d].at = "writing"
    /\ adapter = "postgres" => Save(d).tenant = Save(c).tenant /\ Save(d).task = Save(c).task

(* A save without deliverables has a transaction in PostgreSQL only. *)
InTransaction(c) == adapter = "postgres" \/ Save(c).items # << >>

(* The row of the save: the one there is, rewritten, or a new one. *)
Upserted(c) ==
  IF RunRowsOf(Save(c)) # {} THEN {[r EXCEPT !.by = client[c].save] : r \in RunRowsOf(Save(c))}
  ELSE {[tenant |-> Save(c).tenant, task |-> Save(c).task, id |-> ids + 1, by |-> client[c].save]}

(* Bug: the run is written outside the transaction of its deliverables. *)
UpsertRunAlone(c) ==
  /\ client[c].at = "asked" /\ InTransaction(c)
  /\ ~Blocked(c)
  /\ runRows' = (runRows \ RunRowsOf(Save(c))) \cup Upserted(c)
  /\ client' = [client EXCEPT ![c].at = "writing", ![c].run = Upserted(c)]
  /\ ids' = ids + 1
  /\ UNCHANGED <<adapter, shape, deliveries, saves, savedOk>>

(* `upsert_run` in a transaction, and the id of its row. *)
UpsertRun(c) ==
  /\ client[c].at = "asked" /\ InTransaction(c)
  /\ ~Blocked(c)
  /\ client' = [client EXCEPT ![c].at = "writing", ![c].run = Upserted(c)]
  /\ ids' = ids + 1
  /\ UNCHANGED <<adapter, shape, runRows, deliveries, saves, savedOk>>

(* SQLite's `save` has no transaction: an UPDATE, and if it met no row an  *)
(* INSERT, which fails if another process has inserted the row since.      *)
UpdateRun(c) ==
  /\ client[c].at = "asked" /\ ~InTransaction(c)
  /\ ~Blocked(c)
  /\ IF RunRowsOf(Save(c)) # {}
     THEN /\ runRows' = (runRows \ RunRowsOf(Save(c))) \cup Upserted(c)
          /\ savedOk' = savedOk \cup {client[c].save}
          /\ RsIdle(c)
     ELSE ClientAt(c, "inserting") /\ UNCHANGED <<runRows, savedOk>>
  /\ UNCHANGED <<adapter, shape, deliveries, saves, ids>>

InsertRun(c) ==
  /\ client[c].at = "inserting"
  /\ ~Blocked(c)
  /\ IF RunRowsOf(Save(c)) # {} THEN UNCHANGED <<runRows, savedOk, ids>>
     ELSE /\ runRows' = runRows \cup Upserted(c)
          /\ savedOk' = savedOk \cup {client[c].save}
          /\ ids' = ids + 1
  /\ RsIdle(c)
  /\ UNCHANGED <<adapter, shape, deliveries, saves>>

(* `exige_mesmo_tenant`, then the INSERT; a refusal drops the transaction. *)
InsertDeliverable(c) ==
  LET n == Cardinality(client[c].made) + 1
  IN  /\ client[c].at = "writing"
      /\ n <= Len(Save(c).items)
      /\ IF Save(c).items[n] # Save(c).tenant THEN RsIdle(c)
         ELSE \E r \in client[c].run :
                client' = [client EXCEPT ![c].made = @ \cup
                  {[tenant |-> Save(c).tenant, run |-> r.id, task |-> Save(c).task,
                    by |-> client[c].save, n |-> n]}]
      /\ UNCHANGED <<adapter, shape, runRows, deliveries, saves, savedOk, ids>>

(* The commit; its answer may be lost. *)
CommitSave(c) ==
  /\ client[c].at = "writing"
  /\ Cardinality(client[c].made) = Len(Save(c).items)
  /\ runRows' = (runRows \ RunRowsOf(Save(c))) \cup client[c].run
  /\ deliveries' = deliveries \cup client[c].made
  /\ savedOk' \in {savedOk, savedOk \cup {client[c].save}}
  /\ RsIdle(c)
  /\ UNCHANGED <<adapter, shape, saves, ids>>

(* A statement fails, a wait for the lock times out or the process dies. *)
SaveFails(c) ==
  /\ client[c].at \notin {"closed", "open"}
  /\ client' = [client EXCEPT ![c] = Shut]
  /\ UNCHANGED <<adapter, shape, runRows, deliveries, saves, savedOk, ids>>

SaveRun(c) == UpdateRun(c) \/ InsertRun(c)
SaveWithDeliverables(c) == UpsertRun(c) \/ InsertDeliverable(c) \/ CommitSave(c)

-----------------------------------------------------------------------------
(* Reading.  A page, one in a behaviour, lists the deliverables, then the  *)
(* runs, then downloads one; PostgreSQL selects under the row security of  *)
(* the tenant its transaction has fixed.  An empty list is left out.       *)

Fixed(t, relation) == {row \in relation : row.tenant = t}

RunsOf(t) == {r \in runRows : r.tenant = t}
PgRunsOf(t) == {r \in Fixed(t, runRows) : r.tenant = t}
ItemsOf(t) == {v \in deliveries : v.tenant = t}
PgItemsOf(t) == {v \in Fixed(t, deliveries) : v.tenant = t}
ItemOf(t, id) == {v \in deliveries : v.tenant = t /\ v = id}
PgItemOf(t, id) == {v \in Fixed(t, deliveries) : v.tenant = t /\ v = id}

OnAdapter(sqlite, postgres) == IF adapter = "sqlite" THEN sqlite ELSE postgres

ListDeliverables(t) ==
  /\ page = NoPage /\ ItemsOf(t) # {}
  /\ page' = [NoPage EXCEPT !.tenant = t, !.at = "items",
                            !.items = OnAdapter(ItemsOf(t), PgItemsOf(t))]

ListRuns ==
  /\ page.at = "items"
  /\ page' = [page EXCEPT !.at = "both",
                          !.runs = OnAdapter(RunsOf(page.tenant), PgRunsOf(page.tenant))]

(* `convert`: a text is made a document, or is markup already; what needs  *)
(* rendering (an image, MIDI) has no converter.                            *)
Converts(format) == format \in {"docx", "xlsx", "pdf", "svg", "musicxml"}

(* The row, then the file as it is now, then its conversion. *)
Download ==
  /\ page.at = "both"
  /\ \E id \in deliveries, onDisk \in BOOLEAN, binary \in BOOLEAN, format \in {"txt", "docx", "png"} :
       LET found == OnAdapter(ItemOf(page.tenant, id), PgItemOf(page.tenant, id)) # {}
       IN  page' = [page EXCEPT !.items = {id}, !.runs = {}, !.at =
             CASE ~found -> "not_found"
               [] found /\ ~onDisk -> "file_missing"
               [] found /\ onDisk /\ binary /\ ~Converts(format) -> "not_exportable"
               [] OTHER -> "served"]

ReadPage ==
  /\ \E c \in RsConn : client[c].at = "open"
  /\ (\E t \in RsTenant : ListDeliverables(t)) \/ ListRuns \/ Download
  /\ UNCHANGED storedVars

RsNext ==
  \/ \E c \in RsConn :
       /\ OpenStore(c) \/ AskSave(c) \/ SaveRun(c) \/ SaveWithDeliverables(c) \/ SaveFails(c)
       /\ UNCHANGED page
  \/ ReadPage

RsSpec == RsInit /\ [][RsNext]_rsVars

-----------------------------------------------------------------------------
(* Properties. *)

(* A run and the deliverables saved with it are stored together or not at  *)
(* all ("run + entregas gravam juntos ou nada grava"): a save answered Ok  *)
(* has all of its deliverables, one refused or failed left nothing, not    *)
(* even a run rewritten, and each belongs to the row of its tenant's task; *)
(* while other connections save the same task, open or migrate the file,   *)
(* whose rows from before tenants are LOCAL's, each kept once.  A page that *)
(* listed deliverables finds the run of each in the list it reads next, and *)
(* a download is refused as unknown only for another tenant's deliverable.  *)
SavesAreWhole ==
  /\ \A r, o \in runRows : r.tenant = o.tenant /\ r.task = o.task => r = o
  /\ \A v \in deliveries : \E r \in runRows : r.id = v.run /\ r.task = v.task /\ r.tenant = v.tenant
  /\ \A s \in DOMAIN saves :
       LET made == {v \in deliveries : v.by = s}
       IN  /\ made # {} => Cardinality(made) = Len(saves[s].items)
           /\ made # {} \/ s \in savedOk \/ (\E r \in runRows : r.by = s) =>
                \A i \in DOMAIN saves[s].items : saves[s].items[i] = saves[s].tenant
           /\ s \in savedOk => Cardinality(made) = Len(saves[s].items) /\ RunRowsOf(saves[s]) # {}
           /\ (\E r \in runRows : r.by = s) => Cardinality(made) = Len(saves[s].items)
  /\ \A v, w \in deliveries : v.by = 0 /\ w.by = 0 =>
       v = w /\ v.tenant = IF shape = "old" THEN NoOwner ELSE RsLocal
  /\ page.at = "both" => \A v \in page.items : \E r \in page.runs : r.id = v.run
  /\ page.items \subseteq deliveries
  /\ page.at \notin {"blank", "items", "both"} =>
       \A v \in page.items : v.tenant = page.tenant <=> page.at # "not_found"
=============================================================================
