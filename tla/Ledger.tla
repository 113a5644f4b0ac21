--------------------------------- MODULE Ledger ---------------------------------
(***************************************************************************)
(* The ledger file (crates/btv-store/src/ledger.rs): one hash chain per    *)
(* tenant in one SQLite table, written by connections of several           *)
(* processes.  A transaction that begins IMMEDIATE holds the write lock of *)
(* the file; a read sees what is committed.  A file of the time before     *)
(* tenants is migrated by whoever opens it.                                *)
(*                                                                         *)
(* `chain_hash(prev)` is the hash of the previous hash and the body.  It   *)
(* is modelled as what it commits to, the sequence of bodies, so two       *)
(* hashes are equal exactly when the histories are (no collision).         *)
(***************************************************************************)
EXTENDS Naturals, Sequences, FiniteSets

CONSTANTS
  Conn,      \* connections to the file
  Tenant, Local, NoTenant,
  Fact,      \* what an entry records
  OldSizes,  \* how many entries a file from before tenants may hold
  NoFile,    \* may the file not exist yet?
  MaxRows,   \* bound: entries in the file when an append begins
  NoConn

ASSUME LedgerConstants ==
  /\ Local \in Tenant
  /\ NoTenant \notin Tenant
  /\ NoConn \notin Conn
  /\ Fact # {}
  /\ OldSizes \subseteq Nat
  /\ MaxRows \in Nat

VARIABLES
  schema,    \* of the table `ledger`: "none", "old", "b3"
  rows,      \* the committed rows
  lock,      \* the connection whose transaction holds the write lock
  at,        \* per connection: what it is doing
  entry,     \* per connection: the body it appends
  top,       \* per connection: the top of the chain its transaction read
  scan       \* per connection: its verification

vars == <<schema, rows, lock, at, entry, top, scan>>

Body == [tenant : Tenant \cup {NoTenant}, fact : Fact]

(* The chain an entry belongs to; the port without context is LOCAL's. *)
ChainOf(body) == IF body.tenant = NoTenant THEN Local ELSE body.tenant

RowsOf(t) == {r \in rows : r.tenant = t}
TopOf(t) ==
  IF RowsOf(t) = {} THEN [seq |-> 0, hash |-> <<>>]
  ELSE LET r == CHOOSE r \in RowsOf(t) : \A q \in RowsOf(t) : q.seq <= r.seq
       IN  [seq |-> r.seq, hash |-> r.hash]

ChainHash(prev, body) == Append(prev, body)

RowAfter(top_, body) ==
  [tenant |-> ChainOf(body), seq |-> top_.seq + 1, prev |-> top_.hash,
   hash |-> ChainHash(top_.hash, body), body |-> body]

NoBody == [tenant |-> Local, fact |-> CHOOSE f \in Fact : TRUE]
NoTop == [seq |-> 0, hash |-> <<>>]
NoScan == [due |-> {}, total |-> 0, since |-> 0, ok |-> TRUE]

(* The bodies of a file from before tenants name none. *)
OldHash(n) == [i \in 1 .. n |-> [tenant |-> NoTenant, fact |-> CHOOSE f \in Fact : TRUE]]
OldRows(n) ==
  {[tenant |-> Local, seq |-> i, prev |-> OldHash(i - 1), hash |-> OldHash(i),
    body |-> OldHash(n)[i]] : i \in 1 .. n}

Init ==
  /\ \/ NoFile /\ schema = "none" /\ rows = {}
     \/ schema = "old" /\ \E n \in OldSizes : rows = OldRows(n)
  /\ lock = NoConn
  /\ at = [c \in Conn |-> "closed"]
  /\ entry = [c \in Conn |-> NoBody]
  /\ top = [c \in Conn |-> NoTop]
  /\ scan = [c \in Conn |-> NoScan]

Goes(c, phase) == at' = [at EXCEPT ![c] = phase]

(* The locals of an append are gone with it. *)
Forgets(c) == entry' = [entry EXCEPT ![c] = NoBody] /\ top' = [top EXCEPT ![c] = NoTop]

-----------------------------------------------------------------------------
(* `open`, `init`, `migrate_legacy`. *)

(* CREATE TABLE IF NOT EXISTS *)
Open(c) ==
  /\ at[c] = "closed"
  /\ schema' = IF schema = "none" THEN "b3" ELSE schema
  /\ Goes(c, "created")
  /\ UNCHANGED <<rows, lock, entry, top, scan>>

CheckSchema(c) ==
  /\ at[c] = "created"
  /\ Goes(c, IF schema = "b3" THEN "open" ELSE "migrating")
  /\ UNCHANGED <<schema, rows, lock, entry, top, scan>>

(* Every row becomes one of LOCAL's, whatever the table is by now; two     *)
(* rows of one `seq` break its UNIQUE, and the transaction is rolled back. *)
SeqsDiffer == \A r, q \in rows : r.seq = q.seq => r = q

(* Bug: the rebuild writes the tenant into the body that was hashed. *)
MigrateRechains(c) ==
  /\ at[c] = "migrating"
  /\ lock = NoConn
  /\ SeqsDiffer
  /\ rows' = {[r EXCEPT !.body.tenant = Local, !.tenant = Local] : r \in rows}
  /\ schema' = "b3"
  /\ Goes(c, "open")
  /\ UNCHANGED <<lock, entry, top, scan>>

Migrate(c) ==
  /\ at[c] = "migrating"
  /\ lock = NoConn
  /\ SeqsDiffer
  /\ rows' = {[r EXCEPT !.tenant = Local] : r \in rows}
  /\ schema' = "b3"
  /\ Goes(c, "open")
  /\ UNCHANGED <<lock, entry, top, scan>>

MigrateFails(c) ==
  /\ at[c] = "migrating"
  /\ \/ lock # NoConn
     \/ ~SeqsDiffer
  /\ Goes(c, "closed")
  /\ UNCHANGED <<schema, rows, lock, entry, top, scan>>

(* The store is dropped; most handlers open one for a single call. *)
Close(c) ==
  /\ at[c] = "open"
  /\ Goes(c, "closed")
  /\ UNCHANGED <<schema, rows, lock, entry, top, scan>>

-----------------------------------------------------------------------------
(* `append`. *)

Want(c) ==
  /\ at[c] = "open"
  /\ Cardinality(rows) < MaxRows
  /\ \E body \in Body : entry' = [entry EXCEPT ![c] = body]
  /\ Goes(c, "wanting")
  /\ UNCHANGED <<schema, rows, lock, top, scan>>

(* Bug: a transaction that begins DEFERRED takes no lock. *)
BeginDeferred(c) ==
  /\ at[c] = "wanting"
  /\ Goes(c, "begun")
  /\ UNCHANGED <<schema, rows, lock, entry, top, scan>>

Begin(c) ==
  /\ at[c] = "wanting"
  /\ lock = NoConn
  /\ lock' = c
  /\ Goes(c, "begun")
  /\ UNCHANGED <<schema, rows, entry, top, scan>>

(* The lock is not had within the busy timeout. *)
Busy(c) ==
  /\ at[c] = "wanting"
  /\ lock # NoConn
  /\ Goes(c, "open")
  /\ Forgets(c)
  /\ UNCHANGED <<schema, rows, lock, scan>>

(* Bug: the top is looked for without the tenant. *)
ReadTopOfAnyTenant(c) ==
  /\ at[c] = "begun"
  /\ \E t \in Tenant : /\ \A u \in Tenant : TopOf(u).seq <= TopOf(t).seq
                       /\ top' = [top EXCEPT ![c] = TopOf(t)]
  /\ Goes(c, "read")
  /\ UNCHANGED <<schema, rows, lock, entry, scan>>

ReadTop(c) ==
  /\ at[c] = "begun"
  /\ top' = [top EXCEPT ![c] = TopOf(ChainOf(entry[c]))]
  /\ Goes(c, "read")
  /\ UNCHANGED <<schema, rows, lock, entry, scan>>

Released(c) == lock' = IF lock = c THEN NoConn ELSE lock

(* INSERT and COMMIT: nothing is seen of it before.  TopIsCurrent says     *)
(* that the UNIQUE (tenant_id, seq) is never broken here.                  *)
Insert(c) ==
  /\ at[c] = "read"
  /\ rows' = rows \cup {RowAfter(top[c], entry[c])}
  /\ Released(c)
  /\ Forgets(c)
  /\ Goes(c, "open")
  /\ UNCHANGED <<schema, scan>>

(* An error or the death of the process: the transaction is rolled back. *)
Fail(c) ==
  /\ at[c] \in {"begun", "read"}
  /\ Released(c)
  /\ Forgets(c)
  /\ \E phase \in {"open", "closed"} : Goes(c, phase)
  /\ UNCHANGED <<schema, rows, scan>>

-----------------------------------------------------------------------------
(* `verify_chain`: the tenants first, then a read per tenant. *)

Before(r, chain) == {q \in chain : q.seq < r.seq}
HashBefore(r, chain) ==
  IF Before(r, chain) = {} THEN <<>>
  ELSE (CHOOSE q \in Before(r, chain) : \A p \in Before(r, chain) : p.seq <= q.seq).hash

(* Bug: the stored hashes are compared, none is computed anew. *)
ChainVerifiesStored(t, chain) ==
  \A r \in chain :
    /\ r.body.tenant \in {t, NoTenant}
    /\ r.prev = HashBefore(r, chain)

(* `verifica_cadeia_rows`: in the order of `seq`, each row's prev_hash is  *)
(* the hash of the row before, its entry_hash the hash of that and its     *)
(* body, and its body is of this tenant or of none.                        *)
ChainVerifies(t, chain) ==
  \A r \in chain :
    /\ r.body.tenant \in {t, NoTenant}
    /\ r.prev = HashBefore(r, chain)
    /\ r.hash = ChainHash(HashBefore(r, chain), r.body)

Verify(c) ==
  /\ at[c] = "open"
  /\ scan' = [scan EXCEPT ![c] =
                [due |-> {r.tenant : r \in rows}, total |-> 0, since |-> Cardinality(rows), ok |-> TRUE]]
  /\ Goes(c, "verifying")
  /\ UNCHANGED <<schema, rows, lock, entry, top>>

(* Bug: a tenant's chain is read without its tenant. *)
VerifyTenantUnscoped(c) ==
  /\ at[c] = "verifying"
  /\ \E t \in scan[c].due :
       scan' = [scan EXCEPT ![c].due = @ \ {t},
                            ![c].total = @ + Cardinality(rows),
                            ![c].ok = @ /\ ChainVerifies(t, RowsOf(t))]
  /\ UNCHANGED <<schema, rows, lock, at, entry, top>>

VerifyTenant(c) ==
  /\ at[c] = "verifying"
  /\ \E t \in scan[c].due :
       scan' = [scan EXCEPT ![c].due = @ \ {t},
                            ![c].total = @ + Cardinality(RowsOf(t)),
                            ![c].ok = @ /\ ChainVerifies(t, RowsOf(t))]
  /\ UNCHANGED <<schema, rows, lock, at, entry, top>>

VerifyEnds(c) ==
  /\ at[c] = "verifying"
  /\ scan[c].due = {} \/ ~scan[c].ok
  /\ scan' = [scan EXCEPT ![c] = NoScan]
  /\ Goes(c, "open")
  /\ UNCHANGED <<schema, rows, lock, entry, top>>

Next ==
  \E c \in Conn :
    \/ Open(c) \/ CheckSchema(c) \/ Migrate(c) \/ MigrateFails(c) \/ Close(c)
    \/ Want(c) \/ Begin(c) \/ Busy(c) \/ ReadTop(c) \/ Insert(c) \/ Fail(c)
    \/ Verify(c) \/ VerifyTenant(c) \/ VerifyEnds(c)

Spec == Init /\ [][Next]_vars

-----------------------------------------------------------------------------
(* Reading.  An entry is read from its body, which holds the two hashes;   *)
(* its number comes from the column.                                       *)

AsRead(r) == [seq |-> r.seq, prev |-> r.prev, hash |-> r.hash, body |-> r.body]

(* `recent_in_chain`: the newest entries, those of one fact if it is asked  *)
(* for (the code's filter is by actor).                                     *)
RecentInChain(t, limit, wanted) ==
  LET chosen == {r \in RowsOf(t) : r.body.fact \in wanted}
  IN  {AsRead(r) : r \in {q \in chosen : Cardinality({p \in chosen : p.seq > q.seq}) < limit}}

(* `export_chain`, in the order of `seq`. *)
ExportChain(t) ==
  [i \in 1 .. Cardinality(RowsOf(t)) |->
     AsRead(CHOOSE r \in RowsOf(t) : Cardinality(Before(r, RowsOf(t))) = i - 1)]

-----------------------------------------------------------------------------
(* Properties. *)

TypeOK ==
  /\ schema \in {"none", "old", "b3"}
  /\ lock \in Conn \cup {NoConn}
  /\ at \in [Conn -> {"closed", "created", "migrating", "open", "wanting", "begun", "read",
                      "verifying"}]
  /\ \A c \in Conn : at[c] \in {"begun", "read"} <=> lock = c
  /\ entry \in [Conn -> Body]
  /\ \A c \in Conn : scan[c].due \subseteq Tenant

(* Each tenant has one chain, from 1 to its top without a hole or a fork,  *)
(* that verifies: over appends of several processes, mixed tenants, failed *)
(* transactions and two processes that migrate an old file at once ("a     *)
(* cadeia global existente VIRA a cadeia do tenant LOCAL").                *)
ChainsAreWhole ==
  \A t \in Tenant :
    /\ {r.seq : r \in RowsOf(t)} = 1 .. Cardinality(RowsOf(t))
    /\ ChainVerifies(t, RowsOf(t))

(* No row is ever changed or removed ("Não há UPDATE nem DELETE"), the     *)
(* rebuild of the migration included.                                      *)
HistoryIsKept == [][rows \subseteq rows']_rows

(* The top a transaction read is the top when it inserts: nobody appends   *)
(* to the chain in between (`append`, "o read-modify-write é atômico ENTRE *)
(* conexões").                                                             *)
TopIsCurrent ==
  \A c \in Conn : at[c] = "read" => top[c] = TopOf(ChainOf(entry[c]))

(* What a verification says is so.  One that runs beside appends and       *)
(* migrations finds no fault and counts at least what there was when it    *)
(* began; and one entry rewritten, taken out before a later one, or moved  *)
(* to another tenant's chain is found ("`verify_chain` detecta qualquer    *)
(* adulteração retroativa"; a body without a tenant may move, as the code  *)
(* says).  An export verifies by itself, without the rows, and ends in     *)
(* what a reader of the newest entries sees ("verificável isoladamente,    *)
(* sem um único hash de outro tenant").                                    *)
VerificationIsExact ==
  /\ \A c \in Conn : at[c] = "verifying" =>
       /\ scan[c].ok
       /\ scan[c].due = {} => scan[c].since <= scan[c].total /\ scan[c].total <= Cardinality(rows)
  /\ \A r \in rows :
       LET chain == RowsOf(r.tenant)
       IN  /\ \A body \in Body \ {r.body} :
                ~ChainVerifies(r.tenant, (chain \ {r}) \cup {[r EXCEPT !.body = body]})
           /\ r.seq < Cardinality(chain) => ~ChainVerifies(r.tenant, chain \ {r})
           /\ r.body.tenant # NoTenant =>
                \A t \in Tenant \ {r.tenant} :
                  ~ChainVerifies(t, RowsOf(t) \cup {[r EXCEPT !.tenant = t,
                                                             !.seq = Cardinality(RowsOf(t)) + 1]})
  /\ schema = "b3" => \A t \in Tenant :
       LET out == ExportChain(t)
       IN  /\ \A i \in DOMAIN out :
                /\ out[i].seq = i
                /\ out[i].prev = IF i = 1 THEN <<>> ELSE out[i - 1].hash
                /\ out[i].hash = ChainHash(out[i].prev, out[i].body)
           /\ \A n \in 0 .. Len(out) : \A wanted \in {Fact} \cup {{f} : f \in Fact} :
                RecentInChain(t, n, wanted) \subseteq {out[i] : i \in DOMAIN out}
           /\ RecentInChain(t, 1, Fact) = {out[i] : i \in DOMAIN out \cap {Len(out)}}
=============================================================================
