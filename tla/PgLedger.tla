-------------------------------- MODULE PgLedger -------------------------------
(***************************************************************************)
(* The ledger of the PostgreSQL adapter (crates/btv-store/src/pg.rs):      *)
(* several processes append to the chain of each tenant with no lock.      *)
(* Each action is one statement of a transaction; what a read sees and     *)
(* when an INSERT waits or conflicts is PostgreSQL's READ COMMITTED.       *)
(***************************************************************************)
EXTENDS Naturals, Sequences, FiniteSets

CONSTANTS
  PgConn,
  PgTenant,
  MaxTries,     \* MAX_TENTATIVAS_APPEND
  MaxCalls      \* bound: calls of all connections

ASSUME PgConstants == MaxTries \in Nat /\ MaxCalls \in Nat /\ PgTenant # {}

VARIABLES
  pgRows,     \* committed entries of each tenant: a set of [seq, prev, hash, call]
  conn,     \* per connection: the append it serves, if any
  calls,    \* appends called
  acked     \* history: the appends answered Ok, as <<tenant, call, seq>>

pgVars == <<pgRows, conn, calls, acked>>

(* A hash is known by what it covers: the calls whose entries it chains.   *)
PgHash(prev, call) == Append(prev, call)
NoHash == << >>

Free == [at |-> "free", tenant |-> CHOOSE t \in PgTenant : TRUE,
         call |-> 0, seq |-> 0, prev |-> NoHash, tries |-> 0]

PgInit ==
  /\ pgRows = [t \in PgTenant |-> {}]
  /\ conn = [c \in PgConn |-> Free]
  /\ calls = 0
  /\ acked = {}

SeqsOf(t) == {e.seq : e \in pgRows[t]}

(* Whether another transaction holds the key c is about to write: the      *)
(* statement then waits for its end.                                       *)
HeldByOther(c) ==
  \E d \in PgConn \ {c} : /\ conn[d].at = "written"
                        /\ conn[d].tenant = conn[c].tenant
                        /\ conn[d].seq = conn[c].seq

-----------------------------------------------------------------------------
(* begin, fixa_tenant *)
PgCall(c) ==
  /\ conn[c].at = "free"
  /\ calls < MaxCalls
  /\ calls' = calls + 1
  /\ \E t \in PgTenant :
       conn' = [conn EXCEPT ![c] = [Free EXCEPT !.at = "begun", !.tenant = t, !.call = calls + 1]]
  /\ UNCHANGED <<pgRows, acked>>

(* `append`: the top of the tenant's chain as committed now. *)
ReadChainTop(c) ==
  LET t == conn[c].tenant
  IN  /\ conn[c].at = "begun"
      /\ \/ /\ pgRows[t] = {}
            /\ conn' = [conn EXCEPT ![c].at = "read", ![c].seq = 1, ![c].prev = NoHash]
         \/ \E e \in pgRows[t] :
              /\ \A o \in pgRows[t] : o.seq <= e.seq
              /\ conn' = [conn EXCEPT ![c].at = "read", ![c].seq = e.seq + 1, ![c].prev = e.hash]
      /\ UNCHANGED <<pgRows, calls, acked>>

(* Bug: after a conflict the next number is tried with the hash at hand. *)
InsertEntryRenumbered(c) ==
  /\ conn[c].at = "read"
  /\ ~HeldByOther(c)
  /\ conn' = IF conn[c].seq \notin SeqsOf(conn[c].tenant) THEN [conn EXCEPT ![c].at = "written"]
             ELSE [conn EXCEPT ![c].seq = @ + 1]
  /\ UNCHANGED <<pgRows, calls, acked>>

(* The INSERT: waits for a transaction that holds the number; a number     *)
(* taken is a conflict, after which the transaction is dropped and the     *)
(* next try begins, at most MaxTries times.                                *)
InsertEntry(c) ==
  /\ conn[c].at = "read"
  /\ ~HeldByOther(c)
  /\ \/ /\ conn[c].seq \notin SeqsOf(conn[c].tenant)
        /\ conn' = [conn EXCEPT ![c].at = "written"]
     \/ /\ conn[c].seq \in SeqsOf(conn[c].tenant)
        /\ conn' = IF conn[c].tries + 1 < MaxTries
                   THEN [conn EXCEPT ![c].at = "begun", ![c].tries = @ + 1]
                   ELSE [conn EXCEPT ![c] = Free]
  /\ UNCHANGED <<pgRows, calls, acked>>

(* The commit; its answer may be lost (a commit that fails is a Rollback). *)
PgCommit(c) ==
  LET t == conn[c].tenant
      entry == [seq |-> conn[c].seq, prev |-> conn[c].prev, call |-> conn[c].call,
                hash |-> PgHash(conn[c].prev, conn[c].call)]
  IN  /\ conn[c].at = "written"
      /\ pgRows' = [pgRows EXCEPT ![t] = @ \cup {entry}]
      /\ acked' \in {acked, acked \cup {<<t, conn[c].call, conn[c].seq>>}}
      /\ conn' = [conn EXCEPT ![c] = Free]
      /\ UNCHANGED calls

(* A statement fails or the process dies: the transaction is dropped. *)
Rollback(c) ==
  /\ conn[c].at # "free"
  /\ conn' = [conn EXCEPT ![c] = Free]
  /\ UNCHANGED <<pgRows, calls, acked>>

PgAppend(c) == PgCall(c) \/ ReadChainTop(c) \/ InsertEntry(c) \/ PgCommit(c)

(* `verify_chain`: the committed chain in order, each entry against the hash *)
(* of the one before it.                                                     *)
PgVerifies(t) ==
  \A e \in pgRows[t] :
    LET before == {o \in pgRows[t] : o.seq < e.seq}
    IN  /\ e.hash = PgHash(e.prev, e.call)
        /\ IF before = {} THEN e.prev = NoHash
           ELSE \E o \in before : e.prev = o.hash /\ \A q \in before : q.seq <= o.seq

(* `recent` and `export`: the entries of the tenant the transaction fixed,  *)
(* each as its body tells it.                                               *)
PgRecent(t, limit) ==
  {e \in pgRows[t] : Cardinality({o \in pgRows[t] : o.seq > e.seq}) < limit}
PgExport(t) == {[seq |-> e.seq, prev |-> e.prev, call |-> e.call, hash |-> e.hash] : e \in pgRows[t]}

PgNext == \E c \in PgConn : PgAppend(c) \/ Rollback(c)

PgSpec == PgInit /\ [][PgNext]_pgVars

-----------------------------------------------------------------------------
(* Properties. *)

(* Whatever processes append at once, retry, fail or die, the entries of a *)
(* tenant are numbered without gap or repetition and each holds the hash   *)
(* of the one before it, and a verification finds so (`verifica_cadeia_rows`; *)
(* "correção igual à do lock, sem estado de sessão"); an append answered   *)
(* Ok is in the chain with the number it was told, and none is there twice. *)
(* An export has every entry, and ends in the newest a reader is shown.     *)
PgChainIsWhole ==
  /\ \A t \in PgTenant :
       /\ PgVerifies(t)
       /\ \A e, o \in pgRows[t] : e.seq = o.seq => e = o
       /\ \A e \in pgRows[t] :
            /\ e.hash = PgHash(e.prev, e.call)
            /\ IF e.seq = 1 THEN e.prev = NoHash
               ELSE \E o \in pgRows[t] : o.seq + 1 = e.seq /\ o.hash = e.prev
       /\ \A e \in PgExport(t) : \A o \in PgRecent(t, 1) : e.seq <= o.seq /\ o \in PgExport(t)
  /\ \A a \in acked : \E e \in pgRows[a[1]] : e.call = a[2] /\ e.seq = a[3]
  /\ \A t, u \in PgTenant : \A e \in pgRows[t], o \in pgRows[u] : e.call = o.call => t = u /\ e = o
=============================================================================
