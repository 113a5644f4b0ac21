----------------------------- MODULE LedgerProofs -----------------------------
(***************************************************************************)
(* Proofs about the ledger, in SQLite and in PostgreSQL, for any           *)
(* connections, tenants, tries and facts.                                  *)
(***************************************************************************)
EXTENDS Ledger, PgLedger, FiniteSetTheorems, TLAPS

Phase == {"closed", "created", "migrating", "open", "wanting", "begun", "read", "verifying"}

(* Whoever is in a transaction holds the write lock, and nobody else.      *)
LockInv ==
  /\ at \in [Conn -> Phase]
  /\ entry \in [Conn -> Body]
  /\ top = [c \in Conn |-> top[c]]
  /\ \A c \in Conn : at[c] \in {"begun", "read"} <=> lock = c

LedgerInv == LockInv /\ TopIsCurrent

LEMMA NoBodyType == NoBody \in Body
  BY LedgerConstants DEF NoBody, Body

(* The locals of an append, forgotten, keep their types. *)
LEMMA ForgetsType ==
  ASSUME LockInv, NEW c \in Conn, Forgets(c)
  PROVE  /\ entry' \in [Conn -> Body]
         /\ top' = [d \in Conn |-> top'[d]]
         /\ \A d \in Conn \ {c} : entry'[d] = entry[d] /\ top'[d] = top[d]
  BY NoBodyType DEF LockInv, Forgets

-----------------------------------------------------------------------------

LEMMA InitLedger == Init => LedgerInv
<1> SUFFICES ASSUME Init PROVE LedgerInv
  OBVIOUS
<1>1. LockInv
  BY NoBodyType, LedgerConstants DEF Init, LockInv, Phase
<1>2. TopIsCurrent
  BY DEF Init, TopIsCurrent
<1> QED
  BY <1>1, <1>2 DEF LedgerInv

(* A step outside the transactions. *)
LEMMA OutsideKeepsInv ==
  ASSUME LedgerInv, NEW c \in Conn, NEW phase \in Phase \ {"begun", "read"}, Goes(c, phase),
         at[c] \notin {"begun", "read"}, entry' \in [Conn -> Body],
         \A d \in Conn \ {c} : entry'[d] = entry[d], UNCHANGED <<rows, lock, top>>
  PROVE  LedgerInv'
<1>1. LockInv'
  BY DEF LedgerInv, LockInv, Goes
<1>2. \A t : TopOf(t)' = TopOf(t)
  BY DEF TopOf, RowsOf
<1>3. TopIsCurrent'
  BY <1>2 DEF LedgerInv, LockInv, TopIsCurrent, Goes
<1> QED
  BY <1>1, <1>3 DEF LedgerInv

LEMMA MigrateKeepsInv ==
  ASSUME LedgerInv, NEW c \in Conn, Migrate(c)
  PROVE  LedgerInv'
<1>1. /\ at[c] = "migrating" /\ lock = NoConn /\ Goes(c, "open")
      /\ UNCHANGED <<lock, entry, top>>
  BY DEF Migrate
<1>2. \A d \in Conn : at[d] \notin {"begun", "read"}
  BY <1>1, LedgerConstants DEF LedgerInv, LockInv
<1>3. at' \in [Conn -> Phase] /\ \A d \in Conn : at'[d] \notin {"begun", "read"}
  BY <1>1, <1>2 DEF LedgerInv, LockInv, Goes, Phase
<1>4. LockInv'
  BY <1>1, <1>3, LedgerConstants DEF LedgerInv, LockInv
<1>5. TopIsCurrent'
  BY <1>3 DEF TopIsCurrent
<1> QED
  BY <1>4, <1>5 DEF LedgerInv

LEMMA BeginKeepsInv ==
  ASSUME LedgerInv, NEW c \in Conn, Begin(c)
  PROVE  LedgerInv'
<1>1. LockInv'
  BY LedgerConstants DEF LedgerInv, LockInv, Begin, Goes, Phase
<1>2. \A t : TopOf(t)' = TopOf(t)
  BY DEF Begin, TopOf, RowsOf
<1>3. TopIsCurrent'
  BY <1>2 DEF LedgerInv, LockInv, TopIsCurrent, Begin, Goes
<1> QED
  BY <1>1, <1>3 DEF LedgerInv

LEMMA ReadTopKeepsInv ==
  ASSUME LedgerInv, NEW c \in Conn, ReadTop(c)
  PROVE  LedgerInv'
<1>1. LockInv'
  BY DEF LedgerInv, LockInv, ReadTop, Goes, Phase
<1>2. \A t : TopOf(t)' = TopOf(t)
  BY DEF ReadTop, TopOf, RowsOf
<1>3. TopIsCurrent'
  BY <1>2 DEF LedgerInv, LockInv, TopIsCurrent, ReadTop, Goes
<1> QED
  BY <1>1, <1>3 DEF LedgerInv

(* Nobody else is in a transaction when one inserts or fails. *)
LEMMA EndKeepsInv ==
  ASSUME LedgerInv, NEW c \in Conn, NEW phase \in {"open", "closed"}, Goes(c, phase),
         at[c] \in {"begun", "read"}, Released(c), Forgets(c)
  PROVE  LedgerInv'
<1>1. lock = c /\ lock' = NoConn
  BY DEF LedgerInv, LockInv, Released
<1>2. \A d \in Conn : at'[d] \notin {"begun", "read"}
  BY <1>1 DEF LedgerInv, LockInv, Goes
<1>3. LockInv'
  BY <1>1, <1>2, ForgetsType, LedgerConstants DEF LedgerInv, LockInv, Goes, Phase
<1>4. TopIsCurrent'
  BY <1>2 DEF TopIsCurrent
<1> QED
  BY <1>3, <1>4 DEF LedgerInv

LEMMA BusyKeepsInv ==
  ASSUME LedgerInv, NEW c \in Conn, Busy(c)
  PROVE  LedgerInv'
<1>1. LockInv'
  BY ForgetsType DEF LedgerInv, LockInv, Busy, Goes, Phase
<1>2. \A t : TopOf(t)' = TopOf(t)
  BY DEF Busy, TopOf, RowsOf
<1>3. TopIsCurrent'
  BY <1>2, ForgetsType DEF LedgerInv, LockInv, TopIsCurrent, Busy, Goes
<1> QED
  BY <1>1, <1>3 DEF LedgerInv

(* A step that touches no append. *)
LEMMA ScanKeepsInv ==
  ASSUME LedgerInv, UNCHANGED <<rows, lock, at, entry, top>>
  PROVE  LedgerInv'
<1>1. \A t : TopOf(t)' = TopOf(t)
  BY DEF TopOf, RowsOf
<1>2. LockInv'
  BY DEF LedgerInv, LockInv
<1>3. TopIsCurrent'
  BY <1>1 DEF LedgerInv, TopIsCurrent
<1> QED
  BY <1>2, <1>3 DEF LedgerInv

LEMMA NextLedger == LedgerInv /\ [Next]_vars => LedgerInv'
<1> SUFFICES ASSUME LedgerInv, [Next]_vars PROVE LedgerInv'
  OBVIOUS
<1> USE DEF LedgerInv, LockInv, Phase
<1>1. ASSUME NEW c \in Conn, Open(c) \/ CheckSchema(c) \/ MigrateFails(c) \/ Close(c)
      PROVE  LedgerInv'
  BY <1>1, OutsideKeepsInv DEF Open, CheckSchema, MigrateFails, Close
<1>2. ASSUME NEW c \in Conn, Want(c) PROVE LedgerInv'
  <2>1. PICK body \in Body : entry' = [entry EXCEPT ![c] = body]
    BY <1>2 DEF Want
  <2> QED
    BY <1>2, <2>1, OutsideKeepsInv DEF Want
<1>3. ASSUME NEW c \in Conn, Verify(c) \/ VerifyEnds(c) PROVE LedgerInv'
  BY <1>3, OutsideKeepsInv DEF Verify, VerifyEnds
<1>4. ASSUME NEW c \in Conn, VerifyTenant(c) PROVE LedgerInv'
  BY <1>4, ScanKeepsInv DEF VerifyTenant
<1>5. ASSUME NEW c \in Conn, Insert(c) \/ Fail(c) PROVE LedgerInv'
  BY <1>5, EndKeepsInv DEF Insert, Fail
<1>6. CASE UNCHANGED vars
  BY <1>6, ScanKeepsInv DEF vars
<1> QED
  BY <1>1, <1>2, <1>3, <1>4, <1>5, <1>6, MigrateKeepsInv, BeginKeepsInv, ReadTopKeepsInv,
     BusyKeepsInv DEF Next

(* An append inserts after the top of its chain as it then is: the read    *)
(* and the write of `append` are one, among any number of connections and  *)
(* of migrations ("o read-modify-write é atômico ENTRE conexões").         *)
THEOREM AppendsAreSerial == Spec => []TopIsCurrent
  BY InitLedger, NextLedger, PTL DEF Spec, LedgerInv

-----------------------------------------------------------------------------
(* The chains.  What is kept is stated of the whole table: the numbers of  *)
(* a tenant's rows are those up to their count, no two rows of a tenant    *)
(* have one number, and a file from before tenants has a row of LOCAL's,   *)
(* which is what stops a late migration that would move another tenant's.  *)

LedgerRow ==
  [tenant : Tenant, seq : Nat \ {0}, prev : Seq(Body), hash : Seq(Body), body : Body]

RowsAreTyped == rows \in SUBSET LedgerRow /\ IsFiniteSet(rows)
NumbersAreOwn == \A r, q \in rows : r.tenant = q.tenant /\ r.seq = q.seq => r = q
OldFilesHaveRows ==
  /\ \A c \in Conn : at[c] \in {"open", "wanting", "begun", "read", "verifying"} => schema = "b3"
  /\ \A c \in Conn : at[c] # "closed" => schema \in {"old", "b3"}
  /\ \A c \in Conn : at[c] = "migrating" => RowsOf(Local) # {}
  /\ schema \in {"none", "old", "b3"}
  /\ schema = "old" => RowsOf(Local) # {}

ChainInv ==
  /\ LedgerInv /\ RowsAreTyped /\ NumbersAreOwn /\ OldFilesHaveRows /\ ChainsAreWhole

(* The rows of a tenant and their numbers. *)
LEMMA ChainNumbers ==
  ASSUME RowsAreTyped, NumbersAreOwn, ChainsAreWhole, NEW t \in Tenant
  PROVE  /\ IsFiniteSet(RowsOf(t)) /\ Cardinality(RowsOf(t)) \in Nat
         /\ \A r \in RowsOf(t) : r \in LedgerRow /\ r.seq \in 1 .. Cardinality(RowsOf(t))
         /\ \A i \in 1 .. Cardinality(RowsOf(t)) : \E r \in RowsOf(t) : r.seq = i
         /\ \A r, q \in RowsOf(t) : r.seq = q.seq => r = q
<1>1. IsFiniteSet(RowsOf(t)) /\ Cardinality(RowsOf(t)) \in Nat
  BY FS_Subset, FS_CardinalityType DEF RowsAreTyped, RowsOf
<1>2. {r.seq : r \in RowsOf(t)} = 1 .. Cardinality(RowsOf(t))
  BY DEF ChainsAreWhole
<1>3. \A r \in RowsOf(t) : r \in LedgerRow
  BY DEF RowsAreTyped, RowsOf
<1>4. \A r, q \in RowsOf(t) : r.seq = q.seq => r = q
  BY DEF NumbersAreOwn, RowsOf
<1> QED
  BY <1>1, <1>2, <1>3, <1>4

(* The hash before a row is that of the row with the greatest number below. *)
LEMMA HashBeforeIs ==
  ASSUME NEW chain, NEW r, NEW q \in Before(r, chain),
         \A p \in chain : p.seq \in Nat,
         \A p, s \in chain : p.seq = s.seq => p = s,
         \A p \in Before(r, chain) : p.seq <= q.seq
  PROVE  HashBefore(r, chain) = q.hash
<1> DEFINE greatest == CHOOSE s \in Before(r, chain) : \A p \in Before(r, chain) : p.seq <= s.seq
<1>1. greatest \in Before(r, chain) /\ \A p \in Before(r, chain) : p.seq <= greatest.seq
  OBVIOUS
<1>2. Before(r, chain) \subseteq chain /\ Before(r, chain) # {}
  BY DEF Before
<1>3. greatest.seq = q.seq
  BY <1>1, <1>2
<1>4. greatest = q
  BY <1>1, <1>2, <1>3
<1> QED
  BY <1>2, <1>4 DEF HashBefore

LEMMA ChainHashTypes ==
  ASSUME NEW prev \in Seq(Body), NEW body \in Body
  PROVE  ChainHash(prev, body) \in Seq(Body) /\ ChainHash(prev, body) # prev
<1>1. Len(ChainHash(prev, body)) = Len(prev) + 1
  BY DEF ChainHash
<1> QED
  BY <1>1 DEF ChainHash

LEMMA ChainHashesDiffer ==
  ASSUME NEW prev \in Seq(Body), NEW body, NEW other, ChainHash(prev, body) = ChainHash(prev, other)
  PROVE  body = other
<1>1. /\ ChainHash(prev, body)[Len(prev) + 1] = body
      /\ ChainHash(prev, other)[Len(prev) + 1] = other
  BY DEF ChainHash
<1> QED
  BY <1>1

-----------------------------------------------------------------------------
(* A file from before tenants. *)

LEMMA OldHashes ==
  ASSUME NEW n \in Nat, NEW i \in 1 .. n
  PROVE  /\ OldHash(n)[i] = [tenant |-> NoTenant, fact |-> CHOOSE f \in Fact : TRUE]
         /\ OldHash(n)[i] \in Body
         /\ OldHash(i - 1) \in Seq(Body) /\ OldHash(i) \in Seq(Body)
         /\ OldHash(i) = ChainHash(OldHash(i - 1), OldHash(n)[i])
<1> DEFINE old == [tenant |-> NoTenant, fact |-> CHOOSE f \in Fact : TRUE]
<1>1. old \in Body
  BY LedgerConstants DEF Body
<1>2. \A k \in Nat : OldHash(k) = [j \in 1 .. k |-> old]
  BY DEF OldHash
<1> HIDE DEF old
<1>3. OldHash(n)[i] = old /\ i \in Nat /\ i - 1 \in Nat
  BY <1>2
<1>4. OldHash(i - 1) \in Seq(Body) /\ OldHash(i) \in Seq(Body)
  BY <1>1, <1>2, <1>3
<1>5. Append([j \in 1 .. i - 1 |-> old], old) = [j \in 1 .. i |-> old]
  BY <1>3
<1> QED
  BY <1>1, <1>2, <1>3, <1>4, <1>5 DEF ChainHash, old

LEMMA OldChain ==
  ASSUME NEW n \in Nat, rows = OldRows(n)
  PROVE  /\ RowsAreTyped /\ NumbersAreOwn /\ ChainsAreWhole
         /\ n > 0 => RowsOf(Local) # {}
<1> DEFINE row(i) == [tenant |-> Local, seq |-> i, prev |-> OldHash(i - 1), hash |-> OldHash(i),
                      body |-> OldHash(n)[i]]
<1>1. rows = {row(i) : i \in 1 .. n}
  BY DEF OldRows
<1>2. \A i \in 1 .. n : /\ row(i) \in LedgerRow
                        /\ row(i).tenant = Local /\ row(i).seq = i
                        /\ row(i).prev = OldHash(i - 1) /\ row(i).hash = OldHash(i)
                        /\ row(i).hash = ChainHash(OldHash(i - 1), row(i).body)
                        /\ row(i).body.tenant = NoTenant
  <2> SUFFICES ASSUME NEW i \in 1 .. n
               PROVE  /\ row(i) \in LedgerRow
                      /\ row(i).hash = ChainHash(OldHash(i - 1), row(i).body)
                      /\ row(i).body.tenant = NoTenant
    OBVIOUS
  <2>1. i \in Nat \ {0}
    OBVIOUS
  <2> QED
    <3>1. row(i).body = OldHash(n)[i] /\ row(i).hash = OldHash(i)
      OBVIOUS
    <3>2. \A p, h \in Seq(Body), b \in Body :
             [tenant |-> Local, seq |-> i, prev |-> p, hash |-> h, body |-> b] \in LedgerRow
      BY <2>1, LedgerConstants DEF LedgerRow
    <3>3. /\ OldHash(n)[i].tenant = NoTenant
          /\ OldHash(n)[i] \in Body
          /\ OldHash(i - 1) \in Seq(Body) /\ OldHash(i) \in Seq(Body)
          /\ OldHash(i) = ChainHash(OldHash(i - 1), OldHash(n)[i])
      <4>1. OldHash(n)[i] = [tenant |-> NoTenant, fact |-> CHOOSE f \in Fact : TRUE]
        BY OldHashes
      <4>2. OldHash(n)[i].tenant = NoTenant
        BY <4>1
      <4> QED
        BY <4>2, OldHashes
    <3>4. row(i) \in LedgerRow
      BY <3>2, <3>3
    <3> HIDE DEF row
    <3> QED
      BY <3>1, <3>3, <3>4
<1> HIDE DEF row
<1>3. IsFiniteSet(rows) /\ Cardinality(rows) = n
  <2> DEFINE f == [i \in 1 .. n |-> row(i)]
  <2>1. f \in Bijection(1 .. n, rows)
    <3>1. f \in [1 .. n -> rows]
      BY <1>1
    <3>2. \A i, j \in 1 .. n : f[i] = f[j] => i = j
      BY <1>2
    <3>3. \A r \in rows : \E i \in 1 .. n : f[i] = r
      BY <1>1
    <3> QED
      BY <3>1, <3>2, <3>3 DEF Bijection, Injection, Surjection, IsInjective
  <2>2. IsFiniteSet(1 .. n) /\ Cardinality(1 .. n) = n
    BY FS_Interval
  <2> QED
    BY <2>1, <2>2, FS_Bijection DEF ExistsBijection
<1>4. RowsAreTyped /\ NumbersAreOwn
  BY <1>1, <1>2, <1>3 DEF RowsAreTyped, NumbersAreOwn
<1>5. RowsOf(Local) = rows /\ \A t \in Tenant \ {Local} : RowsOf(t) = {}
  BY <1>1, <1>2 DEF RowsOf
<1>6. {r.seq : r \in rows} = 1 .. n
  BY <1>1, <1>2
<1>7. ChainVerifies(Local, rows)
  <2> SUFFICES ASSUME NEW i \in 1 .. n
               PROVE  row(i).prev = HashBefore(row(i), rows)
    BY <1>1, <1>2 DEF ChainVerifies
  <2>1. CASE i = 1
    <3>1. Before(row(i), rows) = {}
      BY <1>1, <1>2, <2>1 DEF Before
    <3>2. OldHash(0) = <<>>
      BY DEF OldHash
    <3> QED
      BY <1>2, <2>1, <3>1, <3>2 DEF HashBefore
  <2>2. CASE i # 1
    <3>1. i - 1 \in 1 .. n
      BY <2>2
    <3>2. row(i - 1) \in Before(row(i), rows)
      BY <1>1, <1>2, <3>1 DEF Before
    <3>3. \A p \in Before(row(i), rows) : p.seq <= row(i - 1).seq
      BY <1>1, <1>2, <3>1 DEF Before
    <3>4. \A p \in rows : p.seq \in Nat
      BY <1>1, <1>2
    <3>5. \A p, s \in rows : p.seq = s.seq => p = s
      BY <1>1, <1>2
    <3>6. HashBefore(row(i), rows) = row(i - 1).hash
      BY <3>2, <3>3, <3>4, <3>5, HashBeforeIs
    <3> QED
      BY <1>2, <3>1, <3>6
  <2> QED
    BY <2>1, <2>2
<1>8. ChainsAreWhole
  <2> SUFFICES ASSUME NEW t \in Tenant
               PROVE  /\ {r.seq : r \in RowsOf(t)} = 1 .. Cardinality(RowsOf(t))
                      /\ ChainVerifies(t, RowsOf(t))
    BY DEF ChainsAreWhole
  <2>1. CASE t = Local
    BY <1>3, <1>5, <1>6, <1>7, <2>1
  <2>2. CASE t # Local
    BY <1>5, <2>2, FS_EmptySet DEF ChainVerifies
  <2> QED
    BY <2>1, <2>2
<1>9. n > 0 => RowsOf(Local) # {}
  BY <1>1, <1>5
<1> QED
  BY <1>4, <1>8, <1>9

LEMMA InitChains == 0 \notin OldSizes /\ Init => ChainInv
<1> SUFFICES ASSUME 0 \notin OldSizes, Init PROVE ChainInv
  OBVIOUS
<1>1. \A c \in Conn : at[c] = "closed"
  BY DEF Init
<1>2. CASE schema = "none" /\ rows = {}
  <2>1. \A t : RowsOf(t) = {}
    BY <1>2 DEF RowsOf
  <2>2. RowsAreTyped /\ NumbersAreOwn
    BY <1>2, FS_EmptySet DEF RowsAreTyped, NumbersAreOwn
  <2>3. ChainsAreWhole
    BY <2>1, FS_EmptySet DEF ChainsAreWhole, ChainVerifies
  <2> QED
    BY <1>1, <1>2, <2>2, <2>3, InitLedger DEF ChainInv, OldFilesHaveRows
<1>3. CASE schema = "old" /\ \E n \in OldSizes : rows = OldRows(n)
  <2>1. PICK n \in OldSizes : rows = OldRows(n)
    BY <1>3
  <2>2. n \in Nat /\ n > 0
    BY LedgerConstants
  <2> QED
    BY <1>1, <1>3, <2>1, <2>2, OldChain, InitLedger DEF ChainInv, OldFilesHaveRows
<1> QED
  BY <1>2, <1>3 DEF Init

-----------------------------------------------------------------------------

(* A late migration changes nothing: where another tenant has a row, its   *)
(* first has the number of LOCAL's first.                                  *)
LEMMA MigrateMovesNothing ==
  ASSUME ChainInv, NEW c \in Conn, Migrate(c)
  PROVE  rows' = rows
<1>1. RowsOf(Local) # {} /\ Local \in Tenant
  BY LedgerConstants DEF Migrate, ChainInv, OldFilesHaveRows
<1>2. \A t \in Tenant : RowsOf(t) # {} => \E r \in RowsOf(t) : r.seq = 1
  <2> SUFFICES ASSUME NEW t \in Tenant, NEW q \in RowsOf(t) PROVE \E r \in RowsOf(t) : r.seq = 1
    OBVIOUS
  <2>1. q.seq \in 1 .. Cardinality(RowsOf(t)) /\ Cardinality(RowsOf(t)) \in Nat
    BY ChainNumbers DEF ChainInv
  <2> QED
    BY <2>1, ChainNumbers DEF ChainInv
<1>3. PICK l \in RowsOf(Local) : l.seq = 1
  BY <1>1, <1>2
<1>4. \A r \in rows : r.tenant = Local
  <2> SUFFICES ASSUME NEW r \in rows PROVE r.tenant = Local
    OBVIOUS
  <2>1. r.tenant \in Tenant /\ r \in RowsOf(r.tenant)
    BY DEF ChainInv, RowsAreTyped, LedgerRow, RowsOf
  <2>2. PICK q \in RowsOf(r.tenant) : q.seq = 1
    BY <1>2, <2>1
  <2>3. q = l
    BY <1>3, <2>2 DEF Migrate, SeqsDiffer, RowsOf
  <2> QED
    BY <2>2, <2>3 DEF RowsOf
<1>5. \A r \in rows : [r EXCEPT !.tenant = Local] = r
  BY <1>4 DEF ChainInv, RowsAreTyped, LedgerRow
<1>6. rows' = {[r EXCEPT !.tenant = Local] : r \in rows}
  BY DEF Migrate
<1> QED
  BY <1>5, <1>6

(* The top of a chain carries its count and the hash the next row follows. *)
LEMMA TopOfChain ==
  ASSUME ChainInv, NEW t \in Tenant
  PROVE  /\ TopOf(t).seq = Cardinality(RowsOf(t))
         /\ TopOf(t).hash \in Seq(Body)
<1>1. CASE RowsOf(t) = {}
  BY <1>1, FS_EmptySet DEF TopOf
<1>2. CASE RowsOf(t) # {}
  <2> DEFINE r == CHOOSE r \in RowsOf(t) : \A q \in RowsOf(t) : q.seq <= r.seq
  <2>1. Cardinality(RowsOf(t)) \in 1 .. Cardinality(RowsOf(t))
    BY <1>2, ChainNumbers DEF ChainInv
  <2>2. PICK last \in RowsOf(t) : last.seq = Cardinality(RowsOf(t))
    BY <2>1, ChainNumbers DEF ChainInv
  <2>3. \A q \in RowsOf(t) : q.seq <= last.seq
    BY <2>2, ChainNumbers DEF ChainInv
  <2>4. r \in RowsOf(t) /\ \A q \in RowsOf(t) : q.seq <= r.seq
    BY <2>3
  <2>5. TopOf(t) = [seq |-> r.seq, hash |-> r.hash]
    BY <1>2 DEF TopOf
  <2> HIDE DEF r
  <2>6. r.seq = last.seq /\ r \in LedgerRow
    BY <2>2, <2>4, ChainNumbers DEF ChainInv
  <2> QED
    BY <2>2, <2>5, <2>6 DEF LedgerRow
<1> QED
  BY <1>1, <1>2

(* `ChainsAreWhole` of the rows after a step. *)
LEMMA ChainsWhole ==
  ASSUME \A u \in Tenant : /\ {r.seq : r \in RowsOf(u)'} = 1 .. Cardinality(RowsOf(u)')
                           /\ ChainVerifies(u, RowsOf(u)')
  PROVE  ChainsAreWhole'
  BY DEF ChainsAreWhole, ChainVerifies, HashBefore, Before, ChainHash

(* The hash of a chain's last row. *)
LastHash(chain) ==
  IF chain = {} THEN <<>>
  ELSE (CHOOSE q \in chain : \A p \in chain : p.seq <= q.seq).hash

(* A row put after the last of a chain. *)
LEMMA LongerChain ==
  ASSUME NEW t, NEW chain, NEW new, NEW n \in Nat,
         \A r \in chain : r.seq \in 1 .. n,
         {r.seq : r \in chain} = 1 .. n,
         ChainVerifies(t, chain),
         new.seq = n + 1, new.body.tenant \in {t, NoTenant},
         new.prev = LastHash(chain),
         new.hash = ChainHash(new.prev, new.body)
  PROVE  /\ {r.seq : r \in chain \cup {new}} = 1 .. n + 1
         /\ ChainVerifies(t, chain \cup {new})
<1> DEFINE longer == chain \cup {new}
<1>1. {r.seq : r \in longer} = 1 .. n + 1
  <2>1. {r.seq : r \in longer} = {r.seq : r \in chain} \cup {new.seq}
    OBVIOUS
  <2> HIDE DEF longer
  <2>2. 1 .. n + 1 = (1 .. n) \cup {n + 1}
    OBVIOUS
  <2> QED
    BY <2>1, <2>2
<1>2. ASSUME NEW r \in chain PROVE HashBefore(r, longer) = HashBefore(r, chain)
  <2>1. Before(r, longer) = Before(r, chain)
    BY DEF Before
  <2> HIDE DEF longer
  <2> QED
    BY <2>1 DEF HashBefore
<1>3. HashBefore(new, longer) = new.prev
  <2>1. Before(new, longer) = chain
    BY DEF Before
  <2> HIDE DEF longer
  <2> QED
    BY <2>1 DEF HashBefore, LastHash
<1>4. ASSUME NEW r \in longer
      PROVE  /\ r.body.tenant \in {t, NoTenant}
             /\ r.prev = HashBefore(r, longer)
             /\ r.hash = ChainHash(HashBefore(r, longer), r.body)
  <2>1. CASE r \in chain
    BY <1>2, <2>1 DEF ChainVerifies
  <2>2. CASE r = new
    BY <1>3, <2>2
  <2> QED
    BY <2>1, <2>2
<1> HIDE DEF longer
<1>5. ChainVerifies(t, longer)
  BY <1>4 DEF ChainVerifies
<1> QED
  BY <1>1, <1>5 DEF longer

LEMMA InsertKeepsChains ==
  ASSUME ChainInv, NEW c \in Conn, Insert(c)
  PROVE  RowsAreTyped' /\ NumbersAreOwn' /\ ChainsAreWhole'
<1>1. PICK t \in Tenant : t = ChainOf(entry[c]) /\ entry[c] \in Body /\ entry[c].tenant \in {t, NoTenant}
  BY LedgerConstants DEF ChainInv, LedgerInv, LockInv, ChainOf, Body
<1>2. PICK n \in Nat : n = Cardinality(RowsOf(t)) /\ IsFiniteSet(RowsOf(t))
  BY ChainNumbers DEF ChainInv
<1>3. PICK new : new = RowAfter(TopOf(t), entry[c])
  OBVIOUS
<1>4. rows' = rows \cup {new}
  BY <1>1, <1>3 DEF Insert, ChainInv, LedgerInv, TopIsCurrent
<1>5. TopOf(t).seq = n /\ TopOf(t).hash \in Seq(Body)
  BY <1>2, TopOfChain
<1>6. /\ new \in LedgerRow /\ new.tenant = t /\ new.seq = n + 1 /\ new.prev = TopOf(t).hash
      /\ new.hash = ChainHash(TopOf(t).hash, entry[c]) /\ new.body = entry[c]
  BY <1>1, <1>3, <1>5, ChainHashTypes DEF RowAfter, LedgerRow
<1>7. /\ \A r \in RowsOf(t) : r \in LedgerRow /\ r.seq \in 1 .. n
      /\ {r.seq : r \in RowsOf(t)} = 1 .. n
      /\ ChainVerifies(t, RowsOf(t))
  BY <1>2, ChainNumbers DEF ChainInv, ChainsAreWhole
<1>8. RowsAreTyped'
  BY <1>4, <1>6, FS_AddElement DEF ChainInv, RowsAreTyped
<1>9. NumbersAreOwn'
  <2>1. \A r \in rows : r.tenant = t => r.seq # new.seq
    BY <1>6, <1>7 DEF RowsOf
  <2> QED
    BY <1>4, <1>6, <2>1 DEF ChainInv, NumbersAreOwn
<1>10. RowsOf(t)' = RowsOf(t) \cup {new} /\ \A u \in Tenant \ {t} : RowsOf(u)' = RowsOf(u)
  BY <1>4, <1>6 DEF RowsOf
<1>11. Cardinality(RowsOf(t) \cup {new}) = n + 1
  <2>1. new \notin RowsOf(t)
    BY <1>6, <1>7
  <2> QED
    BY <1>2, <2>1, FS_AddElement
<1>12. new.prev = LastHash(RowsOf(t))
  BY <1>6 DEF TopOf, LastHash
<1>13. /\ {r.seq : r \in RowsOf(t) \cup {new}} = 1 .. n + 1
       /\ ChainVerifies(t, RowsOf(t) \cup {new})
  <2>1. new.body.tenant \in {t, NoTenant} /\ new.hash = ChainHash(new.prev, new.body)
    BY <1>1, <1>6
  <2> QED
    BY <1>6, <1>7, <1>12, <2>1, LongerChain
<1>14. ChainsAreWhole'
  <2>1. ASSUME NEW u \in Tenant
        PROVE  /\ {r.seq : r \in RowsOf(u)'} = 1 .. Cardinality(RowsOf(u)')
               /\ ChainVerifies(u, RowsOf(u)')
    <3>1. CASE u = t
      BY <1>10, <1>11, <1>13, <3>1
    <3>2. CASE u # t
      BY <1>10, <3>2 DEF ChainInv, ChainsAreWhole
    <3> QED
      BY <3>1, <3>2
  <2> QED
    BY <2>1, ChainsWhole
<1> QED
  BY <1>8, <1>9, <1>14

(* A step that leaves the rows as they are keeps the chains. *)
LEMMA SameRowsKeepChains ==
  ASSUME ChainInv, rows' = rows
  PROVE  RowsAreTyped' /\ NumbersAreOwn' /\ ChainsAreWhole'
<1>1. \A t : RowsOf(t)' = RowsOf(t)
  BY DEF RowsOf
<1>2. RowsAreTyped'
  BY DEF ChainInv, RowsAreTyped
<1>3. NumbersAreOwn'
  BY <1>1 DEF ChainInv, NumbersAreOwn
<1>4. ChainsAreWhole'
  <2>1. ASSUME NEW u \in Tenant
        PROVE  /\ {r.seq : r \in RowsOf(u)'} = 1 .. Cardinality(RowsOf(u)')
               /\ ChainVerifies(u, RowsOf(u)')
    BY <1>1 DEF ChainInv, ChainsAreWhole
  <2> QED
    BY <2>1, ChainsWhole
<1> QED
  BY <1>2, <1>3, <1>4

(* The phases of a connection go with the schema. *)
LEMMA NextKeepsSchema ==
  ASSUME ChainInv, [Next]_vars, rows \subseteq rows'
  PROVE  OldFilesHaveRows'
<1>1. RowsOf(Local) # {} => RowsOf(Local)' # {}
  BY DEF RowsOf
<1>2. at \in [Conn -> Phase] /\ OldFilesHaveRows
  BY DEF ChainInv, LedgerInv, LockInv
<1>3. ASSUME NEW c \in Conn, Open(c) PROVE OldFilesHaveRows'
  BY <1>1, <1>2, <1>3 DEF OldFilesHaveRows, Open, Goes
<1>4. ASSUME NEW c \in Conn, CheckSchema(c) PROVE OldFilesHaveRows'
  BY <1>1, <1>2, <1>4 DEF OldFilesHaveRows, CheckSchema, Goes
<1>5. ASSUME NEW c \in Conn, Migrate(c) PROVE OldFilesHaveRows'
  BY <1>1, <1>2, <1>5 DEF OldFilesHaveRows, Migrate, Goes
<1>6. ASSUME NEW c \in Conn,
             MigrateFails(c) \/ Close(c) \/ Want(c) \/ Begin(c) \/ Busy(c) \/ ReadTop(c)
             \/ Insert(c) \/ Fail(c) \/ Verify(c) \/ VerifyEnds(c)
      PROVE  OldFilesHaveRows'
  BY <1>1, <1>2, <1>6 DEF OldFilesHaveRows, MigrateFails, Close, Want, Begin, Busy, ReadTop,
     Insert, Fail, Verify, VerifyEnds, Goes
<1>7. ASSUME NEW c \in Conn, VerifyTenant(c) PROVE OldFilesHaveRows'
  BY <1>1, <1>2, <1>7 DEF OldFilesHaveRows, VerifyTenant
<1>8. CASE UNCHANGED vars
  BY <1>1, <1>2, <1>8 DEF OldFilesHaveRows, vars
<1> QED
  BY <1>3, <1>4, <1>5, <1>6, <1>7, <1>8 DEF Next

LEMMA NextKeepsRows ==
  ASSUME ChainInv, [Next]_vars
  PROVE  rows \subseteq rows' /\ (rows' = rows \/ \E c \in Conn : Insert(c))
<1>1. ASSUME NEW c \in Conn, Migrate(c) PROVE rows' = rows
  BY <1>1, MigrateMovesNothing
<1>2. ASSUME NEW c \in Conn, Insert(c) PROVE rows \subseteq rows'
  BY <1>2 DEF Insert
<1> QED
  BY <1>1, <1>2 DEF Next, vars, Open, CheckSchema, MigrateFails, Close, Want, Begin, Busy, ReadTop,
     Fail, Verify, VerifyTenant, VerifyEnds

LEMMA NextChains == ChainInv /\ [Next]_vars => ChainInv'
<1> SUFFICES ASSUME ChainInv, [Next]_vars PROVE ChainInv'
  OBVIOUS
<1>1. LedgerInv'
  BY NextLedger DEF ChainInv
<1>2. OldFilesHaveRows'
  BY NextKeepsRows, NextKeepsSchema
<1>3. RowsAreTyped' /\ NumbersAreOwn' /\ ChainsAreWhole'
  BY NextKeepsRows, SameRowsKeepChains, InsertKeepsChains
<1> QED
  BY <1>1, <1>2, <1>3 DEF ChainInv

(* Every tenant's chain is whole, whatever processes append, fail and      *)
(* migrate at once, unless the file is one from before tenants that never  *)
(* held an entry: there a late migration moves another tenant's rows.      *)
THEOREM ChainsStayWhole ==
  ASSUME 0 \notin OldSizes
  PROVE  Spec => []ChainsAreWhole
<1>1. Init => ChainInv
  BY InitChains
<1> QED
  BY <1>1, NextChains, PTL DEF Spec, ChainInv

(* No row is ever changed or removed, by the migration neither, of such    *)
(* files.                                                                  *)
THEOREM RowsAreKept ==
  ASSUME 0 \notin OldSizes
  PROVE  Spec => HistoryIsKept
<1>1. Init => ChainInv
  BY InitChains
<1>2. ChainInv /\ [Next]_vars => [rows \subseteq rows']_rows
  BY NextKeepsRows
<1> QED
  BY <1>1, <1>2, NextChains, PTL DEF Spec, HistoryIsKept
-----------------------------------------------------------------------------
(* What a verification counts.  Until it ends, what it has counted and     *)
(* what is still due are together no less than what there was when it      *)
(* began, and what it has counted is no more than the other tenants' rows. *)

RowsIn(tenants) == {r \in rows : r.tenant \in tenants}
RowsOutside(tenants) == {r \in rows : r.tenant \notin tenants}

Counted(found, table) ==
  /\ found.ok
  /\ found.since <= found.total + Cardinality({r \in table : r.tenant \in found.due})
  /\ found.total <= Cardinality({r \in table : r.tenant \notin found.due})

ScanInv == \A c \in Conn : at[c] = "verifying" => Counted(scan[c], rows)

ScanTypes ==
  scan \in [Conn -> [due : SUBSET Tenant, total : Nat, since : Nat, ok : BOOLEAN]]

LEMMA ScanStays ==
  ASSUME ScanTypes, ScanInv, rows \subseteq rows', IsFiniteSet(rows'),
         NEW c \in Conn, at[c] = "verifying", scan'[c] = scan[c]
  PROVE  Counted(scan'[c], rows')
<1> DEFINE in == {r \in rows' : r.tenant \in scan[c].due}
           out == {r \in rows' : r.tenant \notin scan[c].due}
<1>1. IsFiniteSet(in) /\ IsFiniteSet(out)
  BY FS_Subset
<1>2. RowsIn(scan[c].due) \subseteq in /\ RowsOutside(scan[c].due) \subseteq out
  BY DEF RowsIn, RowsOutside
<1>3. /\ Cardinality(RowsIn(scan[c].due)) <= Cardinality(in)
      /\ Cardinality(RowsOutside(scan[c].due)) <= Cardinality(out)
      /\ Cardinality(in) \in Nat /\ Cardinality(out) \in Nat
      /\ IsFiniteSet(RowsIn(scan[c].due)) /\ IsFiniteSet(RowsOutside(scan[c].due))
  BY <1>1, <1>2, FS_Subset, FS_CardinalityType
<1>4. /\ Cardinality(RowsIn(scan[c].due)) \in Nat
      /\ Cardinality(RowsOutside(scan[c].due)) \in Nat
  BY <1>3, FS_CardinalityType
<1> HIDE DEF in, out
<1>5. /\ scan[c].ok /\ scan[c].total \in Nat /\ scan[c].since \in Nat
      /\ scan[c].since <= scan[c].total + Cardinality(RowsIn(scan[c].due))
      /\ scan[c].total <= Cardinality(RowsOutside(scan[c].due))
  BY DEF ScanInv, Counted, ScanTypes, RowsIn, RowsOutside
<1>6. /\ scan[c].since <= scan[c].total + Cardinality(in)
      /\ scan[c].total <= Cardinality(out)
  BY <1>3, <1>4, <1>5
<1> QED
  BY <1>5, <1>6 DEF in, out, Counted

(* A tenant verified goes from what is due to what is counted. *)
LEMMA ScanMoves ==
  ASSUME ChainInv, ScanTypes, ScanInv, NEW c \in Conn, at[c] = "verifying", NEW t \in scan[c].due
  PROVE  LET due == scan[c].due \ {t}
             total == scan[c].total + Cardinality(RowsOf(t))
         IN  /\ scan[c].ok /\ ChainVerifies(t, RowsOf(t))
             /\ due \subseteq Tenant
             /\ total \in Nat /\ scan[c].since \in Nat
             /\ scan[c].since <= total + Cardinality(RowsIn(due))
             /\ total <= Cardinality(RowsOutside(due))
<1> DEFINE due == scan[c].due \ {t}
<1>1. /\ scan[c].ok /\ scan[c].due \subseteq Tenant /\ t \in Tenant
      /\ scan[c].total \in Nat /\ scan[c].since \in Nat
      /\ scan[c].since <= scan[c].total + Cardinality(RowsIn(scan[c].due))
      /\ scan[c].total <= Cardinality(RowsOutside(scan[c].due))
  BY DEF ScanInv, Counted, ScanTypes, RowsIn, RowsOutside
<1>2. IsFiniteSet(rows)
  BY DEF ChainInv, RowsAreTyped
<1>3. /\ IsFiniteSet(RowsOf(t)) /\ IsFiniteSet(RowsIn(due))
      /\ IsFiniteSet(RowsOutside(scan[c].due))
  BY <1>2, FS_Subset DEF RowsOf, RowsIn, RowsOutside
<1>4. /\ RowsIn(scan[c].due) = RowsIn(due) \cup RowsOf(t)
      /\ RowsIn(due) \cap RowsOf(t) = {}
      /\ RowsOutside(due) = RowsOutside(scan[c].due) \cup RowsOf(t)
      /\ RowsOutside(scan[c].due) \cap RowsOf(t) = {}
  BY DEF RowsOf, RowsIn, RowsOutside
<1> HIDE DEF due
<1>5. /\ Cardinality(RowsIn(due) \cap RowsOf(t)) = 0
      /\ Cardinality(RowsOutside(scan[c].due) \cap RowsOf(t)) = 0
  BY <1>4, FS_EmptySet
<1>6. /\ Cardinality(RowsOf(t)) \in Nat /\ Cardinality(RowsIn(due)) \in Nat
      /\ Cardinality(RowsOutside(scan[c].due)) \in Nat
  BY <1>3, FS_CardinalityType
<1>7. Cardinality(RowsIn(scan[c].due)) = Cardinality(RowsIn(due)) + Cardinality(RowsOf(t))
  <2>1. Cardinality(RowsIn(due) \cup RowsOf(t)) =
          Cardinality(RowsIn(due)) + Cardinality(RowsOf(t)) - Cardinality(RowsIn(due) \cap RowsOf(t))
    BY <1>3, FS_Union
  <2> QED
    BY <1>4, <1>5, <1>6, <2>1
<1>8. Cardinality(RowsOutside(due)) = Cardinality(RowsOutside(scan[c].due)) + Cardinality(RowsOf(t))
  <2> DEFINE out == RowsOutside(scan[c].due)
  <2>1. Cardinality(out \cup RowsOf(t)) =
          Cardinality(out) + Cardinality(RowsOf(t)) - Cardinality(out \cap RowsOf(t))
    BY <1>3, FS_Union
  <2> QED
    BY <1>4, <1>5, <1>6, <2>1
<1>9. ChainVerifies(t, RowsOf(t))
  BY <1>1 DEF ChainInv, ChainsAreWhole
<1>10. due \subseteq Tenant
  BY <1>1 DEF due
<1>11. /\ scan[c].total + Cardinality(RowsOf(t)) \in Nat
       /\ scan[c].since <= (scan[c].total + Cardinality(RowsOf(t))) + Cardinality(RowsIn(due))
       /\ scan[c].total + Cardinality(RowsOf(t)) <= Cardinality(RowsOutside(due))
  BY <1>1, <1>6, <1>7, <1>8
<1> QED
  BY <1>1, <1>9, <1>10, <1>11 DEF due

LEMMA InitScan == Init => ScanTypes /\ ScanInv
  BY DEF Init, ScanTypes, ScanInv, NoScan

LEMMA NextScan ==
  ASSUME ChainInv, ScanTypes, ScanInv, [Next]_vars
  PROVE  ScanTypes' /\ ScanInv'
<1>1. rows \subseteq rows' /\ IsFiniteSet(rows')
  <2>1. ChainInv'
    BY NextChains
  <2> QED
    BY <2>1, NextKeepsRows DEF ChainInv, RowsAreTyped
<1>2. at \in [Conn -> Phase]
  BY DEF ChainInv, LedgerInv, LockInv
<1>3. ASSUME NEW c \in Conn,
             Open(c) \/ CheckSchema(c) \/ Migrate(c) \/ MigrateFails(c) \/ Close(c) \/ Want(c)
             \/ Begin(c) \/ Busy(c) \/ ReadTop(c) \/ Insert(c) \/ Fail(c)
      PROVE  ScanTypes' /\ ScanInv'
  <2>1. scan' = scan /\ \A d \in Conn : at'[d] = "verifying" => at[d] = "verifying"
    BY <1>2, <1>3 DEF Open, CheckSchema, Migrate, MigrateFails, Close, Want, Begin, Busy, ReadTop,
       Insert, Fail, Goes
  <2>2. \A d \in Conn : at'[d] = "verifying" => at[d] = "verifying" /\ scan'[d] = scan[d]
    BY <2>1
  <2>3. ScanInv'
    BY <1>1, <2>2, ScanStays DEF ScanInv
  <2> QED
    BY <2>1, <2>3 DEF ScanTypes
<1>4. ASSUME NEW c \in Conn, Verify(c) PROVE ScanTypes' /\ ScanInv'
  <2>1. /\ scan' = [scan EXCEPT ![c] = [due |-> {r.tenant : r \in rows}, total |-> 0,
                                       since |-> Cardinality(rows), ok |-> TRUE]]
        /\ rows' = rows
        /\ \A d \in Conn \ {c} : at'[d] = at[d]
    BY <1>2, <1>4 DEF Verify, Goes
  <2>2. PICK due : due = {r.tenant : r \in rows}
    OBVIOUS
  <2>3. RowsIn(due) = rows /\ RowsOutside(due) = {} /\ due \subseteq Tenant
    BY <2>2 DEF RowsIn, RowsOutside, ChainInv, RowsAreTyped, LedgerRow
  <2>4. PICK n \in Nat : n = Cardinality(rows) /\ Cardinality(RowsOutside(due)) = 0
    BY <2>3, FS_CardinalityType, FS_EmptySet DEF ChainInv, RowsAreTyped
  <2>5. scan' = [scan EXCEPT ![c] = [due |-> due, total |-> 0, since |-> n, ok |-> TRUE]]
    BY <2>1, <2>2, <2>4
  <2>6. /\ ScanTypes'
        /\ scan'[c].due = due /\ scan'[c].total = 0 /\ scan'[c].since = n /\ scan'[c].ok
        /\ \A d \in Conn \ {c} : scan'[d] = scan[d]
    BY <2>3, <2>5 DEF ScanTypes
  <2>7. ASSUME NEW d \in Conn, at'[d] = "verifying"
        PROVE  Counted(scan'[d], rows')
    <3>1. CASE d = c
      <4>1. /\ {r \in rows' : r.tenant \in scan'[d].due} = rows
            /\ {r \in rows' : r.tenant \notin scan'[d].due} = RowsOutside(due)
        BY <2>1, <2>3, <2>6, <3>1 DEF RowsIn, RowsOutside
      <4>2. scan'[d].ok
        BY <2>6, <3>1
      <4>3. /\ scan'[d].since <= scan'[d].total + Cardinality(rows)
            /\ scan'[d].total <= Cardinality(RowsOutside(due))
        BY <2>4, <2>6, <3>1
      <4> QED
        BY <4>1, <4>2, <4>3 DEF Counted
    <3>2. CASE d # c
      BY <1>1, <2>1, <2>6, <2>7, <3>2, ScanStays
    <3> QED
      BY <3>1, <3>2
  <2> QED
    BY <2>6, <2>7 DEF ScanInv
<1>5. ASSUME NEW c \in Conn, VerifyTenant(c) PROVE ScanTypes' /\ ScanInv'
  <2>1. PICK t \in scan[c].due :
          scan' = [scan EXCEPT ![c].due = @ \ {t},
                               ![c].total = @ + Cardinality(RowsOf(t)),
                               ![c].ok = @ /\ ChainVerifies(t, RowsOf(t))]
    BY <1>5 DEF VerifyTenant
  <2>2. at[c] = "verifying" /\ rows' = rows /\ at' = at
    BY <1>5 DEF VerifyTenant
  <2>3. PICK total : total = scan[c].total + Cardinality(RowsOf(t))
    OBVIOUS
  <2>4. /\ scan[c].ok /\ ChainVerifies(t, RowsOf(t))
        /\ scan[c].due \ {t} \subseteq Tenant
        /\ total \in Nat /\ scan[c].since \in Nat
        /\ scan[c].since <= total + Cardinality(RowsIn(scan[c].due \ {t}))
        /\ total <= Cardinality(RowsOutside(scan[c].due \ {t}))
    BY <2>2, <2>3, ScanMoves
  <2>5. /\ ScanTypes'
        /\ scan'[c].due = scan[c].due \ {t} /\ scan'[c].total = total
        /\ scan'[c].since = scan[c].since /\ scan'[c].ok
        /\ \A d \in Conn \ {c} : scan'[d] = scan[d]
    BY <2>1, <2>3, <2>4 DEF ScanTypes
  <2>6. ASSUME NEW d \in Conn, at'[d] = "verifying" PROVE Counted(scan'[d], rows')
    <3>1. CASE d = c
      BY <2>2, <2>4, <2>5, <3>1 DEF Counted, RowsIn, RowsOutside
    <3>2. CASE d # c
      BY <1>1, <2>2, <2>5, <2>6, <3>2, ScanStays
    <3> QED
      BY <3>1, <3>2
  <2> QED
    BY <2>5, <2>6 DEF ScanInv
<1>6. ASSUME NEW c \in Conn, VerifyEnds(c) PROVE ScanTypes' /\ ScanInv'
  <2>1. /\ scan' = [scan EXCEPT ![c] = NoScan]
        /\ \A d \in Conn : at'[d] = "verifying" => d # c /\ at[d] = "verifying"
    BY <1>2, <1>6 DEF VerifyEnds, Goes
  <2>2. ScanTypes' /\ \A d \in Conn : at'[d] = "verifying" => at[d] = "verifying" /\ scan'[d] = scan[d]
    BY <2>1 DEF ScanTypes, NoScan
  <2> QED
    BY <1>1, <2>2, ScanStays DEF ScanInv
<1>7. CASE UNCHANGED vars
  BY <1>1, <1>7, ScanStays DEF ScanTypes, ScanInv, vars
<1> QED
  BY <1>3, <1>4, <1>5, <1>6, <1>7 DEF Next

(* Each finished verification tells no fault, and a count between what     *)
(* there was when it began and what there is now.                          *)
LEMMA ScansAreExact ==
  ASSUME ChainInv, ScanTypes, ScanInv, NEW c \in Conn, at[c] = "verifying"
  PROVE  /\ scan[c].ok
         /\ scan[c].due = {} => scan[c].since <= scan[c].total /\ scan[c].total <= Cardinality(rows)
<1>1. Counted(scan[c], rows) /\ scan[c].total \in Nat /\ scan[c].since \in Nat
  BY DEF ScanInv, ScanTypes
<1>2. ASSUME scan[c].due = {}
      PROVE  /\ Cardinality({r \in rows : r.tenant \in scan[c].due}) = 0
             /\ {r \in rows : r.tenant \notin scan[c].due} = rows
  <2>1. {r \in rows : r.tenant \in scan[c].due} = {}
    BY <1>2
  <2> QED
    BY <1>2, <2>1, FS_EmptySet
<1> QED
  BY <1>1, <1>2 DEF Counted

-----------------------------------------------------------------------------
(* What a verification finds.  A row's hash commits to its body and to the *)
(* row before, so a body changed, a row taken out or a row of another      *)
(* tenant breaks the equation of one row.                                  *)

LEMMA RowsVerify ==
  ASSUME ChainInv, NEW r \in rows
  PROVE  /\ r.tenant \in Tenant /\ r \in RowsOf(r.tenant) /\ r \in LedgerRow
         /\ r.body.tenant \in {r.tenant, NoTenant}
         /\ r.prev = HashBefore(r, RowsOf(r.tenant)) /\ r.prev \in Seq(Body)
         /\ r.hash = ChainHash(r.prev, r.body)
<1>1. r \in LedgerRow /\ r.tenant \in Tenant /\ r.prev \in Seq(Body)
  BY DEF ChainInv, RowsAreTyped, LedgerRow
<1>2. r \in RowsOf(r.tenant)
  BY DEF RowsOf
<1>3. ChainVerifies(r.tenant, RowsOf(r.tenant))
  BY <1>1 DEF ChainInv, ChainsAreWhole
<1> QED
  BY <1>1, <1>2, <1>3 DEF ChainVerifies

LEMMA RewrittenIsFound ==
  ASSUME ChainInv, NEW r \in rows, NEW body \in Body \ {r.body}
  PROVE  ~ChainVerifies(r.tenant, (RowsOf(r.tenant) \ {r}) \cup {[r EXCEPT !.body = body]})
<1> DEFINE chain == RowsOf(r.tenant)
           other == [r EXCEPT !.body = body]
           forged == (chain \ {r}) \cup {other}
<1> SUFFICES ASSUME ChainVerifies(r.tenant, forged) PROVE FALSE
  OBVIOUS
<1>1. r \in LedgerRow
  BY RowsVerify
<1>2. other.seq = r.seq /\ other.hash = r.hash /\ other.body = body /\ r.seq \in Nat
  BY <1>1 DEF LedgerRow
<1> HIDE DEF other
<1>3. Before(other, forged) = Before(r, chain)
  <2>1. \A p : p \in forged /\ p.seq < other.seq <=> p \in chain /\ p.seq < r.seq
    BY <1>2
  <2> HIDE DEF forged, chain
  <2> QED
    BY <2>1 DEF Before
<1>4. other \in forged
  OBVIOUS
<1> HIDE DEF forged
<1>5. HashBefore(other, forged) = HashBefore(r, chain)
  BY <1>3 DEF HashBefore
<1>6. r.hash = ChainHash(r.prev, body)
  BY <1>2, <1>4, <1>5, RowsVerify DEF ChainVerifies
<1>7. r.prev \in Seq(Body) /\ r.hash = ChainHash(r.prev, r.body)
  BY RowsVerify
<1>8. body = r.body
  BY <1>6, <1>7, ChainHashesDiffer
<1> QED
  BY <1>8

LEMMA RemovedIsFound ==
  ASSUME ChainInv, NEW r \in rows, r.seq < Cardinality(RowsOf(r.tenant))
  PROVE  ~ChainVerifies(r.tenant, RowsOf(r.tenant) \ {r})
<1> DEFINE chain == RowsOf(r.tenant)
           rest == chain \ {r}
<1> SUFFICES ASSUME ChainVerifies(r.tenant, rest) PROVE FALSE
  OBVIOUS
<1>1. /\ r.tenant \in Tenant /\ r \in chain
      /\ r.prev = HashBefore(r, chain) /\ r.prev \in Seq(Body)
      /\ r.hash = ChainHash(r.prev, r.body) /\ r.body \in Body
  BY RowsVerify DEF LedgerRow
<1>2. /\ \A q \in chain : q \in rows /\ q.tenant = r.tenant /\ q.seq \in Nat \ {0}
      /\ \A p, q \in chain : p.seq = q.seq => p = q
      /\ Cardinality(chain) \in Nat
      /\ \A i \in 1 .. Cardinality(chain) : \E q \in chain : q.seq = i
  <2>1. RowsAreTyped /\ NumbersAreOwn /\ ChainsAreWhole
    BY DEF ChainInv
  <2>2. /\ \A q \in chain : q \in LedgerRow
        /\ \A p, q \in chain : p.seq = q.seq => p = q
        /\ Cardinality(chain) \in Nat
        /\ \A i \in 1 .. Cardinality(chain) : \E q \in chain : q.seq = i
    BY <1>1, <2>1, ChainNumbers
  <2>3. \A q \in chain : q \in rows /\ q.tenant = r.tenant
    BY DEF RowsOf
  <2>4. \A q \in LedgerRow : q.seq \in Nat \ {0}
    BY DEF LedgerRow
  <2> HIDE DEF chain
  <2> QED
    BY <2>2, <2>3, <2>4
<1> HIDE DEF chain
<1>3. PICK q \in chain : q.seq = r.seq + 1
  BY <1>1, <1>2 DEF chain
<1>4. q # r /\ q \in rest
  BY <1>1, <1>2, <1>3
<1>5. HashBefore(q, chain) = r.hash
  <2>1. r \in Before(q, chain) /\ \A p \in Before(q, chain) : p.seq <= r.seq
    BY <1>1, <1>2, <1>3 DEF Before
  <2> QED
    BY <1>2, <2>1, HashBeforeIs
<1>6. q.prev = r.hash
  BY <1>2, <1>3, <1>5, RowsVerify DEF chain
<1>7. HashBefore(q, rest) = HashBefore(r, chain)
  <2>1. Before(q, rest) = Before(r, chain)
    <3>1. \A p \in chain : (p.seq < q.seq /\ p # r) <=> p.seq < r.seq
      BY <1>1, <1>2, <1>3
    <3> QED
      BY <3>1 DEF Before
  <2> HIDE DEF rest
  <2> QED
    BY <2>1 DEF HashBefore
<1>8. q.prev = r.prev
  BY <1>1, <1>4, <1>7 DEF ChainVerifies
<1> QED
  BY <1>1, <1>6, <1>8, ChainHashTypes

LEMMA MovedIsFound ==
  ASSUME ChainInv, NEW r \in rows, r.body.tenant # NoTenant, NEW t \in Tenant \ {r.tenant}, NEW n
  PROVE  ~ChainVerifies(t, RowsOf(t) \cup {[r EXCEPT !.tenant = t, !.seq = n]})
<1>1. r.body.tenant = r.tenant /\ r \in LedgerRow
  BY RowsVerify
<1>2. [r EXCEPT !.tenant = t, !.seq = n].body = r.body
  BY <1>1 DEF LedgerRow
<1> QED
  BY <1>1, <1>2 DEF ChainVerifies

-----------------------------------------------------------------------------
(* What is read of a chain. *)

(* Below a row are the rows of the numbers below. *)
LEMMA BeforeCount ==
  ASSUME ChainInv, NEW t \in Tenant, NEW r \in RowsOf(t)
  PROVE  Cardinality(Before(r, RowsOf(t))) = r.seq - 1
<1> DEFINE chain == RowsOf(t)
           below == Before(r, chain)
<1>1. PICK n \in Nat : n = Cardinality(chain)
  BY ChainNumbers DEF ChainInv
<1>2. /\ \A q \in chain : q.seq \in 1 .. n
      /\ \A p, q \in chain : p.seq = q.seq => p = q
      /\ \A i \in 1 .. n : \E q \in chain : q.seq = i
  BY <1>1, ChainNumbers DEF ChainInv
<1> HIDE DEF chain
<1>3. r \in chain
  BY DEF chain
<1>4. r.seq - 1 \in Nat
  BY <1>2, <1>3
<1> DEFINE f == [q \in below |-> q.seq]
<1>5. f \in Bijection(below, 1 .. r.seq - 1)
  <2>1. \A q \in below : q \in chain /\ q.seq \in 1 .. r.seq - 1
    BY <1>2, <1>3 DEF Before
  <2>2. \A i \in 1 .. r.seq - 1 : \E q \in below : q.seq = i
    BY <1>2, <1>3 DEF Before
  <2> HIDE DEF below
  <2>3. f \in [below -> 1 .. r.seq - 1]
    BY <2>1
  <2>4. \A p, q \in below : f[p] = f[q] => p = q
    BY <1>2, <2>1
  <2>5. \A i \in 1 .. r.seq - 1 : \E q \in below : f[q] = i
    BY <2>2
  <2> QED
    BY <2>3, <2>4, <2>5 DEF Bijection, Injection, Surjection, IsInjective
<1>6. IsFiniteSet(1 .. r.seq - 1) /\ Cardinality(1 .. r.seq - 1) = r.seq - 1
  <2>1. PICK m \in Nat : m = r.seq - 1
    BY <1>4
  <2>2. IsFiniteSet(1 .. m) /\ Cardinality(1 .. m) = m
    BY FS_Interval
  <2> QED
    BY <2>1, <2>2
<1>7. IsFiniteSet(below)
  <2>1. IsFiniteSet(chain) /\ below \subseteq chain
    BY ChainNumbers DEF ChainInv, chain, Before
  <2> QED
    BY <2>1, FS_Subset
<1> HIDE DEF f
<1>8. ExistsBijection(below, 1 .. r.seq - 1)
  BY <1>5 DEF ExistsBijection
<1> QED
  BY <1>6, <1>7, <1>8, FS_Bijection DEF chain

(* The i-th entry of an export is that of number i. *)
LEMMA ExportIsChain ==
  ASSUME ChainInv, NEW t \in Tenant
  PROVE  /\ ExportChain(t) = [i \in 1 .. Cardinality(RowsOf(t)) |-> ExportChain(t)[i]]
         /\ \A r \in RowsOf(t) : r.seq \in DOMAIN ExportChain(t) /\ ExportChain(t)[r.seq] = AsRead(r)
         /\ \A i \in DOMAIN ExportChain(t) :
              \E r \in RowsOf(t) : r.seq = i /\ ExportChain(t)[i] = AsRead(r)
<1>1. PICK n \in Nat : n = Cardinality(RowsOf(t))
  BY ChainNumbers DEF ChainInv
<1>2. /\ \A r \in RowsOf(t) : r.seq \in 1 .. n
      /\ \A i \in 1 .. n : \E r \in RowsOf(t) : r.seq = i
      /\ \A r, q \in RowsOf(t) : r.seq = q.seq => r = q
  BY <1>1, ChainNumbers DEF ChainInv
<1> DEFINE chosen(i) == CHOOSE r \in RowsOf(t) : Cardinality(Before(r, RowsOf(t))) = i - 1
<1>3. ExportChain(t) = [i \in 1 .. n |-> AsRead(chosen(i))]
  BY <1>1 DEF ExportChain
<1>4. ASSUME NEW r \in RowsOf(t) PROVE chosen(r.seq) = r
  <2>1. \A q \in RowsOf(t) : Cardinality(Before(q, RowsOf(t))) = q.seq - 1
    BY BeforeCount
  <2>2. /\ chosen(r.seq) \in RowsOf(t)
        /\ Cardinality(Before(chosen(r.seq), RowsOf(t))) = r.seq - 1
    BY <2>1
  <2> HIDE DEF chosen
  <2>3. chosen(r.seq).seq - 1 = r.seq - 1
    BY <2>1, <2>2
  <2> QED
    BY <1>2, <2>2, <2>3
<1> HIDE DEF chosen
<1>5. DOMAIN ExportChain(t) = 1 .. n /\ \A i \in 1 .. n : ExportChain(t)[i] = AsRead(chosen(i))
  BY <1>3
<1>6. \A r \in RowsOf(t) : r.seq \in DOMAIN ExportChain(t) /\ ExportChain(t)[r.seq] = AsRead(r)
  BY <1>2, <1>4, <1>5
<1> QED
  BY <1>1, <1>2, <1>3, <1>5, <1>6

LEMMA ExportVerifies ==
  ASSUME ChainInv, NEW t \in Tenant, NEW i \in DOMAIN ExportChain(t)
  PROVE  LET out == ExportChain(t)
         IN  /\ out[i].seq = i
             /\ out[i].prev = IF i = 1 THEN <<>> ELSE out[i - 1].hash
             /\ out[i].hash = ChainHash(out[i].prev, out[i].body)
<1>1. PICK r \in RowsOf(t) : r.seq = i /\ ExportChain(t)[i] = AsRead(r)
  BY ExportIsChain
<1>2. /\ r \in rows /\ r.tenant = t
      /\ r.prev = HashBefore(r, RowsOf(t))
      /\ r.hash = ChainHash(r.prev, r.body)
  <2>1. r \in rows /\ r.tenant = t
    BY DEF RowsOf
  <2> QED
    BY <2>1, RowsVerify
<1>3. /\ ExportChain(t)[i].seq = i /\ ExportChain(t)[i].prev = r.prev
      /\ ExportChain(t)[i].hash = r.hash /\ ExportChain(t)[i].body = r.body
  BY <1>1 DEF AsRead
<1>4. PICK n \in Nat : n = Cardinality(RowsOf(t))
  BY ChainNumbers DEF ChainInv
<1>5. /\ \A q \in RowsOf(t) : q.seq \in 1 .. n
      /\ \A k \in 1 .. n : \E q \in RowsOf(t) : q.seq = k
      /\ \A p, q \in RowsOf(t) : p.seq = q.seq => p = q
  BY <1>4, ChainNumbers DEF ChainInv
<1>6. CASE i = 1
  <2>1. Before(r, RowsOf(t)) = {}
    BY <1>1, <1>5, <1>6 DEF Before
  <2> QED
    BY <1>2, <1>3, <1>6, <2>1 DEF HashBefore
<1>7. CASE i # 1
  <2>1. PICK q \in RowsOf(t) : q.seq = i - 1
    BY <1>1, <1>5, <1>7
  <2>2. q \in Before(r, RowsOf(t)) /\ \A p \in Before(r, RowsOf(t)) : p.seq <= q.seq
    BY <1>1, <1>5, <2>1 DEF Before
  <2>3. \A p \in RowsOf(t) : p.seq \in Nat
    BY <1>5
  <2>4. HashBefore(r, RowsOf(t)) = q.hash
    BY <1>5, <2>2, <2>3, HashBeforeIs
  <2>5. ExportChain(t)[i - 1].hash = q.hash
    <3>1. ExportChain(t)[q.seq] = AsRead(q)
      BY ExportIsChain
    <3> QED
      BY <2>1, <3>1 DEF AsRead
  <2> QED
    BY <1>2, <1>3, <1>7, <2>4, <2>5
<1> QED
  BY <1>6, <1>7

LEMMA RecentIsExported ==
  ASSUME ChainInv, NEW t \in Tenant, NEW n, NEW wanted
  PROVE  RecentInChain(t, n, wanted) \subseteq {ExportChain(t)[i] : i \in DOMAIN ExportChain(t)}
  BY ExportIsChain DEF RecentInChain

LEMMA NewestIsLast ==
  ASSUME ChainInv, NEW t \in Tenant
  PROVE  LET out == ExportChain(t)
         IN  RecentInChain(t, 1, Fact) = {out[i] : i \in DOMAIN out \cap {Len(out)}}
<1> DEFINE out == ExportChain(t)
<1>1. PICK n \in Nat : n = Cardinality(RowsOf(t)) /\ IsFiniteSet(RowsOf(t))
  BY ChainNumbers DEF ChainInv
<1>2. /\ \A q \in RowsOf(t) : q.seq \in 1 .. n /\ q \in LedgerRow
      /\ \A k \in 1 .. n : \E q \in RowsOf(t) : q.seq = k
      /\ \A p, q \in RowsOf(t) : p.seq = q.seq => p = q
  BY <1>1, ChainNumbers DEF ChainInv
<1>3. DOMAIN out = 1 .. n /\ Len(out) = n
  BY <1>1, ExportIsChain
<1>4. {r \in RowsOf(t) : r.body.fact \in Fact} = RowsOf(t)
  BY <1>2 DEF LedgerRow, Body
<1>5. \A q \in RowsOf(t) : Cardinality({p \in RowsOf(t) : p.seq > q.seq}) < 1 <=> q.seq = n
  <2> SUFFICES ASSUME NEW q \in RowsOf(t)
               PROVE  Cardinality({p \in RowsOf(t) : p.seq > q.seq}) < 1 <=> q.seq = n
    OBVIOUS
  <2> DEFINE above == {p \in RowsOf(t) : p.seq > q.seq}
  <2>1. IsFiniteSet(above)
    BY <1>1, FS_Subset
  <2>2. Cardinality(above) \in Nat /\ (Cardinality(above) = 0 <=> above = {})
    BY <2>1, FS_CardinalityType, FS_EmptySet
  <2>3. above = {} <=> q.seq = n
    <3>1. CASE q.seq = n
      BY <1>2, <3>1
    <3>2. CASE q.seq # n
      <4>1. PICK p \in RowsOf(t) : p.seq = n
        BY <1>2
      <4> QED
        BY <1>2, <3>2, <4>1
    <3> QED
      BY <3>1, <3>2
  <2> HIDE DEF above
  <2>4. Cardinality(above) < 1 <=> q.seq = n
    BY <2>2, <2>3
  <2> QED
    BY <2>4 DEF above
<1>6. RecentInChain(t, 1, Fact) = {AsRead(r) : r \in {q \in RowsOf(t) : q.seq = n}}
  <2>1. RecentInChain(t, 1, Fact) =
          {AsRead(r) : r \in {q \in RowsOf(t) : Cardinality({p \in RowsOf(t) : p.seq > q.seq}) < 1}}
    BY <1>4 DEF RecentInChain
  <2>2. {q \in RowsOf(t) : Cardinality({p \in RowsOf(t) : p.seq > q.seq}) < 1}
          = {q \in RowsOf(t) : q.seq = n}
    BY <1>5
  <2> QED
    BY <2>1, <2>2
<1>7. \A r \in RowsOf(t) : out[r.seq] = AsRead(r)
  BY ExportIsChain
<1> HIDE DEF out
<1>8. {AsRead(r) : r \in {q \in RowsOf(t) : q.seq = n}} = {out[i] : i \in (1 .. n) \cap {n}}
  BY <1>2, <1>7
<1> QED
  BY <1>3, <1>6, <1>8 DEF out

(* What a verification and an export say is so: a verification beside any  *)
(* appends and migrations finds no fault and counts truly, every entry     *)
(* rewritten, taken out before a later one or moved to another tenant is   *)
(* found, and an export verifies by itself and holds what is read of it.   *)
THEOREM VerificationsAreExact ==
  ASSUME 0 \notin OldSizes
  PROVE  Spec => []VerificationIsExact
<1> DEFINE Inv == ChainInv /\ ScanTypes /\ ScanInv
<1>1. Init => Inv
  BY InitChains, InitScan
<1>2. Inv /\ [Next]_vars => Inv'
  BY NextChains, NextScan
<1>3. Inv => VerificationIsExact
  <2> SUFFICES ASSUME Inv PROVE VerificationIsExact
    OBVIOUS
  <2>1. \A c \in Conn : at[c] = "verifying" =>
          /\ scan[c].ok
          /\ scan[c].due = {} => scan[c].since <= scan[c].total /\ scan[c].total <= Cardinality(rows)
    BY ScansAreExact
  <2>2. \A r \in rows :
          /\ \A body \in Body \ {r.body} :
               ~ChainVerifies(r.tenant, (RowsOf(r.tenant) \ {r}) \cup {[r EXCEPT !.body = body]})
          /\ r.seq < Cardinality(RowsOf(r.tenant)) => ~ChainVerifies(r.tenant, RowsOf(r.tenant) \ {r})
          /\ r.body.tenant # NoTenant =>
               \A t \in Tenant \ {r.tenant} :
                 ~ChainVerifies(t, RowsOf(t) \cup {[r EXCEPT !.tenant = t,
                                                            !.seq = Cardinality(RowsOf(t)) + 1]})
    BY RewrittenIsFound, RemovedIsFound, MovedIsFound
  <2>3. ASSUME NEW t \in Tenant
        PROVE  LET out == ExportChain(t)
               IN  /\ \A i \in DOMAIN out :
                        /\ out[i].seq = i
                        /\ out[i].prev = IF i = 1 THEN <<>> ELSE out[i - 1].hash
                        /\ out[i].hash = ChainHash(out[i].prev, out[i].body)
                   /\ \A n \in 0 .. Len(out) : \A wanted \in {Fact} \cup {{f} : f \in Fact} :
                        RecentInChain(t, n, wanted) \subseteq {out[i] : i \in DOMAIN out}
                   /\ RecentInChain(t, 1, Fact) = {out[i] : i \in DOMAIN out \cap {Len(out)}}
    BY ExportVerifies, RecentIsExported, NewestIsLast
  <2> QED
    BY <2>1, <2>2, <2>3 DEF VerificationIsExact
<1> QED
  BY <1>1, <1>2, <1>3, PTL DEF Spec

-----------------------------------------------------------------------------
(* The ledger in PostgreSQL: the unique key alone keeps the chains whole.   *)

HashType == Seq(Nat)
Entry == [seq : Nat \ {0}, prev : HashType, call : Nat, hash : HashType]
Transaction == [at : {"free", "begun", "read", "written"}, tenant : PgTenant,
            call : Nat, seq : Nat, prev : HashType, tries : Nat]

PgTypes ==
  /\ pgRows \in [PgTenant -> SUBSET Entry]
  /\ \A t \in PgTenant : IsFiniteSet(pgRows[t])
  /\ conn \in [PgConn -> Transaction]
  /\ calls \in Nat

(* A number and a hash that continue the chain of t. *)
Continues(t, seq, prev) ==
  /\ seq > 0
  /\ IF seq = 1 THEN prev = NoHash
     ELSE \E o \in pgRows[t] : o.seq + 1 = seq /\ o.hash = prev

(* Each entry continues the chain, and no number is given twice. *)
RowsAreLinked ==
  \A t \in PgTenant :
    /\ \A e \in pgRows[t] : Continues(t, e.seq, e.prev) /\ e.hash = PgHash(e.prev, e.call)
    /\ \A e, o \in pgRows[t] : e.seq = o.seq => e = o

(* What a transaction is about to write, or has written, continues the      *)
(* chain as committed; what it has written is its number alone.            *)
ReadsContinue ==
  \A c \in PgConn : conn[c].at \in {"read", "written"} =>
    Continues(conn[c].tenant, conn[c].seq, conn[c].prev)
KeysAreOwn ==
  \A c \in PgConn : conn[c].at = "written" =>
    /\ conn[c].seq \notin SeqsOf(conn[c].tenant)
    /\ ~HeldByOther(c)

(* A call is one connection's, or one entry's. *)
CallsAreOwn ==
  /\ \A c \in PgConn : conn[c].at # "free" =>
       /\ conn[c].call <= calls
       /\ \A d \in PgConn \ {c} : conn[d].at # "free" => conn[d].call # conn[c].call
       /\ \A t \in PgTenant : \A e \in pgRows[t] : e.call # conn[c].call
  /\ \A t \in PgTenant : \A e \in pgRows[t] : e.call <= calls
  /\ \A t, u \in PgTenant : \A e \in pgRows[t], o \in pgRows[u] : e.call = o.call => t = u /\ e = o

AcksAreKept == \A a \in acked : \E e \in pgRows[a[1]] : e.call = a[2] /\ e.seq = a[3]
AcksAreTyped == acked \subseteq PgTenant \X Nat \X Nat

PgInv ==
  /\ PgTypes /\ RowsAreLinked /\ ReadsContinue /\ KeysAreOwn /\ CallsAreOwn
  /\ AcksAreKept /\ AcksAreTyped

-----------------------------------------------------------------------------

LEMMA HashTypes ==
  /\ NoHash \in HashType
  /\ \A prev \in HashType, call \in Nat : PgHash(prev, call) \in HashType
  BY DEF NoHash, HashType, PgHash

LEMMA FreeType == Free \in Transaction
<1>1. (CHOOSE t \in PgTenant : TRUE) \in PgTenant
  BY PgConstants
<1> QED
  BY <1>1, HashTypes DEF Free, Transaction

LEMMA InitPg == PgInit => PgInv
<1> SUFFICES ASSUME PgInit PROVE PgInv
  OBVIOUS
<1>1. /\ pgRows = [t \in PgTenant |-> {}] /\ conn = [c \in PgConn |-> Free]
      /\ calls = 0 /\ acked = {} /\ Free.at = "free"
  BY DEF PgInit, Free
<1>2. PgTypes
  BY <1>1, FreeType, FS_EmptySet DEF PgTypes
<1>3. RowsAreLinked /\ ReadsContinue /\ KeysAreOwn /\ CallsAreOwn /\ AcksAreKept /\ AcksAreTyped
  BY <1>1 DEF RowsAreLinked, ReadsContinue, KeysAreOwn, CallsAreOwn, AcksAreKept, AcksAreTyped
<1> QED
  BY <1>2, <1>3 DEF PgInv

(* A step of one connection that commits nothing and leaves it with the     *)
(* call it had, or none.                                                   *)
LEMMA LocalStepKeepsInv ==
  ASSUME PgInv, NEW c \in PgConn, NEW new \in Transaction,
         conn' = [conn EXCEPT ![c] = new],
         new.at # "free" => conn[c].at # "free" /\ new.call = conn[c].call,
         new.at \in {"read", "written"} => Continues(new.tenant, new.seq, new.prev),
         new.at = "written" =>
           /\ new.seq \notin SeqsOf(new.tenant)
           /\ \A d \in PgConn \ {c} : conn[d].at = "written" =>
                ~(conn[d].tenant = new.tenant /\ conn[d].seq = new.seq),
         UNCHANGED <<pgRows, calls, acked>>
  PROVE  PgInv'
<1>1. conn \in [PgConn -> Transaction] /\ conn' \in [PgConn -> Transaction]
  BY DEF PgInv, PgTypes
<1>2. conn'[c] = new /\ \A d \in PgConn \ {c} : conn'[d] = conn[d]
  BY <1>1
<1>3. PgTypes'
  BY <1>1 DEF PgInv, PgTypes
<1>4. RowsAreLinked'
  BY DEF PgInv, RowsAreLinked, Continues
<1>5. ReadsContinue'
  BY <1>2 DEF PgInv, ReadsContinue, Continues
<1>6. KeysAreOwn'
  BY <1>2 DEF PgInv, KeysAreOwn, SeqsOf, HeldByOther
<1>7. CallsAreOwn'
  BY <1>2 DEF PgInv, CallsAreOwn
<1>8. AcksAreKept' /\ AcksAreTyped'
  BY DEF PgInv, AcksAreKept, AcksAreTyped
<1> QED
  BY <1>3, <1>4, <1>5, <1>6, <1>7, <1>8 DEF PgInv

LEMMA CallKeepsInv ==
  ASSUME PgInv, NEW c \in PgConn, PgCall(c)
  PROVE  PgInv'
<1>1. PICK t \in PgTenant :
        conn' = [conn EXCEPT ![c] = [Free EXCEPT !.at = "begun", !.tenant = t, !.call = calls + 1]]
  BY DEF PgCall
<1> DEFINE new == [Free EXCEPT !.at = "begun", !.tenant = t, !.call = calls + 1]
<1>0. /\ calls \in Nat /\ calls + 1 \in Nat /\ calls' = calls + 1
      /\ conn \in [PgConn -> Transaction] /\ UNCHANGED <<pgRows, acked>>
  BY DEF PgInv, PgTypes, PgCall
<1>2. new \in Transaction /\ new.at = "begun" /\ new.call = calls + 1
  BY <1>0, FreeType DEF Transaction
<1> HIDE DEF new
<1>3. conn'[c] = new /\ \A d \in PgConn \ {c} : conn'[d] = conn[d]
  BY <1>0, <1>1 DEF new
<1>4. PgTypes'
  BY <1>0, <1>1, <1>2, <1>3 DEF PgInv, PgTypes, new
<1>5. RowsAreLinked'
  BY <1>0, <1>2 DEF PgInv, RowsAreLinked, Continues
<1>6. ReadsContinue' /\ KeysAreOwn'
  BY <1>0, <1>2, <1>3 DEF PgInv, ReadsContinue, Continues, KeysAreOwn, SeqsOf, HeldByOther
<1>7. CallsAreOwn'
  <2>1. \A t2 \in PgTenant : \A e \in pgRows[t2] : e.call \in Nat
    BY DEF PgInv, PgTypes, Entry
  <2>2. \A d \in PgConn : conn[d].call \in Nat
    BY <1>0 DEF Transaction
  <2> QED
    BY <1>0, <1>2, <1>3, <2>1, <2>2 DEF PgInv, CallsAreOwn
<1>8. AcksAreKept' /\ AcksAreTyped'
  BY <1>0, <1>2 DEF PgInv, AcksAreKept, AcksAreTyped
<1> QED
  BY <1>4, <1>5, <1>6, <1>7, <1>8 DEF PgInv

(* What is read continues the chain. *)
LEMMA ReadKeepsInv ==
  ASSUME PgInv, NEW c \in PgConn, ReadChainTop(c)
  PROVE  PgInv'
<1> DEFINE t == conn[c].tenant
<1>1. /\ conn[c] \in Transaction /\ conn[c].at = "begun" /\ t \in PgTenant
      /\ UNCHANGED <<pgRows, calls, acked>> /\ pgRows[t] \subseteq Entry
  BY DEF PgInv, PgTypes, ReadChainTop, Transaction
<1>2. CASE /\ pgRows[t] = {}
           /\ conn' = [conn EXCEPT ![c].at = "read", ![c].seq = 1, ![c].prev = NoHash]
  <2> DEFINE new == [conn[c] EXCEPT !.at = "read", !.seq = 1, !.prev = NoHash]
  <2>1. /\ new \in Transaction /\ new.at = "read" /\ new.call = conn[c].call
        /\ new.seq = 1 /\ new.prev = NoHash /\ new.tenant = t
    BY <1>1, HashTypes DEF Transaction
  <2>2. conn' = [conn EXCEPT ![c] = new]
    BY <1>2
  <2>3. Continues(new.tenant, new.seq, new.prev)
    BY <2>1 DEF Continues
  <2> HIDE DEF new
  <2> QED
    BY <1>1, <2>1, <2>2, <2>3, LocalStepKeepsInv
<1>3. ASSUME NEW e \in pgRows[t],
             conn' = [conn EXCEPT ![c].at = "read", ![c].seq = e.seq + 1, ![c].prev = e.hash]
      PROVE  PgInv'
  <2> DEFINE new == [conn[c] EXCEPT !.at = "read", !.seq = e.seq + 1, !.prev = e.hash]
  <2>1. e.seq \in Nat \ {0} /\ e.seq + 1 \in Nat /\ e.hash \in HashType
    BY <1>1 DEF Entry
  <2>2. /\ new \in Transaction /\ new.at = "read" /\ new.call = conn[c].call
        /\ new.seq = e.seq + 1 /\ new.prev = e.hash /\ new.tenant = t
    BY <1>1, <2>1 DEF Transaction
  <2>3. conn' = [conn EXCEPT ![c] = new]
    BY <1>3
  <2>4. Continues(new.tenant, new.seq, new.prev)
    BY <2>1, <2>2 DEF Continues
  <2> HIDE DEF new
  <2> QED
    BY <1>1, <2>2, <2>3, <2>4, LocalStepKeepsInv
<1> QED
  BY <1>2, <1>3 DEF ReadChainTop

LEMMA RollbackKeepsInv ==
  ASSUME PgInv, NEW c \in PgConn, conn' = [conn EXCEPT ![c] = Free],
         UNCHANGED <<pgRows, calls, acked>>
  PROVE  PgInv'
<1>1. Free.at = "free"
  BY DEF Free
<1> QED
  BY <1>1, FreeType, LocalStepKeepsInv

LEMMA InsertKeepsInv ==
  ASSUME PgInv, NEW c \in PgConn, InsertEntry(c)
  PROVE  PgInv'
<1>1. /\ conn[c] \in Transaction /\ conn[c].at = "read" /\ ~HeldByOther(c)
      /\ UNCHANGED <<pgRows, calls, acked>>
      /\ Continues(conn[c].tenant, conn[c].seq, conn[c].prev)
  BY DEF PgInv, PgTypes, ReadsContinue, InsertEntry
<1>2. CASE /\ conn[c].seq \notin SeqsOf(conn[c].tenant)
           /\ conn' = [conn EXCEPT ![c].at = "written"]
  <2> DEFINE new == [conn[c] EXCEPT !.at = "written"]
  <2>1. /\ new \in Transaction /\ new.at = "written" /\ new.call = conn[c].call
        /\ new.seq = conn[c].seq /\ new.prev = conn[c].prev /\ new.tenant = conn[c].tenant
        /\ conn' = [conn EXCEPT ![c] = new]
    BY <1>1, <1>2 DEF Transaction
  <2> HIDE DEF new
  <2>2. \A d \in PgConn \ {c} : conn[d].at = "written" =>
          ~(conn[d].tenant = new.tenant /\ conn[d].seq = new.seq)
    BY <1>1, <2>1 DEF HeldByOther
  <2> QED
    BY <1>1, <1>2, <2>1, <2>2, LocalStepKeepsInv
<1>3. CASE conn' = [conn EXCEPT ![c].at = "begun", ![c].tries = @ + 1]
  <2> DEFINE new == [conn[c] EXCEPT !.at = "begun", !.tries = @ + 1]
  <2>0. conn[c].tries + 1 \in Nat
    BY <1>1 DEF Transaction
  <2>1. /\ new \in Transaction /\ new.at = "begun" /\ new.call = conn[c].call
        /\ conn' = [conn EXCEPT ![c] = new]
    BY <1>1, <1>3, <2>0 DEF Transaction
  <2> HIDE DEF new
  <2> QED
    BY <1>1, <2>1, LocalStepKeepsInv
<1>4. CASE conn' = [conn EXCEPT ![c] = Free]
  BY <1>1, <1>4, RollbackKeepsInv
<1> QED
  BY <1>2, <1>3, <1>4 DEF InsertEntry

(* A commit adds the entry that continues the chain under a number nobody   *)
(* else has.                                                               *)
LEMMA CommitKeepsInv ==
  ASSUME PgInv, NEW c \in PgConn, PgCommit(c)
  PROVE  PgInv'
<1> DEFINE t == conn[c].tenant
           own == [seq |-> conn[c].seq, prev |-> conn[c].prev, call |-> conn[c].call,
                   hash |-> PgHash(conn[c].prev, conn[c].call)]
<1>1. /\ conn[c] \in Transaction /\ conn[c].at = "written" /\ t \in PgTenant
      /\ pgRows' = [pgRows EXCEPT ![t] = @ \cup {own}]
      /\ acked' \subseteq acked \cup {<<t, conn[c].call, conn[c].seq>>}
      /\ conn' = [conn EXCEPT ![c] = Free] /\ calls' = calls
      /\ pgRows \in [PgTenant -> SUBSET Entry] /\ conn \in [PgConn -> Transaction]
  BY DEF PgInv, PgTypes, PgCommit, Transaction
<1>2. /\ Continues(t, own.seq, own.prev) /\ own.seq \notin SeqsOf(t)
      /\ \A d \in PgConn \ {c} : conn[d].at = "written" /\ conn[d].tenant = t => conn[d].seq # own.seq
  BY <1>1 DEF PgInv, ReadsContinue, KeysAreOwn, HeldByOther
<1>3. own \in Entry
  BY <1>1, <1>2, HashTypes DEF Transaction, Entry, Continues
<1>4. /\ pgRows'[t] = pgRows[t] \cup {own}
      /\ \A u \in PgTenant \ {t} : pgRows'[u] = pgRows[u]
      /\ \A u \in PgTenant : pgRows[u] \subseteq pgRows'[u]
  BY <1>1
<1>5. /\ conn'[c] = Free /\ Free.at = "free"
      /\ \A d \in PgConn \ {c} : conn'[d] = conn[d]
  BY <1>1 DEF Free
<1> HIDE DEF t, own
<1>6. \A u \in PgTenant : \A seq, prev : Continues(u, seq, prev) => Continues(u, seq, prev)'
  BY <1>4 DEF Continues
<1>7. PgTypes'
  <2>1. \A u \in PgTenant : IsFiniteSet(pgRows'[u])
    BY <1>1, <1>4, FS_AddElement DEF PgInv, PgTypes
  <2>2. pgRows' \in [PgTenant -> SUBSET Entry]
    BY <1>1, <1>3
  <2>3. conn' \in [PgConn -> Transaction]
    BY <1>1, FreeType
  <2> QED
    BY <1>1, <2>1, <2>2, <2>3 DEF PgInv, PgTypes
<1>8. RowsAreLinked'
  <2> SUFFICES ASSUME NEW u \in PgTenant
               PROVE  /\ \A e \in pgRows'[u] : /\ Continues(u, e.seq, e.prev)'
                                               /\ e.hash = PgHash(e.prev, e.call)
                      /\ \A e, o \in pgRows'[u] : e.seq = o.seq => e = o
    BY DEF RowsAreLinked
  <2>1. /\ \A e \in pgRows[u] : Continues(u, e.seq, e.prev) /\ e.hash = PgHash(e.prev, e.call)
        /\ \A e, o \in pgRows[u] : e.seq = o.seq => e = o
    BY DEF PgInv, RowsAreLinked
  <2>2. \A e \in pgRows'[u] : Continues(u, e.seq, e.prev) /\ e.hash = PgHash(e.prev, e.call)
    BY <1>2, <1>4, <2>1 DEF own
  <2>3. \A e \in pgRows'[u] : Continues(u, e.seq, e.prev)'
    BY <1>6, <2>2
  <2>4. \A e, o \in pgRows'[u] : e.seq = o.seq => e = o
    BY <1>2, <1>4, <2>1 DEF SeqsOf
  <2> QED
    BY <2>2, <2>3, <2>4
<1>9. ReadsContinue'
  <2> SUFFICES ASSUME NEW d \in PgConn, conn'[d].at \in {"read", "written"}
               PROVE  Continues(conn[d].tenant, conn[d].seq, conn[d].prev)'
    BY DEF ReadsContinue
  <2>1. d # c /\ conn'[d] = conn[d]
    BY <1>5
  <2>2. conn[d].tenant \in PgTenant /\ Continues(conn[d].tenant, conn[d].seq, conn[d].prev)
    BY <1>1, <2>1 DEF PgInv, ReadsContinue, Transaction
  <2>3. Continues(conn[d].tenant, conn[d].seq, conn[d].prev)'
    BY <1>4, <2>1, <2>2 DEF Continues
  <2> QED
    BY <2>3
<1>10. KeysAreOwn'
  <2> SUFFICES ASSUME NEW d \in PgConn, conn'[d].at = "written"
               PROVE  /\ conn'[d].seq \notin SeqsOf(conn[d].tenant)'
                      /\ ~HeldByOther(d)'
    BY DEF KeysAreOwn
  <2>1. d # c /\ conn'[d] = conn[d]
    BY <1>5
  <2>2. conn[d].seq \notin SeqsOf(conn[d].tenant) /\ ~HeldByOther(d) /\ conn[d].tenant \in PgTenant
    BY <1>1, <2>1 DEF PgInv, KeysAreOwn, Transaction
  <2>3. ~HeldByOther(d)'
    BY <1>5, <2>1, <2>2 DEF HeldByOther
  <2>4. conn[d].tenant = t => conn[d].seq # own.seq
    BY <1>2, <2>1
  <2>5. conn'[d].seq \notin SeqsOf(conn[d].tenant)'
    BY <1>4, <2>1, <2>2, <2>4 DEF SeqsOf
  <2> QED
    BY <2>3, <2>5
<1>11. CallsAreOwn'
  <2>1. /\ own.call = conn[c].call /\ conn[c].call <= calls
        /\ \A u \in PgTenant : \A e \in pgRows[u] : e.call # own.call
        /\ \A d \in PgConn \ {c} : conn[d].at # "free" => conn[d].call # own.call
    BY <1>1 DEF PgInv, CallsAreOwn, own
  <2>2. \A d \in PgConn : conn'[d].at # "free" => d # c /\ conn'[d] = conn[d]
    BY <1>5
  <2>3. \A u \in PgTenant : \A e \in pgRows'[u] : e \in pgRows[u] \/ (u = t /\ e = own)
    BY <1>4
  <2>4. \A d \in PgConn : conn'[d].at # "free" =>
          /\ conn'[d].call <= calls'
          /\ \A f \in PgConn \ {d} : conn'[f].at # "free" => conn'[f].call # conn'[d].call
          /\ \A u \in PgTenant : \A e \in pgRows'[u] : e.call # conn'[d].call
    BY <1>1, <2>1, <2>2, <2>3 DEF PgInv, CallsAreOwn
  <2>5. \A u \in PgTenant : \A e \in pgRows'[u] : e.call <= calls'
    BY <1>1, <2>1, <2>3 DEF PgInv, CallsAreOwn
  <2>6. \A u, v \in PgTenant : \A e \in pgRows'[u], o \in pgRows'[v] : e.call = o.call => u = v /\ e = o
    BY <2>1, <2>3 DEF PgInv, CallsAreOwn
  <2> QED
    BY <2>4, <2>5, <2>6 DEF CallsAreOwn
<1>12. AcksAreTyped' /\ AcksAreKept'
  <2>1. AcksAreTyped'
    BY <1>1 DEF PgInv, AcksAreTyped, Transaction, t
  <2>2. SUFFICES ASSUME NEW a \in acked'
                 PROVE  \E e \in pgRows'[a[1]] : e.call = a[2] /\ e.seq = a[3]
    BY <2>1 DEF AcksAreKept
  <2>3. CASE a \in acked
    BY <1>4, <2>3 DEF PgInv, AcksAreKept, AcksAreTyped
  <2>4. CASE a = <<t, conn[c].call, conn[c].seq>>
    <3>1. a[1] = t /\ a[2] = own.call /\ a[3] = own.seq
      BY <2>4 DEF own
    <3> QED
      BY <1>4, <3>1
  <2> QED
    BY <1>1, <2>3, <2>4 DEF t
<1> QED
  BY <1>7, <1>8, <1>9, <1>10, <1>11, <1>12 DEF PgInv

LEMMA NextPg == PgInv /\ [PgNext]_pgVars => PgInv'
<1> SUFFICES ASSUME PgInv, [PgNext]_pgVars PROVE PgInv'
  OBVIOUS
<1>1. ASSUME NEW c \in PgConn, Rollback(c) PROVE PgInv'
  BY <1>1, RollbackKeepsInv DEF Rollback
<1>2. CASE UNCHANGED pgVars
  BY <1>2 DEF pgVars, PgInv, PgTypes, RowsAreLinked, ReadsContinue, KeysAreOwn, CallsAreOwn,
     AcksAreKept, AcksAreTyped, Continues, SeqsOf, HeldByOther
<1> QED
  BY <1>1, <1>2, CallKeepsInv, ReadKeepsInv, InsertKeepsInv, CommitKeepsInv DEF PgNext, PgAppend

-----------------------------------------------------------------------------

(* What a verification goes over, entry by entry, holds of a linked chain. *)
LEMMA LinkedVerifies ==
  ASSUME PgInv, NEW t \in PgTenant
  PROVE  PgVerifies(t)
<1> SUFFICES ASSUME NEW e \in pgRows[t]
             PROVE  LET before == {o \in pgRows[t] : o.seq < e.seq}
                    IN  /\ e.hash = PgHash(e.prev, e.call)
                        /\ IF before = {} THEN e.prev = NoHash
                           ELSE \E o \in before : e.prev = o.hash /\ \A q \in before : q.seq <= o.seq
  BY DEF PgVerifies
<1> DEFINE before == {o \in pgRows[t] : o.seq < e.seq}
<1>1. \A o \in pgRows[t] : o.seq \in Nat \ {0}
  BY DEF PgInv, PgTypes, Entry
<1>2. e.hash = PgHash(e.prev, e.call) /\ Continues(t, e.seq, e.prev)
  BY DEF PgInv, RowsAreLinked
<1>3. CASE e.seq = 1
  <2>1. before = {}
    BY <1>1, <1>3
  <2> QED
    BY <1>2, <1>3, <2>1 DEF Continues
<1>4. CASE e.seq # 1
  <2>1. PICK o \in pgRows[t] : o.seq + 1 = e.seq /\ o.hash = e.prev
    BY <1>2, <1>4 DEF Continues
  <2>2. o \in before /\ \A q \in before : q.seq <= o.seq
    BY <1>1, <2>1
  <2> QED
    BY <1>2, <2>1, <2>2
<1> QED
  BY <1>3, <1>4

(* The one entry a reader of the newest is shown has the greatest number.  *)
LEMMA ExportEndsInNewest ==
  ASSUME PgInv, NEW t \in PgTenant
  PROVE  \A e \in PgExport(t) : \A o \in PgRecent(t, 1) : e.seq <= o.seq /\ o \in PgExport(t)
<1> SUFFICES ASSUME NEW e \in PgExport(t), NEW o \in PgRecent(t, 1)
             PROVE  e.seq <= o.seq /\ o \in PgExport(t)
  OBVIOUS
<1> DEFINE newer == {q \in pgRows[t] : q.seq > o.seq}
<1>1. o \in pgRows[t] /\ Cardinality(newer) < 1
  BY DEF PgRecent
<1>2. pgRows[t] \subseteq Entry /\ IsFiniteSet(pgRows[t])
  BY DEF PgInv, PgTypes
<1>3. newer = {}
  <2>1. IsFiniteSet(newer)
    BY <1>2, FS_Subset
  <2>2. Cardinality(newer) = 0
    BY <1>1, <2>1, FS_CardinalityType
  <2> QED
    BY <2>1, <2>2, FS_EmptySet
<1>4. \A q \in pgRows[t] : q = [seq |-> q.seq, prev |-> q.prev, call |-> q.call, hash |-> q.hash]
  BY <1>2 DEF Entry
<1>5. PICK q \in pgRows[t] : e = [seq |-> q.seq, prev |-> q.prev, call |-> q.call, hash |-> q.hash]
  BY DEF PgExport
<1>6. e.seq <= o.seq
  BY <1>1, <1>2, <1>3, <1>5 DEF Entry
<1>7. o \in PgExport(t)
  BY <1>1, <1>4 DEF PgExport
<1> QED
  BY <1>6, <1>7

LEMMA InvIsWhole == PgInv => PgChainIsWhole
<1> SUFFICES ASSUME PgInv PROVE PgChainIsWhole
  OBVIOUS
<1>1. \A t \in PgTenant : \A e \in pgRows[t] :
        /\ e.hash = PgHash(e.prev, e.call)
        /\ IF e.seq = 1 THEN e.prev = NoHash
           ELSE \E o \in pgRows[t] : o.seq + 1 = e.seq /\ o.hash = e.prev
  BY DEF PgInv, RowsAreLinked, Continues
<1>2. \A t \in PgTenant : \A e, o \in pgRows[t] : e.seq = o.seq => e = o
  BY DEF PgInv, RowsAreLinked
<1>3. \A t, u \in PgTenant : \A e \in pgRows[t], o \in pgRows[u] : e.call = o.call => t = u /\ e = o
  BY DEF PgInv, CallsAreOwn
<1>4. \A a \in acked : \E e \in pgRows[a[1]] : e.call = a[2] /\ e.seq = a[3]
  BY DEF PgInv, AcksAreKept
<1> QED
  BY <1>1, <1>2, <1>3, <1>4, LinkedVerifies, ExportEndsInNewest DEF PgChainIsWhole

(* The state of the PostgreSQL ledger is well-typed, for any processes.    *)
THEOREM PgLedgerTypes == PgSpec => []PgTypes
  BY InitPg, NextPg, PTL DEF PgSpec, PgInv

(* Without a lock, the unique key of (tenant, seq) and the retry keep every *)
(* chain whole, each answered append in it once, for any number of          *)
(* processes, tries and lost answers ("correção igual à do lock, sem estado *)
(* de sessão").                                                             *)
THEOREM PgChainsAreWhole == PgSpec => []PgChainIsWhole
  BY InitPg, NextPg, InvIsWhole, PTL DEF PgSpec

=============================================================================
