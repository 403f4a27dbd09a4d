---------------------- MODULE RuntimePersistenceProofs ----------------------
(***************************************************************************)
(* The runtime stores for any clients, catalogs, payloads and bounds.  The *)
(* database that the clients migrate is always one whole catalog.  A returned *)
(* reference restores its bytes for good, a stored manifest names a backup *)
(* that restores, nothing is refused but for a mishap, and a retry adds no *)
(* second version.  An item is accepted once in its lifetime.  All of this *)
(* holds while the same clients work on the other two services.            *)
(***************************************************************************)
EXTENDS RuntimePersistence, SequenceTheorems, FiniteSetTheorems, InductionLemmas, TLAPS

-----------------------------------------------------------------------------
(* The database.                                                           *)

Bytes   == UNION {Range(c) : c \in Catalogs}
AllRows == [version : Nat, bytes : Bytes]

Transactions == [catalog : Catalogs \cup {<<>>}, read : SUBSET AllRows,
                 next : Nat \ {0}, executed : Seq(Bytes), inserted : SUBSET AllRows]

(* A client in an apply has a catalog; the lock has one holder, which is    *)
(* past it; and the rows that it has read are still those of the database.  *)
(* What it has executed so far is the part of its catalog beyond the        *)
(* schema, and the part before agrees with the schema.                     *)
Holds(p) == pc[p] \in {"read", "migrate"}

Fresh(t) == t.next = 1 /\ t.read = {} /\ t.executed = <<>> /\ t.inserted = {}

Agrees(t) ==
    /\ t.read = rows
    /\ t.next <= Len(t.catalog) + 1
    /\ \A v \in DOMAIN schema : v < t.next => t.catalog[v] = schema[v]
    /\ t.executed = SubSeq(t.catalog, Len(schema) + 1, t.next - 1)
    /\ t.inserted = {Row(v, t.catalog[v]) : v \in Len(schema) + 1 .. t.next - 1}

MigrationInv ==
    /\ pc \in [Procs -> {"idle"} \cup MigrationLabels \cup ObjectLabels]
    /\ transaction \in [Procs -> Transactions]
    /\ schema \in Catalogs \cup {<<>>} /\ rows = RowsOf(schema)
    /\ \A p \in Procs :
          /\ Holds(p) <=> migrator = p
          /\ pc[p] \in MigrationLabels => transaction[p].catalog \in Catalogs
          /\ pc[p] \in {"lock", "read"} => Fresh(transaction[p])
          /\ pc[p] = "migrate" => Agrees(transaction[p])

-----------------------------------------------------------------------------
(* Catalogs and their rows.                                                *)

LEMMA CatalogTyped ==
    ASSUME NEW c \in Catalogs \cup {<<>>}
    PROVE  /\ c \in Seq(Bytes) /\ Len(c) \in Nat /\ DOMAIN c = 1..Len(c)
           /\ \A v \in DOMAIN c : c[v] \in Bytes /\ Row(v, c[v]) \in AllRows
<1>1. c \in Seq(Bytes)
  <2>1. CASE c \in Catalogs
    <3>1. Range(c) \subseteq Bytes
      BY <2>1 DEF Bytes
    <3>2. c \in Seq(Range(c))
      BY <2>1, CatalogAssumption
    <3>3. QED
      BY <3>1, <3>2, SeqMonotonic
  <2>2. CASE c = <<>>
    BY <2>2
  <2>3. QED
    BY <2>1, <2>2
<1>2. QED
  BY <1>1, LenProperties, ElementOfSeq DEF Row, AllRows

LEMMA RowsTyped ==
    ASSUME NEW c \in Catalogs \cup {<<>>}
    PROVE  RowsOf(c) \subseteq AllRows
BY CatalogTyped DEF RowsOf

(* A catalog that begins with the schema is the schema with the rest.      *)
LEMMA SchemaCompleted ==
    ASSUME NEW s \in Seq(Bytes), NEW c \in Seq(Bytes),
           Len(s) <= Len(c), \A v \in 1..Len(s) : c[v] = s[v]
    PROVE  s \o SubSeq(c, Len(s) + 1, Len(c)) = c
<1> DEFINE rest == SubSeq(c, Len(s) + 1, Len(c))
<1>1. Len(s) \in Nat /\ Len(c) \in Nat
  BY LenProperties
<1>2. \A i \in Len(s) + 1 .. Len(c) : c[i] \in Bytes
  BY <1>1, LenProperties, ElementOfSeq
<1>3. /\ rest \in Seq(Bytes) /\ Len(rest) = Len(c) - Len(s)
      /\ \A i \in 1 .. Len(c) - Len(s) : rest[i] = c[Len(s) + i]
  <2>1. /\ rest \in Seq(Bytes)
        /\ Len(rest) = IF Len(s) + 1 <= Len(c) THEN Len(c) - (Len(s) + 1) + 1 ELSE 0
        /\ \A i \in 1 .. Len(c) - (Len(s) + 1) + 1 : rest[i] = c[(Len(s) + 1) + i - 1]
    BY <1>1, <1>2, SubSeqProperties
  <2> HIDE DEF rest
  <2>2. Len(rest) = Len(c) - Len(s)
    BY <2>1, <1>1
  <2>3. ASSUME NEW i \in 1 .. Len(c) - Len(s) PROVE rest[i] = c[Len(s) + i]
    <3>1. i \in 1 .. Len(c) - (Len(s) + 1) + 1 /\ (Len(s) + 1) + i - 1 = Len(s) + i
      BY <1>1
    <3>2. QED
      BY <2>1, <3>1
  <2>4. QED
    BY <2>1, <2>2, <2>3
<1> HIDE DEF rest
<1>4. /\ s \o rest \in Seq(Bytes) /\ Len(s \o rest) = Len(s) + Len(rest)
      /\ \A i \in 1 .. Len(s) + Len(rest) :
             (s \o rest)[i] = IF i <= Len(s) THEN s[i] ELSE rest[i - Len(s)]
  BY <1>3, ConcatProperties
<1>5. Len(s \o rest) = Len(c)
  BY <1>1, <1>3, <1>4
<1>6. ASSUME NEW i \in 1 .. Len(c) PROVE (s \o rest)[i] = c[i]
  <2>1. i \in Nat /\ i \in 1 .. Len(s) + Len(rest)
    BY <1>1, <1>3
  <2>2. CASE i <= Len(s)
    <3>1. i \in 1..Len(s)
      BY <1>1, <2>1, <2>2
    <3>2. QED
      BY <1>4, <2>1, <2>2, <3>1
  <2>3. CASE i > Len(s)
    <3>1. i - Len(s) \in 1 .. Len(c) - Len(s) /\ Len(s) + (i - Len(s)) = i /\ ~(i <= Len(s))
      BY <1>1, <2>1, <2>3
    <3>2. (s \o rest)[i] = rest[i - Len(s)]
      BY <1>4, <2>1, <3>1
    <3>3. QED
      BY <1>3, <3>1, <3>2
  <2>4. QED
    BY <1>1, <2>1, <2>2, <2>3
<1>7. s \o rest = c
  BY <1>4, <1>5, <1>6, SeqEqual
<1>8. QED
  BY <1>7 DEF rest

-----------------------------------------------------------------------------
(* The other services move clients among their own labels only.            *)

Outside == {"idle"} \cup ObjectLabels

MovesOutside ==
    \/ pc' = pc
    \/ \E p \in Procs, to \in Outside : pc[p] \in Outside /\ pc' = [pc EXCEPT ![p] = to]

LEMMA ObjectMoves ==
    ASSUME ObjectNext
    PROVE  MovesOutside
<1> USE DEF Outside, ObjectLabels, S3Labels, ProofLabels, MovesOutside,
            Steps, Faulty, Begins, At, Goto
<1>1. ASSUME NEW key PROVE Entry(key) \in Outside
  BY DEF Entry
<1>2. ASSUME NEW p \in Procs, NEW from \in Outside, NEW ref, Returns(p, from, ref)
      PROVE  MovesOutside
  <2>1. ASSUME NEW to \in Outside, Steps(p, from, to) PROVE MovesOutside
    BY <2>1
  <2>2. \E to \in Outside : Steps(p, from, to)
    <3>1. CASE ref.key.kind = "report"
      BY <1>2, <3>1 DEF Returns
    <3>2. CASE ref.key.kind = "backup"
      BY <1>1, <1>2, <3>2 DEF Returns
    <3>3. CASE ref.key.kind \notin {"report", "backup"}
      BY <1>2, <3>3 DEF Returns
    <3>4. QED
      BY <1>2, <3>1, <3>2, <3>3 DEF Returns
  <2>3. QED
    BY <2>1, <2>2
<1>3. ASSUME NEW p \in Procs, NEW from \in Outside, NEW key, Raises(p, from, key)
      PROVE  MovesOutside
  BY <1>3 DEF Raises
<1>4. ASSUME NEW p \in Procs, NEW from \in Outside, NEW to \in Outside, Advances(p, from, to)
      PROVE  MovesOutside
  BY <1>4 DEF Advances
<1>5. ASSUME NEW p \in Procs, NEW store, NEW kind, NEW bytes, BeginPut(p, store, kind, bytes)
      PROVE  MovesOutside
  BY <1>1, <1>5 DEF BeginPut
<1>6. ASSUME NEW p \in Procs, S3Step(p) PROVE MovesOutside
  <2>1. CASE HeadMisses(p)
    BY <2>1, <1>4 DEF HeadMisses
  <2>2. CASE HeadHits(p)
    BY <2>2, <1>2, <1>3 DEF HeadHits
  <2>3. CASE Put(p)
    BY <2>3, <1>3 DEF Put
  <2>4. CASE Verify(p)
    BY <2>4, <1>2, <1>3 DEF Verify
  <2>5. QED
    BY <1>6, <2>1, <2>2, <2>3, <2>4 DEF S3Step
<1>7. ASSUME NEW p \in Procs, ProofStep(p) PROVE MovesOutside
  <2>1. CASE LookMisses(p) \/ LookHits(p)
    BY <2>1, <1>3, <1>4 DEF LookMisses, LookHits
  <2>2. CASE Compare(p)
    BY <2>2, <1>2, <1>3 DEF Compare
  <2>3. CASE Truncate(p) \/ Fill(p) \/ Describe(p)
    BY <2>3, <1>4 DEF Truncate, Fill, Describe
  <2>4. CASE Finish(p)
    BY <2>4, <1>2 DEF Finish
  <2>5. QED
    BY <1>7, <2>1, <2>2, <2>3, <2>4 DEF ProofStep
<1>8. ASSUME NEW p \in Procs, Restore(p) PROVE MovesOutside
  BY <1>8, <1>3 DEF Restore
<1>9. ASSUME NEW p \in Procs, PutTwice(p) \/ Abandon(p) PROVE MovesOutside
  BY <1>9 DEF PutTwice, Abandon
<1>10. CASE ForeignPut
  BY <1>10 DEF ForeignPut
<1>11. QED
  BY <1>5, <1>6, <1>7, <1>8, <1>9, <1>10 DEF ObjectNext

LEMMA QueueMoves ==
    ASSUME QueueNext
    PROVE  MovesOutside
BY DEF QueueNext, Enqueue, EnqueueUnanswered, Tick, clientVars, Begins, Faulty, At, Goto,
       MovesOutside, Outside

LEMMA OthersKeep ==
    ASSUME MigrationInv, MovesOutside, UNCHANGED migrationVars
    PROVE  MigrationInv'
<1> USE DEF migrationVars, databaseVars, Outside, ObjectLabels, S3Labels, ProofLabels,
            MigrationLabels
<1>1. pc' \in [Procs -> {"idle"} \cup MigrationLabels \cup ObjectLabels]
  BY DEF MigrationInv, MovesOutside
<1>2. ASSUME NEW q \in Procs, pc[q] \in MigrationLabels \/ pc'[q] \in MigrationLabels
      PROVE  pc'[q] = pc[q]
  BY <1>2 DEF MigrationInv, MovesOutside
<1>3. ASSUME NEW q \in Procs PROVE Holds(q)' <=> Holds(q)
  BY <1>2 DEF Holds
<1>4. QED
  BY <1>1, <1>2, <1>3 DEF MigrationInv, Agrees, Fresh, RowsOf

-----------------------------------------------------------------------------
(* The steps of an apply.                                                  *)

LEMMA InvInit ==
    ASSUME Init
    PROVE  MigrationInv
<1>1. NoTransaction \in Transactions /\ Fresh(NoTransaction)
  BY DEF NoTransaction, NewTransaction, Transactions, Fresh
<1>2. schema \in Catalogs \cup {<<>>} /\ rows = RowsOf(schema)
  BY DEF Init, MigrationInit
<1>3. QED
  BY <1>1, <1>2, CatalogAssumption
     DEF Init, ClientInit, MigrationInit, MigrationInv, Holds, MigrationLabels

(* A step of one client leaves the others in the state they were in, if it *)
(* leaves the database alone.                                              *)
LEMMA OwnStep ==
    ASSUME MigrationInv, NEW p \in Procs, NEW to \in {"idle"} \cup MigrationLabels, Goto(p, to),
           NEW t \in Transactions, transaction' = [transaction EXCEPT ![p] = t],
           UNCHANGED databaseVars,
           \A q \in Procs \ {p} : migrator' = q <=> migrator = q,
           to \in {"read", "migrate"} <=> migrator' = p,
           to \in MigrationLabels => t.catalog \in Catalogs,
           to \in {"lock", "read"} => Fresh(t),
           to = "migrate" => Agrees(t)
    PROVE  MigrationInv'
<1> USE DEF databaseVars, MigrationLabels
<1>1. /\ pc' \in [Procs -> {"idle"} \cup MigrationLabels \cup ObjectLabels]
      /\ transaction' \in [Procs -> Transactions]
      /\ pc'[p] = to /\ transaction'[p] = t
      /\ \A q \in Procs \ {p} : pc'[q] = pc[q] /\ transaction'[q] = transaction[q]
  BY DEF MigrationInv, Goto
<1>2. ASSUME NEW u PROVE Agrees(u)' <=> Agrees(u)
  BY DEF Agrees
<1>3. schema' \in Catalogs \cup {<<>>} /\ rows' = RowsOf(schema')
  BY DEF MigrationInv
<1>4. ASSUME NEW q \in Procs
      PROVE  /\ Holds(q)' <=> migrator' = q
             /\ pc'[q] \in MigrationLabels => transaction'[q].catalog \in Catalogs
             /\ pc'[q] \in {"lock", "read"} => Fresh(transaction'[q])
             /\ pc'[q] = "migrate" => Agrees(transaction'[q])
  <2>1. CASE q = p
    BY <1>1, <2>1 DEF Holds
  <2>2. CASE q # p
    BY <1>1, <2>2 DEF MigrationInv, Holds
  <2>3. QED
    BY <2>1, <2>2
<1>5. ASSUME NEW q \in Procs PROVE pc'[q] = "migrate" => Agrees(transaction[q])'
  BY <1>2, <1>4 DEF Agrees
<1>6. QED
  BY <1>1, <1>3, <1>4, <1>5 DEF MigrationInv

LEMMA TransactionTyped ==
    ASSUME MigrationInv, NEW p \in Procs
    PROVE  /\ transaction[p] \in Transactions
           /\ transaction[p].catalog \in Catalogs \cup {<<>>}
           /\ transaction[p].next \in Nat \ {0}
           /\ schema \in Seq(Bytes) /\ Len(schema) \in Nat /\ DOMAIN schema = 1..Len(schema)
           /\ rows \subseteq AllRows
           /\ \A v \in DOMAIN schema : Row(v, schema[v]) \in rows
           /\ \A r \in rows : r.version \in DOMAIN schema /\ r.bytes = schema[r.version]
<1>1. schema \in Catalogs \cup {<<>>} /\ rows = RowsOf(schema)
  BY DEF MigrationInv
<1>2. QED
  BY <1>1, CatalogTyped, RowsTyped DEF MigrationInv, Transactions, RowsOf, Row

LEMMA EndsKeeps ==
    ASSUME MigrationInv, NEW p \in Procs, NEW answer, Goto(p, "idle"), Ends(p, answer),
           UNCHANGED databaseVars
    PROVE  MigrationInv'
<1>1. NoTransaction \in Transactions
  BY DEF NoTransaction, NewTransaction, Transactions
<1>2. /\ \A q \in Procs \ {p} : migrator' = q <=> migrator = q
      /\ migrator' # p
  BY CatalogAssumption DEF Ends, LockAfter
<1>3. transaction' = [transaction EXCEPT ![p] = NoTransaction]
  BY DEF Ends
<1>4. "idle" \in {"idle"} \cup MigrationLabels /\ "idle" \notin MigrationLabels
  BY DEF MigrationLabels
<1>5. QED
  BY <1>1, <1>2, <1>3, <1>4, OwnStep

LEMMA BeginKeeps ==
    ASSUME MigrationInv, NEW p \in Procs, NEW c \in Catalogs, BeginApply(p, c)
    PROVE  MigrationInv'
<1> DEFINE t == NewTransaction(c)
<1>1. t \in Transactions /\ t.catalog = c /\ Fresh(t)
  BY DEF NewTransaction, Transactions, Fresh
<1>2. Goto(p, "lock") /\ pc[p] = "idle"
  BY DEF BeginApply, Begins, At
<1>3. migrator' = migrator /\ migrator # p /\ UNCHANGED databaseVars
  BY <1>2 DEF BeginApply, MigrationInv, Holds
<1>4. transaction' = [transaction EXCEPT ![p] = t]
  BY DEF BeginApply
<1> HIDE DEF t
<1>5. /\ "lock" \in {"idle"} \cup MigrationLabels
      /\ "lock" \notin {"read", "migrate"} /\ "lock" # "migrate"
  BY DEF MigrationLabels
<1>6. \A q \in Procs \ {p} : migrator' = q <=> migrator = q
  BY <1>3
<1>7. QED
  BY <1>1, <1>2, <1>3, <1>4, <1>5, <1>6, OwnStep

LEMMA LockKeeps ==
    ASSUME MigrationInv, NEW p \in Procs, LockMigrations(p)
    PROVE  MigrationInv'
<1> DEFINE t == transaction[p]
<1>1. pc[p] = "lock" /\ Goto(p, "read") /\ migrator = Free /\ migrator' = p
  BY DEF LockMigrations, LockGranted, Steps, At
<1>2. t \in Transactions /\ t.catalog \in Catalogs /\ Fresh(t)
  BY <1>1, TransactionTyped DEF MigrationInv, MigrationLabels
<1>3. transaction' = [transaction EXCEPT ![p] = t] /\ UNCHANGED databaseVars
  BY DEF LockMigrations, MigrationInv
<1>4. \A q \in Procs \ {p} : migrator' = q <=> migrator = q
  BY <1>1, CatalogAssumption
<1> HIDE DEF t
<1>5. QED
  BY <1>1, <1>2, <1>3, <1>4, OwnStep DEF MigrationLabels

LEMMA ReadKeeps ==
    ASSUME MigrationInv, NEW p \in Procs, ReadApplied(p)
    PROVE  MigrationInv'
<1> DEFINE t == [transaction[p] EXCEPT !.read = rows]
<1>1. pc[p] = "read" /\ Goto(p, "migrate") /\ UNCHANGED <<migrator, databaseVars>>
  BY DEF ReadApplied, Steps, At
<1>2. /\ transaction[p].catalog \in Catalogs /\ Fresh(transaction[p])
      /\ migrator = p
  BY <1>1 DEF MigrationInv, MigrationLabels, Holds
<1>3. t \in Transactions /\ transaction' = [transaction EXCEPT ![p] = t]
  BY TransactionTyped DEF Transactions, ReadApplied
<1>4. /\ t.catalog = transaction[p].catalog /\ t.next = 1 /\ t.read = rows
      /\ t.executed = <<>> /\ t.inserted = {}
  BY <1>2, TransactionTyped DEF Transactions, Fresh
<1> HIDE DEF t
<1>5. Agrees(t)
  <2>1. Len(t.catalog) \in Nat /\ Len(schema) \in Nat /\ DOMAIN schema = 1..Len(schema)
    BY <1>2, <1>4, CatalogTyped, TransactionTyped
  <2>2. SubSeq(t.catalog, Len(schema) + 1, t.next - 1) = <<>>
    BY <1>4, <2>1, SubSeqEmpty
  <2>3. QED
    BY <1>4, <2>1, <2>2 DEF Agrees
<1>6. QED
  BY <1>1, <1>2, <1>3, <1>4, <1>5, OwnStep DEF MigrationLabels

(* What is known of a client in its loop over the catalog. *)
LEMMA InLoop ==
    ASSUME MigrationInv, NEW p \in Procs, pc[p] = "migrate"
    PROVE  LET t == transaction[p] IN
           /\ t.catalog \in Catalogs /\ t.catalog \in Seq(Bytes) /\ Len(t.catalog) \in Nat
           /\ DOMAIN t.catalog = 1..Len(t.catalog) /\ IsInjective(t.catalog)
           /\ Agrees(t) /\ migrator = p
           /\ Pending(p) => /\ Expected(p) \in AllRows /\ t.catalog[t.next] \in Bytes
                            /\ Recorded(p) <=> t.next \in DOMAIN schema
                            /\ Recorded(p) => (Differs(p) <=> t.catalog[t.next] # schema[t.next])
<1> DEFINE t == transaction[p]
<1>1. t.catalog \in Catalogs /\ Agrees(t) /\ migrator = p
  BY DEF MigrationInv, MigrationLabels, Holds
<1>2. /\ t.catalog \in Seq(Bytes) /\ Len(t.catalog) \in Nat /\ DOMAIN t.catalog = 1..Len(t.catalog)
      /\ IsInjective(t.catalog)
      /\ \A v \in DOMAIN t.catalog : t.catalog[v] \in Bytes /\ Row(v, t.catalog[v]) \in AllRows
  BY <1>1, CatalogTyped, CatalogAssumption
<1>3. ASSUME Pending(p)
      PROVE  /\ Expected(p) \in AllRows /\ t.catalog[t.next] \in Bytes
             /\ Recorded(p) <=> t.next \in DOMAIN schema
             /\ Recorded(p) => (Differs(p) <=> t.catalog[t.next] # schema[t.next])
  <2>1. t.read = rows
    BY <1>1 DEF Agrees
  <2>2. \A r \in rows : r.version \in DOMAIN schema /\ r.bytes = schema[r.version]
    BY TransactionTyped
  <2>3. \A v \in DOMAIN schema : Row(v, schema[v]) \in rows
    BY TransactionTyped
  <2>4. rows \subseteq AllRows
    BY TransactionTyped
  <2>5. Recorded(p) <=> t.next \in DOMAIN schema
    <3>1. ASSUME Recorded(p) PROVE t.next \in DOMAIN schema
      BY <2>1, <2>2, <3>1 DEF Recorded, Retained
    <3>2. ASSUME t.next \in DOMAIN schema PROVE Recorded(p)
      <4>1. /\ Row(t.next, schema[t.next]) \in rows
            /\ Row(t.next, schema[t.next]).version = t.next
        BY <2>3, <3>2 DEF Row
      <4>2. QED
        BY <2>1, <4>1 DEF Recorded, Retained
    <3>3. QED
      BY <3>1, <3>2
  <2>6. ASSUME Recorded(p) PROVE Differs(p) <=> t.catalog[t.next] # schema[t.next]
    BY <2>1, <2>2, <2>3, <2>5, <2>6 DEF Differs, Expected, Retained, Row
  <2>7. QED
    BY <1>2, <1>3, <2>5, <2>6 DEF Pending, Expected
<1>4. QED
  BY <1>1, <1>2, <1>3

LEMMA SkipKeeps ==
    ASSUME MigrationInv, NEW p \in Procs, Skip(p)
    PROVE  MigrationInv'
<1> DEFINE t == transaction[p]
           u == [t EXCEPT !.next = @ + 1]
<1>1. /\ pc[p] = "migrate" /\ Goto(p, "migrate") /\ migrator' = migrator /\ UNCHANGED databaseVars
      /\ Pending(p) /\ Recorded(p) /\ ~Differs(p)
  BY DEF Skip, Steps, At
<1>2. /\ t \in Transactions /\ t.next \in Nat \ {0} /\ Len(schema) \in Nat
      /\ DOMAIN schema = 1..Len(schema)
  BY TransactionTyped
<1>3. /\ t.catalog \in Catalogs /\ Agrees(t) /\ migrator = p
      /\ t.next \in DOMAIN schema /\ t.catalog[t.next] = schema[t.next]
      /\ DOMAIN t.catalog = 1..Len(t.catalog) /\ Len(t.catalog) \in Nat
  BY <1>1, InLoop
<1>4. u \in Transactions /\ transaction' = [transaction EXCEPT ![p] = u]
  BY <1>2 DEF Transactions, Skip
<1>5. /\ u.catalog = t.catalog /\ u.next = t.next + 1 /\ u.read = t.read
      /\ u.executed = t.executed /\ u.inserted = t.inserted
  BY <1>2 DEF Transactions
<1> HIDE DEF u
<1>6. Agrees(u)
  <2>1. t.next <= Len(schema) /\ t.next \in 1..Len(t.catalog)
    BY <1>1, <1>2, <1>3 DEF Pending
  <2>2. \A v \in DOMAIN schema : v < u.next => u.catalog[v] = schema[v]
    BY <1>2, <1>3, <1>5 DEF Agrees
  <2>3. u.executed = SubSeq(u.catalog, Len(schema) + 1, u.next - 1)
    <3>1. SubSeq(t.catalog, Len(schema) + 1, t.next - 1) = <<>>
      BY <1>2, <2>1, SubSeqEmpty
    <3>2. SubSeq(u.catalog, Len(schema) + 1, u.next - 1) = <<>>
      BY <1>2, <1>5, <2>1, SubSeqEmpty
    <3>3. QED
      BY <1>3, <1>5, <3>1, <3>2 DEF Agrees
  <2>4. u.inserted = {Row(v, u.catalog[v]) : v \in Len(schema) + 1 .. u.next - 1}
    <3>1. /\ Len(schema) + 1 .. t.next - 1 = {}
          /\ Len(schema) + 1 .. u.next - 1 = {}
      BY <1>2, <1>5, <2>1
    <3>2. QED
      BY <1>3, <1>5, <3>1 DEF Agrees
  <2>5. u.next <= Len(u.catalog) + 1
    BY <1>2, <1>3, <1>5, <2>1
  <2>6. u.read = rows
    BY <1>3, <1>5 DEF Agrees
  <2>7. QED
    BY <2>2, <2>3, <2>4, <2>5, <2>6 DEF Agrees
<1>7. "migrate" \in {"idle"} \cup MigrationLabels /\ "migrate" \notin {"lock", "read"}
  BY DEF MigrationLabels
<1>8. \A q \in Procs \ {p} : migrator' = q <=> migrator = q
  BY <1>1
<1> HIDE DEF t
<1>9. QED
  BY <1>1, <1>3, <1>4, <1>5, <1>6, <1>7, <1>8, OwnStep

LEMMA ExecuteKeeps ==
    ASSUME MigrationInv, NEW p \in Procs, Execute(p)
    PROVE  MigrationInv'
<1> DEFINE t == transaction[p]
           u == [t EXCEPT !.next = @ + 1, !.executed = Append(@, Expected(p).bytes),
                          !.inserted = @ \cup {Expected(p)}]
<1>1. /\ pc[p] = "migrate" /\ Goto(p, "migrate") /\ migrator' = migrator /\ UNCHANGED databaseVars
      /\ Pending(p) /\ ~Recorded(p)
  BY DEF Execute, Steps, At, HeldBack
<1>2. /\ t \in Transactions /\ t.next \in Nat \ {0} /\ Len(schema) \in Nat
      /\ DOMAIN schema = 1..Len(schema)
  BY TransactionTyped
<1>3. /\ t.catalog \in Catalogs /\ Agrees(t) /\ migrator = p
      /\ t.next \notin DOMAIN schema /\ t.catalog \in Seq(Bytes)
      /\ t.catalog[t.next] \in Bytes /\ Expected(p) \in AllRows
      /\ DOMAIN t.catalog = 1..Len(t.catalog) /\ Len(t.catalog) \in Nat
  BY <1>1, InLoop
<1>4. Expected(p) = Row(t.next, t.catalog[t.next]) /\ Expected(p).bytes = t.catalog[t.next]
  BY DEF Expected, Row
<1>5. u \in Transactions /\ transaction' = [transaction EXCEPT ![p] = u]
  <2>1. Append(t.executed, Expected(p).bytes) \in Seq(Bytes)
    BY <1>2, <1>3, <1>4, AppendProperties DEF Transactions
  <2>2. t.next + 1 \in Nat \ {0} /\ t.inserted \cup {Expected(p)} \in SUBSET AllRows
    BY <1>2, <1>3 DEF Transactions
  <2>3. u \in Transactions
    BY <1>2, <2>1, <2>2 DEF Transactions
  <2>4. QED
    BY <2>3 DEF Execute
<1>6. /\ u.catalog = t.catalog /\ u.next = t.next + 1 /\ u.read = t.read
      /\ u.executed = Append(t.executed, t.catalog[t.next])
      /\ u.inserted = t.inserted \cup {Row(t.next, t.catalog[t.next])}
  BY <1>2, <1>4 DEF Transactions
<1> HIDE DEF u
<1>7. Agrees(u)
  <2>1. t.next > Len(schema) /\ t.next \in 1..Len(t.catalog)
    BY <1>1, <1>2, <1>3 DEF Pending
  <2>2. \A v \in DOMAIN schema : v < u.next => u.catalog[v] = schema[v]
    <3>1. \A v \in DOMAIN schema : v < t.next
      BY <1>2, <2>1
    <3>2. QED
      BY <1>3, <1>6, <3>1 DEF Agrees
  <2>3. u.executed = SubSeq(u.catalog, Len(schema) + 1, u.next - 1)
    <3>1. /\ Len(schema) + 1 \in 1..Len(t.catalog) /\ t.next \in Len(schema) + 1 .. Len(t.catalog)
          /\ u.next - 1 = t.next
      BY <1>2, <1>3, <1>6, <2>1
    <3>2. SubSeq(t.catalog, Len(schema) + 1, t.next)
              = SubSeq(t.catalog, Len(schema) + 1, t.next - 1) \o << t.catalog[t.next] >>
      BY <1>3, <3>1, SubSeqRecursiveSecond
    <3>3. t.executed \in Seq(Bytes)
      BY <1>2 DEF Transactions
    <3>4. Append(t.executed, t.catalog[t.next]) = t.executed \o << t.catalog[t.next] >>
      BY <1>3, <3>3, AppendIsConcat
    <3>5. QED
      BY <1>3, <1>6, <3>1, <3>2, <3>4 DEF Agrees
  <2>4. u.inserted = {Row(v, u.catalog[v]) : v \in Len(schema) + 1 .. u.next - 1}
    <3>1. Len(schema) + 1 .. u.next - 1 = (Len(schema) + 1 .. t.next - 1) \cup {t.next}
      BY <1>2, <1>6, <2>1
    <3>2. t.inserted = {Row(v, t.catalog[v]) : v \in Len(schema) + 1 .. t.next - 1}
      BY <1>3 DEF Agrees
    <3>3. QED
      BY <1>6, <3>1, <3>2
  <2>5. u.next <= Len(u.catalog) + 1
    BY <1>2, <1>3, <1>6, <2>1
  <2>6. u.read = rows
    BY <1>3, <1>6 DEF Agrees
  <2>7. QED
    BY <2>2, <2>3, <2>4, <2>5, <2>6 DEF Agrees
<1>8. "migrate" \in {"idle"} \cup MigrationLabels /\ "migrate" \notin {"lock", "read"}
  BY DEF MigrationLabels
<1>9. \A q \in Procs \ {p} : migrator' = q <=> migrator = q
  BY <1>1
<1> HIDE DEF t
<1>10. QED
  BY <1>1, <1>3, <1>5, <1>6, <1>7, <1>8, <1>9, OwnStep

(* A transaction that has come to the end of its catalog commits exactly   *)
(* that catalog, or the longer schema that it has found.                   *)
LEMMA CommitCompletes ==
    ASSUME MigrationInv, NEW p \in Procs, pc[p] = "migrate", ~Pending(p), Committed(p)
    PROVE  /\ schema' \in Catalogs \cup {<<>>} /\ rows' = RowsOf(schema')
           /\ RowsOf(transaction[p].catalog) \subseteq rows' /\ rows \subseteq rows'
<1> DEFINE t == transaction[p]
<1>1. /\ t \in Transactions /\ t.next \in Nat \ {0} /\ schema \in Seq(Bytes)
      /\ Len(schema) \in Nat /\ DOMAIN schema = 1..Len(schema)
      /\ schema \in Catalogs \cup {<<>>} /\ rows = RowsOf(schema)
  BY TransactionTyped DEF MigrationInv
<1>2. /\ t.catalog \in Catalogs /\ Agrees(t) /\ t.catalog \in Seq(Bytes)
      /\ DOMAIN t.catalog = 1..Len(t.catalog) /\ Len(t.catalog) \in Nat
  BY InLoop
<1>3. t.next = Len(t.catalog) + 1
  <2>1. t.next <= Len(t.catalog) + 1
    BY <1>2 DEF Agrees
  <2>2. t.next \notin 1..Len(t.catalog)
    BY <1>2 DEF Pending
  <2>3. QED
    BY <1>1, <1>2, <2>1, <2>2
<1>4. /\ t.executed = SubSeq(t.catalog, Len(schema) + 1, Len(t.catalog))
      /\ t.inserted = {Row(v, t.catalog[v]) : v \in Len(schema) + 1 .. Len(t.catalog)}
      /\ \A v \in DOMAIN schema : v <= Len(t.catalog) => t.catalog[v] = schema[v]
  <2>1. t.next - 1 = Len(t.catalog) /\ \A v \in 1..Len(schema) : v < t.next <=> v <= Len(t.catalog)
    BY <1>1, <1>2, <1>3
  <2>2. QED
    BY <1>1, <1>2, <2>1 DEF Agrees
<1>5. schema' = schema \o t.executed /\ rows' = rows \cup t.inserted
  BY DEF Committed
<1> HIDE DEF t
<1>6. CASE Len(schema) <= Len(t.catalog)
  <2>1. \A v \in 1..Len(schema) : t.catalog[v] = schema[v]
    BY <1>1, <1>2, <1>4, <1>6
  <2>2. schema \o SubSeq(t.catalog, Len(schema) + 1, Len(t.catalog)) = t.catalog
    BY <1>1, <1>2, <1>6, <2>1, SchemaCompleted
  <2>3. schema' = t.catalog
    BY <1>4, <1>5, <2>2
  <2>4. 1..Len(t.catalog) = (1..Len(schema)) \cup (Len(schema) + 1 .. Len(t.catalog))
    BY <1>1, <1>2, <1>6
  <2>5. RowsOf(t.catalog) = RowsOf(schema) \cup t.inserted
    <3>1. RowsOf(t.catalog) = {Row(v, t.catalog[v]) :
              v \in (1..Len(schema)) \cup (Len(schema) + 1 .. Len(t.catalog))}
      BY <1>2, <2>4 DEF RowsOf
    <3>2. RowsOf(schema) = {Row(v, t.catalog[v]) : v \in 1..Len(schema)}
      BY <1>1, <2>1 DEF RowsOf
    <3>3. t.inserted = {Row(v, t.catalog[v]) : v \in Len(schema) + 1 .. Len(t.catalog)}
      BY <1>4
    <3> DEFINE S == 1..Len(schema)
               T == Len(schema) + 1 .. Len(t.catalog)
    <3> HIDE DEF S, T
    <3>4. {Row(v, t.catalog[v]) : v \in S \cup T} =
              {Row(v, t.catalog[v]) : v \in S} \cup {Row(v, t.catalog[v]) : v \in T}
      OBVIOUS
    <3>5. QED
      BY <3>1, <3>2, <3>3, <3>4 DEF S, T
  <2>6. QED
    BY <1>1, <1>2, <1>5, <2>3, <2>5 DEF t
<1>7. CASE Len(schema) > Len(t.catalog)
  <2>1. t.executed = <<>>
    BY <1>1, <1>2, <1>4, <1>7, SubSeqEmpty
  <2>2. t.inserted = {}
    <3>1. Len(schema) + 1 .. Len(t.catalog) = {}
      BY <1>1, <1>2, <1>7
    <3>2. QED
      BY <1>4, <3>1
  <2>3. schema' = schema /\ rows' = rows
    BY <1>1, <1>5, <2>1, <2>2, ConcatEmptySeq
  <2>4. RowsOf(t.catalog) \subseteq RowsOf(schema)
    <3>1. 1..Len(t.catalog) \subseteq 1..Len(schema)
      BY <1>1, <1>2, <1>7
    <3>2. \A v \in 1..Len(t.catalog) : t.catalog[v] = schema[v]
      BY <1>1, <1>2, <1>4, <3>1
    <3>3. QED
      BY <1>1, <1>2, <3>1, <3>2 DEF RowsOf
  <2>5. QED
    BY <1>1, <2>3, <2>4 DEF t
<1>8. QED
  BY <1>1, <1>2, <1>6, <1>7

LEMMA CommitKeeps ==
    ASSUME MigrationInv, NEW p \in Procs, pc[p] = "migrate", ~Pending(p), Committed(p),
           NEW answer, Ends(p, answer), Goto(p, "idle")
    PROVE  MigrationInv'
<1>1. schema' \in Catalogs \cup {<<>>} /\ rows' = RowsOf(schema')
  BY CommitCompletes
<1>2. migrator = p /\ migrator' = Free
  BY InLoop DEF Ends, LockAfter
<1>3. NoTransaction \in Transactions
  BY DEF NoTransaction, NewTransaction, Transactions
<1>4. /\ pc' \in [Procs -> {"idle"} \cup MigrationLabels \cup ObjectLabels]
      /\ transaction' \in [Procs -> Transactions]
      /\ pc'[p] = "idle"
      /\ \A q \in Procs \ {p} : pc'[q] = pc[q] /\ transaction'[q] = transaction[q]
  BY <1>3 DEF MigrationInv, Goto, Ends
<1>5. ASSUME NEW q \in Procs
      PROVE  /\ ~Holds(q)' /\ migrator' # q
             /\ pc'[q] \in MigrationLabels => transaction'[q].catalog \in Catalogs
             /\ pc'[q] \in {"lock", "read"} => Fresh(transaction'[q])
             /\ pc'[q] # "migrate"
  <2>1. CASE q = p
    BY <1>2, <1>4, <2>1, CatalogAssumption DEF Holds, MigrationLabels
  <2>2. CASE q # p
    BY <1>2, <1>4, <2>2, CatalogAssumption DEF MigrationInv, Holds
  <2>3. QED
    BY <2>1, <2>2
<1>6. QED
  BY <1>1, <1>4, <1>5 DEF MigrationInv, Fresh

-----------------------------------------------------------------------------
(* Every step.                                                             *)

LEMMA StepKeeps ==
    ASSUME MigrationInv, [Next]_vars
    PROVE  MigrationInv'
<1> USE DEF Steps, Faulty, At
<1>1. ASSUME NEW p \in Procs, ApplyStep(p) PROVE MigrationInv'
  <2>1. CASE LockMigrations(p) BY <2>1, LockKeeps
  <2>2. CASE ReadApplied(p) BY <2>2, ReadKeeps
  <2>3. CASE Skip(p) BY <2>3, SkipKeeps
  <2>4. CASE Execute(p) BY <2>4, ExecuteKeeps
  <2>5. CASE Refuse(p) BY <2>5, EndsKeeps DEF Refuse
  <2>6. CASE Commit(p) BY <2>6, CommitKeeps DEF Commit
  <2>7. QED
    BY <1>1, <2>1, <2>2, <2>3, <2>4, <2>5, <2>6 DEF ApplyStep
<1>2. ASSUME NEW p \in Procs, NEW c \in Catalogs, BeginApply(p, c) PROVE MigrationInv'
  BY <1>2, BeginKeeps
<1>3. ASSUME NEW p \in Procs, CommitUnanswered(p) PROVE MigrationInv'
  BY <1>3, CommitKeeps DEF CommitUnanswered
<1>4. ASSUME NEW p \in Procs, Abort(p) PROVE MigrationInv'
  BY <1>4, EndsKeeps DEF Abort
<1>5. CASE MigrationNext
  BY <1>1, <1>2, <1>3, <1>4, <1>5 DEF MigrationNext
<1>6. CASE ObjectNext /\ UNCHANGED migrationVars
  BY <1>6, ObjectMoves, OthersKeep
<1>7. CASE QueueNext /\ UNCHANGED migrationVars
  BY <1>7, QueueMoves, OthersKeep
<1>8. CASE UNCHANGED vars
  BY <1>8, OthersKeep DEF vars, clientVars, MovesOutside
<1>9. QED
  BY <1>5, <1>6, <1>7, <1>8 DEF Next

LEMMA MigrationInvariant == Spec => []MigrationInv
<1>1. MigrationInv /\ [Next]_vars => MigrationInv'
  BY StepKeeps
<1>2. QED
  BY InvInit, <1>1, PTL DEF Spec

(* DatabaseIsACatalog: whatever the clients' catalogs, and however their    *)
(* applies interleave, conflict, die or lose an answer, what is committed  *)
(* is one whole catalog, executed once and recorded as executed.           *)
THEOREM CommittedWhole == Spec => []DatabaseIsACatalog
<1>1. MigrationInv => DatabaseIsACatalog
  BY DEF MigrationInv, DatabaseIsACatalog
<1>2. QED
  BY <1>1, MigrationInvariant, PTL

-----------------------------------------------------------------------------
(* What an apply answers.                                                  *)

Contradicted(c) == \E r \in rows : r.version \in DOMAIN c /\ c[r.version] # r.bytes

(* A client that does not find its migration applied meets no conflict: it *)
(* has read what is committed, and no other client can commit.             *)
LEMMA NoConflict ==
    ASSUME MigrationInv, NEW p \in Procs, pc[p] = "migrate", Pending(p), ~Recorded(p)
    PROVE  ~Conflicts(p)
<1> DEFINE t == transaction[p]
<1>1. /\ t.next \in Nat \ {0} /\ Len(schema) \in Nat /\ DOMAIN schema = 1..Len(schema)
      /\ \A r \in rows : r.version \in DOMAIN schema /\ r.bytes = schema[r.version]
  BY TransactionTyped
<1>2. /\ IsInjective(t.catalog) /\ Agrees(t) /\ t.next \notin DOMAIN schema
      /\ t.next \in DOMAIN t.catalog /\ DOMAIN t.catalog = 1..Len(t.catalog)
      /\ Len(t.catalog) \in Nat
  BY InLoop DEF Pending
<1>3. Expected(p).version = t.next /\ Expected(p).bytes = t.catalog[t.next]
  BY DEF Expected, Row
<1>4. ASSUME NEW v \in DOMAIN schema PROVE schema[v] # t.catalog[t.next]
  <2>1. v < t.next
    BY <1>1, <1>2
  <2>2. v \in DOMAIN t.catalog
    BY <1>1, <1>2, <2>1
  <2>3. t.catalog[v] = schema[v]
    BY <1>2, <2>1 DEF Agrees
  <2>4. QED
    BY <1>2, <2>1, <2>2, <2>3, <1>1 DEF IsInjective
<1>5. t.catalog[t.next] \notin Range(schema)
  BY <1>4 DEF Range
<1>6. QED
  BY <1>1, <1>2, <1>3, <1>4, <1>5 DEF Conflicts

LEMMA RefusalHasReason ==
    ASSUME MigrationInv, NEW p \in Procs, Refuse(p)
    PROVE  Contradicted(transaction[p].catalog)
<1> DEFINE t == transaction[p]
<1>1. pc[p] = "migrate" /\ Pending(p) /\ IF Recorded(p) THEN Differs(p) ELSE Conflicts(p)
  BY DEF Refuse, At
<1>2. Recorded(p) /\ Differs(p)
  BY <1>1, NoConflict
<1>3. t.next \in DOMAIN schema /\ t.catalog[t.next] # schema[t.next]
  BY <1>1, <1>2, InLoop
<1>4. Row(t.next, schema[t.next]) \in rows
  BY <1>3, TransactionTyped
<1>5. QED
  BY <1>1, <1>3, <1>4 DEF Contradicted, Pending, Row

(* A step keeps the rows, and what it answers has its reason. *)
Answers ==
    /\ rows \subseteq rows'
    /\ \A a \in applies' \ applies :
          /\ a.answer = "valid" => RowsOf(a.catalog) \subseteq rows'
          /\ a.answer = "refused" => Contradicted(a.catalog)

LEMMA StepAnswers ==
    ASSUME MigrationInv, [Next]_vars
    PROVE  Answers
<1> USE DEF Answers
<1>1. ASSUME UNCHANGED <<databaseVars, applies>> PROVE Answers
  BY <1>1 DEF databaseVars
<1>2. ASSUME NEW p \in Procs, Ends(p, "lost"), rows \subseteq rows' PROVE Answers
  BY <1>2 DEF Ends
<1>3. ASSUME NEW p \in Procs, Refuse(p) PROVE Answers
  <2>1. Contradicted(transaction[p].catalog)
    BY <1>3, RefusalHasReason
  <2>2. rows' = rows /\ Ends(p, "refused")
    BY <1>3 DEF Refuse, databaseVars
  <2>3. \A a \in applies' \ applies :
            a.answer = "refused" /\ a.catalog = transaction[p].catalog
    BY <2>2 DEF Ends
  <2>4. QED
    BY <2>1, <2>2, <2>3
<1>4. ASSUME NEW p \in Procs, Commit(p) PROVE Answers
  <2>1. RowsOf(transaction[p].catalog) \subseteq rows' /\ rows \subseteq rows'
    BY <1>4, CommitCompletes DEF Commit, At
  <2>2. QED
    BY <1>4, <2>1 DEF Commit, Ends
<1>5. ASSUME NEW p \in Procs, CommitUnanswered(p) PROVE Answers
  BY <1>2, <1>5 DEF CommitUnanswered, Committed
<1>6. ASSUME NEW p \in Procs, Abort(p) PROVE Answers
  BY <1>2, <1>6 DEF Abort, databaseVars
<1>7. ASSUME NEW p \in Procs, LockMigrations(p) \/ ReadApplied(p) \/ Skip(p) \/ Execute(p)
      PROVE  Answers
  BY <1>1, <1>7 DEF LockMigrations, ReadApplied, Skip, Execute, HeldBack, databaseVars
<1>8. ASSUME NEW p \in Procs, NEW c \in Catalogs, BeginApply(p, c) PROVE Answers
  BY <1>1, <1>8 DEF BeginApply, databaseVars
<1>9. ASSUME UNCHANGED migrationVars PROVE Answers
  BY <1>1, <1>9 DEF migrationVars
<1>10. ASSUME NEW p \in Procs, ApplyStep(p) PROVE Answers
  BY <1>3, <1>4, <1>7, <1>10 DEF ApplyStep
<1>11. CASE MigrationNext
  <2>1. PICK p \in Procs : \/ \E c \in Catalogs : BeginApply(p, c)
                          \/ ApplyStep(p) \/ CommitUnanswered(p) \/ Abort(p)
    BY <1>11 DEF MigrationNext
  <2>2. CASE \E c \in Catalogs : BeginApply(p, c)
    BY <1>8, <2>2
  <2>3. CASE ApplyStep(p)
    BY <1>10, <2>3
  <2>4. CASE CommitUnanswered(p) \/ Abort(p)
    BY <1>5, <1>6, <2>4
  <2>5. QED
    BY <2>1, <2>2, <2>3, <2>4
<1>12. MigrationNext \/ UNCHANGED migrationVars
  BY DEF vars, Next
<1>13. QED
  BY <1>9, <1>11, <1>12

(* ValidMeansInstalled: what an apply has answered "valid" for stays        *)
(* installed, whoever migrates afterwards and with which catalog.          *)
THEOREM ValidLasts == Spec => []ValidMeansInstalled
<1>1. Init => ValidMeansInstalled
  BY DEF Init, MigrationInit, ValidMeansInstalled
<1>2. MigrationInv /\ ValidMeansInstalled /\ [Next]_vars => ValidMeansInstalled'
  <2>1. SUFFICES ASSUME MigrationInv, ValidMeansInstalled, [Next]_vars,
                        NEW a \in applies', a.answer = "valid"
                 PROVE  RowsOf(a.catalog) \subseteq rows'
    BY DEF ValidMeansInstalled, RowsOf
  <2>2. QED
    BY <2>1, StepAnswers DEF Answers, ValidMeansInstalled
<1>3. QED
  BY <1>1, <1>2, MigrationInvariant, PTL DEF Spec

(* RefusedOnlyForOtherBytes: an apply refuses only a catalog that           *)
(* contradicts what is applied; being second, or meeting another apply at   *)
(* any step, is never a reason.                                            *)
THEOREM RefusedForCause == Spec => []RefusedOnlyForOtherBytes
<1>1. Init => RefusedOnlyForOtherBytes
  BY DEF Init, MigrationInit, RefusedOnlyForOtherBytes
<1>2. MigrationInv /\ RefusedOnlyForOtherBytes /\ [Next]_vars => RefusedOnlyForOtherBytes'
  <2>1. SUFFICES ASSUME MigrationInv, RefusedOnlyForOtherBytes, [Next]_vars,
                        NEW a \in applies', a.answer = "refused"
                 PROVE  \E r \in rows' : r.version \in DOMAIN a.catalog
                                         /\ a.catalog[r.version] # r.bytes
    BY DEF RefusedOnlyForOtherBytes
  <2>2. \E r \in rows : r.version \in DOMAIN a.catalog /\ a.catalog[r.version] # r.bytes
    BY <2>1, StepAnswers DEF Answers, RefusedOnlyForOtherBytes, Contradicted
  <2>3. QED
    BY <2>1, <2>2, StepAnswers DEF Answers
<1>3. QED
  BY <1>1, <1>2, MigrationInvariant, PTL DEF Spec

-----------------------------------------------------------------------------
(* The clients, and the queue.                                             *)

Labelled == pc \in [Procs -> {"idle"} \cup MigrationLabels \cup ObjectLabels]

LEMMA AlwaysLabelled == Spec => []Labelled
<1>1. MigrationInv => Labelled
  BY DEF MigrationInv, Labelled
<1>2. QED
  BY <1>1, MigrationInvariant, PTL

-----------------------------------------------------------------------------
(* The queue: an item that was stored is there until its lifetime ends.    *)

QueueInv ==
    /\ now \in Nat /\ \A key \in DOMAIN queue : queue[key] \in Nat
    /\ \A a \in answers : /\ a.at \in Nat /\ a.until \in Nat /\ a.at <= now /\ a.at < a.until
                          /\ a.told = "stored" /\ now < a.until =>
                                 a.item \in DOMAIN queue /\ a.until <= queue[a.item]

LEMMA SetKeeps ==
    ASSUME QueueInv, NEW key, NEW ttl \in 1..MaxTTL
    PROVE  /\ \A k \in DOMAIN queue : k \in DOMAIN Set(key, ttl) /\ Set(key, ttl)[k] = queue[k]
           /\ key \in DOMAIN Set(key, ttl)
           /\ Stores(key) => Set(key, ttl)[key] = now + ttl
           /\ \A k \in DOMAIN Set(key, ttl) : Set(key, ttl)[k] \in Nat
BY QueueAssumption DEF Set, Stores, QueueInv

LEMMA QueueStep ==
    ASSUME QueueInv, StoredOncePerLifetime, [Next]_vars
    PROVE  QueueInv' /\ StoredOncePerLifetime'
<1>1. CASE UNCHANGED queueVars
  BY <1>1 DEF queueVars, QueueInv, StoredOncePerLifetime
<1>2. ASSUME NEW p \in Procs, NEW item \in Items, NEW ttl \in 1..MaxTTL, Enqueue(p, item, ttl)
      PROVE  QueueInv' /\ StoredOncePerLifetime'
  <2> DEFINE a == [item |-> item, at |-> now, until |-> now + ttl,
                   told |-> IF Stores(item) THEN "stored" ELSE "refused"]
  <2>1. /\ answers' = answers \cup {a} /\ queue' = Set(item, ttl) /\ now' = now
        /\ now \in Nat /\ ttl \in Nat \ {0}
    BY <1>2, QueueAssumption DEF Enqueue, Answer, ItemKey, QueueInv
  <2>2. /\ a.item = item /\ a.at = now /\ a.until = now + ttl
        /\ a.told = "stored" => Stores(item)
    OBVIOUS
  <2> HIDE DEF a
  <2>3. QueueInv'
    <3>1. \A key \in DOMAIN queue' : queue'[key] \in Nat
      BY <2>1, SetKeeps
    <3>2. ASSUME NEW b \in answers', b # a
          PROVE  /\ b.at \in Nat /\ b.until \in Nat /\ b.at <= now' /\ b.at < b.until
                 /\ b.told = "stored" /\ now' < b.until =>
                        b.item \in DOMAIN queue' /\ b.until <= queue'[b.item]
      BY <2>1, <3>2, SetKeeps DEF QueueInv
    <3>3. /\ a.at \in Nat /\ a.until \in Nat /\ a.at <= now' /\ a.at < a.until
          /\ a.told = "stored" /\ now' < a.until =>
                 a.item \in DOMAIN queue' /\ a.until <= queue'[a.item]
      <4>1. a.told = "stored" => a.item \in DOMAIN queue' /\ queue'[a.item] = a.until
        BY <2>1, <2>2, SetKeeps
      <4>2. a.until \in Nat /\ a.at < a.until
        BY <2>1, <2>2
      <4>3. QED
        BY <2>1, <2>2, <4>1, <4>2
    <3>4. QED
      BY <2>1, <3>1, <3>2, <3>3 DEF QueueInv
  <2>4. ASSUME NEW b \in answers, b.item = item, b.told = "stored", a.told = "stored"
        PROVE  b.until <= now /\ b.at < now
    BY <2>1, <2>2, <2>4 DEF QueueInv, Stores
  <2>5. StoredOncePerLifetime'
    BY <2>1, <2>2, <2>4 DEF StoredOncePerLifetime, QueueInv
  <2>6. QED
    BY <2>3, <2>5
<1>3. ASSUME NEW p \in Procs, NEW item \in Items, NEW ttl \in 1..MaxTTL,
             EnqueueUnanswered(p, item, ttl)
      PROVE  QueueInv' /\ StoredOncePerLifetime'
  <2>1. answers' = answers /\ now' = now /\ (queue' = queue \/ queue' = Set(item, ttl))
    BY <1>3 DEF EnqueueUnanswered, ItemKey
  <2>2. \A k \in DOMAIN queue : k \in DOMAIN queue' /\ queue'[k] = queue[k]
    BY <2>1, SetKeeps
  <2>3. \A k \in DOMAIN queue' : queue'[k] \in Nat
    BY <2>1, SetKeeps DEF QueueInv
  <2>4. QED
    BY <2>1, <2>2, <2>3 DEF QueueInv, StoredOncePerLifetime
<1>4. CASE Tick
  <2>1. /\ answers' = answers /\ now' = now + 1
        /\ DOMAIN queue' = {k \in DOMAIN queue : queue[k] > now + 1}
        /\ \A k \in DOMAIN queue' : queue'[k] = queue[k]
    BY <1>4 DEF Tick, Restrict
  <2>2. ASSUME NEW b \in answers', b.told = "stored", now' < b.until
        PROVE  b.item \in DOMAIN queue' /\ b.until <= queue'[b.item]
    BY <2>1, <2>2 DEF QueueInv
  <2>3. QueueInv'
    BY <2>1, <2>2 DEF QueueInv
  <2>4. StoredOncePerLifetime'
    BY <2>1 DEF StoredOncePerLifetime
  <2>5. QED
    BY <2>3, <2>4
<1>5. QED
  BY <1>1, <1>2, <1>3, <1>4 DEF Next, QueueNext, vars

(* StoredOncePerLifetime: of the callers that are told "stored" for one     *)
(* item, no two are told so within one lifetime, whatever answers are lost. *)
THEOREM AcceptedOnce == Spec => []StoredOncePerLifetime
<1>1. Init => QueueInv /\ StoredOncePerLifetime
  BY DEF Init, QueueInit, QueueInv, StoredOncePerLifetime
<1>2. QED
  BY <1>1, QueueStep, PTL DEF Spec

-----------------------------------------------------------------------------
(* The proof store, seen from one key: the place of each client in a put   *)
(* of that key, and what the files hold.                                   *)

PutLabels == S3Labels \cup ProofLabels
Stage(p, key) == IF pc[p] \in PutLabels /\ KeyOf(p) = key THEN pc[p] ELSE "away"
Named(key) == \E ref \in references : ref.key = key

Filed(key)     == Content(files, key)
Described(key) == Content(metadata, key)

KeyInv(key) == key \notin overlapped =>
    /\ \A p, q \in Procs : Stage(p, key) # "away" /\ Stage(q, key) # "away" => p = q
    /\ \A p \in Procs :
           Stage(p, key) \in {"compare", "describe", "finish"} => Filed(key) = Whole
    /\ Named(key) => /\ Filed(key) = Whole /\ Described(key) = Whole
                     /\ \A p \in Procs : Stage(p, key) \in {"away", "look", "compare"}
    /\ key \notin interrupted =>
           \/ Filed(key) = Absent
           \/ Filed(key) = Torn /\ \E p \in Procs : Stage(p, key) = "fill"
           \/ /\ Filed(key) = Whole
              /\ \/ Described(key) = Whole
                 \/ \E p \in Procs : Stage(p, key) \in {"describe", "finish"}

(* Nobody moves with respect to the key. *)
LEMMA KeyAlone ==
    ASSUME NEW key, KeyInv(key),
           \A q \in Procs : Stage(q, key)' = Stage(q, key),
           Filed(key)' = Filed(key), Described(key)' = Described(key),
           Named(key)' => Named(key),
           overlapped \subseteq overlapped', interrupted \subseteq interrupted'
    PROVE  KeyInv(key)'
BY DEF KeyInv

(* One client moves, in one of the ways in which put_immutable does. *)
Kept(key) == Filed(key)' = Filed(key) /\ Described(key)' = Described(key)

Entered(p, key) == /\ Stage(p, key) = "away" /\ Stage(p, key)' = "look" /\ Kept(key)
                   /\ Named(key)' => Named(key)
                   /\ key \in overlapped' \/ \A q \in Procs : Stage(q, key) = "away"
Looked(p, key) == /\ Stage(p, key) = "look" /\ Kept(key)
                  /\ Named(key)' => Named(key)
                  /\ \/ Filed(key) = Absent /\ Stage(p, key)' = "truncate"
                     \/ Filed(key) = Whole /\ Stage(p, key)' = "compare"
Filled(p, key) == /\ Named(key)' => Named(key)
                  /\ Described(key)' = Described(key)
                  /\ \/ Stage(p, key) = "truncate" /\ Stage(p, key)' = "fill" /\ Filed(key)' = Torn
                     \/ Stage(p, key) = "fill" /\ Stage(p, key)' = "describe" /\ Filed(key)' = Whole
Describes(p, key) == /\ Named(key)' => Named(key)
                     /\ Stage(p, key) = "describe" /\ Stage(p, key)' = "finish"
                     /\ Filed(key)' = Filed(key)
Returned(p, key) == /\ Stage(p, key)' = "away" /\ Filed(key)' = Filed(key)
                    /\ Described(key)' = Whole
                    /\ \/ Stage(p, key) = "finish"
                       \/ Stage(p, key) = "compare" /\ Described(key) = Whole
Gone(p, key) == /\ Stage(p, key)' = "away" /\ Kept(key)
                /\ Named(key)' => Named(key)
                /\ \/ Stage(p, key) \in {"look", "compare"}
                   \/ Stage(p, key) # "away" /\ key \in interrupted'

Moves(p, key) == \/ Entered(p, key) \/ Looked(p, key) \/ Filled(p, key) \/ Describes(p, key)
                 \/ Returned(p, key) \/ Gone(p, key)

LEMMA KeyMoves ==
    ASSUME NEW key, KeyInv(key), NEW p \in Procs, Moves(p, key),
           \A q \in Procs \ {p} : Stage(q, key)' = Stage(q, key),
           overlapped \subseteq overlapped', interrupted \subseteq interrupted'
    PROVE  KeyInv(key)'
<1> SUFFICES ASSUME key \notin overlapped' PROVE KeyInv(key)'
  BY DEF KeyInv
<1> USE DEF Whole, Torn, Absent, Kept
<1>1. /\ \A u, q \in Procs : Stage(u, key) # "away" /\ Stage(q, key) # "away" => u = q
      /\ \A q \in Procs :
             Stage(q, key) \in {"compare", "describe", "finish"} => Filed(key) = Whole
      /\ Named(key) => /\ Filed(key) = Whole /\ Described(key) = Whole
                       /\ \A q \in Procs : Stage(q, key) \in {"away", "look", "compare"}
  BY DEF KeyInv
<1>2. key \notin interrupted' =>
           \/ Filed(key) = Absent
           \/ Filed(key) = Torn /\ \E q \in Procs : Stage(q, key) = "fill"
           \/ /\ Filed(key) = Whole
              /\ \/ Described(key) = Whole
                 \/ \E q \in Procs : Stage(q, key) \in {"describe", "finish"}
  BY DEF KeyInv
<1>3. \A q \in Procs \ {p} : Stage(q, key) = "away" /\ Stage(q, key)' = "away"
  <2>1. CASE Entered(p, key)
    BY <2>1 DEF Entered
  <2>2. CASE Stage(p, key) # "away"
    BY <1>1, <2>2
  <2>3. QED
    BY <2>1, <2>2 DEF Moves, Looked, Filled, Describes, Returned, Gone
(* It is therefore enough to look at p. *)
<1>4. SUFFICES /\ Stage(p, key)' \in {"compare", "describe", "finish"} => Filed(key)' = Whole
               /\ Named(key)' => /\ Filed(key)' = Whole /\ Described(key)' = Whole
                                 /\ Stage(p, key)' \in {"away", "look", "compare"}
               /\ key \notin interrupted' =>
                      \/ Filed(key)' = Absent
                      \/ Filed(key)' = Torn /\ Stage(p, key)' = "fill"
                      \/ /\ Filed(key)' = Whole
                         /\ \/ Described(key)' = Whole
                            \/ Stage(p, key)' \in {"describe", "finish"}
  BY <1>3 DEF KeyInv
<1>5. key \notin interrupted' =>
          \/ Filed(key) = Absent
          \/ Filed(key) = Torn /\ Stage(p, key) = "fill"
          \/ /\ Filed(key) = Whole
             /\ Described(key) = Whole \/ Stage(p, key) \in {"describe", "finish"}
  BY <1>2, <1>3
<1>6. CASE Entered(p, key)
  BY <1>1, <1>5, <1>6 DEF Entered
<1>7. CASE Looked(p, key)
  BY <1>1, <1>5, <1>7 DEF Looked
<1>8. CASE Filled(p, key)
  BY <1>1, <1>5, <1>8 DEF Filled
<1>9. CASE Describes(p, key)
  BY <1>1, <1>5, <1>9 DEF Describes
<1>10. CASE Returned(p, key)
  BY <1>1, <1>5, <1>10 DEF Returned
<1>11. CASE Gone(p, key)
  BY <1>1, <1>5, <1>11 DEF Gone
<1>12. QED
  BY <1>6, <1>7, <1>8, <1>9, <1>10, <1>11 DEF Moves

-----------------------------------------------------------------------------
(* The clients and the bucket.                                             *)

IsJob(j) == j = [key |-> j.key, version |-> j.version, backup |-> j.backup]

(* A put of a manifest follows that of its backup. *)
JobOK(p) ==
    /\ IsJob(job[p])
    /\ pc[p] \in S3Labels => OnS3(KeyOf(p))
    /\ pc[p] \in ProofLabels => ~OnS3(KeyOf(p))
    /\ pc[p] = "restore" => job[p].backup \in references
    /\ pc[p] \in PutLabels /\ KeyOf(p).kind \notin {"report", "backup"} =>
           job[p].backup \in references /\ KeyOf(p).bytes[1] = job[p].backup
    /\ pc[p] = "verify" =>
           /\ job[p].version \in DOMAIN bucket /\ bucket[job[p].version].key = KeyOf(p)
           /\ bucket[job[p].version].bytes = KeyOf(p).bytes

JobsInv == DOMAIN job = Procs /\ \A p \in Procs : JobOK(p)

BucketInv ==
    /\ \E S : bucket \in Seq(S)
    /\ \A v \in DOMAIN bucket : /\ OnS3(bucket[v].key)
                                /\ bucket[v].bytes \in {bucket[v].key.bytes, Foreign}
    /\ \A ref \in references : OnS3(ref.key) => Restores(ref)

ManifestsInv == \A key \in Manifests : key.bytes[1] \in references

KeysInv == \A key : ~OnS3(key) => KeyInv(key)

ObjectInv == /\ JobsInv /\ BucketInv /\ ManifestsInv /\ KeysInv
             /\ RefusedOnlyAfterMishap

Others(p) == \A q \in Procs \ {p} : pc'[q] = pc[q] /\ job'[q] = job[q]

BucketGrew == /\ DOMAIN bucket \subseteq DOMAIN bucket'
              /\ \A v \in DOMAIN bucket : bucket'[v] = bucket[v]

LEMMA OthersFramed ==
    ASSUME JobsInv, NEW p \in Procs, Others(p), references \subseteq references', BucketGrew,
           DOMAIN job' = Procs, JobOK(p)'
    PROVE  /\ JobsInv'
           /\ \A key : \A q \in Procs \ {p} : Stage(q, key)' = Stage(q, key)
<1>1. ASSUME NEW q \in Procs, q # p PROVE JobOK(q)'
  <2>1. pc'[q] = pc[q] /\ job'[q] = job[q] /\ JobOK(q)
    BY <1>1 DEF Others, JobsInv
  <2>2. QED
    BY <2>1 DEF JobOK, IsJob, KeyOf, OnS3, BucketGrew
<1>2. QED
  BY <1>1 DEF JobsInv, Others, Stage, KeyOf

(* Labels of the store and of its stages. *)
LEMMA LabelsApart ==
    /\ S3Labels \cap ProofLabels = {} /\ "idle" \notin PutLabels /\ "restore" \notin PutLabels
    /\ "away" \notin PutLabels
BY DEF S3Labels, ProofLabels, PutLabels

LEMMA Raising ==
    ASSUME Labelled, JobsInv, NEW p \in Procs, NEW from, NEW key, Raises(p, from, key)
    PROVE  /\ pc[p] = from /\ Others(p) /\ DOMAIN job' = Procs /\ JobOK(p)'
           /\ \A k : Stage(p, k)' = "away"
           /\ refused' = refused \cup {key}
           /\ UNCHANGED <<stores, references, overlapped, interrupted>>
<1>1. /\ pc[p] = from /\ pc'[p] = "idle" /\ job'[p] = NoJob /\ DOMAIN job' = Procs /\ Others(p)
      /\ UNCHANGED <<stores, references, overlapped, interrupted>>
      /\ refused' = refused \cup {key}
  BY DEF Raises, Steps, At, Goto, Labelled, JobsInv, Others
<1>2. IsJob(NoJob)
  BY DEF IsJob, NoJob
<1>3. JobOK(p)'
  BY <1>1, <1>2, LabelsApart DEF JobOK, IsJob, PutLabels
<1>4. QED
  BY <1>1, <1>3, LabelsApart DEF Stage

LEMMA Advancing ==
    ASSUME Labelled, JobsInv, NEW p \in Procs, NEW from, NEW to, Advances(p, from, to),
           \/ from \in S3Labels /\ to \in S3Labels \ {"verify"}
           \/ from \in ProofLabels /\ to \in ProofLabels
    PROVE  /\ Others(p) /\ DOMAIN job' = Procs /\ JobOK(p)'
           /\ KeyOf(p)' = KeyOf(p) /\ pc[p] = from
           /\ \A k : Stage(p, k) = (IF k = KeyOf(p) THEN from ELSE "away")
           /\ \A k : Stage(p, k)' = (IF k = KeyOf(p) THEN to ELSE "away")
           /\ UNCHANGED <<references, overlapped, interrupted, refused>>
<1>1. /\ pc[p] = from /\ pc'[p] = to /\ job' = job /\ Others(p)
      /\ UNCHANGED <<references, overlapped, interrupted, refused>>
  BY DEF Advances, Steps, At, Goto, Labelled, Others
<1>2. JobOK(p) /\ DOMAIN job' = Procs
  BY <1>1 DEF JobsInv
<1>3. from \in PutLabels /\ to \in PutLabels /\ to # "restore" /\ to # "verify"
  BY DEF PutLabels, S3Labels, ProofLabels
<1>4. JobOK(p)'
  BY <1>1, <1>2, <1>3, LabelsApart DEF JobOK, IsJob, KeyOf, PutLabels
<1>5. QED
  BY <1>1, <1>2, <1>3, <1>4 DEF Stage, KeyOf

LEMMA Entering ==
    ASSUME NEW key
    PROVE  /\ Entry(key) \in {"head", "look"} /\ Entry(key) \in PutLabels
           /\ Entry(key) \in S3Labels <=> OnS3(key)
           /\ Entry(key) \in ProofLabels <=> ~OnS3(key)
           /\ ~OnS3(key) => Entry(key) = "look"
BY DEF Entry, PutLabels, S3Labels, ProofLabels

LEMMA NoOverlap ==
    ASSUME NEW key, NoteOverlap(key)
    PROVE  /\ overlapped \subseteq overlapped'
           /\ key \in overlapped' \/ \A q \in Procs : Stage(q, key) = "away"
BY DEF NoteOverlap, Busy, Stage, PutLabels

(* A put begins, of bytes that are not a foreign writer's. *)
Enters(p, key) == /\ Stage(p, key)' \in {"head", "look"} /\ key.bytes # Foreign
                  /\ key \in overlapped' \/ \A q \in Procs : Stage(q, key) = "away"

(* A returning put leaves its key, and may enter that of the manifest. *)
LEMMA Returning ==
    ASSUME Labelled, JobsInv, NEW p \in Procs, NEW from \in PutLabels, NEW ref,
           Returns(p, from, ref), ref.key = KeyOf(p)
    PROVE  /\ Others(p) /\ DOMAIN job' = Procs /\ JobOK(p)'
           /\ references' = references \cup {ref} /\ refused' = refused
           /\ interrupted' = interrupted /\ overlapped \subseteq overlapped'
           /\ Stage(p, KeyOf(p)) = from /\ pc[p] = from
           /\ \A k : k = ref.key => Stage(p, k)' = "away"
           /\ \A k : k # ref.key => Stage(p, k) = "away"
           /\ \A k : k # ref.key /\ ~OnS3(k) =>
                  \/ Stage(p, k)' = "away"
                  \/ /\ Stage(p, k)' = "look"
                     /\ k \in overlapped' \/ \A q \in Procs : Stage(q, k) = "away"
           /\ \A k : Stage(p, k)' = "away" \/ Enters(p, k)
<1>1. /\ pc[p] = from /\ references' = references \cup {ref} /\ refused' = refused
      /\ interrupted' = interrupted
  BY DEF Returns, At
<1>2. Stage(p, KeyOf(p)) = from /\ \A k : k # ref.key => Stage(p, k) = "away"
  BY <1>1 DEF Stage
<1>3. JobOK(p) /\ DOMAIN job = Procs
  BY DEF JobsInv
<1> USE DEF Steps, At, Goto, Labelled, Others
<1>4. CASE ref.key.kind = "report"
  <2>1. /\ pc'[p] = "idle" /\ job'[p] = NoJob /\ Others(p) /\ DOMAIN job' = Procs
        /\ overlapped' = overlapped
    BY <1>3, <1>4 DEF Returns
  <2>2. IsJob(NoJob)
    BY DEF IsJob, NoJob
  <2>3. JobOK(p)' /\ \A k : Stage(p, k)' = "away"
    BY <2>1, <2>2, LabelsApart DEF JobOK, IsJob, PutLabels, Stage
  <2>4. QED
    BY <1>1, <1>2, <2>1, <2>3
<1>5. CASE ref.key.kind = "backup"
  <2>1. PICK t \in Times :
            LET manifest == Key(ref.key.store, "recovery_manifest", <<ref, t>>)
            IN  /\ Steps(p, from, Entry(manifest))
                /\ job' = [job EXCEPT ![p] = [NoJob EXCEPT !.key = manifest, !.backup = ref]]
                /\ NoteOverlap(manifest)
    BY <1>5 DEF Returns
  <2> PICK manifest : manifest = Key(ref.key.store, "recovery_manifest", <<ref, t>>)
    OBVIOUS
  <2>2. /\ manifest.store = ref.key.store /\ manifest.kind = "recovery_manifest"
        /\ manifest.bytes[1] = ref /\ manifest # ref.key /\ manifest.bytes # Foreign
    <3>1. <<ref, t>> # <<>>
      OBVIOUS
    <3>2. QED
      BY <1>5, <3>1 DEF Key, Foreign
  <2> PICK j : j = [NoJob EXCEPT !.key = manifest, !.backup = ref]
    OBVIOUS
  <2>3. IsJob(j) /\ j.key = manifest /\ j.backup = ref
    BY DEF IsJob, NoJob
  <2>4. /\ pc'[p] = Entry(manifest) /\ job'[p] = j /\ Others(p) /\ DOMAIN job' = Procs
        /\ NoteOverlap(manifest)
    BY <1>3, <2>1
  <2>5. Entry(manifest) \in {"head", "look"} /\ Entry(manifest) \in PutLabels
    BY Entering
  <2>6. JobOK(p)'
    <3>1. pc'[p] \in S3Labels => OnS3(manifest)
      BY <2>4, Entering
    <3>2. pc'[p] \in ProofLabels => ~OnS3(manifest)
      BY <2>4, Entering
    <3>3. pc'[p] # "restore" /\ pc'[p] # "verify"
      BY <2>4, <2>5
    <3>4. ref \in references'
      BY <1>1
    <3>5. QED
      BY <2>2, <2>3, <2>4, <3>1, <3>2, <3>3, <3>4 DEF JobOK, IsJob, KeyOf, OnS3
  <2>7. /\ Stage(p, manifest)' = Entry(manifest)
        /\ \A k : k # manifest => Stage(p, k)' = "away"
    BY <2>3, <2>4, <2>5 DEF Stage, KeyOf
  <2>8. /\ overlapped \subseteq overlapped'
        /\ manifest \in overlapped' \/ \A q \in Procs : Stage(q, manifest) = "away"
    BY <2>4, NoOverlap
  <2>9. Enters(p, manifest)
    BY <2>2, <2>5, <2>7, <2>8 DEF Enters
  <2>10. QED
    BY <1>1, <1>2, <2>2, <2>4, <2>6, <2>7, <2>8, <2>9, Entering
<1>6. CASE ref.key.kind \notin {"report", "backup"}
  <2>1. /\ pc'[p] = "restore" /\ job' = job /\ overlapped' = overlapped /\ Others(p)
    BY <1>6 DEF Returns
  <2>2. JobOK(p)' /\ \A k : Stage(p, k)' = "away"
    BY <1>1, <1>3, <1>6, <2>1, LabelsApart DEF JobOK, IsJob, PutLabels, Stage, KeyOf
  <2>3. QED
    BY <1>1, <1>2, <1>3, <2>1, <2>2
<1>7. QED
  BY <1>4, <1>5, <1>6

-----------------------------------------------------------------------------
(* What a step has to show, and what it shows once for all.                *)

Still(p, key) == /\ Stage(p, key)' = Stage(p, key) /\ Kept(key)
                 /\ Named(key)' => Named(key)

Mishap(key) == IF OnS3(key) THEN Overwritten(key) ELSE key \in overlapped \cup interrupted

LEMMA Framed ==
    ASSUME ObjectInv, NEW p \in Procs, Others(p), DOMAIN job' = Procs, JobOK(p)',
           references \subseteq references', BucketGrew, BucketInv', ManifestsInv',
           overlapped \subseteq overlapped', interrupted \subseteq interrupted',
           \A key : ~OnS3(key) => Moves(p, key) \/ Still(p, key),
           \A key \in refused' : key \in refused \/ Mishap(key)
    PROVE  ObjectInv'
<1>1. JobsInv' /\ \A key : \A q \in Procs \ {p} : Stage(q, key)' = Stage(q, key)
  BY OthersFramed DEF ObjectInv
<1>2. ASSUME NEW key, ~OnS3(key) PROVE KeyInv(key)'
  <2>1. KeyInv(key)
    BY <1>2 DEF ObjectInv, KeysInv
  <2>2. CASE Moves(p, key)
    BY <1>1, <2>1, <2>2, KeyMoves
  <2>3. CASE Still(p, key)
    BY <1>1, <2>1, <2>3, KeyAlone DEF Still, Kept
  <2>4. QED
    BY <1>2, <2>2, <2>3
<1>3. ASSUME NEW key, OnS3(key), Overwritten(key) PROVE Overwritten(key)'
  BY <1>3 DEF Overwritten, VersionsOf, BucketGrew
<1>4. RefusedOnlyAfterMishap'
  <2> SUFFICES ASSUME NEW key \in refused'
               PROVE  IF OnS3(key) THEN Overwritten(key)'
                                   ELSE key \in overlapped' \cup interrupted'
    BY DEF RefusedOnlyAfterMishap, OnS3
  <2>1. Mishap(key)
    BY DEF ObjectInv, RefusedOnlyAfterMishap, Mishap
  <2>2. QED
    BY <1>3, <2>1 DEF Mishap
<1>5. KeysInv'
  BY <1>2 DEF KeysInv, OnS3
<1>6. QED
  BY <1>1, <1>4, <1>5 DEF ObjectInv

LEMMA Quiet ==
    ASSUME BucketInv, ManifestsInv, bucket' = bucket, files' = files, NEW ref,
           references' = references \cup {ref}, OnS3(ref.key) => Restores(ref)
    PROVE  BucketInv' /\ ManifestsInv' /\ BucketGrew /\ references \subseteq references'
<1>1. ASSUME NEW r, OnS3(r.key), Restores(r) PROVE Restores(r)'
  BY <1>1 DEF Restores, VersionsOf, OnS3
<1>2. \A r \in references' : OnS3(r.key) => Restores(r)'
  BY <1>1 DEF BucketInv
<1>3. BucketInv'
  BY <1>2 DEF BucketInv, OnS3
<1>4. QED
  BY <1>3 DEF ManifestsInv, Manifests, BucketGrew

LEMMA Grown ==
    ASSUME BucketInv, ManifestsInv, NEW key, NEW bytes, AddVersion(key, bytes), OnS3(key),
           bytes \in {key.bytes, Foreign}, references' = references,
           key.kind = "recovery_manifest" => key.bytes[1] \in references
    PROVE  /\ BucketInv' /\ ManifestsInv' /\ BucketGrew
           /\ Len(bucket) + 1 \in DOMAIN bucket'
           /\ bucket'[Len(bucket) + 1] = [key |-> key, bytes |-> bytes]
           /\ \A k : Kept(k)
<1> PICK v : v = [key |-> key, bytes |-> bytes]
  OBVIOUS
<1>1. PICK S : bucket \in Seq(S)
  BY DEF BucketInv
<1>2. bucket \in Seq(S \cup {v}) /\ v \in S \cup {v}
  BY <1>1, SeqMonotonic
<1>3. bucket' = Append(bucket, v)
  BY DEF AddVersion
<1>4. /\ bucket' \in Seq(S \cup {v}) /\ DOMAIN bucket' = DOMAIN bucket \cup {Len(bucket) + 1}
      /\ \A i \in DOMAIN bucket : bucket'[i] = bucket[i]
      /\ bucket'[Len(bucket) + 1] = v
  BY <1>2, <1>3
<1>5. BucketGrew
  BY <1>4 DEF BucketGrew
<1>6. \A i \in DOMAIN bucket' : (i \in DOMAIN bucket /\ bucket'[i] = bucket[i]) \/ bucket'[i] = v
  BY <1>4
<1>7. \A i \in DOMAIN bucket' : /\ OnS3(bucket'[i].key)
                               /\ bucket'[i].bytes \in {bucket'[i].key.bytes, Foreign}
  BY <1>6 DEF BucketInv
<1>8. ASSUME NEW r \in references, OnS3(r.key) PROVE Restores(r)'
  BY <1>5, <1>8 DEF BucketInv, Restores, VersionsOf, BucketGrew, OnS3
<1>9. \E T : bucket' \in Seq(T)
  BY <1>4
<1>10. BucketInv'
  BY <1>7, <1>8, <1>9 DEF BucketInv, OnS3
<1>11. ManifestsInv'
  BY <1>6 DEF ManifestsInv, Manifests, AddVersion
<1>12. QED
  BY <1>4, <1>5, <1>10, <1>11 DEF AddVersion, Kept, Filed, Described, Content

(* The version that head_object names is one of the key's. *)
LEMMA LatestIsAVersion ==
    ASSUME BucketInv, NEW key, VersionsOf(key) # {}
    PROVE  Latest(key) \in VersionsOf(key)
<1>1. PICK S : bucket \in Seq(S)
  BY DEF BucketInv
<1>2. VersionsOf(key) \subseteq 1..Len(bucket) /\ Len(bucket) \in Nat
  BY <1>1 DEF VersionsOf
<1> DEFINE Above == {n \in Nat : \A v \in VersionsOf(key) : v <= n}
<1>3. Len(bucket) \in Above
  BY <1>2
<1>4. PICK n \in Above : \A k \in Above : n <= k
  <2>1. Above \in SUBSET Nat /\ Above # {}
    BY <1>3
  <2>2. QED
    BY <2>1, LeastNatural
<1>5. n \in VersionsOf(key)
  <2> SUFFICES ASSUME n \notin VersionsOf(key) PROVE FALSE
    OBVIOUS
  <2>1. \A v \in VersionsOf(key) : v \in Nat /\ 1 <= v /\ v <= n /\ v # n
    BY <1>2, <1>4
  <2>2. n \in Nat /\ 1 <= n
    BY <1>4, <2>1
  <2>3. n - 1 \in Above
    BY <2>1, <2>2
  <2>4. QED
    BY <1>4, <2>2, <2>3
<1>6. \A u \in VersionsOf(key) : u <= n
  BY <1>4
<1>7. QED
  BY <1>5, <1>6 DEF Latest

(* A reference in hand restores its bytes, or its key is contended. *)
LEMMA InHand ==
    ASSUME ObjectInv, NEW ref \in references
    PROVE  Contended(ref.key) \/ Restores(ref)
BY DEF ObjectInv, BucketInv, KeysInv, KeyInv, Named, Contended, Restores, Filed, Described

-----------------------------------------------------------------------------
(* The steps of the stores.                                                *)

LEMMA BeginPutKeeps ==
    ASSUME Labelled, ObjectInv, NEW p \in Procs, NEW store, NEW kind \in {"report", "backup"},
           NEW bytes, BeginPut(p, store, kind, bytes)
    PROVE  ObjectInv'
<1> PICK key : key = Key(store, kind, bytes)
  OBVIOUS
<1> PICK j : j = [NoJob EXCEPT !.key = key]
  OBVIOUS
<1>1. IsJob(j) /\ j.key = key /\ key.kind = kind
  BY DEF IsJob, NoJob, Key
<1>2. /\ pc[p] = "idle" /\ pc'[p] = Entry(key) /\ job'[p] = j /\ Others(p)
      /\ DOMAIN job' = Procs /\ NoteOverlap(key)
      /\ UNCHANGED <<stores, references, interrupted, refused>>
  BY DEF BeginPut, Begins, At, Goto, Labelled, Others, ObjectInv, JobsInv
<1>3. JobOK(p)'
  BY <1>1, <1>2, Entering DEF JobOK, IsJob, KeyOf, OnS3
<1>4. ASSUME NEW k, ~OnS3(k) PROVE Moves(p, k) \/ Still(p, k)
  <2>1. Stage(p, k) = "away" /\ Kept(k) /\ Named(k)' = Named(k)
    BY <1>2, LabelsApart DEF Stage, Kept, stores, Filed, Described, Named
  <2>2. CASE k = key
    BY <1>1, <1>2, <1>4, <2>1, <2>2, Entering, NoOverlap DEF Moves, Entered, Stage, KeyOf
  <2>3. CASE k # key
    BY <1>1, <1>2, <2>1, <2>3 DEF Still, Stage, KeyOf
  <2>4. QED
    BY <2>2, <2>3
<1>5. BucketInv' /\ ManifestsInv' /\ BucketGrew
  BY <1>2 DEF ObjectInv, BucketInv, ManifestsInv, Manifests, BucketGrew, stores, Restores,
              VersionsOf, OnS3
<1>6. QED
  BY <1>2, <1>3, <1>4, <1>5, NoOverlap, Framed

(* A client leaves its key with a refusal that has a cause. *)
LEMMA RaisingKeeps ==
    ASSUME Labelled, ObjectInv, NEW p \in Procs, NEW from, NEW key, Raises(p, from, key),
           Mishap(key),
           \A k : ~OnS3(k) => Stage(p, k) \in {"away", "look", "compare"}
    PROVE  ObjectInv'
<1>1. /\ Others(p) /\ DOMAIN job' = Procs /\ JobOK(p)' /\ \A k : Stage(p, k)' = "away"
      /\ refused' = refused \cup {key}
      /\ UNCHANGED <<stores, references, overlapped, interrupted>>
  BY Raising DEF ObjectInv
<1>2. ASSUME NEW k, ~OnS3(k) PROVE Moves(p, k) \/ Still(p, k)
  <2>1. Kept(k) /\ Named(k)' = Named(k)
    BY <1>1 DEF Kept, stores, Filed, Described, Named
  <2>2. QED
    BY <1>1, <1>2, <2>1 DEF Moves, Gone, Still
<1>3. BucketInv' /\ ManifestsInv' /\ BucketGrew
  BY <1>1 DEF ObjectInv, BucketInv, ManifestsInv, Manifests, BucketGrew, stores, Restores,
              VersionsOf, OnS3
<1>4. QED
  BY <1>1, <1>2, <1>3, Framed

LEMMA RestoreKeeps ==
    ASSUME Labelled, ObjectInv, NEW p \in Procs, Restore(p)
    PROVE  ObjectInv'
<1> PICK ref : ref = job[p].backup
  OBVIOUS
<1>1. pc[p] = "restore" /\ ref \in references /\ DOMAIN job = Procs
  BY DEF Restore, At, ObjectInv, JobsInv, JobOK
<1>2. \A k : Stage(p, k) = "away"
  BY <1>1, LabelsApart DEF Stage
<1>3. CASE Restores(ref)
  <2>1. /\ pc'[p] = "idle" /\ job'[p] = NoJob /\ Others(p) /\ DOMAIN job' = Procs
        /\ UNCHANGED <<stores, references, overlapped, interrupted, refused>>
    BY <1>1, <1>3 DEF Restore, Steps, At, Goto, Labelled, Others
  <2>2. IsJob(NoJob)
    BY DEF IsJob, NoJob
  <2>3. JobOK(p)' /\ \A k : Stage(p, k)' = "away"
    BY <2>1, <2>2, LabelsApart DEF JobOK, IsJob, PutLabels, Stage
  <2>4. \A k : Still(p, k)
    BY <1>2, <2>1, <2>3 DEF Still, Kept, stores, Filed, Described, Named
  <2>5. BucketInv' /\ ManifestsInv' /\ BucketGrew
    BY <2>1 DEF ObjectInv, BucketInv, ManifestsInv, Manifests, BucketGrew, stores, Restores,
                VersionsOf, OnS3
  <2>6. QED
    BY <2>1, <2>3, <2>4, <2>5, Framed
<1>4. CASE ~Restores(ref)
  <2>1. Raises(p, "restore", ref.key)
    BY <1>4 DEF Restore
  <2>2. Mishap(ref.key)
    BY <1>1, <1>4, InHand DEF Contended, Mishap
  <2>3. QED
    BY <1>2, <2>1, <2>2, RaisingKeeps
<1>5. QED
  BY <1>3, <1>4

LEMMA AbandonKeeps ==
    ASSUME Labelled, ObjectInv, NEW p \in Procs, Abandon(p)
    PROVE  ObjectInv'
<1>1. /\ pc'[p] = "idle" /\ job'[p] = NoJob /\ Others(p) /\ DOMAIN job' = Procs
      /\ interrupted' = interrupted \cup {KeyOf(p)}
      /\ UNCHANGED <<stores, references, overlapped, refused>>
  BY DEF Abandon, Faulty, Goto, Labelled, Others, ObjectInv, JobsInv
<1>2. IsJob(NoJob)
  BY DEF IsJob, NoJob
<1>3. JobOK(p)' /\ \A k : Stage(p, k)' = "away"
  BY <1>1, <1>2, LabelsApart DEF JobOK, IsJob, PutLabels, Stage
<1>4. ASSUME NEW k, ~OnS3(k) PROVE Moves(p, k) \/ Still(p, k)
  <2>1. Kept(k) /\ Named(k)' = Named(k)
    BY <1>1 DEF Kept, stores, Filed, Described, Named
  <2>2. Stage(p, k) # "away" => k = KeyOf(p)
    BY DEF Stage
  <2>3. QED
    BY <1>1, <1>3, <2>1, <2>2 DEF Moves, Gone, Still
<1>5. BucketInv' /\ ManifestsInv' /\ BucketGrew
  BY <1>1 DEF ObjectInv, BucketInv, ManifestsInv, Manifests, BucketGrew, stores, Restores,
              VersionsOf, OnS3
<1>6. QED
  BY <1>1, <1>3, <1>4, <1>5, Framed

LEMMA ForeignPutKeeps ==
    ASSUME Labelled, ObjectInv, ForeignPut
    PROVE  ObjectInv'
<1>1. PICK v \in DOMAIN bucket : AddVersion(bucket[v].key, Foreign)
  BY DEF ForeignPut
<1>2. UNCHANGED <<pc, job, references, overlapped, interrupted, refused>>
  BY DEF ForeignPut
<1>3. OnS3(bucket[v].key) /\ bucket[v].key \in {bucket[u].key : u \in DOMAIN bucket}
  BY DEF ObjectInv, BucketInv
<1>4. bucket[v].key.kind = "recovery_manifest" => bucket[v].key.bytes[1] \in references
  BY <1>3 DEF ObjectInv, ManifestsInv, Manifests
<1>5. BucketInv' /\ ManifestsInv' /\ BucketGrew /\ \A k : Kept(k)
  BY <1>1, <1>2, <1>3, <1>4, Grown DEF ObjectInv
<1>6. ASSUME NEW q \in Procs PROVE JobOK(q)'
  <2>1. JobOK(q)
    BY DEF ObjectInv, JobsInv
  <2>2. QED
    BY <1>2, <1>5, <2>1 DEF JobOK, IsJob, KeyOf, OnS3, BucketGrew
<1>7. ASSUME NEW key, ~OnS3(key) PROVE KeyInv(key)'
  <2>1. /\ KeyInv(key) /\ \A q \in Procs : Stage(q, key)' = Stage(q, key)
        /\ Kept(key) /\ Named(key)' = Named(key)
    BY <1>2, <1>5, <1>7 DEF ObjectInv, KeysInv, Stage, KeyOf, Named
  <2>2. QED
    BY <1>2, <2>1, KeyAlone DEF Kept
<1>8. RefusedOnlyAfterMishap'
  BY <1>2, <1>5 DEF ObjectInv, RefusedOnlyAfterMishap, Overwritten, VersionsOf, OnS3, BucketGrew
<1>9. JobsInv' /\ KeysInv'
  BY <1>2, <1>6, <1>7 DEF ObjectInv, JobsInv, KeysInv, OnS3
<1>10. QED
  BY <1>5, <1>8, <1>9 DEF ObjectInv

(* An advance within a put of the bucket, which no proof-store key sees.   *)
LEMMA HeadMissesKeeps ==
    ASSUME Labelled, ObjectInv, NEW p \in Procs, HeadMisses(p)
    PROVE  ObjectInv'
<1>1. Advances(p, "head", "put") /\ UNCHANGED stores
  BY DEF HeadMisses
<1>2. "head" \in S3Labels /\ "put" \in S3Labels \ {"verify"}
  BY DEF S3Labels
<1>3. /\ Others(p) /\ DOMAIN job' = Procs /\ JobOK(p)' /\ pc[p] = "head"
      /\ \A k : k # KeyOf(p) => Stage(p, k) = "away" /\ Stage(p, k)' = "away"
      /\ UNCHANGED <<references, overlapped, interrupted, refused>>
  BY <1>1, <1>2, Advancing DEF ObjectInv
<1>4. OnS3(KeyOf(p))
  BY <1>2, <1>3 DEF ObjectInv, JobsInv, JobOK
<1>5. \A k : ~OnS3(k) => Still(p, k)
  BY <1>1, <1>3, <1>4 DEF Still, Kept, stores, Filed, Described, Named
<1>6. BucketInv' /\ ManifestsInv' /\ BucketGrew
  BY <1>1, <1>3 DEF ObjectInv, BucketInv, ManifestsInv, Manifests, BucketGrew, stores, Restores,
              VersionsOf, OnS3
<1>7. QED
  BY <1>3, <1>5, <1>6, Framed

(* A put of the bucket that returns a reference in hand. *)
LEMMA S3ReturnKeeps ==
    ASSUME Labelled, ObjectInv, NEW p \in Procs, NEW from \in S3Labels, NEW ref,
           Returns(p, from, ref), UNCHANGED stores, ref.key = KeyOf(p), Restores(ref)
    PROVE  ObjectInv'
<1>1. /\ Others(p) /\ DOMAIN job' = Procs /\ JobOK(p)'
      /\ references' = references \cup {ref} /\ refused' = refused
      /\ interrupted' = interrupted /\ overlapped \subseteq overlapped' /\ pc[p] = from
      /\ \A k : k # ref.key => Stage(p, k) = "away"
      /\ \A k : k # ref.key /\ ~OnS3(k) =>
             \/ Stage(p, k)' = "away"
             \/ /\ Stage(p, k)' = "look"
                /\ k \in overlapped' \/ \A q \in Procs : Stage(q, k) = "away"
  BY Returning DEF PutLabels, ObjectInv
<1>2. OnS3(ref.key)
  BY <1>1 DEF ObjectInv, JobsInv, JobOK
<1>3. ASSUME NEW k, ~OnS3(k) PROVE Moves(p, k) \/ Still(p, k)
  <2>1. k # ref.key
    BY <1>2, <1>3
  <2>2. Kept(k) /\ (Named(k)' => Named(k))
    BY <1>1, <2>1 DEF Kept, stores, Filed, Described, Named
  <2>3. QED
    BY <1>1, <1>3, <2>1, <2>2 DEF Moves, Entered, Still
<1>4. BucketInv' /\ ManifestsInv' /\ BucketGrew /\ references \subseteq references'
  <2>1. bucket' = bucket /\ files' = files /\ references' = references \cup {ref}
    BY <1>1 DEF stores
  <2>2. BucketInv /\ ManifestsInv
    BY DEF ObjectInv
  <2>3. QED
    BY <2>1, <2>2, Quiet
<1>5. /\ overlapped \subseteq overlapped' /\ interrupted \subseteq interrupted'
      /\ \A key \in refused' : key \in refused \/ Mishap(key)
  BY <1>1
<1>6. Others(p) /\ DOMAIN job' = Procs /\ JobOK(p)'
  BY <1>1
<1>7. QED
  BY <1>3, <1>4, <1>5, <1>6, Framed

LEMMA HeadHitsKeeps ==
    ASSUME Labelled, ObjectInv, NEW p \in Procs, HeadHits(p)
    PROVE  ObjectInv'
<1> PICK ref : ref = Reference(KeyOf(p), Latest(KeyOf(p)))
  OBVIOUS
<1>1. /\ ref.key = KeyOf(p) /\ ref.version = Latest(KeyOf(p)) /\ VersionsOf(KeyOf(p)) # {}
      /\ pc[p] = "head" /\ "head" \in S3Labels
  BY DEF HeadHits, Reference, Found, At, S3Labels
<1>2. OnS3(ref.key) /\ ref.version \in VersionsOf(ref.key)
  BY <1>1, LatestIsAVersion DEF ObjectInv, JobsInv, JobOK
<1>3. CASE Restores(ref)
  BY <1>1, <1>3, S3ReturnKeeps DEF HeadHits, ReadsBack
<1>4. CASE ~Restores(ref)
  <2>1. Raises(p, "head", ref.key)
    BY <1>4 DEF HeadHits, ReadsBack
  <2>2. bucket[ref.version].bytes = Foreign
    BY <1>2, <1>4 DEF Restores, VersionsOf, ObjectInv, BucketInv
  <2>3. Mishap(ref.key)
    BY <1>2, <2>2 DEF Mishap, Overwritten
  <2>4. \A k : ~OnS3(k) => Stage(p, k) = "away"
    BY <1>1, <1>2 DEF Stage
  <2>5. QED
    BY <2>1, <2>3, <2>4, RaisingKeeps
<1>5. QED
  BY <1>3, <1>4

LEMMA VerifyKeeps ==
    ASSUME Labelled, ObjectInv, NEW p \in Procs, Verify(p)
    PROVE  ObjectInv'
<1> PICK ref : ref = Reference(KeyOf(p), job[p].version)
  OBVIOUS
<1>1. ref.key = KeyOf(p) /\ ref.version = job[p].version /\ pc[p] = "verify" /\ "verify" \in S3Labels
  BY DEF Verify, Reference, At, S3Labels
<1>2. Restores(ref)
  BY <1>1 DEF ObjectInv, JobsInv, JobOK, Restores, VersionsOf
<1>3. QED
  BY <1>1, <1>2, S3ReturnKeeps DEF Verify, ReadsBack

LEMMA PuttingKeeps ==
    ASSUME Labelled, ObjectInv, NEW p \in Procs, pc[p] = "put",
           AddVersion(KeyOf(p), KeyOf(p).bytes)
    PROVE  /\ references' = references => BucketInv' /\ ManifestsInv' /\ BucketGrew
           /\ references' = references =>
                  /\ Len(bucket) + 1 \in DOMAIN bucket'
                  /\ bucket'[Len(bucket) + 1] = [key |-> KeyOf(p), bytes |-> KeyOf(p).bytes]
           /\ references' = references => \A k : Kept(k)
           /\ OnS3(KeyOf(p))
           /\ \A k : k # KeyOf(p) => Stage(p, k) = "away"
<1>1. JobOK(p) /\ "put" \in S3Labels
  BY DEF ObjectInv, JobsInv, S3Labels
<1>2. OnS3(KeyOf(p)) /\ (KeyOf(p).kind = "recovery_manifest" => KeyOf(p).bytes[1] \in references)
  BY <1>1 DEF JobOK, PutLabels
<1>3. \A k : k # KeyOf(p) => Stage(p, k) = "away"
  BY DEF Stage
<1>4. QED
  BY <1>2, <1>3, Grown DEF ObjectInv

LEMMA PutKeeps ==
    ASSUME Labelled, ObjectInv, NEW p \in Procs, Put(p)
    PROVE  ObjectInv'
<1> PICK n : n = Len(bucket) + 1
  OBVIOUS
<1>1. /\ pc[p] = "put" /\ pc'[p] = "verify" /\ AddVersion(KeyOf(p), KeyOf(p).bytes)
      /\ job' = [job EXCEPT ![p].version = n]
      /\ UNCHANGED <<references, overlapped, interrupted, refused>>
      /\ \A q \in Procs \ {p} : pc'[q] = pc[q]
  BY DEF Put, PutAccepted, Steps, At, Goto, Labelled
<1>2. JobOK(p) /\ IsJob(job[p]) /\ DOMAIN job = Procs
  BY DEF ObjectInv, JobsInv, JobOK
<1>3. /\ job'[p] = [job[p] EXCEPT !.version = n] /\ DOMAIN job' = Procs
      /\ \A q \in Procs \ {p} : job'[q] = job[q]
  BY <1>1, <1>2
<1>4. /\ IsJob(job'[p]) /\ job'[p].key = job[p].key /\ job'[p].backup = job[p].backup
      /\ job'[p].version = n
  BY <1>2, <1>3 DEF IsJob
<1>5. Others(p)
  BY <1>1, <1>3 DEF Others
<1>6. /\ BucketInv' /\ ManifestsInv' /\ BucketGrew /\ n \in DOMAIN bucket'
      /\ bucket'[n] = [key |-> KeyOf(p), bytes |-> KeyOf(p).bytes]
      /\ OnS3(KeyOf(p)) /\ \A k : Kept(k)
      /\ \A k : k # KeyOf(p) => Stage(p, k) = "away"
  BY <1>1, PuttingKeeps
<1>7. "put" \in PutLabels /\ "verify" \in S3Labels /\ "verify" \notin ProofLabels
  BY DEF PutLabels, S3Labels, ProofLabels
<1>8. JobOK(p)'
  BY <1>1, <1>2, <1>4, <1>6, <1>7 DEF JobOK, KeyOf, OnS3, IsJob
<1>9. ASSUME NEW k, ~OnS3(k) PROVE Still(p, k)
  BY <1>1, <1>4, <1>6, <1>9 DEF Still, Stage, KeyOf, Named
<1>10. QED
  BY <1>1, <1>3, <1>5, <1>6, <1>8, <1>9, Framed

LEMMA PutTwiceKeeps ==
    ASSUME Labelled, ObjectInv, NEW p \in Procs, PutTwice(p)
    PROVE  ObjectInv'
<1>1. /\ pc[p] = "put" /\ pc' = pc /\ job' = job /\ AddVersion(KeyOf(p), KeyOf(p).bytes)
      /\ overlapped \subseteq overlapped' /\ UNCHANGED <<references, interrupted, refused>>
  BY DEF PutTwice, Faulty, At, Goto, Labelled
<1>2. JobOK(p) /\ DOMAIN job' = Procs /\ Others(p)
  BY <1>1 DEF ObjectInv, JobsInv, Others
<1>3. BucketInv' /\ ManifestsInv' /\ BucketGrew /\ \A k : Kept(k)
  BY <1>1, PuttingKeeps
<1>4. JobOK(p)'
  BY <1>1, <1>2 DEF JobOK, KeyOf, OnS3, IsJob
<1>5. \A k : Still(p, k)
  BY <1>1, <1>3 DEF Still, Stage, KeyOf, Named
<1>6. QED
  BY <1>1, <1>2, <1>3, <1>4, <1>5, Framed

(* A put of the proof store: where it is, and what it knows of its key.    *)
LEMMA OnFile ==
    ASSUME ObjectInv, NEW p \in Procs, pc[p] \in ProofLabels
    PROVE  /\ ~OnS3(KeyOf(p)) /\ KeyInv(KeyOf(p))
           /\ Stage(p, KeyOf(p)) = pc[p] /\ \A k : k # KeyOf(p) => Stage(p, k) = "away"
           /\ KeyOf(p).kind = "recovery_manifest" => KeyOf(p).bytes[1] \in references
BY DEF ObjectInv, JobsInv, JobOK, KeysInv, Stage, PutLabels

(* A put of the proof store goes on: looks, or writes one of its files.    *)
LEMMA AdvanceKeeps ==
    ASSUME Labelled, ObjectInv, NEW p \in Procs, NEW from \in ProofLabels, NEW to \in ProofLabels,
           Advances(p, from, to), NEW key, key = KeyOf(p), bucket' = bucket,
           \A k : k # key => Kept(k), DOMAIN files' \subseteq DOMAIN files \cup {key},
           \/ /\ from = "look" /\ Kept(key)
              /\ \/ to = "truncate" /\ Filed(key) = Absent
                 \/ to = "compare" /\ Filed(key) = Whole
           \/ /\ Described(key)' = Described(key)
              /\ \/ from = "truncate" /\ to = "fill" /\ Filed(key)' = Torn
                 \/ from = "fill" /\ to = "describe" /\ Filed(key)' = Whole
           \/ Filed(key)' = Filed(key) /\ from = "describe" /\ to = "finish"
    PROVE  ObjectInv'
<1>1. /\ Others(p) /\ DOMAIN job' = Procs /\ JobOK(p)' /\ pc[p] = from
      /\ \A k : Stage(p, k) = (IF k = key THEN from ELSE "away")
      /\ \A k : Stage(p, k)' = (IF k = key THEN to ELSE "away")
      /\ UNCHANGED <<references, overlapped, interrupted, refused>>
  BY Advancing DEF ObjectInv
<1>2. \A k : Named(k)' = Named(k)
  BY <1>1 DEF Named
<1>3. Moves(p, key)
  <2>1. /\ Stage(p, key) = from /\ Stage(p, key)' = to /\ Named(key)' = Named(key)
    BY <1>1, <1>2
  <2>2. QED
    BY <2>1 DEF Moves, Looked, Filled, Describes
<1>4. ASSUME NEW k, k # key PROVE Still(p, k)
  BY <1>1, <1>2, <1>4 DEF Still
<1>5. BucketInv' /\ ManifestsInv' /\ BucketGrew
  <2>1. references' = references /\ pc[p] \in ProofLabels
    BY <1>1
  <2>2. key.kind = "recovery_manifest" => key.bytes[1] \in references
    BY <2>1, OnFile
  <2>3. BucketInv' /\ BucketGrew
    BY <2>1 DEF ObjectInv, BucketInv, BucketGrew, Restores, VersionsOf, OnS3
  <2>4. ManifestsInv'
    BY <2>1, <2>2 DEF ObjectInv, ManifestsInv, Manifests
  <2>5. QED
    BY <2>3, <2>4
<1>6. /\ references \subseteq references' /\ overlapped \subseteq overlapped'
      /\ interrupted \subseteq interrupted' /\ refused' = refused
  BY <1>1
<1>7. QED
  BY <1>1, <1>3, <1>4, <1>5, <1>6, Framed

LEMMA LooksKeep ==
    ASSUME Labelled, ObjectInv, NEW p \in Procs, LookMisses(p) \/ LookHits(p)
    PROVE  ObjectInv'
<1> PICK key : key = KeyOf(p)
  OBVIOUS
<1>1. pc[p] = "look" /\ {"look", "truncate", "compare"} \subseteq ProofLabels
  BY DEF LookMisses, LookHits, At, ProofLabels
<1>2. UNCHANGED stores => bucket' = bucket /\ files' = files /\ \A k : Kept(k)
  BY DEF stores, Kept, Filed, Described
<1>3. CASE LookMisses(p)
  <2>1. Advances(p, "look", "truncate") /\ UNCHANGED stores /\ Filed(key) = Absent
    BY <1>3 DEF LookMisses, LooksAbsent, Filed
  <2>2. QED
    BY <1>1, <1>2, <2>1, AdvanceKeeps
<1>4. CASE LookHits(p) /\ Filed(key) = Whole
  <2>1. Advances(p, "look", "compare") /\ UNCHANGED stores
    BY <1>4 DEF LookHits, Filed
  <2>2. QED
    BY <1>1, <1>2, <1>4, <2>1, AdvanceKeeps
<1>5. CASE LookHits(p) /\ Filed(key) # Whole
  <2>1. Raises(p, "look", key) /\ Filed(key) # Absent
    BY <1>5 DEF LookHits, LooksAbsent, Filed
  <2>2. /\ ~OnS3(key) /\ KeyInv(key) /\ Stage(p, key) = "look"
        /\ \A k : k # key => Stage(p, k) = "away"
    BY <1>1, OnFile
  <2>3. Mishap(key)
    BY <1>5, <2>1, <2>2 DEF KeyInv, Mishap
  <2>4. \A k : Stage(p, k) \in {"away", "look", "compare"}
    BY <2>2
  <2>5. QED
    BY <2>1, <2>3, <2>4, RaisingKeeps
<1>6. QED
  BY <1>3, <1>4, <1>5

LEMMA WritesKeep ==
    ASSUME Labelled, ObjectInv, NEW p \in Procs, Truncate(p) \/ Fill(p) \/ Describe(p)
    PROVE  ObjectInv'
<1> PICK key : key = KeyOf(p)
  OBVIOUS
<1>1. {"truncate", "fill", "describe", "finish"} \subseteq ProofLabels
  BY DEF ProofLabels
<1>2. ASSUME NEW content, WriteFile(key, content)
      PROVE  /\ bucket' = bucket /\ \A k : k # key => Kept(k)
             /\ DOMAIN files' = DOMAIN files \cup {key}
             /\ Filed(key)' = content /\ Described(key)' = Described(key)
  BY <1>2 DEF WriteFile, Written, Kept, Filed, Described, Content
<1>3. ASSUME NEW content, WriteMetadata(key, content)
      PROVE  /\ bucket' = bucket /\ \A k : k # key => Kept(k)
             /\ DOMAIN files' = DOMAIN files /\ Filed(key)' = Filed(key)
  BY <1>3 DEF WriteMetadata, Written, Kept, Filed, Described, Content
<1>4. CASE Truncate(p)
  <2>1. Advances(p, "truncate", "fill") /\ WriteFile(key, Torn)
    BY <1>4 DEF Truncate
  <2>2. QED
    BY <1>1, <1>2, <2>1, AdvanceKeeps
<1>5. CASE Fill(p)
  <2>1. Advances(p, "fill", "describe") /\ WriteFile(key, Whole)
    BY <1>5 DEF Fill
  <2>2. QED
    BY <1>1, <1>2, <2>1, AdvanceKeeps
<1>6. CASE Describe(p)
  <2>1. Advances(p, "describe", "finish") /\ WriteMetadata(key, Torn)
    BY <1>6 DEF Describe
  <2>2. QED
    BY <1>1, <1>3, <2>1, AdvanceKeeps
<1>7. QED
  BY <1>4, <1>5, <1>6

(* A put of the proof store that returns its reference. *)
LEMMA FileReturnKeeps ==
    ASSUME Labelled, ObjectInv, NEW p \in Procs, NEW from \in ProofLabels, NEW ref,
           Returns(p, from, ref), ref.key = KeyOf(p), bucket' = bucket, files' = files,
           \A k : k # ref.key => Described(k)' = Described(k),
           Moves(p, ref.key)
    PROVE  ObjectInv'
<1>1. /\ Others(p) /\ DOMAIN job' = Procs /\ JobOK(p)'
      /\ references' = references \cup {ref} /\ refused' = refused
      /\ interrupted' = interrupted /\ overlapped \subseteq overlapped' /\ pc[p] = from
      /\ \A k : k # ref.key => Stage(p, k) = "away"
      /\ \A k : k # ref.key /\ ~OnS3(k) =>
             \/ Stage(p, k)' = "away"
             \/ /\ Stage(p, k)' = "look"
                /\ k \in overlapped' \/ \A q \in Procs : Stage(q, k) = "away"
  BY Returning DEF PutLabels, ObjectInv
<1>2. ~OnS3(ref.key)
  BY <1>1, OnFile
<1>3. ASSUME NEW k, ~OnS3(k) PROVE Moves(p, k) \/ Still(p, k)
  <2>1. CASE k = ref.key
    BY <2>1
  <2>2. CASE k # ref.key
    <3>1. Kept(k) /\ (Named(k)' => Named(k))
      BY <1>1, <2>2 DEF Kept, Filed, Named
    <3>2. QED
      BY <1>1, <1>3, <2>2, <3>1 DEF Moves, Entered, Still
  <2>3. QED
    BY <2>1, <2>2
<1>4. BucketInv' /\ ManifestsInv' /\ BucketGrew /\ references \subseteq references'
  <2>1. references' = references \cup {ref} /\ BucketInv /\ ManifestsInv
    BY <1>1 DEF ObjectInv
  <2>2. QED
    BY <1>2, <2>1, Quiet
<1>5. /\ overlapped \subseteq overlapped' /\ interrupted \subseteq interrupted'
      /\ \A key \in refused' : key \in refused \/ Mishap(key)
  BY <1>1
<1>6. Others(p) /\ DOMAIN job' = Procs /\ JobOK(p)'
  BY <1>1
<1>7. QED
  BY <1>3, <1>4, <1>5, <1>6, Framed

LEMMA FinishKeeps ==
    ASSUME Labelled, ObjectInv, NEW p \in Procs, Finish(p)
    PROVE  ObjectInv'
<1> PICK ref : ref = Reference(KeyOf(p), ProofVersion)
  OBVIOUS
<1>1. /\ ref.key = KeyOf(p) /\ Returns(p, "finish", ref) /\ pc[p] = "finish"
      /\ bucket' = bucket /\ files' = files /\ metadata' = Written(metadata, ref.key, Whole)
      /\ "finish" \in ProofLabels
  BY DEF Finish, Reference, Returns, At, WriteMetadata, ProofLabels
<1>2. /\ \A k : k # ref.key => Described(k)' = Described(k)
      /\ Described(ref.key)' = Whole
  BY <1>1 DEF Described, Written, Content
<1>3. Stage(p, ref.key) = "finish" /\ Stage(p, ref.key)' = "away"
  BY <1>1, Returning DEF PutLabels, ObjectInv
<1>4. Moves(p, ref.key)
  BY <1>1, <1>2, <1>3 DEF Moves, Returned, Filed
<1>5. QED
  BY <1>1, <1>2, <1>4, FileReturnKeeps

LEMMA CompareKeeps ==
    ASSUME Labelled, ObjectInv, NEW p \in Procs, Compare(p)
    PROVE  ObjectInv'
<1> PICK ref : ref = Reference(KeyOf(p), ProofVersion)
  OBVIOUS
<1>1. ref.key = KeyOf(p) /\ pc[p] = "compare" /\ "compare" \in ProofLabels
  BY DEF Compare, Reference, At, ProofLabels
<1>2. /\ ~OnS3(ref.key) /\ KeyInv(ref.key) /\ Stage(p, ref.key) = "compare"
      /\ \A k : k # ref.key => Stage(p, k) = "away"
  BY <1>1, OnFile
<1>3. CASE Described(ref.key) = Whole
  <2>1. Returns(p, "compare", ref) /\ UNCHANGED stores
    BY <1>1, <1>3 DEF Compare, Described
  <2>2. bucket' = bucket /\ files' = files /\ \A k : Kept(k)
    BY <2>1 DEF stores, Kept, Filed, Described
  <2>3. Stage(p, ref.key)' = "away"
    BY <1>1, <2>1, Returning DEF PutLabels, ObjectInv
  <2>4. Moves(p, ref.key)
    BY <1>2, <1>3, <2>2, <2>3 DEF Moves, Returned, Kept
  <2>5. QED
    BY <1>1, <2>1, <2>2, <2>4, FileReturnKeeps DEF Kept
<1>4. CASE Described(ref.key) # Whole
  <2>1. Raises(p, "compare", ref.key)
    BY <1>1, <1>4 DEF Compare, Described
  <2>2. Mishap(ref.key)
    <3> SUFFICES ASSUME ref.key \notin overlapped, ref.key \notin interrupted PROVE FALSE
      BY <1>2 DEF Mishap
    <3>1. \A q \in Procs : Stage(q, ref.key) # "away" => q = p
      BY <1>2 DEF KeyInv
    <3>2. Filed(ref.key) = Whole
      BY <1>2 DEF KeyInv
    <3>3. QED
      BY <1>2, <1>4, <3>1, <3>2 DEF KeyInv, Whole, Torn, Absent
  <2>3. \A k : Stage(p, k) \in {"away", "look", "compare"}
    BY <1>2
  <2>4. QED
    BY <2>1, <2>2, <2>3, RaisingKeeps
<1>5. QED
  BY <1>3, <1>4

-----------------------------------------------------------------------------
(* All steps, and the theorems.                                            *)

(* A step of the database or of the queue moves no client in or out of an  *)
(* operation on objects.                                                   *)
LEMMA ElsewhereKeeps ==
    ASSUME ObjectInv, UNCHANGED objectVars,
           \A q \in Procs : \/ pc'[q] = pc[q]
                            \/ pc[q] \notin ObjectLabels /\ pc'[q] \notin ObjectLabels
    PROVE  ObjectInv'
<1>1. UNCHANGED <<bucket, files, metadata, job, references, overlapped, interrupted, refused>>
  BY DEF objectVars, stores
<1>2. PutLabels \subseteq ObjectLabels /\ "restore" \in ObjectLabels /\ "verify" \in S3Labels
  BY DEF PutLabels, ObjectLabels, S3Labels
<1>3. ASSUME NEW q \in Procs PROVE JobOK(q)'
  <2>1. JobOK(q)
    BY DEF ObjectInv, JobsInv
  <2>2. QED
    BY <1>1, <1>2, <2>1 DEF JobOK, IsJob, KeyOf, OnS3, PutLabels
<1>4. ASSUME NEW key, ~OnS3(key) PROVE KeyInv(key)'
  <2>1. /\ KeyInv(key) /\ \A q \in Procs : Stage(q, key)' = Stage(q, key)
        /\ Named(key)' = Named(key) /\ Kept(key)
    BY <1>1, <1>2, <1>4
    DEF ObjectInv, KeysInv, Stage, KeyOf, Named, Kept, Filed, Described
  <2>2. QED
    BY <1>1, <2>1, KeyAlone DEF Kept
<1>5. JobsInv' /\ KeysInv'
  BY <1>1, <1>3, <1>4 DEF ObjectInv, JobsInv, KeysInv, OnS3
<1>6. BucketInv' /\ ManifestsInv'
  BY <1>1 DEF ObjectInv, BucketInv, ManifestsInv, Manifests, Restores, VersionsOf, OnS3
<1>7. RefusedOnlyAfterMishap'
  BY <1>1 DEF ObjectInv, RefusedOnlyAfterMishap, Overwritten, VersionsOf, OnS3
<1>8. QED
  BY <1>5, <1>6, <1>7 DEF ObjectInv

LEMMA DatabaseSteps ==
    ASSUME Labelled, MigrationNext \/ QueueNext
    PROVE  \A q \in Procs : \/ pc'[q] = pc[q]
                            \/ pc[q] \notin ObjectLabels /\ pc'[q] \notin ObjectLabels
<1> DEFINE Elsewhere == {"idle"} \cup MigrationLabels
<1>1. Elsewhere \cap ObjectLabels = {}
  BY DEF MigrationLabels, ObjectLabels, S3Labels, ProofLabels
<1>2. ASSUME NEW p \in Procs, pc[p] \in Elsewhere, NEW to \in Elsewhere, Goto(p, to)
      PROVE  \A q \in Procs : \/ pc'[q] = pc[q]
                              \/ pc[q] \notin ObjectLabels /\ pc'[q] \notin ObjectLabels
  BY <1>1, <1>2 DEF Goto, Labelled
<1>3. CASE QueueNext
  BY <1>2, <1>3
  DEF QueueNext, Enqueue, EnqueueUnanswered, Tick, clientVars, Begins, Faulty, At
<1>4. CASE MigrationNext
  BY <1>2, <1>4
  DEF MigrationNext, BeginApply, ApplyStep, LockMigrations, ReadApplied, Skip, Execute, Refuse,
      Commit, CommitUnanswered, Abort, Begins, Steps, Faulty, At, MigrationLabels
<1>5. QED
  BY <1>3, <1>4

LEMMA ObjectStepKeeps ==
    ASSUME Labelled, ObjectInv, ObjectNext
    PROVE  ObjectInv'
BY BeginPutKeeps, RestoreKeeps, AbandonKeeps, ForeignPutKeeps, HeadMissesKeeps, HeadHitsKeeps,
   PutKeeps, VerifyKeeps, PutTwiceKeeps, LooksKeep, WritesKeep, CompareKeeps, FinishKeeps
DEF ObjectNext, S3Step, ProofStep

LEMMA ObjectInvariant == Spec => []ObjectInv
<1>1. Init => ObjectInv
  <2> SUFFICES ASSUME Init PROVE ObjectInv
    OBVIOUS
  <2> USE DEF Init, ClientInit, ObjectInit
  <2>1. IsJob(NoJob) /\ "idle" # "restore" /\ "idle" # "verify"
    BY DEF IsJob, NoJob
  <2>2. JobsInv
    BY <2>1, LabelsApart DEF JobsInv, JobOK, PutLabels
  <2>3. BucketInv
    <3>1. bucket \in Seq({}) /\ DOMAIN bucket = {}
      OBVIOUS
    <3>2. QED
      BY <3>1 DEF BucketInv
  <2>4. ManifestsInv
    BY DEF ManifestsInv, Manifests
  <2>5. KeysInv
    <3>1. \A key : \A p \in Procs : Stage(p, key) = "away"
      BY LabelsApart DEF Stage
    <3>2. \A key : Filed(key) = Absent /\ ~Named(key)
      BY DEF Filed, Content, Named
    <3>3. QED
      BY <3>1, <3>2 DEF KeysInv, KeyInv
  <2>6. RefusedOnlyAfterMishap
    BY DEF RefusedOnlyAfterMishap
  <2>7. QED
    BY <2>2, <2>3, <2>4, <2>5, <2>6 DEF ObjectInv
<1>2. Labelled /\ ObjectInv /\ [Next]_vars => ObjectInv'
  <2> SUFFICES ASSUME Labelled, ObjectInv, [Next]_vars PROVE ObjectInv'
    OBVIOUS
  <2>1. CASE ObjectNext
    BY <2>1, ObjectStepKeeps
  <2>2. CASE (MigrationNext \/ QueueNext) /\ UNCHANGED objectVars
    BY <2>2, DatabaseSteps, ElsewhereKeeps
  <2>3. CASE UNCHANGED vars
    BY <2>3, ElsewhereKeeps DEF vars, clientVars
  <2>4. QED
    BY <2>1, <2>2, <2>3 DEF Next
<1>3. QED
  BY <1>1, <1>2, AlwaysLabelled, PTL DEF Spec

(* ReferencesRestore: what put_immutable has returned a reference to can be *)
(* restored for good - in the bucket whatever happens, in the proof store  *)
(* unless two puts of the key overlapped.                                  *)
THEOREM ReferencesLast == Spec => []ReferencesRestore
<1>1. ObjectInv => ReferencesRestore
  BY InHand DEF ReferencesRestore
<1>2. QED
  BY <1>1, ObjectInvariant, PTL

(* ManifestsRestore: a manifest in a store, returned or not, names a backup *)
(* that restores: a death between the two puts leaves a backup without     *)
(* manifest and never the reverse.                                         *)
THEOREM ManifestsLast == Spec => []ManifestsRestore
<1>1. ObjectInv => ManifestsRestore
  BY InHand DEF ManifestsRestore, ObjectInv, ManifestsInv
<1>2. QED
  BY <1>1, ObjectInvariant, PTL

(* RefusedOnlyAfterMishap: a put or a read-back raises only for what a      *)
(* foreign writer, a death or an overlap has left under its key.           *)
THEOREM RefusalHasCause == Spec => []RefusedOnlyAfterMishap
<1>1. ObjectInv => RefusedOnlyAfterMishap
  BY DEF ObjectInv
<1>2. QED
  BY <1>1, ObjectInvariant, PTL

-----------------------------------------------------------------------------
(* The versions of a key.  A client whose head found none and that has yet *)
(* to put is alone with the key, so that there still is none: only its own *)
(* put, or a repetition that the history records, can add the first, and a *)
(* foreign writer writes to keys that are there.                           *)

Sole(key) ==
    /\ key.bytes = Foreign => /\ VersionsOf(key) = {}
                              /\ \A p \in Procs : Stage(p, key) = "away"
    /\ key \notin overlapped =>
           /\ \A p, q \in Procs : Stage(p, key) # "away" /\ Stage(q, key) # "away" => p = q
           /\ \A p \in Procs : Stage(p, key) = "put" => VersionsOf(key) = {}
           /\ \A u, v \in OwnVersions(key) : u = v

SoleInv == \A key : Sole(key)

Unadded(key) == VersionsOf(key)' = VersionsOf(key) /\ OwnVersions(key)' = OwnVersions(key)

Continues(p, key) == /\ Unadded(key)
                     /\ Stage(p, key) # "away" \/ Stage(p, key)' = "away"
                     /\ Stage(p, key)' = "put" => Stage(p, key) = "put" \/ VersionsOf(key) = {}
PutsFirst(p, key) == /\ Stage(p, key) = "put" /\ Stage(p, key)' = "verify"
                     /\ \E n : VersionsOf(key)' = VersionsOf(key) \cup {n}
Repeats(p, key)   == /\ Stage(p, key) # "away" /\ Stage(p, key)' = Stage(p, key)
                     /\ key \in overlapped'

LEMMA SoleMoves ==
    ASSUME NEW key, Sole(key), NEW p \in Procs,
           \A q \in Procs \ {p} : Stage(q, key)' = Stage(q, key),
           overlapped \subseteq overlapped',
           \/ Continues(p, key) \/ PutsFirst(p, key) \/ Repeats(p, key)
           \/ Enters(p, key) /\ Unadded(key)
    PROVE  Sole(key)'
<1>1. CASE Continues(p, key)
  BY <1>1 DEF Sole, Continues, Unadded
<1>2. CASE PutsFirst(p, key)
  <2>1. OwnVersions(key)' \subseteq VersionsOf(key)' /\ key.bytes # Foreign
    BY <1>2 DEF OwnVersions, PutsFirst, Sole
  <2>2. QED
    BY <1>2, <2>1 DEF PutsFirst, Sole
<1>3. CASE Repeats(p, key)
  BY <1>3 DEF Sole, Repeats
<1>4. CASE Enters(p, key) /\ Unadded(key)
  BY <1>4 DEF Sole, Enters, Unadded
<1>5. QED
  BY <1>1, <1>2, <1>3, <1>4

(* No version is added, and no client enters a key but by beginning a put. *)
LEMMA SoleWithoutPut ==
    ASSUME SoleInv, UNCHANGED bucket, overlapped \subseteq overlapped', NEW p \in Procs,
           \A key : \A q \in Procs \ {p} : Stage(q, key)' = Stage(q, key),
           \A key : \/ Stage(p, key)' = "away" \/ Enters(p, key)
                    \/ /\ Stage(p, key) # "away"
                       /\ Stage(p, key)' = "put" =>
                              Stage(p, key) = "put" \/ VersionsOf(key) = {}
    PROVE  SoleInv'
<1> SUFFICES ASSUME NEW key PROVE Sole(key)'
  BY DEF SoleInv
<1>1. Sole(key) /\ Unadded(key)
  BY DEF SoleInv, Unadded, VersionsOf, OwnVersions
<1>2. \/ Continues(p, key) \/ Enters(p, key)
  BY <1>1 DEF Continues
<1>3. QED
  BY <1>1, <1>2, SoleMoves

LEMMA StagesOfOthers ==
    ASSUME NEW p \in Procs, Others(p)
    PROVE  \A key : \A q \in Procs \ {p} : Stage(q, key)' = Stage(q, key)
BY DEF Others, Stage, KeyOf

(* One more version. *)
LEMMA OneMore ==
    ASSUME ObjectInv, NEW key, NEW bytes, AddVersion(key, bytes)
    PROVE  /\ VersionsOf(key)' = VersionsOf(key) \cup {Len(bucket) + 1}
           /\ \A k : k # key => Unadded(k)
           /\ bytes # key.bytes => OwnVersions(key)' = OwnVersions(key)
<1>1. PICK S : bucket \in Seq(S)
  BY DEF ObjectInv, BucketInv
<1>2. /\ DOMAIN bucket' = DOMAIN bucket \cup {Len(bucket) + 1}
      /\ Len(bucket) + 1 \notin DOMAIN bucket
      /\ \A i \in DOMAIN bucket : bucket'[i] = bucket[i]
      /\ bucket'[Len(bucket) + 1] = [key |-> key, bytes |-> bytes]
  <2> PICK v : v = [key |-> key, bytes |-> bytes]
    OBVIOUS
  <2>1. bucket \in Seq(S \cup {v}) /\ v \in S \cup {v}
    BY <1>1, SeqMonotonic
  <2>2. bucket' = Append(bucket, v)
    BY DEF AddVersion
  <2>3. QED
    BY <2>1, <2>2
<1>3. ASSUME NEW k
      PROVE  VersionsOf(k)' = IF k = key THEN VersionsOf(k) \cup {Len(bucket) + 1}
                                         ELSE VersionsOf(k)
  BY <1>2 DEF VersionsOf
<1>4. \A k : \A v \in VersionsOf(k) : v \in DOMAIN bucket
  BY DEF VersionsOf
<1>5. ASSUME NEW k, k # key PROVE OwnVersions(k)' = OwnVersions(k)
  BY <1>2, <1>3, <1>4, <1>5 DEF OwnVersions
<1>6. ASSUME bytes # key.bytes PROVE OwnVersions(key)' = OwnVersions(key)
  BY <1>2, <1>3, <1>4, <1>6 DEF OwnVersions
<1>7. QED
  BY <1>3, <1>5, <1>6 DEF Unadded

LEMMA SolePut ==
    ASSUME Labelled, ObjectInv, SoleInv, NEW p \in Procs, Put(p) \/ PutTwice(p)
    PROVE  SoleInv'
<1> PICK key : key = KeyOf(p)
  OBVIOUS
<1>1. /\ pc[p] = "put" /\ AddVersion(key, key.bytes) /\ overlapped \subseteq overlapped'
      /\ \A q \in Procs : KeyOf(q)' = KeyOf(q)
      /\ \A q \in Procs \ {p} : pc'[q] = pc[q]
      /\ \/ pc'[p] = "verify"
         \/ pc'[p] = "put" /\ key \in overlapped'
  <2>1. \A q \in Procs : IsJob(job[q]) /\ q \in DOMAIN job
    BY DEF ObjectInv, JobsInv, JobOK
  <2>2. CASE Put(p)
    <3>1. job' = [job EXCEPT ![p].version = Len(bucket) + 1]
      BY <2>2 DEF Put, PutAccepted
    <3>2. \A q \in Procs : job'[q].key = job[q].key
      BY <2>1, <3>1 DEF IsJob
    <3>3. QED
      BY <2>2, <3>2 DEF Put, PutAccepted, Steps, At, Goto, Labelled, KeyOf
  <2>3. CASE PutTwice(p)
    BY <2>3 DEF PutTwice, Faulty, At, Goto, Labelled, KeyOf
  <2>4. QED
    BY <2>2, <2>3
<1>2. {"put", "verify"} \subseteq PutLabels
  BY DEF PutLabels, S3Labels
<1>3. /\ \A k : \A q \in Procs \ {p} : Stage(q, k)' = Stage(q, k)
      /\ \A k : k # key => Stage(p, k) = "away" /\ Stage(p, k)' = "away"
      /\ Stage(p, key) = "put" /\ Stage(p, key)' = pc'[p]
  BY <1>1, <1>2 DEF Stage
<1>4. ASSUME NEW k, k # key PROVE Sole(k)'
  <2>1. Continues(p, k)
    BY <1>1, <1>3, <1>4, OneMore DEF Continues
  <2>2. QED
    BY <1>1, <1>3, <2>1, SoleMoves DEF SoleInv
<1>5. Sole(key)'
  <2>1. VersionsOf(key)' = VersionsOf(key) \cup {Len(bucket) + 1}
    BY <1>1, OneMore
  <2>2. CASE pc'[p] = "verify"
    <3>1. PutsFirst(p, key)
      BY <1>3, <2>1, <2>2 DEF PutsFirst
    <3>2. QED
      BY <1>1, <1>3, <3>1, SoleMoves DEF SoleInv
  <2>3. CASE pc'[p] = "put" /\ key \in overlapped'
    <3>1. Repeats(p, key)
      BY <1>2, <1>3, <2>3, LabelsApart DEF Repeats
    <3>2. QED
      BY <1>1, <1>3, <3>1, SoleMoves DEF SoleInv
  <2>4. QED
    BY <1>1, <2>2, <2>3
<1>6. QED
  BY <1>4, <1>5 DEF SoleInv

LEMMA SoleForeignPut ==
    ASSUME ObjectInv, SoleInv, ForeignPut
    PROVE  SoleInv'
<1>1. PICK v \in DOMAIN bucket : AddVersion(bucket[v].key, Foreign)
  BY DEF ForeignPut
<1> PICK key : key = bucket[v].key
  OBVIOUS
<1>2. UNCHANGED <<pc, job, overlapped>>
  BY DEF ForeignPut
<1>3. \A k : \A q \in Procs : Stage(q, k)' = Stage(q, k)
  BY <1>2 DEF Stage, KeyOf
<1>4. ASSUME NEW k, k # key PROVE Sole(k)'
  <2>1. Sole(k) /\ Unadded(k)
    BY <1>1, <1>4, OneMore DEF SoleInv
  <2>2. QED
    BY <1>2, <1>3, <2>1 DEF Sole, Unadded
<1>5. Sole(key)'
  <2>1. v \in VersionsOf(key)
    BY DEF VersionsOf
  <2>2. Sole(key) /\ key.bytes # Foreign
    BY <2>1 DEF SoleInv, Sole
  <2>3. OwnVersions(key)' = OwnVersions(key)
    BY <1>1, <2>2, OneMore
  <2>4. QED
    BY <1>2, <1>3, <2>1, <2>2, <2>3 DEF Sole
<1>6. QED
  BY <1>4, <1>5 DEF SoleInv

(* The steps that add no version. *)
LEMMA SoleBegin ==
    ASSUME Labelled, ObjectInv, SoleInv, NEW p \in Procs, NEW store, NEW kind,
           NEW bytes \in Payloads, BeginPut(p, store, kind, bytes)
    PROVE  SoleInv'
<1> PICK key : key = Key(store, kind, bytes)
  OBVIOUS
<1>1. key.bytes # Foreign
  BY PayloadAssumption DEF Key
<1> PICK j : j = [NoJob EXCEPT !.key = key]
  OBVIOUS
<1>2. /\ pc[p] = "idle" /\ pc'[p] = Entry(key) /\ job'[p] = j /\ j.key = key
      /\ Others(p) /\ NoteOverlap(key) /\ bucket' = bucket
  BY DEF BeginPut, Begins, At, Goto, Labelled, Others, ObjectInv, JobsInv, NoJob, stores
<1>3. \A k : k # key => Stage(p, k)' = "away"
  BY <1>2 DEF Stage, KeyOf
<1>4. Enters(p, key)
  BY <1>1, <1>2, Entering, NoOverlap DEF Enters, Stage, KeyOf
<1>5. QED
  BY <1>2, <1>3, <1>4, NoOverlap, StagesOfOthers, SoleWithoutPut

LEMMA SoleReturn ==
    ASSUME Labelled, ObjectInv, SoleInv, NEW p \in Procs, NEW from \in PutLabels, NEW ref,
           Returns(p, from, ref), ref.key = KeyOf(p), bucket' = bucket
    PROVE  SoleInv'
<1>1. /\ Others(p) /\ overlapped \subseteq overlapped'
      /\ \A k : Stage(p, k)' = "away" \/ Enters(p, k)
  BY Returning DEF ObjectInv
<1>2. QED
  BY <1>1, StagesOfOthers, SoleWithoutPut

LEMMA SoleRaise ==
    ASSUME Labelled, ObjectInv, SoleInv, NEW p \in Procs, NEW from, NEW key, Raises(p, from, key)
    PROVE  SoleInv'
<1>1. /\ Others(p) /\ \A k : Stage(p, k)' = "away"
      /\ bucket' = bucket /\ overlapped' = overlapped
  BY Raising DEF ObjectInv, stores
<1>2. QED
  BY <1>1, StagesOfOthers, SoleWithoutPut

LEMMA SoleAdvance ==
    ASSUME Labelled, ObjectInv, SoleInv, NEW p \in Procs, NEW from, NEW to, Advances(p, from, to),
           bucket' = bucket,
           \/ from = "head" /\ to = "put" /\ ~Found(p)
           \/ from \in ProofLabels /\ to \in ProofLabels
    PROVE  SoleInv'
<1>1. /\ "head" \in S3Labels /\ "put" \in S3Labels \ {"verify"} /\ "put" \notin ProofLabels
      /\ "away" \notin ProofLabels
  BY DEF S3Labels, ProofLabels
<1>2. /\ Others(p) /\ overlapped' = overlapped
      /\ \A k : Stage(p, k) = (IF k = KeyOf(p) THEN from ELSE "away")
      /\ \A k : Stage(p, k)' = (IF k = KeyOf(p) THEN to ELSE "away")
  BY <1>1, Advancing DEF ObjectInv
<1>3. \A k : \/ Stage(p, k)' = "away"
             \/ /\ Stage(p, k) # "away"
                /\ Stage(p, k)' = "put" => VersionsOf(k) = {}
  BY <1>1, <1>2 DEF Found
<1>4. QED
  BY <1>2, <1>3, StagesOfOthers, SoleWithoutPut

LEMMA SoleObjectStep ==
    ASSUME Labelled, ObjectInv, SoleInv, ObjectNext
    PROVE  SoleInv'
<1> USE DEF stores
<1>1. ASSUME NEW p \in Procs, HeadMisses(p) \/ HeadHits(p) \/ Verify(p) PROVE SoleInv'
  <2>1. {"head", "verify"} \subseteq PutLabels
    BY DEF PutLabels, S3Labels
  <2>2. CASE HeadMisses(p)
    BY <2>2, SoleAdvance DEF HeadMisses
  <2>3. CASE HeadHits(p)
    BY <2>1, <2>3, SoleReturn, SoleRaise DEF HeadHits, Reference
  <2>4. CASE Verify(p)
    BY <2>1, <2>4, SoleReturn, SoleRaise DEF Verify, Reference
  <2>5. QED
    BY <1>1, <2>2, <2>3, <2>4
<1>2. ASSUME NEW p \in Procs, ProofStep(p) PROVE SoleInv'
  <2>1. /\ {"look", "compare", "truncate", "fill", "describe", "finish"} \subseteq ProofLabels
        /\ ProofLabels \subseteq PutLabels
    BY DEF PutLabels, ProofLabels
  <2>2. CASE LookMisses(p) \/ LookHits(p)
    BY <2>1, <2>2, SoleAdvance, SoleRaise DEF LookMisses, LookHits
  <2>3. CASE Truncate(p) \/ Fill(p) \/ Describe(p)
    BY <2>1, <2>3, SoleAdvance DEF Truncate, Fill, Describe, WriteFile, WriteMetadata
  <2>4. CASE Compare(p)
    BY <2>1, <2>4, SoleReturn, SoleRaise DEF Compare, Reference
  <2>5. CASE Finish(p)
    BY <2>1, <2>5, SoleReturn DEF Finish, Reference, WriteMetadata
  <2>6. QED
    BY <1>2, <2>2, <2>3, <2>4, <2>5 DEF ProofStep
<1>3. ASSUME NEW p \in Procs, Restore(p) \/ Abandon(p) PROVE SoleInv'
  <2>1. /\ pc'[p] = "idle" /\ Others(p) /\ bucket' = bucket /\ overlapped' = overlapped
    BY <1>3 DEF Restore, Raises, Steps, Abandon, Faulty, At, Goto, Labelled, Others, ObjectInv,
                JobsInv
  <2>2. \A k : Stage(p, k)' = "away"
    BY <2>1, LabelsApart DEF Stage
  <2>3. QED
    BY <2>1, <2>2, StagesOfOthers, SoleWithoutPut
<1>4. QED
  BY <1>1, <1>2, <1>3, SoleBegin, SolePut, SoleForeignPut DEF ObjectNext, S3Step

(* PutsAreIdempotent: a retried or repeated put of the same bytes adds no   *)
(* second version of them to the bucket, unless two puts of the key were   *)
(* at work at once or the SDK repeated one, whatever deaths come between   *)
(* and whatever a foreign writer adds.                                     *)
THEOREM RetriesAddNothing == Spec => []PutsAreIdempotent
<1>1. Init => SoleInv
  <2> SUFFICES ASSUME Init, NEW key PROVE Sole(key)
    BY DEF SoleInv
  <2>1. /\ VersionsOf(key) = {} /\ OwnVersions(key) = {}
        /\ \A p \in Procs : Stage(p, key) = "away"
    BY LabelsApart DEF Init, ClientInit, ObjectInit, VersionsOf, OwnVersions, Stage
  <2>2. QED
    BY <2>1 DEF Sole
<1>2. Labelled /\ ObjectInv /\ SoleInv /\ [Next]_vars => SoleInv'
  <2> SUFFICES ASSUME Labelled, ObjectInv, SoleInv, [Next]_vars PROVE SoleInv'
    OBVIOUS
  <2>1. ASSUME UNCHANGED objectVars,
               \A q \in Procs : \/ pc'[q] = pc[q]
                                \/ pc[q] \notin ObjectLabels /\ pc'[q] \notin ObjectLabels
        PROVE  SoleInv'
    <3>1. PutLabels \subseteq ObjectLabels
      BY DEF PutLabels, ObjectLabels
    <3> SUFFICES ASSUME NEW key PROVE Sole(key)'
      BY DEF SoleInv
    <3>2. /\ VersionsOf(key)' = VersionsOf(key) /\ OwnVersions(key)' = OwnVersions(key)
          /\ \A q \in Procs : Stage(q, key)' = Stage(q, key)
          /\ overlapped' = overlapped
      BY <2>1, <3>1 DEF objectVars, stores, VersionsOf, OwnVersions, Stage, KeyOf
    <3>3. QED
      BY <3>2 DEF SoleInv, Sole
  <2>2. CASE (MigrationNext \/ QueueNext) /\ UNCHANGED objectVars
    BY <2>1, <2>2, DatabaseSteps
  <2>3. CASE UNCHANGED vars
    BY <2>1, <2>3 DEF vars, clientVars
  <2>4. QED
    BY <2>2, <2>3, SoleObjectStep DEF Next
<1>3. SoleInv => PutsAreIdempotent
  <2> SUFFICES ASSUME SoleInv, NEW v \in DOMAIN bucket, bucket[v].key \notin overlapped
               PROVE  Cardinality(OwnVersions(bucket[v].key)) <= 1
    BY DEF PutsAreIdempotent
  <2>1. \A u, w \in OwnVersions(bucket[v].key) : u = w
    BY DEF SoleInv, Sole
  <2>2. CASE OwnVersions(bucket[v].key) = {}
    BY <2>2, FS_EmptySet
  <2>3. CASE \E u \in OwnVersions(bucket[v].key) : OwnVersions(bucket[v].key) = {u}
    <3>1. PICK u : OwnVersions(bucket[v].key) = {u}
      BY <2>3
    <3>2. Cardinality({u}) = 1
      BY FS_Singleton
    <3>3. QED
      BY <3>1, <3>2
  <2>4. QED
    BY <2>1, <2>2, <2>3
<1>4. QED
  BY <1>1, <1>2, <1>3, AlwaysLabelled, ObjectInvariant, PTL DEF Spec

-----------------------------------------------------------------------------
(* Types: what the invariants above leave open of them.                    *)

(* The bounds on operations and faults hold. *)
Counted == operations \in 0..MaxOperations /\ faults \in 0..MaxFaults

Counts == \/ operations' = operations /\ faults' = faults
          \/ operations < MaxOperations /\ operations' = operations + 1 /\ faults' = faults
          \/ faults < MaxFaults /\ faults' = faults + 1 /\ operations' = operations

LEMMA ClientCounts ==
    ASSUME NEW p, NEW from, NEW to
    PROVE  /\ Begins(p, to) => Counts
           /\ Steps(p, from, to) => Counts
           /\ Faulty(p, to) => Counts
BY DEF Begins, Steps, Faulty, Counts

LEMMA StepCounts == ASSUME [Next]_vars PROVE Counts
<1>1. ASSUME NEW p \in Procs, ApplyStep(p) PROVE Counts
  BY <1>1, ClientCounts DEF ApplyStep, LockMigrations, ReadApplied, Skip, Execute, Refuse, Commit
<1>2. CASE MigrationNext
  BY <1>1, <1>2, ClientCounts DEF MigrationNext, BeginApply, CommitUnanswered, Abort
<1>3. ASSUME NEW p, NEW from, NEW ref, Returns(p, from, ref) PROVE Counts
  <2>1. CASE ref.key.kind = "report"
    BY <1>3, <2>1, ClientCounts DEF Returns
  <2>2. CASE ref.key.kind = "backup"
    <3>1. \E to : Steps(p, from, to)
      BY <1>3, <2>2 DEF Returns
    <3>2. QED
      BY <3>1, ClientCounts
  <2>3. CASE ref.key.kind \notin {"report", "backup"}
    BY <1>3, <2>3, ClientCounts DEF Returns
  <2>4. QED
    BY <2>1, <2>2, <2>3
<1>4. ASSUME NEW p, NEW from, NEW key, Raises(p, from, key) PROVE Counts
  BY <1>4, ClientCounts DEF Raises
<1>5. ASSUME NEW p, NEW from, NEW to, Advances(p, from, to) PROVE Counts
  BY <1>5, ClientCounts DEF Advances
<1>6. ASSUME NEW p \in Procs, S3Step(p) PROVE Counts
  BY <1>3, <1>4, <1>5, <1>6, ClientCounts DEF S3Step, HeadMisses, HeadHits, Put, Verify
<1>7. ASSUME NEW p \in Procs, ProofStep(p) PROVE Counts
  BY <1>3, <1>4, <1>5, <1>7
  DEF ProofStep, LookMisses, LookHits, Compare, Truncate, Fill, Describe, Finish
<1>8. ASSUME NEW p \in Procs, Restore(p) PROVE Counts
  BY <1>4, <1>8, ClientCounts DEF Restore
<1>9. ASSUME NEW p \in Procs, PutTwice(p) \/ Abandon(p) PROVE Counts
  BY <1>9, ClientCounts DEF PutTwice, Abandon
<1>10. ASSUME ForeignPut PROVE Counts
  BY <1>10 DEF ForeignPut, Counts
<1>11. ASSUME NEW p \in Procs, NEW store, NEW kind, NEW bytes, BeginPut(p, store, kind, bytes)
       PROVE  Counts
  BY <1>11, ClientCounts DEF BeginPut
<1>12. CASE ObjectNext
  BY <1>6, <1>7, <1>8, <1>9, <1>10, <1>11, <1>12 DEF ObjectNext
<1>13. CASE QueueNext
  BY <1>13, ClientCounts DEF QueueNext, Enqueue, EnqueueUnanswered, Tick, clientVars, Counts
<1>14. CASE UNCHANGED vars
  BY <1>14 DEF vars, clientVars, Counts
<1>15. QED
  BY <1>2, <1>12, <1>13, <1>14 DEF Next

LEMMA AlwaysCounted == Spec => []Counted
<1>1. Init => Counted
  BY ClientAssumption DEF Init, ClientInit, Counted
<1>2. Counted /\ [Next]_vars => Counted'
  <2>1. SUFFICES ASSUME Counted, Counts PROVE Counted'
    BY StepCounts
  <2>2. QED
    BY <2>1, ClientAssumption DEF Counted, Counts
<1>3. QED
  BY <1>1, <1>2, PTL DEF Spec

(* A client that is in no apply has no transaction, and the answers are of  *)
(* catalogs.                                                               *)
Between ==
    /\ migrator \in Procs \cup {Free}
    /\ \A p \in Procs : pc[p] \notin MigrationLabels => transaction[p] = NoTransaction
    /\ applies \subseteq [catalog : Catalogs, answer : {"valid", "refused", "lost"}]

LEMMA BetweenOutside ==
    ASSUME Labelled, Between, MovesOutside, UNCHANGED migrationVars
    PROVE  Between'
<1>1. ASSUME NEW q \in Procs, pc'[q] \notin MigrationLabels PROVE pc[q] \notin MigrationLabels
  <2>1. Outside \cap MigrationLabels = {}
    BY DEF Outside, MigrationLabels, ObjectLabels, S3Labels, ProofLabels
  <2>2. QED
    BY <1>1, <2>1 DEF MovesOutside, Labelled
<1>2. QED
  BY <1>1 DEF Between, migrationVars

LEMMA BetweenEnds ==
    ASSUME MigrationInv, Between, NEW p \in Procs, pc[p] \in MigrationLabels,
           NEW answer \in {"valid", "refused", "lost"}, Ends(p, answer),
           pc' = [pc EXCEPT ![p] = "idle"]
    PROVE  Between'
<1>1. transaction[p].catalog \in Catalogs
  BY DEF MigrationInv
<1>2. migrator' \in Procs \cup {Free}
  BY DEF Ends, LockAfter, Between
<1>3. applies' \subseteq [catalog : Catalogs, answer : {"valid", "refused", "lost"}]
  BY <1>1 DEF Ends, Between
<1>4. ASSUME NEW q \in Procs, pc'[q] \notin MigrationLabels PROVE transaction'[q] = NoTransaction
  BY <1>4 DEF MigrationInv, Ends, Between
<1>5. QED
  BY <1>2, <1>3, <1>4 DEF Between

LEMMA BetweenStep ==
    ASSUME MigrationInv, Between, [Next]_vars
    PROVE  Between'
<1> USE DEF Steps, Begins, Faulty, At, Goto
<1>1. ASSUME NEW p \in Procs, LockMigrations(p) \/ ReadApplied(p) \/ Skip(p) \/ Execute(p)
      PROVE  Between'
  <2>1. /\ pc[p] \in MigrationLabels /\ \A q \in Procs : q # p => pc'[q] = pc[q]
        /\ pc'[p] \in MigrationLabels
        /\ \A q \in Procs : q # p => transaction'[q] = transaction[q]
        /\ applies' = applies /\ migrator' \in {migrator, p}
    BY <1>1 DEF LockMigrations, ReadApplied, Skip, Execute, MigrationLabels, MigrationInv
  <2>2. QED
    BY <2>1 DEF Between
<1>2. ASSUME NEW p \in Procs, Refuse(p) \/ Commit(p) \/ CommitUnanswered(p) \/ Abort(p)
      PROVE  Between'
  BY <1>2, BetweenEnds DEF Refuse, Commit, CommitUnanswered, Abort, MigrationLabels
<1>3. ASSUME NEW p \in Procs, NEW c \in Catalogs, BeginApply(p, c) PROVE Between'
  BY <1>3 DEF BeginApply, Between, MigrationInv, MigrationLabels
<1>4. CASE MigrationNext
  BY <1>1, <1>2, <1>3, <1>4 DEF MigrationNext, ApplyStep
<1>5. Labelled
  BY DEF MigrationInv, Labelled
<1>6. CASE ObjectNext /\ UNCHANGED migrationVars
  BY <1>5, <1>6, ObjectMoves, BetweenOutside
<1>7. CASE QueueNext /\ UNCHANGED migrationVars
  BY <1>5, <1>7, QueueMoves, BetweenOutside
<1>8. CASE UNCHANGED vars
  BY <1>5, <1>8, BetweenOutside DEF vars, clientVars, MovesOutside
<1>9. QED
  BY <1>4, <1>6, <1>7, <1>8 DEF Next

LEMMA MigrationTyped ==
    ASSUME MigrationInv, Between
    PROVE  MigrationTypeOK
<1> DEFINE AnyRows == UNION {RowsOf(c) : c \in Catalogs}
<1>1. rows \subseteq AnyRows /\ RowsOf(<<>>) = {}
  BY DEF MigrationInv, RowsOf
<1>2. schema \in Seq(UNION {Range(c) : c \in Catalogs})
  BY CatalogTyped DEF MigrationInv, Bytes
<1>3. ASSUME NEW p \in Procs
      PROVE  /\ transaction[p].catalog \in Catalogs \cup {<<>>}
             /\ transaction[p].next \in 1..Len(transaction[p].catalog) + 1
             /\ transaction[p].read \cup transaction[p].inserted \subseteq AnyRows
             /\ transaction[p].executed \in Seq(Range(transaction[p].catalog))
  <2> DEFINE t == transaction[p]
  <2>1. t.catalog \in Catalogs \cup {<<>>} /\ t.next \in Nat \ {0} /\ Len(t.catalog) \in Nat
        /\ DOMAIN t.catalog = 1..Len(t.catalog)
    BY CatalogTyped DEF MigrationInv, Transactions
  <2>2. <<>> \in Seq(Range(t.catalog))
    OBVIOUS
  <2>3. CASE pc[p] \notin MigrationLabels
    <3>1. t = NoTransaction
      BY <2>3 DEF Between
    <3>2. t.catalog = <<>> /\ t.read = {} /\ t.next = 1 /\ t.executed = <<>> /\ t.inserted = {}
      BY <3>1 DEF NoTransaction, NewTransaction
    <3>3. QED
      BY <2>1, <2>2, <3>2
  <2>4. CASE pc[p] \in {"lock", "read"}
    <3>1. Fresh(t)
      BY <2>4 DEF MigrationInv
    <3> HIDE DEF t
    <3>2. t.read = {} /\ t.next = 1 /\ t.executed = <<>> /\ t.inserted = {}
      BY <3>1 DEF Fresh
    <3>3. t.next \in 1..Len(t.catalog) + 1 /\ t.read \cup t.inserted \subseteq AnyRows
          /\ t.executed \in Seq(Range(t.catalog))
      BY <2>1, <2>2, <3>2
    <3>4. QED
      BY <2>1, <3>3 DEF t
  <2>5. CASE pc[p] = "migrate"
    <3>1. Agrees(t) /\ t.catalog \in Catalogs
      BY <2>5 DEF MigrationInv, MigrationLabels
    <3> HIDE DEF t
    <3>2. Len(schema) \in Nat
      BY CatalogTyped DEF MigrationInv
    <3>3. /\ t.read = rows /\ t.next <= Len(t.catalog) + 1
          /\ t.executed = SubSeq(t.catalog, Len(schema) + 1, t.next - 1)
          /\ t.inserted = {Row(v, t.catalog[v]) : v \in Len(schema) + 1 .. t.next - 1}
      BY <3>1 DEF Agrees
    <3>4. \A v \in Len(schema) + 1 .. t.next - 1 : v \in DOMAIN t.catalog
      BY <2>1, <3>2, <3>3
    <3>5. t.inserted \subseteq RowsOf(t.catalog)
      BY <3>3, <3>4 DEF RowsOf
    <3>6. t.catalog \in Seq(Range(t.catalog))
      BY <3>1, CatalogAssumption
    <3>7. t.executed \in Seq(Range(t.catalog))
      <4>1. \A v \in Len(schema) + 1 .. t.next - 1 : t.catalog[v] \in Range(t.catalog)
        BY <3>4 DEF Range
      <4>2. QED
        BY <2>1, <3>2, <3>3, <3>6, <4>1, SubSeqProperties
    <3>8. t.read \cup t.inserted \subseteq AnyRows
      BY <1>1, <3>1, <3>3, <3>5
    <3>9. t.next \in 1..Len(t.catalog) + 1
      BY <2>1, <3>3
    <3>10. QED
      BY <2>1, <3>7, <3>8, <3>9 DEF t
  <2>6. QED
    BY <2>3, <2>4, <2>5 DEF MigrationLabels
<1>4. QED
  BY <1>1, <1>2, <1>3 DEF MigrationTypeOK, Between

(* The clock stays below its bound, and so do the lifetimes. *)
QueueTyped == now \in 0..MaxNow /\ QueueTypeOK

LEMMA QueueTypesKept ==
    ASSUME QueueTyped, [Next]_vars
    PROVE  QueueTyped'
<1> DEFINE Limits == 1..MaxNow + MaxTTL
<1>1. /\ now \in Nat /\ now <= MaxNow /\ MaxNow \in Nat /\ MaxTTL \in Nat
      /\ queue = [k \in DOMAIN queue |-> queue[k]] /\ \A k \in DOMAIN queue : queue[k] \in Limits
  BY QueueAssumption DEF QueueTyped, QueueTypeOK
<1>2. ASSUME NEW ttl \in 1..MaxTTL PROVE now + ttl \in Limits
  BY <1>1
<1> HIDE DEF Limits
<1>3. ASSUME NEW key, NEW ttl \in 1..MaxTTL
      PROVE  Set(key, ttl) \in [DOMAIN Set(key, ttl) -> Limits]
  BY <1>1, <1>2 DEF Set
<1>4. CASE UNCHANGED queueVars
  BY <1>4 DEF queueVars, QueueTyped, QueueTypeOK
<1>5. ASSUME NEW p \in Procs, NEW item \in Items, NEW ttl \in 1..MaxTTL, Enqueue(p, item, ttl)
      PROVE  QueueTyped'
  <2>1. queue' = Set(item, ttl) /\ now' = now
    BY <1>5 DEF Enqueue, ItemKey
  <2>2. answers' \subseteq [item : Items, at : 0..MaxNow, until : Limits, told : {"stored", "refused"}]
    <3>1. [item |-> item, at |-> now, until |-> now + ttl,
           told |-> IF Stores(ItemKey(item)) THEN "stored" ELSE "refused"]
             \in [item : Items, at : 0..MaxNow, until : Limits, told : {"stored", "refused"}]
      BY <1>1, <1>2
    <3>2. QED
      BY <1>5, <3>1 DEF Enqueue, Answer, QueueTyped, QueueTypeOK, Limits
  <2>3. QED
    BY <1>3, <2>1, <2>2 DEF QueueTyped, QueueTypeOK, Limits
<1>6. ASSUME NEW p \in Procs, NEW item \in Items, NEW ttl \in 1..MaxTTL,
             EnqueueUnanswered(p, item, ttl)
      PROVE  QueueTyped'
  <2>1. now' = now /\ answers' = answers /\ queue' \in {queue, Set(item, ttl)}
    BY <1>6 DEF EnqueueUnanswered, ItemKey
  <2>2. queue' \in [DOMAIN queue' -> Limits]
    BY <1>1, <1>3, <2>1
  <2>3. QED
    BY <2>1, <2>2 DEF QueueTyped, QueueTypeOK, Limits
<1>7. CASE Tick
  <2>1. now' \in 0..MaxNow /\ answers' = answers
    BY <1>1, <1>7 DEF Tick
  <2>2. queue' \in [DOMAIN queue' -> Limits]
    BY <1>1, <1>7 DEF Tick, Restrict
  <2>3. QED
    BY <2>1, <2>2 DEF QueueTyped, QueueTypeOK, Limits
<1>8. QED
  BY <1>4, <1>5, <1>6, <1>7 DEF Next, QueueNext, vars

(* Keys are of one of the two stores, the files are those of the proof      *)
(* store, and its references have its version.                             *)
Stored(key) == key.store \in {"s3", "proof"}

Placed(p) == pc[p] \in PutLabels => Stored(KeyOf(p))

FilesTyped ==
    /\ files \in [DOMAIN files -> Contents] /\ metadata \in [DOMAIN metadata -> Contents]
    /\ \A key \in DOMAIN files \cup DOMAIN metadata : ~OnS3(key)

Places ==
    /\ \A ref \in references : Stored(ref.key) /\ (~OnS3(ref.key) => ref.version = ProofVersion)
    /\ \A p \in Procs : Placed(p)

LEMMA PlacesFramed ==
    ASSUME Places, NEW p \in Procs, Others(p), Placed(p)',
           \A ref \in references' : \/ ref \in references
                                    \/ /\ Stored(ref.key)
                                       /\ ~OnS3(ref.key) => ref.version = ProofVersion
    PROVE  Places'
<1>1. ASSUME NEW q \in Procs PROVE Placed(q)'
  BY DEF Others, Places, Placed, KeyOf, Stored
<1>2. QED
  BY <1>1 DEF Places, Stored, OnS3

LEMMA PlacesReturn ==
    ASSUME Labelled, JobsInv, Places, NEW p \in Procs, NEW from \in PutLabels, NEW ref,
           Returns(p, from, ref), ref.key = KeyOf(p), ~OnS3(ref.key) => ref.version = ProofVersion
    PROVE  Places'
<1>1. Others(p) /\ DOMAIN job' = Procs /\ references' = references \cup {ref} /\ pc[p] = from
  BY Returning
<1>2. Stored(ref.key)
  BY <1>1 DEF Places, Placed
<1>3. JobOK(p) /\ DOMAIN job = Procs /\ DOMAIN pc = Procs
  BY DEF JobsInv, Labelled
<1>4. Placed(p)'
  <2> USE DEF Steps, At, Goto
  <2>1. CASE ref.key.kind = "report"
    <3>1. pc'[p] = "idle"
      BY <1>3, <2>1 DEF Returns
    <3>2. QED
      BY <3>1, LabelsApart DEF Placed
  <2>2. CASE ref.key.kind = "backup"
    <3>1. PICK t \in Times :
              job' = [job EXCEPT ![p] = [NoJob EXCEPT
                         !.key = Key(ref.key.store, "recovery_manifest", <<ref, t>>),
                         !.backup = ref]]
      BY <2>2 DEF Returns
    <3>2. job'[p].key.store = ref.key.store
      BY <1>3, <3>1 DEF NoJob, Key
    <3>3. QED
      BY <1>2, <3>2 DEF Placed, KeyOf, Stored
  <2>3. CASE ref.key.kind \notin {"report", "backup"}
    <3>1. pc'[p] = "restore"
      BY <1>3, <2>3 DEF Returns
    <3>2. QED
      BY <3>1, LabelsApart DEF Placed
  <2>4. QED
    BY <2>1, <2>2, <2>3
<1>5. QED
  BY <1>1, <1>2, <1>4, PlacesFramed

LEMMA PlacesRaise ==
    ASSUME Labelled, JobsInv, Places, NEW p \in Procs, NEW from, NEW key, Raises(p, from, key)
    PROVE  Places'
<1>1. Others(p) /\ references' = references /\ pc'[p] = "idle"
  <2>1. pc'[p] = "idle"
    BY DEF Raises, Steps, Goto, Labelled
  <2>2. QED
    BY <2>1, Raising
<1>2. Placed(p)'
  BY <1>1, LabelsApart DEF Placed
<1>3. QED
  BY <1>1, <1>2, PlacesFramed

LEMMA PlacesAdvance ==
    ASSUME Labelled, JobsInv, Places, NEW p \in Procs, NEW from \in PutLabels, NEW to,
           Advances(p, from, to)
    PROVE  Places'
<1>1. Others(p) /\ references' = references /\ job' = job /\ pc[p] = from
  BY DEF Advances, Steps, At, Goto, Others, Labelled
<1>2. Placed(p)'
  BY <1>1 DEF Placed, Places, KeyOf, Stored
<1>3. QED
  BY <1>1, <1>2, PlacesFramed

LEMMA PlacesStep ==
    ASSUME Labelled, ObjectInv, Places, ObjectNext
    PROVE  Places'
<1> USE DEF Steps, Begins, Faulty, At, Goto
<1>0. JobsInv /\ BucketInv /\ DOMAIN job = Procs /\ DOMAIN pc = Procs
  BY DEF ObjectInv, JobsInv, Labelled
<1>1. ASSUME NEW p \in Procs, NEW store \in {"s3", "proof"}, NEW kind, NEW bytes,
             BeginPut(p, store, kind, bytes)
      PROVE  Places'
  <2>1. Others(p) /\ references' = references /\ job'[p].key.store = store
    BY <1>0, <1>1 DEF BeginPut, Others, NoJob, Key
  <2>2. Placed(p)'
    BY <2>1 DEF Placed, KeyOf, Stored
  <2>3. QED
    BY <2>1, <2>2, PlacesFramed
<1>2. ASSUME NEW p \in Procs, Restore(p) PROVE Places'
  <2>1. CASE Raises(p, "restore", job[p].backup.key)
    BY <1>0, <2>1, PlacesRaise
  <2>2. CASE Steps(p, "restore", "idle") /\ job' = [job EXCEPT ![p] = NoJob]
             /\ references' = references
    <3>1. Others(p) /\ pc'[p] = "idle"
      BY <1>0, <2>2 DEF Others
    <3>2. Placed(p)'
      BY <3>1, LabelsApart DEF Placed
    <3>3. QED
      BY <2>2, <3>1, <3>2, PlacesFramed
  <2>3. QED
    BY <1>2, <2>1, <2>2 DEF Restore
<1>3. ASSUME NEW p \in Procs, Abandon(p) PROVE Places'
  <2>1. Others(p) /\ pc'[p] = "idle" /\ references' = references
    BY <1>0, <1>3 DEF Abandon, Others
  <2>2. Placed(p)'
    BY <2>1, LabelsApart DEF Placed
  <2>3. QED
    BY <2>1, <2>2, PlacesFramed
<1>4. ASSUME NEW p \in Procs, PutTwice(p) PROVE Places'
  <2>1. pc' = pc /\ job' = job /\ references' = references
    BY <1>0, <1>4 DEF PutTwice, Labelled
  <2>2. QED
    BY <2>1 DEF Places, Placed, KeyOf, Stored, OnS3
<1>5. CASE ForeignPut
  BY <1>5 DEF ForeignPut, Places, Placed, KeyOf, Stored, OnS3
<1>6. ASSUME NEW p \in Procs, Put(p) PROVE Places'
  <2>1. PutAccepted(p)
    BY DEF PutAccepted
  <2>2. Others(p) /\ references' = references /\ pc[p] = "put"
        /\ job' = [job EXCEPT ![p].version = Len(bucket) + 1]
    BY <1>0, <1>6, <2>1 DEF Put, Others
  <2>3. job'[p].key = job[p].key
    <3>1. IsJob(job[p])
      BY <1>0 DEF JobsInv, JobOK
    <3>2. QED
      BY <1>0, <2>2, <3>1 DEF IsJob
  <2>4. Stored(KeyOf(p))
    BY <2>2 DEF Places, Placed, PutLabels, S3Labels
  <2>5. Placed(p)'
    BY <2>3, <2>4 DEF Placed, KeyOf, Stored
  <2>6. QED
    BY <2>2, <2>5, PlacesFramed
<1>7. ASSUME NEW p \in Procs, NEW from \in S3Labels, NEW version,
             \/ Returns(p, from, Reference(KeyOf(p), version))
             \/ Raises(p, from, KeyOf(p))
      PROVE  Places'
  <2> PICK ref : ref = Reference(KeyOf(p), version)
    OBVIOUS
  <2>1. ref.key = KeyOf(p) /\ from \in PutLabels
    BY DEF Reference, PutLabels
  <2>2. CASE Raises(p, from, KeyOf(p))
    BY <1>0, <2>2, PlacesRaise
  <2>3. CASE Returns(p, from, ref)
    <3>1. pc[p] = from
      BY <2>3 DEF Returns
    <3>2. OnS3(ref.key)
      BY <1>0, <1>7, <2>1, <3>1 DEF JobsInv, JobOK
    <3>3. QED
      BY <1>0, <2>1, <2>3, <3>2, PlacesReturn
  <2>4. QED
    BY <1>7, <2>2, <2>3
<1>8. ASSUME NEW p \in Procs, HeadHits(p) \/ Verify(p) PROVE Places'
  <2>1. "head" \in S3Labels /\ "verify" \in S3Labels
    BY DEF S3Labels
  <2>2. \A v : Reference(KeyOf(p), v).key = KeyOf(p)
    BY DEF Reference
  <2>3. CASE HeadHits(p)
    BY <1>7, <2>1, <2>2, <2>3 DEF HeadHits
  <2>4. CASE Verify(p)
    BY <1>7, <2>1, <2>2, <2>4 DEF Verify
  <2>5. QED
    BY <1>8, <2>3, <2>4
<1>9. ASSUME NEW p \in Procs, HeadMisses(p) PROVE Places'
  BY <1>0, <1>9, PlacesAdvance DEF HeadMisses, PutLabels, S3Labels
<1>10. ASSUME NEW p \in Procs, NEW from \in PutLabels,
              \/ Returns(p, from, Reference(KeyOf(p), ProofVersion))
              \/ Raises(p, from, KeyOf(p))
              \/ \E to : Advances(p, from, to)
       PROVE  Places'
  <2> PICK ref : ref = Reference(KeyOf(p), ProofVersion)
    OBVIOUS
  <2>1. ref.key = KeyOf(p) /\ ref.version = ProofVersion
    BY DEF Reference
  <2>2. QED
    BY <1>0, <1>10, <2>1, PlacesReturn, PlacesRaise, PlacesAdvance
<1>11. ASSUME NEW p \in Procs, ProofStep(p) PROVE Places'
  <2>1. ProofLabels \subseteq PutLabels
    BY DEF PutLabels
  <2>2. {"look", "compare", "truncate", "fill", "describe", "finish"} \subseteq PutLabels
    BY <2>1 DEF ProofLabels
  <2>3. QED
    BY <1>10, <1>11, <2>2
    DEF ProofStep, LookMisses, LookHits, Compare, Truncate, Fill, Describe, Finish
<1>12. QED
  BY <1>1, <1>2, <1>3, <1>4, <1>5, <1>6, <1>8, <1>9, <1>11 DEF ObjectNext, S3Step

LEMMA WrittenTyped ==
    ASSUME NEW f, f \in [DOMAIN f -> Contents], \A k \in DOMAIN f : ~OnS3(k),
           NEW key, ~OnS3(key), NEW content \in Contents
    PROVE  /\ Written(f, key, content) \in [DOMAIN Written(f, key, content) -> Contents]
           /\ \A k \in DOMAIN Written(f, key, content) : ~OnS3(k)
BY DEF Written

LEMMA FilesStep ==
    ASSUME Labelled, ObjectInv, FilesTyped, ObjectNext
    PROVE  FilesTyped'
<1>1. ASSUME files' = files, metadata' = metadata PROVE FilesTyped'
  BY <1>1 DEF FilesTyped, OnS3
<1>2. ASSUME NEW p \in Procs, pc[p] \in ProofLabels PROVE ~OnS3(KeyOf(p))
  BY <1>2 DEF ObjectInv, JobsInv, JobOK
<1>3. ASSUME NEW p \in Procs, Truncate(p) \/ Fill(p) \/ Describe(p) \/ Finish(p)
      PROVE  FilesTyped'
  <2>1. pc[p] \in ProofLabels
    BY <1>3 DEF Truncate, Fill, Describe, Finish, Advances, Returns, Steps, At, ProofLabels
  <2>2. PICK content \in Contents :
           \/ WriteFile(KeyOf(p), content) \/ WriteMetadata(KeyOf(p), content)
    BY <1>3 DEF Truncate, Fill, Describe, Finish, Contents
  <2>3. ~OnS3(KeyOf(p))
    BY <1>2, <2>1
  <2>4. CASE WriteFile(KeyOf(p), content)
    <3>1. files' = Written(files, KeyOf(p), content) /\ metadata' = metadata
      BY <2>4 DEF WriteFile
    <3>2. QED
      BY <2>3, <3>1, WrittenTyped DEF FilesTyped, OnS3
  <2>5. CASE WriteMetadata(KeyOf(p), content)
    <3>1. metadata' = Written(metadata, KeyOf(p), content) /\ files' = files
      BY <2>5 DEF WriteMetadata
    <3>2. QED
      BY <2>3, <3>1, WrittenTyped DEF FilesTyped, OnS3
  <2>6. QED
    BY <2>2, <2>4, <2>5
<1>4. ASSUME NEW p \in Procs, NEW store, NEW kind, NEW bytes, BeginPut(p, store, kind, bytes)
      PROVE  FilesTyped'
  BY <1>1, <1>4 DEF BeginPut, stores
<1>5. ASSUME NEW p \in Procs, Restore(p) \/ Abandon(p) \/ PutTwice(p) PROVE FilesTyped'
  BY <1>1, <1>5 DEF Restore, Raises, Abandon, PutTwice, AddVersion, stores
<1>6. ASSUME NEW p \in Procs, S3Step(p) PROVE FilesTyped'
  BY <1>1, <1>6 DEF S3Step, HeadMisses, HeadHits, Put, Verify, Raises, AddVersion, stores
<1>7. ASSUME NEW p \in Procs, LookMisses(p) \/ LookHits(p) \/ Compare(p) PROVE FilesTyped'
  BY <1>1, <1>7 DEF LookMisses, LookHits, Compare, Raises, stores
<1>8. CASE ForeignPut
  BY <1>1, <1>8 DEF ForeignPut, AddVersion
<1>9. QED
  BY <1>3, <1>4, <1>5, <1>6, <1>7, <1>8 DEF ObjectNext, ProofStep

LEMMA PlacesElsewhere ==
    ASSUME Places, FilesTyped, UNCHANGED objectVars,
           \A q \in Procs : \/ pc'[q] = pc[q]
                            \/ pc[q] \notin ObjectLabels /\ pc'[q] \notin ObjectLabels
    PROVE  Places' /\ FilesTyped'
<1>1. ASSUME NEW q \in Procs, pc'[q] \in PutLabels PROVE pc[q] \in PutLabels
  BY <1>1 DEF PutLabels, ObjectLabels
<1>2. QED
  BY <1>1 DEF Places, Placed, KeyOf, Stored, OnS3, FilesTyped, objectVars, stores

LEMMA AlwaysPlaced == Spec => [](Places /\ FilesTyped)
<1>1. Init => Places /\ FilesTyped
  <2> SUFFICES ASSUME Init PROVE Places /\ FilesTyped
    OBVIOUS
  <2>1. Places
    BY LabelsApart DEF Init, ClientInit, ObjectInit, Places, Placed
  <2>2. \A f : f = [k \in {} |-> Absent] => DOMAIN f = {} /\ f \in [{} -> Contents]
    OBVIOUS
  <2>3. FilesTyped
    BY <2>2 DEF Init, ObjectInit, FilesTyped
  <2>4. QED
    BY <2>1, <2>3
<1>2. Labelled /\ ObjectInv /\ (Places /\ FilesTyped) /\ [Next]_vars => (Places /\ FilesTyped)'
  <2> SUFFICES ASSUME Labelled, ObjectInv, Places, FilesTyped, [Next]_vars
               PROVE  Places' /\ FilesTyped'
    OBVIOUS
  <2>1. CASE ObjectNext
    BY <2>1, PlacesStep, FilesStep
  <2>2. CASE (MigrationNext \/ QueueNext) /\ UNCHANGED objectVars
    BY <2>2, DatabaseSteps, PlacesElsewhere
  <2>3. CASE UNCHANGED vars
    BY <2>3, PlacesElsewhere DEF vars, clientVars
  <2>4. QED
    BY <2>1, <2>2, <2>3 DEF Next
<1>3. QED
  BY <1>1, <1>2, AlwaysLabelled, ObjectInvariant, PTL DEF Spec

LEMMA ObjectTyped ==
    ASSUME ObjectInv, Places, FilesTyped
    PROVE  ObjectTypeOK
<1>1. \A v \in DOMAIN bucket : OnS3(bucket[v].key)
  BY DEF ObjectInv, BucketInv
<1>2. \A ref \in references : IF OnS3(ref.key) THEN ref.version \in DOMAIN bucket
                                               ELSE ref.version = ProofVersion
  BY DEF ObjectInv, BucketInv, Places, Restores, VersionsOf
<1>3. ASSUME NEW p \in Procs, pc[p] \in ObjectLabels PROVE job[p] # NoJob
  <2>1. ~Stored(NoKey) /\ NoJob.key = NoKey /\ NoJob.backup.key = NoKey
    BY DEF Stored, NoKey, Key, NoJob, NoReference, Reference
  <2>2. CASE pc[p] \in PutLabels
    BY <2>1, <2>2 DEF Places, Placed, KeyOf
  <2>3. CASE pc[p] = "restore"
    <3>1. Stored(job[p].backup.key)
      BY <2>3 DEF ObjectInv, JobsInv, JobOK, Places
    <3>2. QED
      BY <2>1, <3>1
  <2>4. QED
    BY <1>3, <2>2, <2>3 DEF ObjectLabels, PutLabels
<1>4. QED
  BY <1>1, <1>2, <1>3 DEF ObjectTypeOK, FilesTyped

(* RuntimePersistence!TypeOK: the types of the three services, with what    *)
(* they say of a client at work, for any clients and bounds.               *)
THEOREM RuntimeTypes == Spec => []TypeOK
<1>1. Init => QueueTyped
  <2> SUFFICES ASSUME Init PROVE QueueTyped
    OBVIOUS
  <2>1. \A f : f = [k \in {} |-> 0] => DOMAIN f = {} /\ f \in [{} -> 1..MaxNow + MaxTTL]
    OBVIOUS
  <2>2. QED
    BY <2>1, QueueAssumption DEF Init, QueueInit, QueueTyped, QueueTypeOK
<1>2. QueueTyped /\ [Next]_vars => QueueTyped'
  BY QueueTypesKept
<1>3. Init => Between
  <2> SUFFICES ASSUME Init PROVE Between
    OBVIOUS
  <2>1. QED
    BY DEF Init, MigrationInit, Between
<1>4. MigrationInv /\ Between /\ [Next]_vars => Between'
  BY BetweenStep
<1>5. MigrationInv /\ Between /\ ObjectInv /\ Places /\ FilesTyped /\ Counted /\ QueueTyped => TypeOK
  BY MigrationTyped, ObjectTyped DEF TypeOK, Counted, QueueTyped, MigrationInv
<1>6. Spec => []QueueTyped
  BY <1>1, <1>2, PTL DEF Spec
<1>7. Spec => []Between
  BY <1>3, <1>4, MigrationInvariant, PTL DEF Spec
<1>8. QED
  BY <1>5, <1>6, <1>7, AlwaysCounted, AlwaysPlaced, MigrationInvariant, ObjectInvariant, PTL
=============================================================================
