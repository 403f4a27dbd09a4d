----------------------------- MODULE Migrations -----------------------------
(***************************************************************************)
(* PostgresMigrationCatalog.apply of src/athena/persistence.py.  A client   *)
(* opens a transaction, takes the advisory lock, reads the migrations that  *)
(* are applied, executes and records those of its catalog that are not, and *)
(* commits once.  The clients may hold different versions of the repository,*)
(* hence different catalogs; a connection may be lost at any statement,     *)
(* and at the commit with its answer.                                       *)
(*                                                                         *)
(* A migration is its bytes (file name and digest), its version is its     *)
(* position in the catalog, which validate() makes contiguous from 1.      *)
(* PostgreSQL is external: a transaction is invisible until it commits, an *)
(* advisory lock of a transaction is released when it ends, a statement    *)
(* that creates what exists or repeats a key raises, and a statement reads *)
(* what is committed when it runs (READ COMMITTED, the server's default).  *)
(***************************************************************************)
EXTENDS RuntimeClients, Functions

CONSTANTS Catalogs,  \* the catalogs of the repository's versions
          Free       \* the advisory lock when no transaction holds it

ASSUME CatalogAssumption ==
    /\ \A c \in Catalogs : c \in Seq(Range(c)) /\ c # <<>> /\ IsInjective(c)
    /\ Free \notin Procs

VARIABLES rows,         \* athena.schema_migrations: [version, bytes], committed
          schema,       \* the migrations whose SQL is committed, in that order
          migrator,     \* holder of the advisory lock
          transaction,  \* per client: its catalog and its open transaction
          applies       \* history: applies that ended, and how

databaseVars  == <<rows, schema>>
migrationVars == <<databaseVars, migrator, transaction, applies>>

MigrationLabels == {"lock", "read", "migrate"}

Row(v, bytes) == [version |-> v, bytes |-> bytes]
RowsOf(c)     == {Row(v, c[v]) : v \in DOMAIN c}

NewTransaction(c) == [catalog |-> c, read |-> {}, next |-> 1, executed |-> <<>>, inserted |-> {}]
NoTransaction == NewTransaction(<<>>)

(* A database is empty, or initialised by the files of deploy/ from one of *)
(* the catalogs.                                                           *)
MigrationInit ==
    /\ \E c \in Catalogs \cup {<<>>} : rows = RowsOf(c) /\ schema = c
    /\ migrator = Free
    /\ transaction = [p \in Procs |-> NoTransaction]
    /\ applies = {}

BeginApply(p, c) ==
    /\ Begins(p, "lock")
    /\ transaction' = [transaction EXCEPT ![p] = NewTransaction(c)]
    /\ UNCHANGED <<databaseVars, migrator, applies>>

KeyOfOwn(p) == TRUE                                                   \* fault
LockGranted(p) == migrator = Free

LockMigrations(p) ==
    /\ LockGranted(p)
    /\ Steps(p, "lock", "read")
    /\ migrator' = p
    /\ UNCHANGED <<databaseVars, transaction, applies>>

ReadApplied(p) ==
    /\ Steps(p, "read", "migrate")
    /\ transaction' = [transaction EXCEPT ![p].read = rows]
    /\ UNCHANGED <<databaseVars, migrator, applies>>

-----------------------------------------------------------------------------
(* The loop over the catalog.                                              *)

Pending(p) == transaction[p].next \in DOMAIN transaction[p].catalog
Expected(p) == Row(transaction[p].next, transaction[p].catalog[transaction[p].next])
Retained(p) == {r \in transaction[p].read : r.version = transaction[p].next}

(* Found among the rows that were read. *)
Recorded(p) == Retained(p) # {}

VersionOnly(p) == FALSE                                               \* fault
Differs(p) == Expected(p) \notin Retained(p)

(* The SQL creates what another transaction has created, or the INSERT     *)
(* repeats a version or bytes.                                             *)
Conflicts(p) ==
    \/ \E r \in rows : r.version = Expected(p).version \/ r.bytes = Expected(p).bytes
    \/ Expected(p).bytes \in Range(schema)

KeepsLock(p) == migrator                                              \* fault
LockAfter(p) == IF migrator = p THEN Free ELSE migrator

(* The end of the transaction, and the answer to the caller. *)
Ends(p, answer) ==
    /\ migrator' = LockAfter(p)
    /\ applies' = applies \cup {[catalog |-> transaction[p].catalog, answer |-> answer]}
    /\ transaction' = [transaction EXCEPT ![p] = NoTransaction]

Skip(p) ==
    /\ At(p, "migrate") /\ Pending(p) /\ Recorded(p) /\ ~Differs(p)
    /\ Steps(p, "migrate", "migrate")
    /\ transaction' = [transaction EXCEPT ![p].next = @ + 1]
    /\ UNCHANGED <<databaseVars, migrator, applies>>

(* connect_postgres_from_environment: autocommit=False *)
Autocommitted(row) == rows' = rows \cup {row} /\ schema' = Append(schema, row.bytes)  \* fault
HeldBack(row) == UNCHANGED databaseVars

Execute(p) ==
    /\ At(p, "migrate") /\ Pending(p) /\ ~Recorded(p) /\ ~Conflicts(p)
    /\ Steps(p, "migrate", "migrate")
    /\ transaction' = [transaction EXCEPT
           ![p].next = @ + 1,
           ![p].executed = Append(@, Expected(p).bytes),
           ![p].inserted = @ \cup {Expected(p)}]
    /\ HeldBack(Expected(p))
    /\ UNCHANGED <<migrator, applies>>

Refuse(p) ==
    /\ At(p, "migrate") /\ Pending(p)
    /\ IF Recorded(p) THEN Differs(p) ELSE Conflicts(p)
    /\ Steps(p, "migrate", "idle")
    /\ Ends(p, "refused")
    /\ UNCHANGED databaseVars

Committed(p) ==
    /\ rows' = rows \cup transaction[p].inserted
    /\ schema' = schema \o transaction[p].executed

Commit(p) ==
    /\ At(p, "migrate") /\ ~Pending(p)
    /\ Steps(p, "migrate", "idle")
    /\ Committed(p)
    /\ Ends(p, "valid")

(* The transaction commits, and the connection is lost before the answer. *)
CommitUnanswered(p) ==
    /\ At(p, "migrate") /\ ~Pending(p)
    /\ Faulty(p, "idle")
    /\ Committed(p)
    /\ Ends(p, "lost")

(* The client dies or loses its connection: PostgreSQL rolls back. *)
Abort(p) ==
    /\ pc[p] \in MigrationLabels
    /\ Faulty(p, "idle")
    /\ Ends(p, "lost")
    /\ UNCHANGED databaseVars

ApplyStep(p) == \/ LockMigrations(p) \/ ReadApplied(p) \/ Skip(p) \/ Execute(p)
                \/ Refuse(p) \/ Commit(p)

MigrationNext == \E p \in Procs : \/ \E c \in Catalogs : BeginApply(p, c)
                                  \/ ApplyStep(p) \/ CommitUnanswered(p) \/ Abort(p)

-----------------------------------------------------------------------------
(* Properties.                                                             *)

MigrationTypeOK ==
    /\ rows \subseteq UNION {RowsOf(c) : c \in Catalogs}
    /\ schema \in Seq(UNION {Range(c) : c \in Catalogs})
    /\ migrator \in Procs \cup {Free}
    /\ \A p \in Procs :
           /\ transaction[p].catalog \in Catalogs \cup {<<>>}
           /\ transaction[p].next \in 1..Len(transaction[p].catalog) + 1
           /\ transaction[p].read \cup transaction[p].inserted
                  \subseteq UNION {RowsOf(c) : c \in Catalogs}
           /\ transaction[p].executed \in Seq(Range(transaction[p].catalog))
    /\ applies \subseteq [catalog : Catalogs, answer : {"valid", "refused", "lost"}]

(* What is committed is always one catalog, whole, executed once in its    *)
(* order and recorded as executed: no reader ever meets a schema between   *)
(* two versions, whoever applied, died, lost a connection or raced for it. *)
DatabaseIsACatalog ==
    \E c \in Catalogs \cup {<<>>} : schema = c /\ rows = RowsOf(c)

(* An apply that answered "valid" has its catalog in the database, and has *)
(* it for good: later applies of other catalogs extend it or are refused.  *)
ValidMeansInstalled ==
    \A a \in applies : a.answer = "valid" => RowsOf(a.catalog) \subseteq rows

(* Nobody is refused for being second: an apply raises of itself only when *)
(* the bytes of one of its migrations differ from those that are applied.  *)
(* This is what the lock before the SELECT is for.                         *)
RefusedOnlyForOtherBytes ==
    \A a \in applies : a.answer = "refused" =>
        \E r \in rows : r.version \in DOMAIN a.catalog /\ a.catalog[r.version] # r.bytes

(* Every apply that has begun comes to an end: whoever holds the lock lets *)
(* go of it, by commit, rollback or death.                                 *)
AppliesEnd == \A p \in Procs : pc[p] \in MigrationLabels ~> pc[p] \notin MigrationLabels
=============================================================================
