----------------------------- MODULE Migrations -----------------------------
(***************************************************************************)
(* Opening the database (internal/memory/store.go): every program that opens *)
(* it applies the migrations, in the order of their names and each in one     *)
(* immediate transaction that also looks up and records it in                 *)
(* schema_migrations.  Several programs may open a database at once, and each *)
(* may die at any time.  A migration is its number; the columns and tables    *)
(* they make are left out, only how often each ran is kept.                   *)
(***************************************************************************)
EXTENDS Integers, FiniteSets

CONSTANTS
  Program,
  Count,        \* how many there are
  Alter         \* those with statements that fail when run again

Migration == 1 .. Count

ASSUME MigrationAssumption ==
  /\ Count \in Nat
  /\ Alter \subseteq Migration

VARIABLES
  recorded,    \* schema_migrations
  runs,        \* how often each migration was committed
  opening,     \* where each program is
  next,        \* the migration it is at
  applied,     \* what it read of that one
  lock         \* the programs in a write transaction

storeVars == <<recorded, runs, opening, next, applied, lock>>

Put(f, p, x) == [f EXCEPT ![p] = x]

\* A new database, or one from before migrations were recorded: those it has must
\* bear being run again.
StoreInit ==
  /\ recorded = {}
  /\ \E old \in {{}} \cup {1 .. m : m \in Migration} :
       /\ old \cap Alter = {}
       /\ runs = [m \in Migration |-> IF m \in old THEN 1 ELSE 0]
  /\ opening = [p \in Program |-> "closed"]
  /\ next = [p \in Program |-> 1]
  /\ applied = [p \in Program |-> FALSE]
  /\ lock = {}

Open(p) ==
  /\ opening[p] = "closed"
  /\ opening' = Put(opening, p, "waiting")
  /\ UNCHANGED <<recorded, runs, next, applied, lock>>

\* BEGIN IMMEDIATE, and the look-up in the same transaction.
MayWrite_Deferred(p) == TRUE                                          \* mutant
MayWrite(p) == lock = {}

Begin(p) ==
  /\ opening[p] = "waiting" /\ next[p] \in Migration
  /\ MayWrite(p)
  /\ lock' = lock \cup {p}
  /\ applied' = Put(applied, p, next[p] \in recorded)
  /\ opening' = Put(opening, p, "migrating")
  /\ UNCHANGED <<recorded, runs, next>>

\* The lock was not to be had within busy_timeout.
Busy(p) ==
  /\ opening[p] = "waiting" /\ next[p] \in Migration /\ ~MayWrite(p)
  /\ opening' = Put(opening, p, "failed")
  /\ UNCHANGED <<recorded, runs, next, applied, lock>>

Release(p) == lock' = lock \ {p}

Commit(p) ==
  /\ opening[p] = "migrating"
  /\ IF applied[p] THEN UNCHANGED <<recorded, runs>>
     ELSE /\ next[p] \in Alter => runs[next[p]] = 0
          /\ recorded' = recorded \cup {next[p]}
          /\ runs' = [runs EXCEPT ![next[p]] = @ + 1]
  /\ Release(p)
  /\ next' = Put(next, p, next[p] + 1)
  /\ opening' = Put(opening, p, "waiting")
  /\ UNCHANGED applied

\* A statement fails, by itself or because the migration was run before.
Rollback(p) ==
  /\ opening[p] = "migrating" /\ ~applied[p]
  /\ Release(p)
  /\ opening' = Put(opening, p, "failed")
  /\ UNCHANGED <<recorded, runs, next, applied>>

Migrated(p) ==
  /\ opening[p] = "waiting" /\ next[p] \notin Migration
  /\ opening' = Put(opening, p, "open")
  /\ UNCHANGED <<recorded, runs, next, applied, lock>>

\* The program dies, or closes the database; SQLite undoes what was not committed.
Gone(p) ==
  /\ opening' = Put(opening, p, "closed")
  /\ next' = Put(next, p, 1) /\ applied' = Put(applied, p, FALSE)
  /\ Release(p)
  /\ UNCHANGED <<recorded, runs>>

OpenStep(p) ==
  Open(p) \/ Begin(p) \/ Busy(p) \/ Commit(p) \/ Rollback(p) \/ Migrated(p)

\* A program works only on a database with all its migrations, none is recorded
\* before the ones it follows, and one that cannot bear it is not run twice,
\* whoever else opens the database or dies meanwhile ("two processes racing to open
\* the same new database can't both run a non-idempotent statement", store.go): nor
\* does it fail because another ran it.
MigratedOnce ==
  /\ \A p \in Program : opening[p] = "open" => recorded = Migration
  /\ \A m \in recorded : 1 .. m \subseteq recorded /\ runs[m] >= 1
  /\ \A m \in Alter : runs[m] <= 1
  /\ \A p \in Program :
       opening[p] = "migrating" /\ next[p] \in Alter /\ runs[next[p]] > 0 => applied[p]
=============================================================================
