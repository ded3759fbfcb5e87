------------------------------ MODULE Migrations ------------------------------
(***************************************************************************)
(* The schema of the database: initDatabase, which makes most tables on    *)
(* the synchronous SQLite connection, and MigrationRunner, which every     *)
(* instance of the server starts without waiting for it.  A migration and  *)
(* the row that records it are one transaction (see SqlAdapter); the list  *)
(* of what is already applied is read once, before the first of them.      *)
(***************************************************************************)
EXTENDS Naturals, Sequences, FiniteSets

CONSTANTS
  Instance,    \* processes that share the database
  MaxStops     \* bound on stops of processes

VARIABLES
  dialect,
  schema,      \* what exists in the database
  recorded,    \* schema_migrations
  instance,    \* per process: what its runner is doing
  stops

vars == <<dialect, schema, recorded, instance, stops>>

Migration == 1..5
Objects == {"core", "agent", "indexes", "tenancy", "scoped", "saas", "services"}
Idle == [at |-> "stopped", todo |-> <<>>]

TypeOK ==
  /\ dialect \in {"SQLite", "PostgreSQL"}
  /\ schema \subseteq Objects
  /\ recorded \subseteq Migration
  /\ instance \in [Instance -> [at : {"stopped", "up", "down", "done", "failed"},
                               todo : UNION {[1..n -> Migration] : n \in 0..5}]]
  /\ stops \in 0..MaxStops

-----------------------------------------------------------------------------
(* The migrations.                                                         *)

coreFinancialSchema == {"core"}
agentSchema == {"agent"}
indexesAndPerformance == {"indexes"}
tenancyAndAuth == {"tenancy", "scoped"}
tenantScoping == {"saas"}

up == <<coreFinancialSchema, agentSchema, indexesAndPerformance, tenancyAndAuth, tenantScoping>>

\* What up fails without: the indexes need their tables, 005 adds columns to tenants.
needs == <<{}, {}, {"core", "agent"}, {}, {"tenancy"}>>

\* What down removes: dropping a table drops its columns and its indexes, and the
\* down of 005 removes nothing.
down == <<{"core", "indexes", "scoped"}, {"agent", "indexes"}, {"indexes"},
          {"tenancy", "saas"}, {}>>

\* Migrations that run a statement expected to fail and ignore its error.
swallowing == {1, 4, 5}

\* PostgreSQL refuses every statement after one that failed, until the ROLLBACK.
abortsTransaction(m) == dialect = "PostgreSQL" /\ m \in swallowing

\* On SQLite all but the tenancy tables exist before any migration ran; the tables
\* of the services (connections, queues, ledgers, models) are in no migration.
createCore == {"core"}
createAgent == {"agent"}
createServices == {"services"}

initDatabase ==
  IF dialect = "SQLite" THEN createCore \cup createAgent \cup createServices ELSE {}

-----------------------------------------------------------------------------
(* The runner.                                                             *)

\* The pending migrations, in ascending order.
getAppliedMigrations == recorded

pending(known) ==
  LET n == Cardinality(Migration \ known)
  IN CHOOSE s \in [1..n -> Migration \ known] :
       \A i, j \in 1..n : i < j => s[i] < s[j]

\* Mutant: the loop ends before the last registered migration.
pendingButLast(known) == SelectSeq(pending(known), LAMBDA m : m # 5)

toApply(known) == pending(known)

\* server.ts: the schema, then migrateUp.  Nobody starts it during a rollback by hand.
migrateUp(i) ==
  /\ instance[i].at = "stopped" /\ \A j \in Instance : instance[j].at # "down"
  /\ schema' = schema \cup initDatabase
  /\ instance' = [instance EXCEPT ![i] = [at |-> "up", todo |-> toApply(getAppliedMigrations)]]
  /\ UNCHANGED <<dialect, recorded, stops>>

\* Mutant: a failed migration is logged and the loop goes on.
goesOn(i) == instance' = [instance EXCEPT ![i].todo = Tail(@)]

\* migrateUp rejects: the server logs it and goes on without the rest.
rejects(i) == instance' = [instance EXCEPT ![i] = [at |-> "failed", todo |-> <<>>]]

\* The transaction fails: another instance recorded the migration first, a table is
\* missing, or PostgreSQL aborted it.  (No transaction here outlasts busy_timeout.)
applyFails(i) ==
  LET m == Head(instance[i].todo)
  IN /\ instance[i].at = "up" /\ instance[i].todo # <<>>
     /\ m \in recorded \/ ~(needs[m] \subseteq schema) \/ abortsTransaction(m)
     /\ rejects(i)
     /\ UNCHANGED <<dialect, schema, recorded, stops>>

applyNext(i) ==
  LET m == Head(instance[i].todo)
  IN /\ instance[i].at = "up" /\ instance[i].todo # <<>>
     /\ m \notin recorded /\ needs[m] \subseteq schema /\ ~abortsTransaction(m)
     /\ schema' = schema \cup up[m] /\ recorded' = recorded \cup {m}
     /\ instance' = [instance EXCEPT ![i].todo = Tail(@)]
     /\ UNCHANGED <<dialect, stops>>

\* migrateDown(steps), run by hand while no instance is up.
migrateDown(i, steps) ==
  /\ \A j \in Instance : instance[j].at = "stopped"
  /\ recorded # {} /\ steps \leq Cardinality(recorded)
  /\ instance' = [instance EXCEPT ![i] =
       [at |-> "down",
        todo |-> [k \in 1..steps |->
                   CHOOSE m \in recorded :
                     Cardinality({n \in recorded : n > m}) = k - 1]]]
  /\ UNCHANGED <<dialect, schema, recorded, stops>>

undoNext(i) ==
  LET m == Head(instance[i].todo)
  IN /\ instance[i].at = "down" /\ instance[i].todo # <<>>
     /\ schema' = schema \ down[m] /\ recorded' = recorded \ {m}
     /\ instance' = [instance EXCEPT ![i].todo = Tail(@)]
     /\ UNCHANGED <<dialect, stops>>

finish(i) ==
  /\ instance[i].at \in {"up", "down"} /\ instance[i].todo = <<>>
  /\ instance' = [instance EXCEPT ![i] =
       IF instance[i].at = "up" THEN [at |-> "done", todo |-> <<>>] ELSE Idle]
  /\ UNCHANGED <<dialect, schema, recorded, stops>>

\* The process ends, between two transactions or later.
stop(i) ==
  /\ instance[i].at # "stopped" /\ stops < MaxStops
  /\ instance' = [instance EXCEPT ![i] = Idle] /\ stops' = stops + 1
  /\ UNCHANGED <<dialect, schema, recorded>>

Init ==
  /\ dialect \in {"SQLite", "PostgreSQL"} /\ schema = {} /\ recorded = {}
  /\ instance = [i \in Instance |-> Idle] /\ stops = 0

Next ==
  \E i \in Instance :
    \/ migrateUp(i) \/ applyNext(i) \/ applyFails(i) \/ undoNext(i) \/ finish(i) \/ stop(i)
    \/ \E steps \in Migration : migrateDown(i, steps)

\* A stopped process is started again, and a started runner goes on.
Fairness ==
  \A i \in Instance :
    /\ WF_vars(applyNext(i) \/ applyFails(i) \/ undoNext(i) \/ finish(i))
    /\ SF_vars(migrateUp(i))

Spec == Init /\ [][Next]_vars /\ Fairness

-----------------------------------------------------------------------------
(* Properties.                                                             *)

\* schema_migrations tells the truth, however instances race and wherever they die:
\* no migration is recorded before an earlier one, and what a recorded one makes exists.
HistoryIsTrue ==
  /\ \E k \in 0..5 : recorded = 1..k
  /\ \A m \in recorded : up[m] \subseteq schema

\* However many instances race for each migration, and although a loser gives up for
\* good, the SQLite schema is complete in the end.
SchemaIsReached == <>[](dialect = "SQLite" => recorded = Migration)
=============================================================================
