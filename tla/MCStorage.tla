----------------------------- MODULE MCStorage -----------------------------
(* What is kept for later and who comes back to it, one part at a time:    *)
(* the SQL adapter, the migration runner, the execution dead letter queue, *)
(* the job queue.                                                          *)
EXTENDS SqlAdapter

CONSTANTS
  o1, a1, a2, j1, j2, w1, w2,
  Instance, MaxStops,
  Opp, Sweep, retryIntervalsMin, Limit, MaxPending,
  Job, Worker, typeOf, maxAttempts, MaxFaults

VARIABLES
  part,
  dialect, schema, recorded, instance, stops,
  queue, count, dead, linked, failed, pc, kind, job, rest, found, again,
  redis, mem, connected, storing, worker, cur, runs, ended, faults

Migration == INSTANCE Migrations
DLQ == INSTANCE ExecutionDLQ WITH Activity <- Sweep
Jobs == INSTANCE JobQueue WITH at <- worker

ASSUME MigrationAssumption == MaxStops \in Nat
ASSUME DLQAssumption == DLQ!DLQAssumption
ASSUME JobsAssumption ==
  /\ IsFiniteSet(Worker) /\ "server" \notin Worker /\ "none" \notin Job
  /\ typeOf \in [Job -> Nat] /\ maxAttempts \in Nat \ {0} /\ MaxFaults \in Nat

ThreeIntervals == <<1, 2, 3>>
TwoTypes == [j \in Job |-> IF j = j1 THEN 1 ELSE 2]

migrationVars == <<dialect, schema, recorded, instance, stops>>
dlqVars == <<queue, count, dead, linked, failed, pc, kind, job, rest, found, again>>
jobsVars == <<redis, mem, connected, storing, worker, cur, runs, ended, faults>>
all == <<part, vars, migrationVars, dlqVars, jobsVars>>

StorageInit ==
  /\ part \in {"adapter", "migrations", "dlq", "jobs"}
  /\ Init /\ (part # "adapter" => SQLite)
  /\ Migration!Init /\ (part # "migrations" => dialect = "SQLite")
  /\ DLQ!Init /\ Jobs!Init
StorageNext ==
  \/ part = "adapter" /\ Next /\ UNCHANGED <<part, migrationVars, dlqVars, jobsVars>>
  \/ part = "migrations" /\ Migration!Next /\ UNCHANGED <<part, vars, dlqVars, jobsVars>>
  \/ part = "dlq" /\ DLQ!Next /\ UNCHANGED <<part, vars, migrationVars, jobsVars>>
  \/ part = "jobs" /\ Jobs!Next /\ UNCHANGED <<part, vars, migrationVars, dlqVars>>

\* The fairness of each part, for the behaviours of that part.
AdapterFairness ==
  \A t \in Tx : /\ WF_vars(part = "adapter" /\ begin(t))
                /\ WF_vars(part = "adapter" /\ (txExecute(t) \/ commit(t) \/ rollback(t)))
MigrationFairness ==
  \A i \in Instance :
    /\ WF_migrationVars(part = "migrations" /\ (\/ Migration!applyNext(i) \/ Migration!applyFails(i)
                                              \/ Migration!undoNext(i) \/ Migration!finish(i)))
    /\ SF_migrationVars(part = "migrations" /\ Migration!migrateUp(i))
DLQFairness ==
  /\ WF_dlqVars(part = "dlq" /\ DLQ!tick)
  /\ \A a \in Sweep : /\ WF_dlqVars(part = "dlq" /\ DLQ!Step(a))
                      /\ SF_dlqVars(part = "dlq" /\ DLQ!replayPendingRetries(a))
JobsFairness ==
  /\ \A p \in Jobs!Process : WF_jobsVars(part = "jobs" /\ (Jobs!pushed(p) \/ Jobs!pushFails(p)))
  /\ \A w \in Worker : /\ WF_jobsVars(part = "jobs" /\ Jobs!pop(w))
                       /\ WF_jobsVars(part = "jobs" /\ Jobs!popMemory(w))
                       /\ WF_jobsVars(part = "jobs" /\ (Jobs!succeed(w) \/ Jobs!retry(w)))
StorageSpec ==
  /\ StorageInit /\ [][StorageNext]_all
  /\ AdapterFairness /\ MigrationFairness /\ DLQFairness /\ JobsFairness

\* A transaction that asked for its turn is answered, or the process dies.
TransactionsEnd == part = "adapter" => TransactionEnds
\* schema_migrations tells the truth, however instances race and wherever they die.
HistoryIsTrue == Migration!TypeOK /\ Migration!HistoryIsTrue
\* When nothing is under way, an opportunity whose execution failed has its link,
\* waits in the queue or is dead-lettered.
FailureIsTracked == DLQ!TypeOK /\ DLQ!FailureIsTracked
\* A job that was pushed is stored, under way or ended, and is begun no more often
\* than its attempts and the faults allow.
JobsAccounted == Jobs!TypeOK /\ Jobs!JobAccounted /\ Jobs!RunsBounded
\* What waits in a queue comes to its end: the pending rows of an opportunity that has
\* its link are resolved, or the refusals of its replays dead-letter it; a job that was
\* pushed is done or exhausted unless the connection breaks or a worker stops; with
\* SQLite every migration is recorded, at one start of an instance or a later one.
RetriesEnd ==
  /\ part = "migrations" => Migration!SchemaIsReached
  /\ part = "dlq" => DLQ!LinkedIsResolved
  /\ part = "jobs" => Jobs!JobEnds
\* execution/dlq.ts: "Resolve or supersede any prior pending records for this
\* opportunity to prevent infinite replay loops": a sweep picks no dead letter.
DeadLetterIsNotReplayed == DLQ!DeadLetterIsNotReplayed
=============================================================================
