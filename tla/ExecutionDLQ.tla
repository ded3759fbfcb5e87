---------------------------- MODULE ExecutionDLQ ----------------------------
(***************************************************************************)
(* The dead letter queue of failed executions: rows that wait for their    *)
(* backoff, sweeps that replay the due ones, and the dead letter that ends *)
(* an opportunity.  A sweep runs every minute whether or not the one       *)
(* before is still replaying; direct executions fail into the same queue.  *)
(*                                                                         *)
(* Time enters as the ticks until next_retry_at.  Below zero they only say *)
(* which row is due longer, so that they stop where nothing follows.  Rows *)
(* in other states than PENDING_RETRY are counted, not kept.               *)
(***************************************************************************)
EXTENDS Integers, SequencesExt

CONSTANTS
  Opp,               \* opportunities in the live environment
  Activity,          \* sweeps and direct executions that may overlap
  retryIntervalsMin, \* the backoff before each retry (5m, 15m, 1h, 4h)
  Limit,             \* rows a sweep replays
  MaxPending         \* rows in PENDING_RETRY kept of one opportunity

DLQAssumption ==
  /\ Opp # {}
  /\ retryIntervalsMin \in Seq(Nat \ {0}) /\ retryIntervalsMin # <<>>
  /\ Limit \in Nat \ {0} /\ MaxPending \in Nat \ {0}

VARIABLES
  queue,  \* the rows in PENDING_RETRY
  count,  \* failure_count of an opportunity's newest row (0: no row)
  dead,   \* it has a row in DEAD_LETTER, is blocked and past the attempt cap
  linked, \* it has its payment link
  failed, \* whether an execution of it reached the provider and failed
  pc, kind, job, rest, found, again

activity == <<pc, kind, job, rest, found, again>>
vars == <<queue, count, dead, linked, failed, activity>>

MaxFailures == Len(retryIntervalsMin) + 1
Saturate(n) == IF n > MaxFailures THEN MaxFailures ELSE n
AnyOpp == CHOOSE o \in Opp : TRUE
Slot == 1..MaxPending  \* tell the rows of one opportunity apart
PendingOf(o) == {row \in queue : row.opp = o}

TypeOK ==
  /\ queue \subseteq [opp : Opp, n : Slot, wait : Int]
  /\ \A r, s \in queue : r.opp = s.opp /\ r.n = s.n => r = s
  /\ count \in [Opp -> 0..MaxFailures]
  /\ dead \in [Opp -> BOOLEAN] /\ linked \in [Opp -> BOOLEAN]
  /\ failed \in [Opp -> BOOLEAN]
  /\ pc \in [Activity -> {"idle", "exec", "select", "insert"}]
  /\ kind \in [Activity -> {"sweep", "direct"}]
  /\ job \in [Activity -> Opp]
  /\ rest \in [Activity -> Seq(Opp)]
  /\ found \in [Activity -> 0..MaxFailures]
  /\ again \in [Activity -> BOOLEAN]

Init ==
  /\ queue = {}
  /\ count = [o \in Opp |-> 0]
  /\ dead = [o \in Opp |-> FALSE] /\ linked = [o \in Opp |-> FALSE]
  /\ failed = [o \in Opp |-> FALSE]
  /\ pc = [a \in Activity |-> "idle"]
  /\ kind = [a \in Activity |-> "direct"]
  /\ job = [a \in Activity |-> AnyOpp]
  /\ rest = [a \in Activity |-> <<>>]
  /\ found = [a \in Activity |-> 0]
  /\ again = [a \in Activity |-> FALSE]

-----------------------------------------------------------------------------
(* Activities.                                                             *)

Begin(a, k, jobs) ==
  /\ pc[a] = "idle" /\ jobs # <<>>
  /\ pc' = [pc EXCEPT ![a] = "exec"]
  /\ kind' = [kind EXCEPT ![a] = k]
  /\ job' = [job EXCEPT ![a] = Head(jobs)]
  /\ rest' = [rest EXCEPT ![a] = Tail(jobs)]
  /\ UNCHANGED <<queue, count, dead, linked, failed, found, again>>

\* The rest of an activity after one job: the next one, or none.
NextJob(a) ==
  /\ pc' = [pc EXCEPT ![a] = IF rest[a] = <<>> THEN "idle" ELSE "exec"]
  /\ kind' = [kind EXCEPT ![a] = IF rest[a] = <<>> THEN "direct" ELSE @]
  /\ job' = [job EXCEPT ![a] = IF rest[a] = <<>> THEN AnyOpp ELSE Head(rest[a])]
  /\ rest' = [rest EXCEPT ![a] = IF @ = <<>> THEN @ ELSE Tail(@)]
  /\ found' = [found EXCEPT ![a] = 0]
  /\ again' = [again EXCEPT ![a] = FALSE]

\* An execution outside the queue: a batch, or the operator's route.
executeOpportunity(a, o) == Begin(a, "direct", <<o>>)

\* getPendingRetries, and the first Limit of them: those due for longest.
Due == {row \in queue : row.wait <= 0}
Batches ==
  {b \in SeqOf(Due, Limit) :
     /\ \A i, j \in DOMAIN b : i < j => b[i] # b[j] /\ b[i].wait <= b[j].wait
     /\ \A row \in Due \ Range(b) :
          Len(b) = Limit /\ \A i \in DOMAIN b : b[i].wait <= row.wait}
replayPendingRetries(a) ==
  \E b \in Batches : Begin(a, "sweep", [i \in DOMAIN b |-> b[i].opp])

\* The gate refuses a dead-lettered opportunity: its attempt count is past the cap.
MayExecute(o) == ~dead[o]

\* Mutant: the rows of a successful replay are not resolved.
successLeavesRows(a) ==
  /\ pc[a] = "exec" /\ MayExecute(job[a])
  /\ linked' = [linked EXCEPT ![job[a]] = TRUE]
  /\ NextJob(a)
  /\ UNCHANGED <<queue, count, dead, failed>>

\* The execution returns success: a new link, or the one already on record.  A
\* sweep then resolves every pending row of the opportunity.
markRetrySuccess(a) ==
  /\ pc[a] = "exec" /\ MayExecute(job[a])
  /\ linked' = [linked EXCEPT ![job[a]] = TRUE]
  /\ queue' = IF kind[a] = "sweep"
              THEN queue \ PendingOf(job[a]) ELSE queue
  /\ NextJob(a)
  /\ UNCHANGED <<count, dead, failed>>

\* The provider call fails.  The executor records the failure itself; a sweep
\* that sees the result records it once more.
providerFails(a) ==
  /\ pc[a] = "exec" /\ MayExecute(job[a]) /\ ~linked[job[a]]
  /\ failed' = [failed EXCEPT ![job[a]] = TRUE]
  /\ pc' = [pc EXCEPT ![a] = "select"]
  /\ again' = [again EXCEPT ![a] = kind[a] = "sweep"]
  /\ UNCHANGED <<queue, count, dead, linked, kind, job, rest, found>>

\* The execution is refused before the provider is called: by the gate, the
\* kill switch, the ceiling or for want of a client.  Only a sweep records it.
refused(a) ==
  /\ pc[a] = "exec"
  /\ IF kind[a] = "sweep"
     THEN pc' = [pc EXCEPT ![a] = "select"] /\ UNCHANGED <<kind, job, rest, found, again>>
     ELSE NextJob(a)
  /\ UNCHANGED <<queue, count, dead, linked, failed>>

-----------------------------------------------------------------------------
(* recordExecutionFailure.                                                 *)

\* Read the newest row's count.  One too many blocks the opportunity at once.
selectLatest(a) ==
  LET n == Saturate(count[job[a]] + 1)
  IN  /\ pc[a] = "select"
      /\ found' = [found EXCEPT ![a] = n]
      /\ dead' = [dead EXCEPT ![job[a]] = @ \/ n > Len(retryIntervalsMin)]
      /\ pc' = [pc EXCEPT ![a] = "insert"]
      /\ UNCHANGED <<queue, count, linked, failed, kind, job, rest, again>>

\* A slot for a new row, where one is left.
FreeSlots(o) == {n \in Slot : \A row \in PendingOf(o) : row.n # n}

\* Mutant: pending rows are superseded after the insertion, the new one too.
supersedeAfterInsert(a) ==
  /\ pc[a] = "insert"
  /\ count' = [count EXCEPT ![job[a]] = found[a]]
  /\ queue' = queue \ PendingOf(job[a])
  /\ IF again[a]
     THEN /\ pc' = [pc EXCEPT ![a] = "select"]
          /\ again' = [again EXCEPT ![a] = FALSE]
          /\ UNCHANGED <<kind, job, rest, found>>
     ELSE NextJob(a)
  /\ UNCHANGED <<dead, linked, failed>>

\* Insert the new row.  The statement that should supersede the pending ones
\* sets a status the table's CHECK does not allow; its error is swallowed and
\* they stay pending.  Overlapping failures can add rows without end: of one
\* opportunity the model keeps MaxPending.
insertRow(a) ==
  /\ pc[a] = "insert"
  /\ count' = [count EXCEPT ![job[a]] = found[a]]
  /\ queue' = IF found[a] > Len(retryIntervalsMin) \/ FreeSlots(job[a]) = {} THEN queue
              ELSE queue \cup {[opp |-> job[a], n |-> CHOOSE n \in FreeSlots(job[a]) : TRUE,
                                wait |-> retryIntervalsMin[found[a]]]}
  /\ IF again[a]
     THEN /\ pc' = [pc EXCEPT ![a] = "select"]
          /\ again' = [again EXCEPT ![a] = FALSE]
          /\ UNCHANGED <<kind, job, rest, found>>
     ELSE NextJob(a)
  /\ UNCHANGED <<dead, linked, failed>>

\* A due row stays at its number unless a later one comes close behind it.
OneTickOn(row) ==
  IF row.wait > 0 \/ \A k \in row.wait..1 : \E r \in queue : r.wait = k
  THEN [row EXCEPT !.wait = @ - 1] ELSE row
tick ==
  /\ \E row \in queue : row.wait > 0
  /\ queue' = {OneTickOn(row) : row \in queue}
  /\ UNCHANGED <<count, dead, linked, failed, activity>>

Step(a) == markRetrySuccess(a) \/ providerFails(a) \/ refused(a)
           \/ selectLatest(a) \/ insertRow(a)

Next ==
  \/ \E a \in Activity : \/ \E o \in Opp : executeOpportunity(a, o)
                         \/ replayPendingRetries(a) \/ Step(a)
  \/ tick

Spec == Init /\ [][Next]_vars

\* Time passes, an activity that has begun ends, and the scheduler sweeps again
\* and again.  Nothing is assumed of the provider.
DLQFairness ==
  /\ WF_vars(tick)
  /\ \A a \in Activity : WF_vars(Step(a)) /\ SF_vars(replayPendingRetries(a))
FairSpec == Spec /\ DLQFairness

-----------------------------------------------------------------------------
(* Properties.                                                             *)

AtRest == \A a \in Activity : pc[a] = "idle"

\* A failed live execution is not forgotten: when nothing is under way, an
\* opportunity whose execution failed has its link, waits in the queue or is
\* dead-lettered.  Overlapping sweeps, the lost updates of its count and a
\* success racing a failure cannot drop it.
FailureIsTracked ==
  AtRest => \A o \in Opp : failed[o] =>
    linked[o] \/ dead[o] \/ \E row \in queue : row.opp = o

\* Replays of what already succeeded come to an end: once an opportunity has its
\* link and is not dead-lettered its pending rows are all resolved, or the
\* refusals of its replays dead-letter it.
LinkedIsResolved ==
  \A o \in Opp : linked[o] ~> (dead[o] \/ \A row \in queue : row.opp # o)

\* "Resolve or supersede any prior pending records for this opportunity to
\* prevent infinite replay loops": a sweep does not pick a dead-lettered
\* opportunity.
DeadLetterIsNotReplayed ==
  [][\A a \in Activity : pc[a] = "idle" /\ pc'[a] = "exec" /\ kind'[a] = "sweep"
       => ~dead[job'[a]]]_vars
=============================================================================
