-------------------------- MODULE RecoveryPipeline --------------------------
(***************************************************************************)
(* The path of a failed payment through the control plane: the market      *)
(* allocates scarce capacity, the authority gate authorizes, the executor  *)
(* asks the provider for a payment link, and the reconciler turns what the *)
(* provider reports into money in the ledger.                              *)
(*                                                                         *)
(* The server is one event loop: what runs between two awaits is one step. *)
(* Calls of executeOpportunity and of reconcileOpportunity overlap, for    *)
(* the same opportunity too: the daemon's sweep, the operator's routes,    *)
(* the DLQ's replay, the poller and the webhooks do not exclude each       *)
(* other.  A Worker is one activity that executes opportunities, a Recon   *)
(* is one activation of the reconciler.                                    *)
(***************************************************************************)
EXTENDS Lifecycle, Integers, FiniteSets

CONSTANTS
  Opp,           \* the recovery opportunities
  Live,          \* those executed against the provider's live environment
  HardDecline,   \* those with a hard or fraud-coded decline
  LowConfidence, \* those whose score has confidence "low"
  Holdout,       \* the market's deterministic control group
  OverCeiling,   \* those above the live money safety ceiling
  Iven,          \* expected incremental value of each
  InitAttempts,  \* attempt_count when the failure was ingested
  Amount,        \* the amount of an opportunity
  Capacity,      \* links per run
  Worker, Recon, \* the activities that execute, and that reconcile
  Restarts,      \* whether the process may crash and restart
  RetryIntervals, \* delays of the DLQ before it gives up (5m, 15m, 1h, 4h)
  MaxBooked      \* ledger rows counted per opportunity before saturating

ASSUME PipelineAssumption ==
  /\ Opp # {} /\ IsFiniteSet(Opp)
  /\ Live \subseteq Opp /\ HardDecline \subseteq Opp
  /\ LowConfidence \subseteq Opp /\ Holdout \subseteq Opp
  /\ OverCeiling \subseteq Opp
  /\ Iven \in [Opp -> Int] /\ InitAttempts \in [Opp -> Nat]
  /\ RetryIntervals \in Nat /\ RetryIntervals + 1 >= RetryCap
  /\ Restarts \in BOOLEAN
  /\ Amount \in Nat \ {0} /\ Capacity \in Nat \ {0} /\ MaxBooked \in Nat \ {0}

VARIABLES
  \* The database.
  status,      \* recovery_opportunities.status
  attempts,    \* recovery_opportunities.attempt_count
  decision,    \* the opportunity's row of allocation_decisions
  rec,         \* its execution record: which link, in which status
  booked,      \* its rows of the double-entry ledger
  failCount,   \* failure_count of its newest dlq_jobs row
  dlqPending,  \* it has a dlq_jobs row in PENDING_RETRY
  \* The process.
  killSwitch, pc, todo, cur, mode, res,
  rpc, ropp, rstat, rrec, rpay,
  \* The provider.
  link,        \* the payment link with reference_id = opportunity id
  late         \* creation requests the executor no longer waits for

db       == <<status, attempts, decision, rec, booked, failCount, dlqPending>>
worker   == <<pc, todo, cur, mode, res>>
recon    == <<rpc, ropp, rstat, rrec, rpay>>
provider == <<link, late>>
vars     == <<db, killSwitch, worker, recon, provider>>

NoLink == [status |-> "unknown", paid |-> 0]
LinkState == {NoLink, [status |-> "created", paid |-> 0],
              [status |-> "paid", paid |-> Amount],
              [status |-> "expired", paid |-> 0],
              [status |-> "cancelled", paid |-> 0]}
RecStatus == {"none", "created", "simulated", "paid", "expired", "cancelled",
              "completed", "failed"}
AnyOpp == CHOOSE o \in Opp : TRUE

TypeOK ==
  /\ status \in [Opp -> Status]
  /\ attempts \in [Opp -> Nat]
  /\ decision \in [Opp -> Decision]
  /\ rec \in [Opp -> [link : {"none", "real", "mock"}, status : RecStatus]]
  /\ booked \in [Opp -> 0..MaxBooked]
  /\ failCount \in [Opp -> 0..(RetryIntervals + 1)]
  /\ dlqPending \in [Opp -> BOOLEAN]
  /\ killSwitch \in BOOLEAN
  /\ pc \in [Worker -> {"idle", "next", "client", "call", "resp", "adopt",
                        "fallback", "done"}]
  /\ todo \in [Worker -> SUBSET Opp]
  /\ cur \in [Worker -> Opp]
  /\ mode \in [Worker -> {"batch", "route", "replay"}]
  /\ res \in [Worker -> {"none", "ok", "exists", "success", "failure"}]
  /\ rpc \in [Recon -> {"idle", "fetch", "commit"}]
  /\ ropp \in [Recon -> Opp]
  /\ rstat \in [Recon -> Status]
  /\ rrec \in [Recon -> {"none", "real", "mock"}]
  /\ rpay \in [Recon -> LinkState]
  /\ link \in [Opp -> LinkState]
  /\ late \subseteq Opp

Init ==
  /\ status = [o \in Opp |-> "pending"]
  /\ attempts = InitAttempts
  /\ decision = [o \in Opp |-> "none"]
  /\ rec = [o \in Opp |-> [link |-> "none", status |-> "none"]]
  /\ booked = [o \in Opp |-> 0]
  /\ failCount = [o \in Opp |-> 0]
  /\ dlqPending = [o \in Opp |-> FALSE]
  /\ killSwitch = FALSE
  /\ pc = [w \in Worker |-> "idle"]
  /\ todo = [w \in Worker |-> {}]
  /\ cur = [w \in Worker |-> AnyOpp]
  /\ mode = [w \in Worker |-> "batch"]
  /\ res = [w \in Worker |-> "none"]
  /\ rpc = [r \in Recon |-> "idle"]
  /\ ropp = [r \in Recon |-> AnyOpp]
  /\ rstat = [r \in Recon |-> "pending"]
  /\ rrec = [r \in Recon |-> "none"]
  /\ rpay = [r \in Recon |-> NoLink]
  /\ link = [o \in Opp |-> NoLink]
  /\ late = {}

-----------------------------------------------------------------------------
(* Market and authority, as functions of the statuses and decisions.       *)

Candidates(st) == {o \in Opp : st[o] \in {"pending", "scored", "deferred"}}

\* Low confidence, no incremental value and the holdout never enter the ranking.
Ranked(st) == {o \in Candidates(st) : o \notin LowConfidence
                                      /\ Iven[o] > 0 /\ o \notin Holdout}

\* The sets the ranking may accept: the Capacity most valuable, ties either way.
Accepted(st) ==
  LET E == Ranked(st)
  IN  {A \in SUBSET E :
         /\ Cardinality(A) = IF Cardinality(E) < Capacity THEN Cardinality(E) ELSE Capacity
         /\ \A a \in A, b \in E \ A : Iven[a] >= Iven[b]}

MarketDecision(st, dec, A) ==
  [o \in Opp |-> IF o \in A THEN "ACT"
                 ELSE IF o \in Ranked(st) THEN "WAIT"
                 ELSE IF o \in Candidates(st) THEN "ABSTAIN"
                 ELSE dec[o]]

MarketStatus(st, A) ==
  [o \in Opp |-> IF o \in A THEN updateStatus(st[o], "allocated")
                 ELSE IF o \in Ranked(st) THEN updateStatus(st[o], "deferred")
                 ELSE IF o \in Candidates(st) THEN updateStatus(st[o], "abstained")
                 ELSE st[o]]

VerdictOf(o, dec) ==
  RuleVerdict(killSwitch, o \in HardDecline, attempts[o], o \in LowConfidence, dec[o])

\* The status an evaluation of o leaves behind.
Evaluated(o, st, dec) == updateStatus(st[o], suggestedStatus[VerdictOf(o, dec)])

\* runAuthorityPipeline after its market run: who is evaluated, what it writes.
Gated(st) == {o \in Opp : st[o] \in {"allocated", "pending", "scored"}}
GateStatus(st, dec) ==
  [o \in Opp |-> IF o \in Gated(st) THEN Evaluated(o, st, dec) ELSE st[o]]
Authorized(st, dec) == {o \in Gated(st) : VerdictOf(o, dec) = "AUTHORIZED"}

-----------------------------------------------------------------------------
(* The synchronous routes.                                                 *)

scoreOpportunity(o) ==
  /\ status[o] = "pending"
  /\ status' = [status EXCEPT ![o] = updateStatus(@, "scored")]
  /\ UNCHANGED <<attempts, decision, rec, booked, failCount, dlqPending,
                 killSwitch, worker, recon, provider>>

runMarketAllocation ==
  /\ \E A \in Accepted(status) :
       /\ status' = MarketStatus(status, A)
       /\ decision' = MarketDecision(status, decision, A)
  /\ UNCHANGED <<attempts, rec, booked, failCount, dlqPending, killSwitch,
                 worker, recon, provider>>

runAuthorityPipeline ==
  /\ \E A \in Accepted(status) :
       LET st == MarketStatus(status, A)
           dec == MarketDecision(status, decision, A)
       IN  status' = GateStatus(st, dec) /\ decision' = dec
  /\ UNCHANGED <<attempts, rec, booked, failCount, dlqPending, killSwitch,
                 worker, recon, provider>>

evaluateOpportunity(o) ==
  /\ status' = [status EXCEPT ![o] = Evaluated(o, status, decision)]
  /\ UNCHANGED <<attempts, decision, rec, booked, failCount, dlqPending,
                 killSwitch, worker, recon, provider>>

setKillSwitch ==
  /\ killSwitch' = ~killSwitch
  /\ UNCHANGED <<db, worker, recon, provider>>

-----------------------------------------------------------------------------
(* Starting an activity that executes opportunities.                       *)

\* The first Capacity authorized results, whatever the order of the rows.
Targets(auth) ==
  {T \in SUBSET auth :
     Cardinality(T) = IF Cardinality(auth) < Capacity THEN Cardinality(auth) ELSE Capacity}

StartBatch(w, st, dec) ==
  \E A \in Accepted(st) :
    LET st2 == MarketStatus(st, A)
        dec2 == MarketDecision(st, dec, A)
    IN  \E T \in Targets(Authorized(st2, dec2)) :
          /\ status' = GateStatus(st2, dec2)
          /\ decision' = dec2
          /\ todo' = [todo EXCEPT ![w] = T]
          /\ pc' = [pc EXCEPT ![w] = IF T = {} THEN "idle" ELSE "next"]
          /\ mode' = [mode EXCEPT ![w] = "batch"]

\* POST /execution/run
executeAuthorizedBatch(w) ==
  /\ pc[w] = "idle"
  /\ StartBatch(w, status, decision)
  /\ UNCHANGED <<attempts, rec, booked, failCount, dlqPending, killSwitch,
                 cur, res, recon, provider>>

\* A sweep of the daemon runs the market once more before the batch does.
sweepOnce(w) ==
  /\ pc[w] = "idle"
  /\ ~killSwitch
  /\ \E o \in Opp : status[o] \in {"pending", "scored", "deferred", "allocated", "executing"}
  /\ \E A \in Accepted(status) :
       StartBatch(w, MarketStatus(status, A), MarketDecision(status, decision, A))
  /\ UNCHANGED <<attempts, rec, booked, failCount, dlqPending, killSwitch,
                 cur, res, recon, provider>>

\* POST /execution/opportunity/:id
executeRoute(w, o) ==
  /\ pc[w] = "idle"
  /\ todo' = [todo EXCEPT ![w] = {o}]
  /\ pc' = [pc EXCEPT ![w] = "next"]
  /\ mode' = [mode EXCEPT ![w] = "route"]
  /\ UNCHANGED <<db, killSwitch, cur, res, recon, provider>>

\* One due row of the DLQ's sweep.
replayPendingRetries(w, o) ==
  /\ pc[w] = "idle"
  /\ dlqPending[o]
  /\ todo' = [todo EXCEPT ![w] = {o}]
  /\ pc' = [pc EXCEPT ![w] = "next"]
  /\ mode' = [mode EXCEPT ![w] = "replay"]
  /\ UNCHANGED <<db, killSwitch, cur, res, recon, provider>>

-----------------------------------------------------------------------------
(* executeOpportunity, from await to await.                                *)

Goto(w, step, outcome) ==
  /\ pc' = [pc EXCEPT ![w] = step]
  /\ res' = [res EXCEPT ![w] = outcome]

\* Mutant: the opportunity is shown as executing before its link exists.
executingBeforeTheCall(w, o) ==
  /\ pc[w] = "next" /\ o \in todo[w]
  /\ cur' = [cur EXCEPT ![w] = o]
  /\ LET evaluated == Evaluated(o, status, decision)
         ok == VerdictOf(o, decision) = "AUTHORIZED"
     IN  /\ status' = [status EXCEPT ![o] =
                         IF ok THEN updateStatus(evaluated, "executing") ELSE evaluated]
         /\ IF ~ok THEN Goto(w, "done", "failure")
            ELSE IF rec[o].link # "none" THEN Goto(w, "done", "success")
            ELSE Goto(w, "client", "none")
  /\ UNCHANGED <<attempts, decision, rec, booked, failCount, dlqPending,
                 killSwitch, todo, mode, recon, provider>>

\* Read, evaluate, and the local idempotency check.
executeOpportunity(w, o) ==
  /\ pc[w] = "next" /\ o \in todo[w]
  /\ cur' = [cur EXCEPT ![w] = o]
  /\ LET evaluated == Evaluated(o, status, decision)
         ok == VerdictOf(o, decision) = "AUTHORIZED"
     IN  /\ status' = [status EXCEPT ![o] =
                         IF ok /\ rec[o].link # "none" /\ status[o] # "recovered"
                         THEN updateStatus(evaluated, "executing")
                         ELSE evaluated]
         /\ IF ~ok THEN Goto(w, "done", "failure")
            ELSE IF rec[o].link # "none" THEN Goto(w, "done", "success")
            ELSE Goto(w, "client", "none")
  /\ UNCHANGED <<attempts, decision, rec, booked, failCount, dlqPending,
                 killSwitch, todo, mode, recon, provider>>

\* Mutant: the live ceiling is not checked.
getClientWithoutCeiling(w) ==
  /\ pc[w] = "client"
  /\ \/ Goto(w, "call", "none")
     \/ Goto(w, "done", "failure") /\ cur[w] \in Live
  /\ UNCHANGED <<db, killSwitch, todo, cur, mode, recon, provider>>

\* The tenant's client, then the live ceiling.  Only a live opportunity fails
\* here: in the test environment the default client stands in.
getClient(w) ==
  /\ pc[w] = "client"
  /\ \/ Goto(w, "call", "none") /\ ~(cur[w] \in Live /\ cur[w] \in OverCeiling)
     \/ Goto(w, "done", "failure") /\ cur[w] \in Live
  /\ UNCHANGED <<db, killSwitch, todo, cur, mode, recon, provider>>

\* The request reaches the provider, which keeps one link per reference_id.
paymentLinkCreate(w) ==
  /\ pc[w] = "call"
  /\ IF link[cur[w]] = NoLink
     THEN /\ link' = [link EXCEPT ![cur[w]] = [status |-> "created", paid |-> 0]]
          /\ Goto(w, "resp", "ok")
     ELSE /\ link' = link
          /\ Goto(w, "resp", "exists")
  /\ UNCHANGED <<db, killSwitch, todo, cur, mode, recon, late>>

\* The call fails for good without reaching the provider: breaker open,
\* rate limit, client error, retries exhausted.
callFails(w) ==
  /\ pc[w] = "call"
  /\ Goto(w, "fallback", "none")
  /\ UNCHANGED <<db, killSwitch, todo, cur, mode, recon, provider>>

\* The 10 s timer wins the race: the request is still on its way when the
\* executor retries or gives up.
callTimesOut(w) ==
  /\ pc[w] = "call"
  /\ late' = late \cup {cur[w]}
  /\ \/ Goto(w, "call", "none")
     \/ Goto(w, "fallback", "none")
  /\ UNCHANGED <<db, killSwitch, todo, cur, mode, recon, link>>

\* The provider handled the request but the answer does not arrive in time.
responseLost(w) ==
  /\ pc[w] = "resp"
  /\ \/ Goto(w, "call", "none")
     \/ Goto(w, "fallback", "none")
  /\ UNCHANGED <<db, killSwitch, todo, cur, mode, recon, provider>>

lateCreate(o) ==
  /\ o \in late
  /\ late' = late \ {o}
  /\ link' = [link EXCEPT ![o] = IF @ = NoLink THEN [status |-> "created", paid |-> 0] ELSE @]
  /\ UNCHANGED <<db, killSwitch, worker, recon>>

\* The link is new: record it, move the opportunity to executing.
recordLink(w) ==
  /\ pc[w] = "resp" /\ res[w] = "ok"
  /\ rec' = [rec EXCEPT ![cur[w]] = [link |-> "real", status |-> "created"]]
  /\ status' = [status EXCEPT ![cur[w]] = updateStatus(@, "executing")]
  /\ Goto(w, "done", "success")
  /\ UNCHANGED <<attempts, decision, booked, failCount, dlqPending, killSwitch,
                 todo, cur, mode, recon, provider>>

referenceExists(w) ==
  /\ pc[w] = "resp" /\ res[w] = "exists"
  /\ Goto(w, "adopt", "none")
  /\ UNCHANGED <<db, killSwitch, todo, cur, mode, recon, provider>>

\* The provider knows the reference_id: adopt the link it holds, or fall
\* through when the lookup fails.
adoptLink(w) ==
  /\ pc[w] = "adopt"
  /\ \/ /\ rec' = [rec EXCEPT ![cur[w]] = [link |-> "real", status |-> link[cur[w]].status]]
        /\ status' = [status EXCEPT ![cur[w]] = updateStatus(@, "executing")]
        /\ Goto(w, "done", "success")
     \/ Goto(w, "fallback", "none") /\ UNCHANGED <<rec, status>>
  /\ UNCHANGED <<attempts, decision, booked, failCount, dlqPending, killSwitch,
                 todo, cur, mode, recon, provider>>

\* recordExecutionFailure: the fifth failure dead-letters the opportunity,
\* blocks it and raises its attempt count.  Rows already pending stay pending.
RecordFailure(o) ==
  LET n == IF failCount[o] < RetryIntervals + 1 THEN failCount[o] + 1 ELSE failCount[o]
      dead == n > RetryIntervals
  IN  /\ failCount' = [failCount EXCEPT ![o] = n]
      /\ dlqPending' = [dlqPending EXCEPT ![o] = @ \/ ~dead]
      /\ status' = [status EXCEPT ![o] = IF dead THEN updateStatus(@, "blocked") ELSE @]
      /\ attempts' = [attempts EXCEPT ![o] = IF dead THEN n ELSE @]

\* Mutant: the simulated fallback is not restricted to test mode.
simulatedFallbackForAll(w) ==
  /\ pc[w] = "fallback"
  /\ rec' = [rec EXCEPT ![cur[w]] = [link |-> "mock", status |-> "simulated"]]
  /\ status' = [status EXCEPT ![cur[w]] = updateStatus(@, "executing")]
  /\ Goto(w, "done", "success")
  /\ UNCHANGED <<attempts, failCount, dlqPending, decision, booked, killSwitch,
                 todo, cur, mode, recon, provider>>

\* Nothing worked.  Test mode records a simulated link and reports success;
\* live mode records the failure in the DLQ.
executionFailed(w) ==
  /\ pc[w] = "fallback"
  /\ \/ /\ cur[w] \notin Live
        /\ rec' = [rec EXCEPT ![cur[w]] = [link |-> "mock", status |-> "simulated"]]
        /\ status' = [status EXCEPT ![cur[w]] = updateStatus(@, "executing")]
        /\ Goto(w, "done", "success")
        /\ UNCHANGED <<attempts, failCount, dlqPending>>
     \/ /\ cur[w] \in Live
        /\ RecordFailure(cur[w])
        /\ Goto(w, "done", "failure")
        /\ UNCHANGED rec
  /\ UNCHANGED <<decision, booked, killSwitch, todo, cur, mode, recon, provider>>

\* Back in the caller.  A replay marks its rows resolved or records the
\* failure; a batch goes on with the next target.
finish(w) ==
  /\ pc[w] = "done"
  /\ CASE mode[w] = "replay" /\ res[w] = "success" ->
            /\ dlqPending' = [dlqPending EXCEPT ![cur[w]] = FALSE]
            /\ UNCHANGED <<failCount, status, attempts>>
       [] mode[w] = "replay" /\ res[w] = "failure" -> RecordFailure(cur[w])
       [] OTHER -> UNCHANGED <<failCount, dlqPending, status, attempts>>
  /\ LET rest == todo[w] \ {cur[w]}
     IN  /\ todo' = [todo EXCEPT ![w] = rest]
         /\ Goto(w, IF rest = {} THEN "idle" ELSE "next", "none")
  /\ cur' = [cur EXCEPT ![w] = AnyOpp]
  /\ mode' = [mode EXCEPT ![w] = "batch"]
  /\ UNCHANGED <<decision, rec, booked, killSwitch, recon, provider>>

-----------------------------------------------------------------------------
(* The provider settles or closes a link.                                  *)

pay(o) ==
  /\ link[o].status = "created"
  /\ link' = [link EXCEPT ![o] = [status |-> "paid", paid |-> Amount]]
  /\ UNCHANGED <<db, killSwitch, worker, recon, late>>

lapse(o) ==
  /\ link[o].status = "created"
  /\ \E s \in {"expired", "cancelled"} : link' = [link EXCEPT ![o] = [status |-> s, paid |-> 0]]
  /\ UNCHANGED <<db, killSwitch, worker, recon, late>>

-----------------------------------------------------------------------------
(* reconcileOpportunity.                                                   *)

Snapshot(r, o, step, payload) ==
  /\ rpc[r] = "idle"
  /\ rpc' = [rpc EXCEPT ![r] = step]
  /\ ropp' = [ropp EXCEPT ![r] = o]
  /\ rstat' = [rstat EXCEPT ![r] = status[o]]
  /\ rrec' = [rrec EXCEPT ![r] = rec[o].link]
  /\ rpay' = [rpay EXCEPT ![r] = payload]

ReconDone(r) ==
  /\ rpc' = [rpc EXCEPT ![r] = "idle"]
  /\ ropp' = [ropp EXCEPT ![r] = AnyOpp]
  /\ rstat' = [rstat EXCEPT ![r] = "pending"]
  /\ rrec' = [rrec EXCEPT ![r] = "none"]
  /\ rpay' = [rpay EXCEPT ![r] = NoLink]

\* Mutant: only opportunities still shown as executing are reconciled.
reconcileExecutingOnly(r, o) ==
  /\ rec[o].link # "none" /\ status[o] = "executing"
  /\ Snapshot(r, o, "fetch", NoLink)
  /\ UNCHANGED <<db, killSwitch, worker, provider>>

\* The poller, the scheduler's sweep of all execution records and the
\* reconcile route: read the row and its record, then ask the provider.
reconcile(r, o) ==
  /\ rec[o].link # "none"
  /\ Snapshot(r, o, "fetch", NoLink)
  /\ UNCHANGED <<db, killSwitch, worker, provider>>

\* A webhook carries the link itself.  It may come late, twice or never.  A
\* recovered row ends the call at once.
webhook(r, o) ==
  /\ link[o].status \in {"paid", "expired", "cancelled"}
  /\ status[o] # "recovered"
  /\ Snapshot(r, o, "commit", link[o])
  /\ UNCHANGED <<db, killSwitch, worker, provider>>

\* Mutant: a recovered row does not end the call.
fetchWithoutTerminalCheck(r) ==
  /\ rpc[r] = "fetch" /\ rrec[r] = "real"
  /\ rpc' = [rpc EXCEPT ![r] = "commit"]
  /\ rpay' = [rpay EXCEPT ![r] = link[ropp[r]]]
  /\ UNCHANGED <<ropp, rstat, rrec, db, killSwitch, worker, provider>>

\* The provider answers.  It does not know a simulated link.
fetch(r) ==
  /\ rpc[r] = "fetch" /\ rrec[r] = "real"
  /\ IF rstat[r] = "recovered"
     THEN ReconDone(r)
     ELSE /\ rpc' = [rpc EXCEPT ![r] = "commit"]
          /\ rpay' = [rpay EXCEPT ![r] = link[ropp[r]]]
          /\ UNCHANGED <<ropp, rstat, rrec>>
  /\ UNCHANGED <<db, killSwitch, worker, provider>>

\* Provider error, or the transaction rolls back: nothing is written.
reconcileFails(r) ==
  /\ rpc[r] \in {"fetch", "commit"}
  /\ ReconDone(r)
  /\ UNCHANGED <<db, killSwitch, worker, provider>>

\* Mutant: the ledger row hangs on the execution record.
commitBooksRecordedOnly(r) ==
  /\ rpc[r] = "commit"
  /\ LET o == ropp[r]
         target == targetOpportunityStatus(rstat[r], rpay[r], Amount)
     IN  /\ status' = [status EXCEPT ![o] = target]
         /\ rec' = [rec EXCEPT ![o].status =
                      IF rrec[r] # "none" THEN targetExecStatus(rpay[r], Amount) ELSE @]
         /\ booked' = [booked EXCEPT ![o] =
                         IF target = "recovered" /\ rrec[r] # "none" /\ @ < MaxBooked
                         THEN @ + 1 ELSE @]
  /\ ReconDone(r)
  /\ UNCHANGED <<attempts, decision, failCount, dlqPending, killSwitch, worker, provider>>

\* The transaction: it writes the target of the row read at the start.
commit(r) ==
  /\ rpc[r] = "commit"
  /\ LET o == ropp[r]
         target == targetOpportunityStatus(rstat[r], rpay[r], Amount)
     IN  /\ status' = [status EXCEPT ![o] = target]
         /\ rec' = [rec EXCEPT ![o].status =
                      IF rrec[r] # "none" THEN targetExecStatus(rpay[r], Amount) ELSE @]
         /\ booked' = [booked EXCEPT ![o] =
                         IF target = "recovered" /\ @ < MaxBooked THEN @ + 1 ELSE @]
  /\ ReconDone(r)
  /\ UNCHANGED <<attempts, decision, failCount, dlqPending, killSwitch, worker, provider>>

-----------------------------------------------------------------------------
\* The process dies and starts again: what lives in memory is gone, the kill
\* switch included; requests under way still reach the provider.
restart ==
  /\ Restarts
  /\ killSwitch' = FALSE
  /\ pc' = [w \in Worker |-> "idle"]
  /\ todo' = [w \in Worker |-> {}]
  /\ cur' = [w \in Worker |-> AnyOpp]
  /\ mode' = [w \in Worker |-> "batch"]
  /\ res' = [w \in Worker |-> "none"]
  /\ rpc' = [r \in Recon |-> "idle"]
  /\ ropp' = [r \in Recon |-> AnyOpp]
  /\ rstat' = [r \in Recon |-> "pending"]
  /\ rrec' = [r \in Recon |-> "none"]
  /\ rpay' = [r \in Recon |-> NoLink]
  /\ late' = late \cup {cur[w] : w \in {v \in Worker : pc[v] = "call"}}
  /\ UNCHANGED <<db, link>>

WorkerStep(w) ==
  \/ \E o \in Opp : executeOpportunity(w, o)
  \/ getClient(w) \/ paymentLinkCreate(w) \/ callFails(w) \/ callTimesOut(w)
  \/ responseLost(w) \/ recordLink(w) \/ referenceExists(w) \/ adoptLink(w)
  \/ executionFailed(w) \/ finish(w)

Next ==
  \/ \E o \in Opp : \/ scoreOpportunity(o) \/ evaluateOpportunity(o)
                    \/ lateCreate(o) \/ pay(o) \/ lapse(o)
  \/ runMarketAllocation \/ runAuthorityPipeline \/ setKillSwitch \/ restart
  \/ \E w \in Worker : \/ executeAuthorizedBatch(w) \/ sweepOnce(w)
                       \/ \E o \in Opp : executeRoute(w, o) \/ replayPendingRetries(w, o)
                       \/ WorkerStep(w)
  \/ \E r \in Recon : \/ \E o \in Opp : reconcile(r, o) \/ webhook(r, o)
                      \/ fetch(r) \/ reconcileFails(r) \/ commit(r)

Spec == Init /\ [][Next]_vars

\* The scheduler reconciles every execution record again and again; the
\* provider does not fail every query about it, and neither a crash nor the
\* database stops every one of its commits.  A single reconciliation may hang
\* for ever.  Nothing is assumed of customers and webhooks.
ReconFairness ==
  \A o \in Opp :
    /\ SF_vars(\E r \in Recon : reconcile(r, o))
    /\ SF_vars(\E r \in Recon : ropp[r] = o /\ fetch(r))
    /\ SF_vars(\E r \in Recon : ropp[r] = o /\ commit(r))

ReconSpec == Spec /\ ReconFairness

-----------------------------------------------------------------------------
(* Safety.                                                                 *)

\* LINK_CREATED # RECOVERED: whatever calls overlap, an opportunity is shown
\* as recovered, booked in the double-entry ledger or its execution record
\* completed only if the provider has been paid for its link.
SettledOnlyIfPaid ==
  \A o \in Opp :
    status[o] = "recovered" \/ booked[o] > 0 \/ rec[o].status = "completed"
      => link[o].status = "paid"

\* A recovered opportunity has its ledger row: the reconciler writes both in
\* one transaction and no other writer can reach "recovered".
RecoveredIsBooked ==
  \A o \in Opp : status[o] = "recovered" => booked[o] > 0

\* Compliance of what left the building: a link exists at the provider only
\* for an opportunity no permanent rule forbids, however long ago its call was
\* authorized and whether or not anyone still waits for the answer.
Permitted(o) ==
  /\ o \notin HardDecline /\ o \notin LowConfidence /\ o \notin Holdout
  /\ Iven[o] > 0 /\ InitAttempts[o] < RetryCap
  /\ ~(o \in Live /\ o \in OverCeiling)
LinkOnlyIfPermitted == \A o \in Opp : link[o] # NoLink => Permitted(o)

\* An opportunity is executing only with an execution record: the reconciler,
\* the executor and its fallbacks never announce a link nobody recorded.
ExecutingHasRecord ==
  \A o \in Opp : status[o] = "executing" => rec[o].link # "none"

\* A live opportunity's record names a link the provider holds; the simulated
\* fallback of test mode never reaches it, nor replaces the real link.
LiveRecordIsReal ==
  \A o \in Opp : o \in Live /\ rec[o].link # "none"
                   => rec[o].link = "real" /\ link[o] # NoLink

\* Nothing but a reconciliation that read the row before it was recovered can
\* take an opportunity out of "recovered": every other writer is guarded.
RecoveredLeftOnlyByStaleCommit ==
  [][\A o \in Opp :
       status[o] = "recovered" /\ status'[o] # "recovered"
         => \E r \in Recon : /\ rpc[r] = "commit" /\ rpc'[r] = "idle"
                             /\ ropp[r] = o /\ rstat[r] # "recovered"
                             /\ rpay[r].status # "paid"]_vars
-----------------------------------------------------------------------------
(* Why the safety properties hold.  The state of a call that is under way  *)
(* carries the facts its next write depends on.                            *)

\* Only what the market may rank is ever told to ACT.
ActWasRanked ==
  \A o \in Opp : decision[o] = "ACT"
                   => o \notin LowConfidence /\ o \notin Holdout /\ Iven[o] > 0

\* The attempt count never falls back under the cap.
AttemptsCapped == \A o \in Opp : attempts[o] = InitAttempts[o] \/ attempts[o] >= RetryCap

\* A call past the gate is for a permitted opportunity; the ceiling is known
\* to hold from the provider call on.  Its answer names a link that exists.
CallsArePermitted ==
  /\ \A w \in Worker :
       /\ pc[w] = "client" =>
            /\ cur[w] \notin HardDecline /\ cur[w] \notin LowConfidence
            /\ cur[w] \notin Holdout /\ Iven[cur[w]] > 0
            /\ InitAttempts[cur[w]] < RetryCap
       /\ pc[w] \in {"call", "resp", "adopt", "fallback"} => Permitted(cur[w])
       /\ pc[w] \in {"resp", "adopt"} => link[cur[w]] # NoLink
  /\ \A o \in late : Permitted(o)

RealRecordHasLink == \A o \in Opp : rec[o].link = "real" => link[o] # NoLink

\* What a reconciliation has read stays true where it matters: a paid link
\* stays paid, a recorded link stays on record, and it never commits on top of
\* a row it read as recovered.
SnapshotsAreUsable ==
  \A r \in Recon : rpc[r] # "idle" =>
    /\ rstat[r] = "executing" => rec[ropp[r]].link # "none"
    /\ rrec[r] # "none" => rec[ropp[r]].link # "none"
    /\ rrec[r] = "real" => link[ropp[r]] # NoLink
    /\ rpc[r] = "commit" =>
         /\ rstat[r] # "recovered" /\ rpay[r] # NoLink
         /\ rpay[r].status = "paid" => link[ropp[r]].status = "paid"
         /\ rpay[r].status = "created" => rrec[r] # "none"

\* The inductive invariant: every write the executor, the gate, the market or
\* the reconciler makes is covered by what is known at that point.
PipelineInv ==
  /\ TypeOK
  /\ SettledOnlyIfPaid /\ RecoveredIsBooked /\ LinkOnlyIfPermitted
  /\ ExecutingHasRecord /\ LiveRecordIsReal
  /\ ActWasRanked /\ AttemptsCapped /\ CallsArePermitted
  /\ RealRecordHasLink /\ SnapshotsAreUsable

-----------------------------------------------------------------------------
(* Liveness, under ReconSpec.                                              *)

\* Money is never lost sight of: once the provider has been paid for a live
\* link that is on record, the opportunity ends up recovered for good, even if
\* stale reconciliations push it back and webhooks never come.
PaidLiveIsRecovered ==
  \A o \in Live : (rec[o].link = "real" /\ link[o].status = "paid")
                    ~> [](status[o] = "recovered")

-----------------------------------------------------------------------------
(* What the repository says of the program and the program does not keep.  *)

\* "should be strictly idempotent on repeated reconciliation": one payment is
\* booked once.
BookedOnce == \A o \in Opp : booked[o] <= 1
=============================================================================
