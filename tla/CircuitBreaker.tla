--------------------------- MODULE CircuitBreaker ---------------------------
(***************************************************************************)
(* The circuit breaker around the provider's API.  Calls of                *)
(* executeWithResilience overlap; each retries on its own and reports to   *)
(* the shared breaker once, at its end.  The breaker's state is mirrored   *)
(* in the cache, outlives the process there, and is read back when a new   *)
(* process constructs the breaker.                                         *)
(*                                                                         *)
(* Time enters only as ages: how long ago the last failure was, up to the  *)
(* cooldown, and how long ago the cache entry was written, up to its TTL.  *)
(***************************************************************************)
EXTENDS Integers

CONSTANTS
  Call,             \* the calls that may be under way at once
  FailureThreshold, \* failures of whole calls before the breaker opens
  Cooldown,         \* ticks an open breaker rejects calls after a failure
  MaxRetries,       \* attempts of one call
  Restarts          \* whether the process may be restarted

ASSUME BreakerAssumption ==
  /\ FailureThreshold \in Nat \ {0} /\ Cooldown \in Nat \ {0}
  /\ MaxRetries \in Nat \ {0} /\ Restarts \in BOOLEAN

VARIABLES
  state,        \* CLOSED, OPEN or HALF_OPEN
  failureCount, \* failed calls since the last success, saturating at the threshold
  age,          \* now - lastFailureTime, saturating at Cooldown
  pc,           \* of each call
  attempt,      \* of each call
  cache,        \* the persisted state
  loading,      \* how far loadPersistedState of this process is
  loaded        \* what it has read

breaker == <<state, failureCount, age>>
calls == <<pc, attempt>>
load == <<loading, loaded>>
vars == <<breaker, calls, cache, load>>

State == {"CLOSED", "OPEN", "HALF_OPEN"}
Count == 0..FailureThreshold

\* lastFailureTime in the cache is an age too: its reader subtracts it from now.
Entry == [state : State \cup {"none"}, failureCount : Count,
          failureAge : 0..Cooldown, age : 0..(2 * Cooldown)]
NoEntry == [state |-> "none", failureCount |-> 0, failureAge |-> 0, age |-> 0]

TypeOK ==
  /\ state \in State
  /\ failureCount \in Count
  /\ age \in 0..Cooldown
  /\ pc \in [Call -> {"idle", "running", "backoff"}]
  /\ attempt \in [Call -> 1..MaxRetries]
  /\ cache \in Entry
  /\ loading \in {"reading", "applying", "done"}
  /\ loaded \in Entry

Init ==
  /\ state = "CLOSED" /\ failureCount = 0 /\ age = Cooldown
  /\ pc = [c \in Call |-> "idle"]
  /\ attempt = [c \in Call |-> 1]
  /\ cache = NoEntry
  /\ loading = "reading" /\ loaded = NoEntry

\* What persistState writes: the breaker as it is now, with TTL 2 * Cooldown.
persistState(st, n, a) == [state |-> st, failureCount |-> n, failureAge |-> a, age |-> 0]

-----------------------------------------------------------------------------

\* The state a caller finds: an open breaker past its cooldown is half open.
CooledDown == IF state = "OPEN" /\ age >= Cooldown THEN "HALF_OPEN" ELSE state

\* getState: the transition happens when somebody looks.
checkCooldown ==
  /\ state' = CooledDown
  /\ cache' = IF CooledDown # state THEN persistState(CooledDown, failureCount, age) ELSE cache

getState ==
  /\ checkCooldown
  /\ UNCHANGED <<failureCount, age, calls, load>>

\* Mutant: a rejected call counts as a failure of the provider.
rejectionRenewsCooldown(c) ==
  /\ pc[c] = "idle"
  /\ checkCooldown
  /\ IF CooledDown = "OPEN"
     THEN age' = 0 /\ UNCHANGED <<pc, attempt>>
     ELSE /\ pc' = [pc EXCEPT ![c] = "running"]
          /\ attempt' = [attempt EXCEPT ![c] = 1]
          /\ UNCHANGED age
  /\ UNCHANGED <<failureCount, load>>

\* A call begins: rejected when the breaker is open.
executeWithResilience(c) ==
  /\ pc[c] = "idle"
  /\ checkCooldown
  /\ IF CooledDown = "OPEN"
     THEN UNCHANGED <<pc, attempt>>
     ELSE /\ pc' = [pc EXCEPT ![c] = "running"]
          /\ attempt' = [attempt EXCEPT ![c] = 1]
  /\ UNCHANGED <<failureCount, age, load>>

\* An attempt returns in time.
recordSuccess(c) ==
  /\ pc[c] = "running"
  /\ pc' = [pc EXCEPT ![c] = "idle"]
  /\ failureCount' = 0
  /\ state' = IF state = "HALF_OPEN" THEN "CLOSED" ELSE state
  /\ cache' = IF state = "HALF_OPEN" THEN persistState("CLOSED", 0, age) ELSE cache
  /\ UNCHANGED <<age, attempt, load>>

\* An attempt fails or times out, with attempts left and an error worth retrying.
retry(c) ==
  /\ pc[c] = "running" /\ attempt[c] < MaxRetries
  /\ pc' = [pc EXCEPT ![c] = "backoff"]
  /\ attempt' = [attempt EXCEPT ![c] = @ + 1]
  /\ UNCHANGED <<breaker, cache, load>>

\* The backoff is over: the next attempt, without another look at the breaker.
attemptAgain(c) ==
  /\ pc[c] = "backoff"
  /\ pc' = [pc EXCEPT ![c] = "running"]
  /\ UNCHANGED <<breaker, attempt, cache, load>>

OneMore(n) == IF n < FailureThreshold THEN n + 1 ELSE n

\* Mutant: one failure too late.
opensOneLate(n) == IF state = "HALF_OPEN" \/ n > FailureThreshold THEN "OPEN" ELSE state

\* The breaker after a failed call.
AfterFailure(n) == IF state = "HALF_OPEN" \/ n >= FailureThreshold THEN "OPEN" ELSE state

\* Mutant: the state is persisted before it changes.
persistsTooEarly(c) ==
  LET n == OneMore(failureCount)
  IN  /\ pc[c] = "running"
      /\ pc' = [pc EXCEPT ![c] = "idle"]
      /\ failureCount' = n
      /\ age' = 0
      /\ state' = AfterFailure(n)
      /\ cache' = persistState(state, n, 0)
      /\ UNCHANGED <<attempt, load>>

\* The last attempt fails, or any attempt with a client error or rate limit.
recordFailure(c) ==
  LET n == OneMore(failureCount)
  IN  /\ pc[c] = "running"
      /\ pc' = [pc EXCEPT ![c] = "idle"]
      /\ failureCount' = n
      /\ age' = 0
      /\ state' = AfterFailure(n)
      /\ cache' = persistState(AfterFailure(n), n, 0)
      /\ UNCHANGED <<attempt, load>>

\* A public operation without a caller in the server: lastFailureTime becomes 0
\* and the cache keeps what it holds.
reset ==
  /\ state' = "CLOSED" /\ failureCount' = 0 /\ age' = Cooldown
  /\ UNCHANGED <<calls, cache, load>>

-----------------------------------------------------------------------------
(* Persistence.                                                            *)

\* loadPersistedState: the cache is read, then what it said is applied.
loadPersistedState ==
  \/ /\ loading = "reading"
     /\ loading' = "applying" /\ loaded' = cache
     /\ UNCHANGED <<breaker, calls, cache>>
  \/ /\ loading = "applying"
     /\ IF loaded.state = "none"
        THEN UNCHANGED breaker
        ELSE /\ state' = loaded.state
             /\ failureCount' = loaded.failureCount
             /\ age' = loaded.failureAge
     /\ loading' = "done" /\ loaded' = NoEntry
     /\ UNCHANGED <<calls, cache>>

\* A new process: a fresh breaker, no calls under way, the cache as it was.
restart ==
  /\ Restarts
  /\ state' = "CLOSED" /\ failureCount' = 0 /\ age' = Cooldown
  /\ pc' = [c \in Call |-> "idle"]
  /\ attempt' = [c \in Call |-> 1]
  /\ loading' = "reading" /\ loaded' = NoEntry
  /\ UNCHANGED <<cache>>

Older(a, limit) == IF a < limit THEN a + 1 ELSE a
AgedEntry(s) ==
  IF s.state = "none" THEN NoEntry
  ELSE [s EXCEPT !.failureAge = Older(@, Cooldown), !.age = Older(@, 2 * Cooldown)]

\* Time passes; the cache drops an entry whose TTL is over.
tick ==
  /\ age' = Older(age, Cooldown)
  /\ cache' = IF cache.age >= 2 * Cooldown THEN NoEntry ELSE AgedEntry(cache)
  /\ loaded' = AgedEntry(loaded)
  /\ UNCHANGED <<state, failureCount, calls, loading>>

CallStep(c) == recordSuccess(c) \/ retry(c) \/ attemptAgain(c) \/ recordFailure(c)

Next ==
  \/ \E c \in Call : executeWithResilience(c) \/ CallStep(c)
  \/ getState \/ reset \/ loadPersistedState \/ restart \/ tick

Spec == Init /\ [][Next]_vars

\* Timers fire, a call's attempts end, and calls keep coming.
BreakerFairness ==
  /\ WF_vars(tick) /\ WF_vars(loadPersistedState)
  /\ \A c \in Call : WF_vars(CallStep(c)) /\ WF_vars(executeWithResilience(c))
FairSpec == Spec /\ BreakerFairness

-----------------------------------------------------------------------------
(* Properties.                                                             *)

\* A closed breaker is below its threshold: no interleaving of calls, restarts
\* and late loads leaves it closed after as many failures as should open it.
ClosedBelowThreshold == state = "CLOSED" => failureCount < FailureThreshold

\* The breaker does not forget a failure while it is open: it is half open only
\* when the cooldown counted from the newest failure it knows of has passed.
HalfOpenIsCooled == state = "HALF_OPEN" => age >= Cooldown

\* The mirror is never more permissive than a breaker that failed: what the
\* cache would restore is closed only below the threshold, half open only
\* after the cooldown.
MirrorIsSafe ==
  \A s \in {cache, loaded} :
    /\ s.state = "CLOSED" => s.failureCount < FailureThreshold
    /\ s.state = "HALF_OPEN" => s.failureAge >= Cooldown

BreakerInv == TypeOK /\ ClosedBelowThreshold /\ HalfOpenIsCooled /\ MirrorIsSafe

\* An open breaker does not reject for ever: calls that were under way when it
\* opened extend the cooldown, but there are only so many of them.
OpenEnds == (state = "OPEN") ~> (state # "OPEN")
=============================================================================
