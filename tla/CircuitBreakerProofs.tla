------------------------ MODULE CircuitBreakerProofs ------------------------
(***************************************************************************)
(* BreakerInv is inductive, for any number of overlapping calls, any       *)
(* threshold, cooldown and number of attempts.  MirrorIsSafe is what       *)
(* carries the two facts about the breaker through a restart.              *)
(***************************************************************************)
EXTENDS CircuitBreaker, TLAPS

USE DEF State, Count, Entry, NoEntry

\* The mirror written for a safe breaker is a safe entry.
LEMMA PersistFacts ==
  ASSUME NEW st \in State, NEW n \in Count, NEW a \in 0..Cooldown
  PROVE  /\ persistState(st, n, a) \in Entry
         /\ persistState(st, n, a).state = st
         /\ persistState(st, n, a).failureCount = n
         /\ persistState(st, n, a).failureAge = a
BY BreakerAssumption DEF persistState

\* Time makes an entry older and nothing else.
LEMMA AgedFacts ==
  ASSUME NEW s \in Entry
  PROVE  /\ AgedEntry(s) \in Entry
         /\ AgedEntry(s).state = s.state
         /\ s.state # "none" => /\ AgedEntry(s).failureCount = s.failureCount
                                /\ AgedEntry(s).failureAge >= s.failureAge
<1>1. CASE s.state = "none"
  BY <1>1, BreakerAssumption DEF AgedEntry
<1>2. CASE s.state # "none"
  <2> DEFINE f == Older(s.failureAge, Cooldown)
             a == Older(s.age, 2 * Cooldown)
  <2>1. f \in 0..Cooldown /\ f >= s.failureAge /\ a \in 0..(2 * Cooldown)
    BY BreakerAssumption DEF Older
  <2>2. AgedEntry(s) = [s EXCEPT !.failureAge = f, !.age = a]
    BY <1>2 DEF AgedEntry
  <2> HIDE DEF f, a
  <2> QED
    BY <2>1, <2>2
<1> QED
  BY <1>1, <1>2

\* A fresh breaker over an empty cache.
LEMMA BreakerInitInv == Init => BreakerInv
BY BreakerAssumption
   DEF Init, BreakerInv, TypeOK, ClosedBelowThreshold, HalfOpenIsCooled, MirrorIsSafe

\* Looking at the breaker may move it to half open, and mirrors the move.
LEMMA CooldownFacts ==
  ASSUME BreakerInv, checkCooldown, UNCHANGED <<failureCount, age, load>>
  PROVE  /\ state' \in State /\ cache' \in Entry
         /\ ClosedBelowThreshold' /\ HalfOpenIsCooled' /\ MirrorIsSafe'
<1> USE BreakerAssumption DEF BreakerInv
<1>1. CooledDown \in State /\ (CooledDown # state => CooledDown = "HALF_OPEN" /\ age >= Cooldown)
  BY DEF CooledDown, TypeOK
<1>2. CASE CooledDown = state
  BY <1>2 DEF checkCooldown, TypeOK, ClosedBelowThreshold, HalfOpenIsCooled,
              MirrorIsSafe, load
<1>3. CASE CooledDown # state
  BY <1>1, <1>3, PersistFacts
     DEF checkCooldown, TypeOK, ClosedBelowThreshold, HalfOpenIsCooled, MirrorIsSafe, load
<1> QED
  BY <1>2, <1>3

\* Looking at the breaker: the step to half open keeps what the cache mirrors.
LEMMA GetStateInv == ASSUME BreakerInv, getState PROVE BreakerInv'
<1>1. checkCooldown /\ UNCHANGED <<failureCount, age, calls, load>>
  BY DEF getState
<1> QED
  BY <1>1, CooldownFacts DEF BreakerInv, TypeOK, load, calls

\* The callers: starting, succeeding, retrying and failing.
LEMMA CallStepsInv ==
  ASSUME BreakerInv, NEW c \in Call
  PROVE  executeWithResilience(c) \/ CallStep(c) => BreakerInv'
<1> USE BreakerAssumption DEF BreakerInv
<1>1. ASSUME executeWithResilience(c) PROVE BreakerInv'
  <2>1. checkCooldown /\ UNCHANGED <<failureCount, age, load>>
    BY <1>1 DEF executeWithResilience
  <2>2. /\ pc' \in [Call -> {"idle", "running", "backoff"}]
        /\ attempt' \in [Call -> 1..MaxRetries]
    BY <1>1 DEF executeWithResilience, TypeOK
  <2> QED
    BY CooldownFacts, <2>1, <2>2 DEF TypeOK, load
<1>2. ASSUME recordSuccess(c) PROVE BreakerInv'
  <2>1. TypeOK'
    BY <1>2, PersistFacts DEF recordSuccess, TypeOK, load
  <2>2. ClosedBelowThreshold' /\ HalfOpenIsCooled'
    BY <1>2 DEF recordSuccess, TypeOK, ClosedBelowThreshold, HalfOpenIsCooled
  <2>3. MirrorIsSafe'
    BY <1>2, PersistFacts DEF recordSuccess, TypeOK, MirrorIsSafe, load
  <2> QED
    BY <2>1, <2>2, <2>3
<1>3. ASSUME retry(c) \/ attemptAgain(c) PROVE BreakerInv'
  <2>1. UNCHANGED <<breaker, cache, load>>
    BY <1>3 DEF retry, attemptAgain
  <2>2. /\ pc' \in [Call -> {"idle", "running", "backoff"}]
        /\ attempt' \in [Call -> 1..MaxRetries]
    BY <1>3 DEF retry, attemptAgain, TypeOK
  <2> QED
    BY <2>1, <2>2 DEF TypeOK, ClosedBelowThreshold, HalfOpenIsCooled, MirrorIsSafe,
                      breaker, load
<1>4. ASSUME recordFailure(c) PROVE BreakerInv'
  <2> DEFINE n == OneMore(failureCount)
  <2>1. n \in Count
    BY DEF OneMore, TypeOK
  <2>2. /\ AfterFailure(n) \in State
        /\ AfterFailure(n) = "CLOSED" => n < FailureThreshold
        /\ AfterFailure(n) # "HALF_OPEN"
    BY <2>1 DEF AfterFailure, TypeOK
  <2>3. /\ pc' = [pc EXCEPT ![c] = "idle"] /\ failureCount' = n /\ age' = 0
        /\ state' = AfterFailure(n) /\ cache' = persistState(AfterFailure(n), n, 0)
        /\ UNCHANGED <<attempt, load>>
    BY <1>4 DEF recordFailure
  <2> HIDE DEF n
  <2>4. /\ cache' \in Entry /\ cache'.state = AfterFailure(n) /\ cache'.failureCount = n
    BY <2>1, <2>2, <2>3, PersistFacts
  <2>5. TypeOK'
    BY <2>1, <2>2, <2>3, <2>4 DEF TypeOK, load
  <2>6. ClosedBelowThreshold' /\ HalfOpenIsCooled' /\ MirrorIsSafe'
    BY <2>2, <2>3, <2>4 DEF ClosedBelowThreshold, HalfOpenIsCooled, MirrorIsSafe, load
  <2> QED
    BY <2>5, <2>6
<1> QED
  BY <1>1, <1>2, <1>3, <1>4 DEF CallStep

\* Resetting, loading, restarting and the passage of time.
LEMMA PersistenceStepsInv ==
  ASSUME BreakerInv
  PROVE  reset \/ loadPersistedState \/ restart \/ tick => BreakerInv'
<1> USE BreakerAssumption DEF BreakerInv
<1>1. ASSUME loadPersistedState PROVE BreakerInv'
  BY <1>1 DEF loadPersistedState, TypeOK, ClosedBelowThreshold, HalfOpenIsCooled,
              MirrorIsSafe, breaker, calls
<1>2. ASSUME restart PROVE BreakerInv'
  BY <1>2 DEF restart, TypeOK, ClosedBelowThreshold, HalfOpenIsCooled, MirrorIsSafe
<1>3. ASSUME reset PROVE BreakerInv'
  BY <1>3 DEF reset, TypeOK, ClosedBelowThreshold, HalfOpenIsCooled, MirrorIsSafe, calls, load
<1>4. ASSUME tick PROVE BreakerInv'
  <2>1. age' \in 0..Cooldown /\ age' >= age
    BY <1>4 DEF tick, Older, TypeOK
  <2>2. /\ cache' \in Entry /\ loaded' \in Entry
        /\ cache' = NoEntry \/ cache' = AgedEntry(cache)
        /\ loaded' = AgedEntry(loaded)
    BY <1>4, AgedFacts DEF tick, TypeOK
  <2>3. TypeOK'
    BY <1>4, <2>1, <2>2 DEF tick, TypeOK, calls
  <2>4. ClosedBelowThreshold' /\ HalfOpenIsCooled'
    BY <1>4, <2>1 DEF tick, TypeOK, ClosedBelowThreshold, HalfOpenIsCooled
  <2>5. MirrorIsSafe'
    <3>1. ASSUME NEW s \in {cache, loaded}
          PROVE  /\ AgedEntry(s).state = "CLOSED" => AgedEntry(s).failureCount < FailureThreshold
                 /\ AgedEntry(s).state = "HALF_OPEN" => AgedEntry(s).failureAge >= Cooldown
      <4>1. s \in Entry /\ AgedEntry(s) \in Entry
        BY AgedFacts DEF TypeOK
      <4> QED
        BY <4>1, AgedFacts DEF MirrorIsSafe
    <3> QED
      BY <2>2, <3>1 DEF MirrorIsSafe
  <2> QED
    BY <2>3, <2>4, <2>5
<1> QED
  BY <1>1, <1>2, <1>3, <1>4

\* Whatever calls overlap and whenever the process restarts: a closed breaker is
\* below its threshold, a half-open one has cooled down since the last failure
\* it knows of, and the cache never restores anything else.
THEOREM BreakerSafety ==
  Spec => [](TypeOK /\ ClosedBelowThreshold /\ HalfOpenIsCooled /\ MirrorIsSafe)
<1>1. BreakerInv /\ [Next]_vars => BreakerInv'
  <2> SUFFICES ASSUME BreakerInv, [Next]_vars PROVE BreakerInv'
    OBVIOUS
  <2>1. CASE UNCHANGED vars
    BY <2>1 DEF vars, breaker, calls, load, BreakerInv, TypeOK, ClosedBelowThreshold,
                HalfOpenIsCooled, MirrorIsSafe
  <2>2. CASE Next
    BY <2>2, GetStateInv, CallStepsInv, PersistenceStepsInv DEF Next
  <2> QED
    BY <2>1, <2>2
<1>2. BreakerInv => TypeOK /\ ClosedBelowThreshold /\ HalfOpenIsCooled /\ MirrorIsSafe
  BY DEF BreakerInv
<1> QED
  BY BreakerInitInv, <1>1, <1>2, PTL DEF Spec

\* The breaker that a restart finds in the cache is itself never too permissive.
THEOREM MirrorStaysSafe == Spec => []MirrorIsSafe
BY BreakerSafety, PTL

=============================================================================
