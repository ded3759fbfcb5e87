----------------------------- MODULE RateLimits -----------------------------
(***************************************************************************)
(* The two limiters a request of one tenant passes: the sliding window of  *)
(* the route's tier and the fixed window of the tenant's plan.  Each       *)
(* counts in Redis while that answers and in the process otherwise, and    *)
(* the two counts never meet.                                              *)
(***************************************************************************)
EXTENDS Integers, FiniteSets

CONSTANTS
  maxRequests, windowSeconds,   \* the sliding window
  planLimit, planWindow,        \* maxRequestsPerMinute and the fixed window
  keyTTL,                       \* TTL the fallback store gives a counter
  MaxTime, MaxRequests          \* bounds

RateLimitsAssumption ==
  /\ {maxRequests, windowSeconds, planLimit, keyTTL, MaxTime, MaxRequests} \subseteq Nat
  /\ planWindow \in Nat \ {0}

VARIABLES
  now,
  connected,      \* isRedisConnected
  sorted,         \* the sorted set of the key, in Redis: a stamp of every request
  memoryBucket,   \* memoryBuckets of the sliding limiter: stamps of those let in
  counter,        \* ratelimit:<tenant>:<window> in Redis, per window
  stored,         \* the same key in the fallback store: [count, expiresAt] per window
  pending,        \* requests whose incr failed and that have read a count: [window, count, n]
  planBucket,     \* memoryBuckets of the plan limiter: [count, windowStart]
  admitted,       \* stamps of what the sliding limiter let in, per store
  passed,         \* stamps of what the plan limiter let in, per store
  requests

vars == <<now, connected, sorted, memoryBucket, counter, stored, pending, planBucket, admitted, passed, requests>>

Time == 0..MaxTime
Store == {"redis", "memory", "fallback"}
Window(t) == t \div planWindow

\* A request: when it came, and its number.
Stamp == [at : Time, n : Nat]
stamp == [at |-> now, n |-> requests]

TypeOK ==
  /\ now \in Time /\ connected \in BOOLEAN /\ requests \in 0..MaxRequests
  /\ sorted \subseteq Stamp /\ memoryBucket \subseteq Stamp
  /\ \A w \in DOMAIN counter : counter[w] \in Nat /\ stored[w].count \in Nat
  /\ planBucket.count \in Nat
  /\ \A r \in pending : r.count \in Nat /\ r.window \in DOMAIN counter
  /\ \A s \in Store : admitted[s] \subseteq Stamp /\ passed[s] \subseteq Stamp

-----------------------------------------------------------------------------
(* DistributedRateLimiter.checkLimit.                                      *)

\* Mutant: entries are forgotten one tick early.
withinShort(times) == {e \in times : e.at + windowSeconds > now + 1}

\* Entries newer than the cutoff.
within(times) == {e \in times : e.at + windowSeconds > now}

\* In Redis a request is counted before it is judged, whether or not it is let in.
checkLimitRedis ==
  LET times == within(sorted) \cup {stamp}
  IN  /\ sorted' = times
      /\ admitted' = IF Cardinality(times) > maxRequests THEN admitted
                     ELSE [admitted EXCEPT !["redis"] = @ \cup {stamp}]
      /\ UNCHANGED memoryBucket

\* In memory only what is let in is counted.
checkLimitMemory ==
  LET times == within(memoryBucket)
  IN  /\ IF Cardinality(times) >= maxRequests THEN UNCHANGED <<memoryBucket, admitted>>
         ELSE /\ memoryBucket' = times \cup {stamp}
              /\ admitted' = [admitted EXCEPT !["memory"] = @ \cup {stamp}]
      /\ UNCHANGED sorted

slidingRequest(redisAnswers) ==
  /\ requests < MaxRequests /\ requests' = requests + 1
  /\ redisAnswers => connected
  /\ IF redisAnswers THEN checkLimitRedis ELSE checkLimitMemory
  /\ UNCHANGED <<now, connected, counter, stored, pending, planBucket, passed>>

-----------------------------------------------------------------------------
(* tieredRateLimiter.                                                      *)

Pass(store, count, n) ==
  passed' = IF count > planLimit THEN passed
            ELSE [passed EXCEPT ![store] = @ \cup {[at |-> now, n |-> n]}]

\* Mutant: the count is not kept from one request to the next.
incrementAfresh(w) == [count |-> 1, windowStart |-> w]

incrementMemoryBucket(w) ==
  IF planBucket.windowStart # w THEN [count |-> 1, windowStart |-> w]
  ELSE [planBucket EXCEPT !.count = @ + 1]

Live(w) == IF stored[w].expiresAt >= now THEN stored[w].count ELSE 0

planRequest ==
  LET w == Window(now)
  IN  /\ requests < MaxRequests /\ requests' = requests + 1
      /\ \/ /\ connected
            /\ counter' = [counter EXCEPT ![w] = @ + 1] /\ Pass("redis", counter[w] + 1, requests)
            /\ UNCHANGED <<stored, pending, planBucket>>
         \* The command fails on a live connection: cache.incr goes on with a get,
         \* which Redis may answer again, or else the fallback store.
         \/ /\ connected
            /\ \E count \in {counter[w], Live(w)} :
                 pending' = pending \cup {[window |-> w, count |-> count, n |-> requests]}
            /\ UNCHANGED <<counter, stored, planBucket, passed>>
         \/ /\ ~connected
            /\ planBucket' = incrementMemoryBucket(w)
            /\ Pass("memory", incrementMemoryBucket(w).count, requests)
            /\ UNCHANGED <<counter, stored, pending>>
      /\ UNCHANGED <<now, connected, sorted, memoryBucket, admitted>>

\* The set that ends a failed incr: whatever was counted since the get is lost.
incrFallback(r) ==
  /\ r \in pending /\ pending' = pending \ {r}
  /\ Pass("fallback", r.count + 1, r.n)
  /\ \/ connected /\ counter' = [counter EXCEPT ![r.window] = r.count + 1] /\ UNCHANGED stored
     \/ /\ stored' = [stored EXCEPT ![r.window] = [count |-> r.count + 1, expiresAt |-> now + keyTTL]]
        /\ UNCHANGED counter
  /\ UNCHANGED <<now, connected, sorted, memoryBucket, planBucket, admitted, requests>>

\* The client's connect and error events.
connectionChanges ==
  /\ connected' = ~connected
  /\ UNCHANGED <<now, sorted, memoryBucket, counter, stored, pending, planBucket, admitted, passed, requests>>

Tick ==
  /\ now < MaxTime /\ now' = now + 1
  /\ UNCHANGED <<connected, sorted, memoryBucket, counter, stored, pending, planBucket, admitted, passed, requests>>

Init ==
  /\ now = 0 /\ connected \in BOOLEAN /\ sorted = {} /\ memoryBucket = {}
  /\ counter = [w \in 0..Window(MaxTime) |-> 0]
  /\ stored = [w \in 0..Window(MaxTime) |-> [count |-> 0, expiresAt |-> 0]]
  /\ pending = {} /\ planBucket = [count |-> 0, windowStart |-> 0]
  /\ admitted = [s \in Store |-> {}] /\ passed = [s \in Store |-> {}] /\ requests = 0

Next ==
  \/ \E redisAnswers \in BOOLEAN : slidingRequest(redisAnswers)
  \/ planRequest
  \/ \E r \in pending : incrFallback(r)
  \/ connectionChanges
  \/ Tick

Spec == Init /\ [][Next]_vars

-----------------------------------------------------------------------------
(* Properties.                                                             *)

\* However often the connection comes and goes, neither store lets in more than
\* the limit within any window, and so both together at most twice the limit.
SlidingWindowBounded ==
  \A s \in Store, t \in Time :
    Cardinality({e \in admitted[s] : e.at \in t..(t + windowSeconds - 1)}) <= maxRequests

\* The plan's limiter keeps its limit in each store and each of its windows, as
\* long as no command that failed on a live connection was let in after all: it
\* writes back a count it read earlier, over what others counted meanwhile.
PlanWindowBounded ==
  \A w \in DOMAIN counter :
    LET In(s) == Cardinality({e \in passed[s] : Window(e.at) = w})
    IN  /\ In("memory") <= planLimit
        /\ passed["fallback"] = {} => In("redis") <= planLimit
=============================================================================
