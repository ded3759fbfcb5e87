------------------------------ MODULE LLMRouter ------------------------------
(***************************************************************************)
(* The language model router: providers are tried in the order of the task *)
(* until one answers, each behind a small circuit breaker that all         *)
(* requests share.  A request reads the clock once, before its first       *)
(* await, and compares the breakers with that reading ever after.          *)
(***************************************************************************)
EXTENDS Naturals, Sequences

CONSTANTS
  Provider, Request,
  Orders,        \* getProviderOrder of every task type
  Trips,         \* consecutive failures that open a circuit
  OpenFor,       \* how long it stays open
  MaxNow, MaxTries

VARIABLES
  time,
  health,        \* consecutiveFailures and circuitOpenUntil of each provider
  available,     \* providers with a key in the environment
  request        \* per request: order, place in it, its reading of the clock, outcome

vars == <<time, health, available, request>>

TypeOK ==
  /\ time \in 0..MaxNow /\ available \subseteq Provider
  /\ health \in [Provider -> [fails : 0..MaxTries, until : 0..(MaxNow + OpenFor)]]
  /\ \A q \in Request :
       /\ request[q].order \in Orders /\ request[q].i \in 0..(Len(request[q].order) + 1)
       /\ request[q].now \in 0..MaxNow
       /\ request[q].outcome \in {"none", "awaiting", "llm", "deterministic"}

Init ==
  /\ time = 0 /\ available \in SUBSET Provider
  /\ health = [p \in Provider |-> [fails |-> 0, until |-> 0]]
  /\ request \in [Request -> {[order |-> o, i |-> 0, now |-> 0, outcome |-> "none"] : o \in Orders}]

-----------------------------------------------------------------------------

\* May the request call the k-th provider of its order?
Callable(r, k) ==
  r.order[k] \in available /\ ~(r.now < health[r.order[k]].until)

\* The loop from place k on: the next provider to call, or none is left and
\* generateAgentIntent falls back to the deterministic engine.
Advance(r, k) ==
  LET left == {j \in k..Len(r.order) : Callable(r, j)}
  IN  IF left = {} THEN [r EXCEPT !.i = Len(r.order) + 1, !.outcome = "deterministic"]
      ELSE [r EXCEPT !.i = CHOOSE j \in left : \A l \in left : j <= l, !.outcome = "awaiting"]

executeWithFallback(q) ==
  /\ request[q].outcome = "none"
  /\ request' = [request EXCEPT ![q] = Advance([@ EXCEPT !.now = time], 1)]
  /\ UNCHANGED <<time, health, available>>

Awaited(q) == request[q].order[request[q].i]

\* Mutant: a success closes the circuit and forgets to count from zero, the
\* wrong way round.
keepOpenUntil(q, valid) ==
  /\ request[q].outcome = "awaiting"
  /\ health' = [health EXCEPT ![Awaited(q)].fails = 0]
  /\ request' = [request EXCEPT ![q].outcome = IF valid THEN "llm" ELSE "deterministic"]
  /\ UNCHANGED <<time, available>>

\* The provider answers.  An answer the schema refuses ends the request too.
generateSucceeds(q, valid) ==
  /\ request[q].outcome = "awaiting"
  /\ health' = [health EXCEPT ![Awaited(q)] = [fails |-> 0, until |-> 0]]
  /\ request' = [request EXCEPT ![q].outcome = IF valid THEN "llm" ELSE "deterministic"]
  /\ UNCHANGED <<time, available>>

\* The provider fails or times out: the next one, by the breakers as they are now.
generateFails(q) ==
  LET p == Awaited(q)
      h == health[p]
      n == h.fails + 1
      failed == [fails |-> n, until |-> IF n >= Trips THEN time + OpenFor ELSE h.until]
  IN  /\ request[q].outcome = "awaiting" /\ h.fails < MaxTries
      /\ health' = [health EXCEPT ![p] = failed]
      /\ request' = [request EXCEPT ![q] = Advance(@, @.i + 1)]
      /\ UNCHANGED <<time, available>>

\* The caller asks again.
Again(q) ==
  /\ request[q].outcome \in {"llm", "deterministic"}
  /\ request' = [request EXCEPT ![q] = [@ EXCEPT !.i = 0, !.outcome = "none"]]
  /\ UNCHANGED <<time, health, available>>

Tick == time < MaxNow /\ time' = time + 1 /\ UNCHANGED <<health, available, request>>

Next ==
  \/ \E q \in Request : executeWithFallback(q) \/ generateFails(q) \/ Again(q)
                        \/ \E valid \in BOOLEAN : generateSucceeds(q, valid)
  \/ Tick

\* The call to a provider carries a timeout.
Fairness ==
  \A q \in Request : WF_vars(generateFails(q) \/ \E valid \in BOOLEAN : generateSucceeds(q, valid))
Spec == Init /\ [][Next]_vars /\ Fairness

-----------------------------------------------------------------------------
(* Properties.                                                             *)

\* A circuit is open only over a streak of failures that nothing has broken:
\* whatever the order in which concurrent requests hear from the provider, a
\* success closes the circuit with the count it ends.
OpenMeansFailing == \A p \in Provider : health[p].until > 0 => health[p].fails >= Trips
=============================================================================
