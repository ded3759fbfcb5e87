------------------------------ MODULE ToolGate ------------------------------
(***************************************************************************)
(* Calling a tool: the nine checks of the agent authority gate, the        *)
(* registry that runs the handler against a timeout, and the loop guard    *)
(* of a mission.                                                           *)
(*                                                                         *)
(* A mission calls with its loop guard and its budget, one call at a time; *)
(* the HTTP route calls with neither, and may name the mission's run, so   *)
(* that both are counted against one rate limit.                           *)
(***************************************************************************)
EXTENDS Naturals, Sequences, SequencesExt, FiniteSets

CONSTANTS
  Tool,             \* tool names a caller may use
  Registered,       \* those the registry knows
  Forbidden,        \* those that write, by name or by permission, and live endpoints
                    \* called from the synthetic environment
  Agent,            \* agent names a caller may give
  Recognized,       \* the specialists the gate knows
  MAX_CALLS,        \* MAX_CALLS_PER_WINDOW
  WINDOW,           \* RATE_LIMIT_WINDOW_MS
  maxIdentical,     \* maxConsecutiveIdenticalCalls
  maxFailures,      \* maxConsecutiveFailures
  maxCalls,         \* max_tool_calls
  MaxClock, MaxCallsMade

VARIABLES
  stopped,           \* the kill switch
  clock,
  rateLimitMap,      \* per agent, the counted calls: their times, numbered within a tick
  toolCallHistory,   \* the mission's loop guard
  toolCalls,         \* the mission's budget
  inflight,          \* handlers whose call is awaited: caller, agent, tool, payload
  started            \* per agent, when its handlers were started

vars == <<stopped, clock, rateLimitMap, toolCallHistory, toolCalls, inflight, started>>

Payload == {"clean", "tainted"}
Caller == {"mission", "route"}
Call == [by : Caller, agent : Agent, tool : Tool, payload : Payload]
Stamp == [at : 0..MaxClock, nth : Nat]
Entry == [tool : Tool, payload : Payload, success : BOOLEAN]

TypeOK ==
  /\ stopped \in BOOLEAN /\ clock \in 0..MaxClock
  /\ rateLimitMap \in [Agent -> SUBSET Stamp] /\ started \in [Agent -> SUBSET Stamp]
  /\ toolCallHistory \in Seq(Entry) /\ toolCalls \in Nat
  /\ inflight \subseteq Call

Init ==
  /\ stopped = FALSE /\ clock = 0
  /\ rateLimitMap = [a \in Agent |-> {}] /\ started = [a \in Agent |-> {}]
  /\ toolCallHistory = <<>> /\ toolCalls = 0 /\ inflight = {}

-----------------------------------------------------------------------------
(* The loop guard.                                                         *)

LastN(s, n) == SubSeq(s, Len(s) - n + 1, Len(s))

\* The tool's entries in the history, by their places.
EntriesOf(h, t) == {i \in DOMAIN h : h[i].tool = t}

\* Is the tool's record such that the guard refuses it whatever the payload?  There
\* are enough entries of the tool and the last maxFailures of them failed.
FailedInARow(h, t) ==
  LET mine == EntriesOf(h, t)
  IN  /\ Cardinality(mine) >= maxFailures
      /\ \A i \in mine :
           Cardinality({j \in mine : j > i}) < maxFailures => ~h[i].success

checkToolCall(h, t, p) ==
  /\ ~ /\ Len(h) >= maxIdentical
       /\ \A e \in Range(LastN(h, maxIdentical)) : e.tool = t /\ e.payload = p
  /\ ~FailedInARow(h, t)

recordToolExecution(h, t, p, ok) ==
  Append(h, [tool |-> t, payload |-> p, success |-> ok])

-----------------------------------------------------------------------------
(* The gate.                                                               *)

Recent(a) == {s \in rateLimitMap[a] : clock - s.at < WINDOW}

\* Mutant: one call more than the limit.
underLimitPlusOne(a) == Cardinality(Recent(a)) <= MAX_CALLS

underLimit(a) == Cardinality(Recent(a)) < MAX_CALLS

\* Kill switch, identity, scope, budget.
callerChecks(c) ==
  /\ ~stopped
  /\ c.agent \in Recognized
  /\ c.agent # "AgentOrchestrator" => c.tool \notin Forbidden
  /\ c.by = "mission" => toolCalls <= maxCalls

\* Write boundary, environment, injection.
payloadChecks(c) == c.tool \notin Forbidden /\ c.payload = "clean"

\* All nine.  Every check is made, so a call is counted against the rate limit
\* whatever the others say of it.
evaluate(c) ==
  /\ callerChecks(c) /\ underLimit(c.agent) /\ payloadChecks(c)
  /\ c.by = "mission" => checkToolCall(toolCallHistory, c.tool, c.payload)

now(a) == [at |-> clock, nth |-> Cardinality({s \in rateLimitMap[a] : s.at = clock})]
CountCall(a) ==
  rateLimitMap' = IF underLimit(a) THEN [rateLimitMap EXCEPT ![a] = Recent(a) \cup {now(a)}]
                  ELSE rateLimitMap

-----------------------------------------------------------------------------
(* The registry.                                                           *)

Record(c, ok) ==
  toolCallHistory' = IF c.by = "mission"
                     THEN recordToolExecution(toolCallHistory, c.tool, c.payload, ok)
                     ELSE toolCallHistory

\* Mutant: what the gate denies is not held against the tool.
denyHarmlessly(c) == Record(c, TRUE)

deny(c) == Record(c, FALSE)

\* Made so far, for the bound.
CallsMade == Len(toolCallHistory) + Cardinality(started["AgentOrchestrator"])

\* executeTool up to the race.  A tool it does not know fails at once and leaves no trace.
executeTool(c) ==
  /\ CallsMade < MaxCallsMade
  /\ c.by = "mission" => \A d \in inflight : d.by # "mission"
  /\ c \notin inflight /\ c.tool \in Registered
  /\ CountCall(c.agent)
  /\ \/ /\ ~evaluate(c) /\ deny(c)
        /\ UNCHANGED <<inflight, started, toolCalls>>
     \/ /\ evaluate(c)
        /\ toolCalls' = IF c.by = "mission" THEN toolCalls + 1 ELSE toolCalls
        /\ inflight' = inflight \cup {c}
        /\ started' = [started EXCEPT ![c.agent] = @ \cup {now(c.agent)}]
        /\ UNCHANGED toolCallHistory
  /\ UNCHANGED <<stopped, clock>>

\* The handler answers, well or not, or throws, or its timeout fires first.
handlerSettles(c, ok) ==
  /\ c \in inflight /\ inflight' = inflight \ {c}
  /\ Record(c, ok)
  /\ UNCHANGED <<stopped, clock, rateLimitMap, toolCalls, started>>

setKillSwitch(on) ==
  /\ stopped # on /\ stopped' = on
  /\ UNCHANGED <<clock, rateLimitMap, toolCallHistory, toolCalls, inflight, started>>

Tick ==
  /\ clock < MaxClock /\ clock' = clock + 1
  /\ UNCHANGED <<stopped, rateLimitMap, toolCallHistory, toolCalls, inflight, started>>

Next ==
  \/ \E c \in Call : executeTool(c) \/ \E ok \in BOOLEAN : handlerSettles(c, ok)
  \/ \E on \in BOOLEAN : setKillSwitch(on)
  \/ Tick

Spec == Init /\ [][Next]_vars

-----------------------------------------------------------------------------
(* Properties.                                                             *)

\* Once a tool has failed the mission twice running it is refused for the rest
\* of the run: the refusals count as failures, so the guard never lets go,
\* even when what made it fail (the kill switch, the rate limit) has passed.
FailingToolStaysBlocked ==
  [][\A t \in Tool : FailedInARow(toolCallHistory, t) => FailedInARow(toolCallHistory', t)]_vars

\* No agent of a run has more handlers started within one window than the
\* limit, whether the mission called them or the route that borrowed its run.
HandlerRateBounded ==
  \A a \in Agent : Cardinality({s \in started[a] : clock - s.at < WINDOW}) <= MAX_CALLS
=============================================================================
