---------------------------- MODULE AgentMissions ----------------------------
(***************************************************************************)
(* Agent missions: the orchestrator's linear mission, the iterative agent  *)
(* loop, and the coordinator that runs a batch of missions in parallel.    *)
(*                                                                         *)
(* A mission runs from await to await.  It works on the opportunity it     *)
(* read when it began, records its progress in a state machine that        *)
(* silently refuses what its table does not list, and shares opportunities *)
(* with other missions and with the reconciler.  What a language model     *)
(* answers, and what the scores make of it, is a choice.                   *)
(***************************************************************************)
EXTENDS Lifecycle, Sequences, FiniteSets

CONSTANTS
  MOpp,          \* opportunities
  Batches,       \* the batches that may be submitted: ids in order, maybe repeated
  Pool,          \* the coordinator's workers
  MaxMissions,   \* missions that may be begun, of the batch and of the routes
  maxToolCalls,  \* budgetConfig.max_tool_calls
  maxIterations, \* reasoning cycles of the loop
  MaxSwitches    \* operations of the kill switch

VARIABLES
  kill, switches,
  oppStatus,  \* recovery_opportunities.status
  linked,     \* opportunities with an execution record
  paid,       \* opportunities whose link the customer paid
  claimed,    \* opportunities with an outcome row saying they were recovered
  mission,    \* the missions begun so far
  run,        \* their rows of agent_runs
  submitted, queue, results, activeLocks, at

world == <<oppStatus, linked, paid, claimed>>
batch == <<submitted, queue, results, activeLocks, at>>
vars == <<kill, switches, world, mission, run, batch>>

-----------------------------------------------------------------------------
(* The state machine of a mission.                                         *)

AgentState == {"IDLE", "TRIGGERED", "OBSERVE", "INVESTIGATE", "DIAGNOSE",
  "HYPOTHESIZE", "PLAN", "VALIDATE_PLAN", "PROPOSE", "WAIT_AUTHORITY", "EXECUTE",
  "WAIT", "WAKE", "OBSERVE_OUTCOME", "PLAN_INVALIDATED", "REPLAN", "LEARN",
  "MEMORY_UPDATE", "COMPLETE", "ABORTED", "HUMAN_REVIEW"}

\* Mutant: a diagnosis under way cannot be aborted.
NoAbortFromDiagnose ==
  [s \in AgentState |->
    CASE s = "IDLE" -> {"TRIGGERED"}
      [] s = "TRIGGERED" -> {"OBSERVE", "ABORTED"}
      [] s = "OBSERVE" -> {"INVESTIGATE", "DIAGNOSE", "PLAN_INVALIDATED", "ABORTED"}
      [] s = "INVESTIGATE" -> {"DIAGNOSE", "OBSERVE", "HUMAN_REVIEW", "ABORTED"}
      [] s = "DIAGNOSE" -> {"HYPOTHESIZE", "HUMAN_REVIEW"}
      [] OTHER -> AgentState]

VALID_STATE_TRANSITIONS ==
  [s \in AgentState |->
    CASE s = "IDLE" -> {"TRIGGERED"}
      [] s = "TRIGGERED" -> {"OBSERVE", "ABORTED"}
      [] s = "OBSERVE" -> {"INVESTIGATE", "DIAGNOSE", "PLAN_INVALIDATED", "ABORTED"}
      [] s = "INVESTIGATE" -> {"DIAGNOSE", "OBSERVE", "HUMAN_REVIEW", "ABORTED"}
      [] s = "DIAGNOSE" -> {"HYPOTHESIZE", "HUMAN_REVIEW", "ABORTED"}
      [] s = "HYPOTHESIZE" -> {"PLAN", "OBSERVE", "HUMAN_REVIEW", "ABORTED"}
      [] s = "PLAN" -> {"VALIDATE_PLAN", "HUMAN_REVIEW", "ABORTED"}
      [] s = "VALIDATE_PLAN" -> {"PROPOSE", "PLAN_INVALIDATED", "REPLAN", "ABORTED"}
      [] s = "PROPOSE" -> {"WAIT_AUTHORITY", "HUMAN_REVIEW", "ABORTED"}
      [] s = "WAIT_AUTHORITY" -> {"EXECUTE", "WAIT", "ABORTED", "HUMAN_REVIEW"}
      [] s = "EXECUTE" -> {"WAIT", "OBSERVE_OUTCOME", "ABORTED"}
      [] s = "WAIT" -> {"WAKE", "ABORTED"}
      [] s = "WAKE" -> {"OBSERVE", "OBSERVE_OUTCOME", "PLAN_INVALIDATED", "REPLAN", "ABORTED"}
      [] s = "OBSERVE_OUTCOME" -> {"LEARN", "PLAN_INVALIDATED", "COMPLETE", "ABORTED"}
      [] s = "PLAN_INVALIDATED" -> {"REPLAN", "ABORTED", "HUMAN_REVIEW"}
      [] s = "REPLAN" -> {"PLAN", "ABORTED", "HUMAN_REVIEW"}
      [] s = "LEARN" -> {"MEMORY_UPDATE", "COMPLETE", "ABORTED"}
      [] s = "MEMORY_UPDATE" -> {"COMPLETE", "ABORTED"}
      [] s \in {"COMPLETE", "ABORTED"} -> {}
      [] s = "HUMAN_REVIEW" -> {"OBSERVE", "PLAN", "EXECUTE", "ABORTED", "COMPLETE"}]

\* A refused transition leaves the state; its caller does not look.
transition(from, to) == IF to \in VALID_STATE_TRANSITIONS[from] THEN to ELSE from

\* The mission's record after the code asked for a transition.
To(r, state) == [r EXCEPT !.state = transition(@, state)]

-----------------------------------------------------------------------------
(* Types and the initial state.                                            *)

Begun == 1..Len(mission)
Waiting == {"perceiving", "thinking", "tool", "executing", "drafting"}
Ended == {"done", "aborted", "thrown"}

TypeOK ==
  /\ kill \in BOOLEAN /\ switches \in 0..MaxSwitches
  /\ oppStatus \in [MOpp -> Status]
  /\ linked \subseteq MOpp /\ paid \subseteq linked /\ claimed \subseteq MOpp
  /\ Len(mission) <= MaxMissions /\ Len(run) = Len(mission)
  /\ \A m \in Begun :
       /\ mission[m].kind \in {"linear", "loop"} /\ mission[m].opp \in MOpp
       /\ mission[m].pc \in Waiting \cup Ended /\ mission[m].state \in AgentState
       /\ mission[m].iter \in 0..maxIterations /\ mission[m].tools \in 0..(2 * maxIterations)
       /\ mission[m].by \in Pool \cup {"route"}
       /\ run[m] \in {"running", "completed", "aborted"}
  /\ submitted \in Batches /\ activeLocks \subseteq MOpp
  /\ at \in [Pool -> {"idle", "next", "racing", "returned"} \X (0..MaxMissions)]

Init ==
  /\ kill = FALSE /\ switches = 0
  /\ oppStatus = [o \in MOpp |-> "pending"]
  /\ linked = {} /\ paid = {} /\ claimed = {}
  /\ mission = <<>> /\ run = <<>>
  /\ submitted \in Batches /\ queue = submitted /\ results = <<>> /\ activeLocks = {}
  /\ at = [w \in Pool |-> <<"idle", 0>>]

-----------------------------------------------------------------------------
(* Beginning a mission, up to its first await.                             *)

New(kind, o, by) ==
  [kind |-> kind, opp |-> o, pc |-> "perceiving", state |-> "IDLE",
   iter |-> 0, tools |-> 0, by |-> by]

\* abort, and the orchestrator's own early return.
abort(r) == [To(r, "ABORTED") EXCEPT !.pc = "aborted"]

executeRecoveryMission(o, by) ==
  LET r == To(New("linear", o, by), "TRIGGERED")
  IN  IF kill THEN abort(r) ELSE To(To(r, "OBSERVE"), "INVESTIGATE")

executeAutonomousMission(o) ==
  LET r == To(New("loop", o, "route"), "TRIGGERED")
  IN  IF kill THEN abort(r) ELSE To(r, "OBSERVE")

\* The row of the run as the mission itself leaves it.
RunOf(r) == CASE r.pc = "done" -> "completed" [] r.pc = "aborted" -> "aborted"
              [] OTHER -> "running"

Begin(r) ==
  /\ Len(mission) < MaxMissions
  /\ mission' = Append(mission, r) /\ run' = Append(run, RunOf(r))

\* POST /runs/start, and callers of the loop.  The bound leaves room for the batch.
startMission ==
  \E o \in MOpp :
    /\ Len(mission) + Len(queue) < MaxMissions
    /\ \/ Begin(executeRecoveryMission(o, "route"))
       \/ Begin(executeAutonomousMission(o))
    /\ UNCHANGED <<kill, switches, world, batch>>

\* A mission's own step: its record and, when it ends, its run.
Becomes(m, r) ==
  /\ mission' = [mission EXCEPT ![m] = r]
  /\ run' = [run EXCEPT ![m] = IF r.pc \in {"done", "aborted"} THEN RunOf(r) ELSE @]

-----------------------------------------------------------------------------
(* The steps of a mission, each from one await to the next.                *)

\* Up to here nothing of the mission has reached the opportunity.
thrown(r) == [r EXCEPT !.pc = "thrown"]

\* checkBudgets at the top of a cycle: too many tool calls, or the wall clock.
exceeded(r) == {b \in BOOLEAN : r.tools > maxToolCalls => b}

\* The state and the run end as in an abort; only the caller's answer differs.
budgetExceeded(r) == abort(r)

\* The top of the loop's cycle: abort, budgetExceeded, or ask for a diagnosis.
cycle(r) ==
  IF kill THEN {abort(r)}
  ELSE {IF b THEN budgetExceeded(r) ELSE [To(r, "DIAGNOSE") EXCEPT !.pc = "thinking"] :
          b \in exceeded(r)}

\* The perception specialist has answered, or failed: fatal to a linear mission.
perceived(m) ==
  LET r == mission[m]
  IN  /\ r.pc = "perceiving"
      /\ \/ /\ r.kind = "linear"
            /\ \/ Becomes(m, [To(r, "DIAGNOSE") EXCEPT !.pc = "thinking"])
               \/ Becomes(m, thrown(r))
         \/ /\ r.kind = "loop"
            /\ \E c \in cycle(To(r, "INVESTIGATE")) : Becomes(m, c)
      /\ UNCHANGED <<kill, switches, world, batch>>

\* A diagnosis may ask for a tool in every cycle but the last, where reason
\* forces a decision.
mayInvestigate(r) == r.kind = "loop" /\ r.iter < maxIterations - 1

\* The call is counted here and, if the gate permits it, once more by the registry.
executeInvestigationTool(m) ==
  LET r == [To(mission[m], "OBSERVE") EXCEPT !.tools = @ + 1]
  IN  /\ mission[m].pc = "thinking" /\ mayInvestigate(mission[m])
      /\ IF kill \/ r.tools > maxToolCalls
         THEN \E c \in cycle([r EXCEPT !.iter = @ + 1]) : Becomes(m, c)
         ELSE Becomes(m, [r EXCEPT !.tools = @ + 1, !.pc = "tool"])
      /\ UNCHANGED <<kill, switches, world, batch>>

toolReturned(m) ==
  /\ mission[m].pc = "tool"
  /\ \E c \in cycle([mission[m] EXCEPT !.iter = @ + 1]) : Becomes(m, c)
  /\ UNCHANGED <<kill, switches, world, batch>>

\* The market run every mission makes, over every opportunity it finds.
Candidates == {"pending", "scored", "deferred"}
Market ==
  {[o \in MOpp |-> IF oppStatus[o] \in Candidates
                   THEN updateStatus(oppStatus[o], d[o]) ELSE oppStatus[o]] :
     d \in [MOpp -> {"allocated", "deferred", "abstained"}]}

\* Mutant: the authority gate does not look at the kill switch.
VerdictsIgnoringKillSwitch(act) ==
  IF act THEN {"AUTHORIZED", "BLOCKED", "ABSTAIN"} ELSE {"WAIT", "BLOCKED", "ABSTAIN"}

\* What the authority rules may answer to an ACT, and to anything else.
Verdicts(act) ==
  IF kill THEN {"BLOCKED"}
  ELSE IF act THEN {"AUTHORIZED", "BLOCKED", "ABSTAIN"}
  ELSE {"WAIT", "BLOCKED", "ABSTAIN"}

finish(r) ==
  LET learning == To(To(r, "OBSERVE_OUTCOME"), "LEARN")
  IN  [To(To(learning, "MEMORY_UPDATE"), "COMPLETE") EXCEPT !.pc = "done"]

\* The loop leaves the validation of its plan out, and is refused what follows.
propose(r) ==
  LET planned == To(To(r, "HYPOTHESIZE"), "PLAN")
  IN  IF r.kind = "loop" THEN To(planned, "WAIT_AUTHORITY")
      ELSE To(To(To(planned, "VALIDATE_PLAN"), "PROPOSE"), "WAIT_AUTHORITY")

\* Was the opportunity given capacity?  One the market did not look at has
\* WAIT or ABSTAIN written for it instead.
allocation(o, s) == oppStatus[o] \in Candidates /\ s[o] = "allocated"

\* A refused opportunity has a status of the mission's own written over the gate's.
refused(status, v) == updateStatus(status, IF v = "BLOCKED" THEN "blocked" ELSE "abstained")

\* Score, market and authority; then executeOpportunity up to its await, or
\* the refusal, which ends the mission.
decide(m) ==
  LET r == propose(mission[m])
      o == r.opp
  IN  /\ r.pc = "thinking"
      /\ \E s \in Market, v \in Verdict :
           LET gated == updateStatus(s[o], suggestedStatus[v])
               x == To(r, "EXECUTE")
           IN  /\ v \in Verdicts(allocation(o, s))
               /\ \/ /\ v = "AUTHORIZED" /\ o \in linked
                     /\ oppStatus' = [s EXCEPT ![o] = updateStatus(gated, "executing")]
                     /\ Becomes(m, [x EXCEPT !.pc = "drafting"])
                  \/ /\ v = "AUTHORIZED" /\ o \notin linked
                     /\ oppStatus' = [s EXCEPT ![o] = gated]
                     /\ Becomes(m, [x EXCEPT !.pc = "executing"])
                  \/ /\ v # "AUTHORIZED"
                     /\ oppStatus' = [s EXCEPT ![o] = refused(gated, v)]
                     /\ Becomes(m, finish(r))
      /\ UNCHANGED <<kill, switches, linked, paid, claimed, batch>>

\* evaluateOutcome(actualRecovered: verdict === 'AUTHORIZED')
evaluateOutcome(o) == claimed' = claimed \cup {o}

\* executeOpportunity settles: a link, a failure it reports, or an exception.
executed(m) ==
  LET r == mission[m]
  IN  /\ r.pc = "executing"
      /\ \/ /\ linked' = linked \cup {r.opp}
            /\ oppStatus' = [oppStatus EXCEPT ![r.opp] = updateStatus(@, "executing")]
            /\ Becomes(m, [r EXCEPT !.pc = "drafting"]) /\ UNCHANGED claimed
         \/ Becomes(m, finish(r)) /\ evaluateOutcome(r.opp) /\ UNCHANGED <<linked, oppStatus>>
         \/ Becomes(m, thrown(r)) /\ UNCHANGED <<linked, oppStatus, claimed>>
      /\ UNCHANGED <<kill, switches, paid, batch>>

\* The outreach draft is written, or fails: fatal to a linear mission.
drafted(m) ==
  LET r == mission[m]
  IN  /\ r.pc = "drafting"
      /\ \/ Becomes(m, finish(r)) /\ evaluateOutcome(r.opp)
         \/ r.kind = "linear" /\ Becomes(m, thrown(r)) /\ UNCHANGED claimed
      /\ UNCHANGED <<kill, switches, oppStatus, linked, paid, batch>>

-----------------------------------------------------------------------------
(* The coordinator.                                                        *)

Result(o, s) == [opp |-> o, status |-> s]
AbortedAll(q) == [i \in DOMAIN q |-> Result(q[i], "aborted")]

executeBatch ==
  /\ \A w \in Pool : at[w][1] = "idle"
  /\ IF kill
     THEN /\ results' = AbortedAll(queue) /\ queue' = <<>>
          /\ at' = [w \in Pool |-> <<"returned", 0>>]
     ELSE at' = [w \in Pool |-> <<"next", 0>>] /\ UNCHANGED <<results, queue>>
  /\ UNCHANGED <<kill, switches, world, mission, run, submitted, activeLocks>>

\* Mutant: a worker takes an opportunity another one is at work on.
runWorkerUnlocked(w) ==
  /\ at[w][1] = "next" /\ queue # <<>> /\ ~kill
  /\ queue' = Tail(queue) /\ UNCHANGED results
  /\ Begin(executeRecoveryMission(Head(queue), w))
  /\ activeLocks' = activeLocks \cup {Head(queue)}
  /\ at' = [at EXCEPT ![w] = <<"racing", Len(mission) + 1>>]
  /\ UNCHANGED <<kill, switches, world, submitted>>

\* One turn of a worker's loop.  With the kill switch on it empties the queue.
runWorker(w) ==
  /\ at[w][1] = "next"
  /\ \/ /\ queue = <<>> \/ kill
        /\ results' = results \o AbortedAll(queue) /\ queue' = <<>>
        /\ at' = [at EXCEPT ![w] = <<"returned", 0>>]
        /\ UNCHANGED <<activeLocks, mission, run>>
     \/ /\ queue # <<>> /\ ~kill /\ queue' = Tail(queue)
        /\ \/ /\ Head(queue) \in activeLocks
              /\ results' = Append(results, Result(Head(queue), "aborted"))
              /\ UNCHANGED <<activeLocks, at, mission, run>>
           \/ /\ Head(queue) \notin activeLocks
              /\ Begin(executeRecoveryMission(Head(queue), w))
              /\ activeLocks' = activeLocks \cup {Head(queue)}
              /\ at' = [at EXCEPT ![w] = <<"racing", Len(mission) + 1>>]
              /\ UNCHANGED results
  /\ UNCHANGED <<kill, switches, world, submitted>>

\* Mutant: a timed out mission is not reported.
raceWithoutFailureRow(w) ==
  LET m == at[w][2]
  IN  /\ at[w][1] = "racing"
      /\ results' = IF mission[m].pc \in Ended
                    THEN Append(results, Result(mission[m].opp, "completed")) ELSE results
      /\ activeLocks' = activeLocks \ {mission[m].opp}
      /\ at' = [at EXCEPT ![w] = <<"next", 0>>]
      /\ UNCHANGED <<kill, switches, world, mission, run, submitted, queue>>

\* Mutant: the worker waits for its mission however long it takes.
raceWithoutTimeout(w) ==
  LET m == at[w][2]
  IN  /\ at[w][1] = "racing" /\ mission[m].pc \in Ended
      /\ results' = Append(results, Result(mission[m].opp, RunOf(mission[m])))
      /\ activeLocks' = activeLocks \ {mission[m].opp}
      /\ at' = [at EXCEPT ![w] = <<"next", 0>>]
      /\ UNCHANGED <<kill, switches, world, mission, run, submitted, queue>>

\* The race of the mission with its timeout is over.  The mission is not stopped.
raceSettles(w) ==
  LET m == at[w][2]
      settled == CASE mission[m].pc = "done" -> "completed"
                   [] mission[m].pc = "aborted" -> "aborted"
                   [] OTHER -> "failed"
  IN  /\ at[w][1] = "racing"
      /\ results' = Append(results, Result(mission[m].opp, settled))
      /\ activeLocks' = activeLocks \ {mission[m].opp}
      /\ at' = [at EXCEPT ![w] = <<"next", 0>>]
      /\ UNCHANGED <<kill, switches, world, mission, run, submitted, queue>>

-----------------------------------------------------------------------------
(* What happens around the missions.                                       *)

setKillSwitch ==
  /\ switches < MaxSwitches /\ switches' = switches + 1 /\ kill' = ~kill
  /\ UNCHANGED <<world, mission, run, batch>>

\* The customer pays and the reconciler writes it down.
reconcile(o) ==
  /\ o \in linked \ paid
  /\ paid' = paid \cup {o} /\ oppStatus' = [oppStatus EXCEPT ![o] = "recovered"]
  /\ UNCHANGED <<kill, switches, linked, claimed, mission, run, batch>>

\* The portfolio agent ranks and proposes; then the market runs, as for a mission.
executePortfolioSweep ==
  /\ ~kill /\ oppStatus' \in Market
  /\ UNCHANGED <<kill, switches, linked, paid, claimed, mission, run, batch>>

\* Any running row may be old enough, its mission at work or not.
sweepStaleMissions ==
  /\ \E stale \in SUBSET {m \in Begun : run[m] = "running"} :
       stale # {} /\ run' = [m \in Begun |-> IF m \in stale THEN "aborted" ELSE run[m]]
  /\ UNCHANGED <<kill, switches, world, mission, batch>>

MissionStep(m) ==
  \/ perceived(m) \/ executeInvestigationTool(m) \/ toolReturned(m)
  \/ decide(m) \/ executed(m) \/ drafted(m)

Next ==
  \/ startMission \/ executeBatch \/ setKillSwitch \/ sweepStaleMissions \/ executePortfolioSweep
  \/ \E m \in Begun : MissionStep(m)
  \/ \E w \in Pool : runWorker(w) \/ raceSettles(w)
  \/ \E o \in MOpp : reconcile(o)

\* The event loop runs what is ready, and the coordinator's timer fires.
Fairness == \A w \in Pool : WF_vars(runWorker(w)) /\ WF_vars(raceSettles(w))
Spec == Init /\ [][Next]_vars /\ Fairness

-----------------------------------------------------------------------------
(* Properties.                                                             *)

\* The trace and the run row agree about how a mission ended: only an abort
\* leaves the machine in ABORTED, from whatever state the mission was in, and
\* only a mission that dispatched reaches COMPLETE; a finished mission's row
\* says so even if the stale sweep wrote over it meanwhile, and one that died
\* of an exception is never completed.
MissionRecords ==
  \A m \in Begun :
    LET r == mission[m]
    IN  /\ r.pc = "aborted" <=> r.state = "ABORTED"
        /\ r.state = "COMPLETE" => r.pc = "done" /\ r.opp \in claimed
        /\ r.pc \in {"done", "aborted"} => run[m] = RunOf(r)
        /\ r.pc \notin {"done", "aborted"} => run[m] # "completed"

\* The coordinator's lock: what the workers wait for are missions on different
\* opportunities, and the locks are exactly theirs.  (A mission that timed out
\* goes on without a lock.)
RacersHoldTheLocks ==
  LET racing == {w \in Pool : at[w][1] = "racing"}
  IN  /\ activeLocks = {mission[at[w][2]].opp : w \in racing}
      /\ Cardinality(activeLocks) = Cardinality(racing)

\* When every worker has returned, every submitted id has exactly one result,
\* whatever was skipped, killed, timed out or thrown on the way.
BatchAccounts ==
  (\A w \in Pool : at[w][1] = "returned") =>
     \A o \in MOpp : Cardinality({i \in DOMAIN results : results[i].opp = o})
                      = Cardinality({i \in DOMAIN submitted : submitted[i] = o})

\* A batch once begun returns, whatever its missions do.
BatchReturns ==
  \A w \in Pool : at[w][1] = "next" ~> at[w][1] = "returned"

\* No mission starts to execute with the kill switch on, however long ago it
\* read it last: the authority gate reads it again.
KillStopsDispatch ==
  [][\A m \in Begun : mission[m].pc = "thinking" /\ mission'[m].pc \in {"executing", "drafting"}
                        => ~kill]_vars
=============================================================================
