------------------------------ MODULE MCAgents ------------------------------
(* The agent layer, one part at a time: missions, the tool gate, the       *)
(* language model router, and reviews by a person.                         *)
EXTENDS AgentMissions

CONSTANTS
  o1, u1, u2,
  Tool, Registered, Forbidden, Agent, Recognized, MAX_CALLS, WINDOW, maxIdentical,
  maxFailures, maxCalls, MaxClock, MaxCallsMade,
  Provider, Request, Orders, Trips, OpenFor, MaxNow, MaxTries,
  ReviewId, DraftId, SLA, MaxDay

VARIABLES
  part,
  stopped, clock, rateLimitMap, toolCallHistory, toolCalls, inflight, started,
  time, health, available, request,
  today, review, draft

Gate == INSTANCE ToolGate
LLM == INSTANCE LLMRouter
HITL == INSTANCE HumanReview

ASSUME MissionAssumption ==
  /\ IsFiniteSet(Pool) /\ Pool # {}
  /\ \A b \in Batches : b \in Seq(MOpp)
  /\ {MaxMissions, maxToolCalls, maxIterations, MaxSwitches} \subseteq Nat

ASSUME GateAssumption ==
  {MAX_CALLS, WINDOW, maxIdentical, maxFailures, maxCalls, MaxClock, MaxCallsMade} \subseteq Nat

ASSUME RouterAssumption ==
  /\ \A o \in Orders : o \in Seq(Provider)
  /\ {Trips, OpenFor, MaxNow, MaxTries} \subseteq Nat

ASSUME ReviewAssumption == {SLA, MaxDay} \subseteq Nat

TwoBatches == {<<o1>>, <<o1, o1>>}
TwoOrders == {<<"claude", "gemini">>, <<"gemini", "claude">>}

gateVars == <<stopped, clock, rateLimitMap, toolCallHistory, toolCalls, inflight, started>>
llmVars == <<time, health, available, request>>
hitlVars == <<today, review, draft>>
all == <<part, vars, gateVars, llmVars, hitlVars>>

AgentsInit ==
  /\ part \in {"missions", "tools", "models", "reviews"}
  /\ Init /\ (part # "missions" => submitted = <<o1>>)
  /\ Gate!Init /\ HITL!Init
  /\ LLM!Init /\ (part # "models" => available = {} /\ \A q \in Request :
                                       request[q].order = <<"claude", "gemini">>)
AgentsNext ==
  \/ part = "missions" /\ Next /\ UNCHANGED <<part, gateVars, llmVars, hitlVars>>
  \/ part = "tools" /\ Gate!Next /\ UNCHANGED <<part, vars, llmVars, hitlVars>>
  \/ part = "models" /\ LLM!Next /\ UNCHANGED <<part, vars, gateVars, hitlVars>>
  \/ part = "reviews" /\ HITL!Next /\ UNCHANGED <<part, vars, gateVars, llmVars>>
AgentsSpec == AgentsInit /\ [][AgentsNext]_all /\ Fairness /\ LLM!Fairness

\* Whatever races with a mission's timeout: its records are consistent, a mission
\* that races holds the lock of its opportunity, and every opportunity of a batch is
\* accounted for once.
MissionsAccounted ==
  /\ TypeOK /\ Gate!TypeOK /\ LLM!TypeOK /\ HITL!TypeOK
  /\ MissionRecords /\ RacersHoldTheLocks /\ BatchAccounts
\* A tool that keeps failing stays blocked for the run.
FailingToolStaysBlocked == Gate!FailingToolStaysBlocked
\* A tool's handler runs no more often than the gate's window allows, and a model is
\* skipped only while it has been failing.
CallersAreHeldBack == Gate!HandlerRateBounded /\ LLM!OpenMeansFailing
\* Nothing but the loss of the process changes a request that was decided or timed
\* out, and a time-out never comes before its time.
DecisionStands == HITL!DecisionStands
=============================================================================
