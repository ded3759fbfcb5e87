----------------------------- MODULE MCPlatform -----------------------------
(* Economics, the books, and the limits on what the service does, one part *)
(* at a time: scoring, market and gate; the learners; the request          *)
(* limiters; the merchant's capacity policy; the agents' advisors; the     *)
(* double-entry ledger.                                                    *)
EXTENDS Economics

CONSTANTS
  Tenant, UpdateAt, Calibrated, MaxOutcomes, MaxRestarts, MaxReads,
  maxRequests, windowSeconds, planLimit, planWindow, keyTTL, MaxTime, MaxRequests,
  Caller, Customer, perHour, perDay, perCustomer, HOUR, DAY, budget, cost, MaxHour,
  Iven, MaxAttempts, MaxReplans,
  Reconciler, Recorder, Booked, Rand, MaxStamp, MaxEntries

VARIABLES
  part,
  observations, arm, updating, modelRow, priorRow, cache, restarts, reads,
  now, connected, sorted, memoryBucket, counter, stored, pending, planBucket, admitted, passed, requests,
  hour, consumption, caller, links, pacing,
  opp, facts, annotation, plans, advice,
  log, time, began, read, edited, stale

Learn == INSTANCE Learning
Limits == INSTANCE RateLimits
Policy == INSTANCE CapacityPolicy
Advice == INSTANCE Advisors
Ledger == INSTANCE DoubleEntryLedger WITH Amounts <- Booked, MaxTime <- MaxStamp, now <- time

ASSUME LedgerAssumption == Ledger!LedgerAssumption
ASSUME LimitsAssumption == Limits!RateLimitsAssumption
ASSUME PolicyAssumption == Policy!CapacityPolicyAssumption
ASSUME AdviceAssumption == Iven \subseteq Int /\ MaxAttempts \in Nat \ {0} /\ MaxReplans \in Nat

ThreeErrors ==
  {[code |-> {"insufficient_funds"}, reason |-> {}], [code |-> {"timeout"}, reason |-> {"stolen_card"}],
   [code |-> {}, reason |-> {}]}
OnePair == {[nat |-> 1000, int |-> 9000]}
OneSignal == {[prob |-> 5000, fatigue |-> 900]}

learnVars == <<observations, arm, updating, modelRow, priorRow, cache, restarts, reads>>
limitVars == <<now, connected, sorted, memoryBucket, counter, stored, pending, planBucket, admitted,
               passed, requests>>
policyVars == <<hour, consumption, caller, links, pacing>>
adviceVars == <<opp, facts, annotation, plans, advice>>
ledgerVars == <<log, time, began, read, edited, stale>>
all == <<part, vars, learnVars, limitVars, policyVars, adviceVars, ledgerVars>>

\* A part that is not the one of the behaviour has no state.
NoLearners ==
  /\ observations = 0 /\ arm = 0 /\ updating = 0 /\ modelRow = 0 /\ priorRow = 0 /\ cache = 0
  /\ restarts = 0 /\ reads = 0
NoLimits ==
  /\ now = 0 /\ connected = 0 /\ sorted = 0 /\ memoryBucket = 0 /\ counter = 0 /\ stored = 0
  /\ pending = 0 /\ planBucket = 0 /\ admitted = 0 /\ passed = 0 /\ requests = 0
NoPolicy == hour = 0 /\ consumption = 0 /\ caller = 0 /\ links = 0 /\ pacing = 0
NoAdvisors == opp = 0 /\ facts = 0 /\ annotation = 0 /\ plans = 0 /\ advice = 0
NoLedger == log = 0 /\ time = 0 /\ began = 0 /\ read = 0 /\ edited = 0 /\ stale = 0

PlatformInit ==
  /\ part \in {"economics", "learning", "limits", "policy", "advice", "ledger"}
  /\ Init
  /\ IF part = "learning" THEN Learn!Init ELSE NoLearners
  /\ IF part = "limits" THEN Limits!Init ELSE NoLimits
  /\ IF part = "policy" THEN Policy!Init ELSE NoPolicy
  /\ IF part = "advice" THEN Advice!Init ELSE NoAdvisors
  /\ IF part = "ledger" THEN Ledger!Init ELSE NoLedger
PlatformNext ==
  \/ /\ part = "economics" /\ Next
     /\ UNCHANGED <<part, learnVars, limitVars, policyVars, adviceVars, ledgerVars>>
  \/ /\ part = "learning" /\ Learn!Next
     /\ UNCHANGED <<part, vars, limitVars, policyVars, adviceVars, ledgerVars>>
  \/ /\ part = "limits" /\ Limits!Next
     /\ UNCHANGED <<part, vars, learnVars, policyVars, adviceVars, ledgerVars>>
  \/ /\ part = "policy" /\ Policy!Next
     /\ UNCHANGED <<part, vars, learnVars, limitVars, adviceVars, ledgerVars>>
  \/ /\ part = "advice" /\ Advice!Next
     /\ UNCHANGED <<part, vars, learnVars, limitVars, policyVars, ledgerVars>>
  \/ /\ part = "ledger" /\ Ledger!Next
     /\ UNCHANGED <<part, vars, learnVars, limitVars, policyVars, adviceVars>>
PlatformSpec == PlatformInit /\ [][PlatformNext]_all

\* The market's choice is worth the most the capacity allows, and a payment declined
\* for good or of the control group is never allocated nor authorised.
MarketIsSound == part = "economics" => TypeOK /\ MarketIsOptimal /\ UnreachableStaysOut

\* A learner's counts are outcomes that were observed, each counted once.
EvidenceIsReal == part = "learning" => Learn!TypeOK /\ Learn!EvidenceIsReal

\* No window of requests, links or spending exceeds its limit, whichever store the
\* limiter falls back to and whenever keys expire.
LimitsHold ==
  /\ part = "limits" => Limits!TypeOK /\ Limits!SlidingWindowBounded /\ Limits!PlanWindowBounded
  /\ part = "policy" => Policy!TypeOK /\ Policy!LimitsHold

\* Hard declines are not pursued whatever a stale annotation or a model answer says,
\* only what pays is proposed, and more evidence never lowers the confidence.
AdviceIsSound ==
  part = "advice" => /\ Advice!TypeOK /\ Advice!HardDeclineIsNotPursued
                     /\ Advice!OnlyWorthwhileIsProposed /\ Advice!MoreEvidenceNeverHurts

\* The audit accepts what orderly writers wrote and rejects every edit in place, and
\* each row continues the genesis or a row inserted before it.
ChainTellsTheTruth ==
  part = "ledger" => /\ Ledger!TypeOK /\ Ledger!OrderlyChainVerifies /\ Ledger!EditIsDetected
                     /\ Ledger!EveryRowContinuesAnEarlierOne
=============================================================================
