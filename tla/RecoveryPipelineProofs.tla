----------------------- MODULE RecoveryPipelineProofs -----------------------
(***************************************************************************)
(* PipelineInv is inductive, for any opportunities, any number of          *)
(* overlapping calls and any capacity; the safety properties follow.       *)
(***************************************************************************)
EXTENDS RecoveryPipeline, TLAPS


\* What updateStatus can do to a row, whoever calls it: it keeps the row or
\* writes the target, and it never takes a row out of "recovered".
LEMMA UpdateStatusFacts ==
  ASSUME NEW from \in Status, NEW to \in Status
  PROVE  /\ updateStatus(from, to) \in {from, to}
         /\ updateStatus(from, to) \in Status
         /\ from = "recovered" => updateStatus(from, to) = "recovered"
BY DEF updateStatus, Status

\* The gate writes one of four statuses, none of them "executing" or "recovered".
LEMMA EvaluatedFacts ==
  ASSUME NEW o \in Opp, NEW st \in [Opp -> Status], NEW dec
  PROVE  /\ Evaluated(o, st, dec) \in Status
         /\ Evaluated(o, st, dec) = "recovered" <=> st[o] = "recovered"
         /\ Evaluated(o, st, dec) = "executing" => st[o] = "executing"
<1>1. VerdictOf(o, dec) \in Verdict
  BY DEF VerdictOf, RuleVerdict, Verdict
<1>2. suggestedStatus[VerdictOf(o, dec)] \in {"authorized", "blocked", "abstained", "deferred"}
  BY <1>1 DEF suggestedStatus, Verdict
<1>3. suggestedStatus[VerdictOf(o, dec)] \in Status
  BY <1>2 DEF Status
<1>4. st[o] \in Status
  OBVIOUS
<1> QED
  BY <1>2, <1>3, <1>4, UpdateStatusFacts DEF Evaluated

\* Neither does the market.
LEMMA MarketStatusFacts ==
  ASSUME NEW st \in [Opp -> Status], NEW A
  PROVE  /\ MarketStatus(st, A) \in [Opp -> Status]
         /\ \A o \in Opp :
              /\ MarketStatus(st, A)[o] = "recovered" <=> st[o] = "recovered"
              /\ MarketStatus(st, A)[o] = "executing" => st[o] = "executing"
<1>1. {"allocated", "deferred", "abstained"} \subseteq Status
  BY DEF Status
<1>2. \A o \in Opp : /\ MarketStatus(st, A)[o] \in Status
                     /\ MarketStatus(st, A)[o] = "recovered" <=> st[o] = "recovered"
                     /\ MarketStatus(st, A)[o] = "executing" => st[o] = "executing"
  <2> TAKE o \in Opp
  <2>1. st[o] \in Status
    OBVIOUS
  <2>2. MarketStatus(st, A)[o] \in {st[o], updateStatus(st[o], "allocated"),
           updateStatus(st[o], "deferred"), updateStatus(st[o], "abstained")}
    BY DEF MarketStatus
  <2> QED
    BY <1>1, <2>1, <2>2, UpdateStatusFacts
<1> QED
  BY <1>2 DEF MarketStatus

\* The gate writes through updateStatus too: what it leaves is a status, it never
\* makes an opportunity executing or recovered, and recovered stays.
LEMMA GateStatusFacts ==
  ASSUME NEW st \in [Opp -> Status], NEW dec
  PROVE  /\ GateStatus(st, dec) \in [Opp -> Status]
         /\ \A o \in Opp :
              /\ GateStatus(st, dec)[o] = "recovered" <=> st[o] = "recovered"
              /\ GateStatus(st, dec)[o] = "executing" => st[o] = "executing"
BY EvaluatedFacts DEF GateStatus

\* The market tells to ACT only what it ranked.
LEMMA MarketDecisionFacts ==
  ASSUME NEW st, NEW dec \in [Opp -> Decision], NEW A \in Accepted(st),
         \A o \in Opp : dec[o] = "ACT"
           => o \notin LowConfidence /\ o \notin Holdout /\ Iven[o] > 0
  PROVE  /\ MarketDecision(st, dec, A) \in [Opp -> Decision]
         /\ \A o \in Opp : MarketDecision(st, dec, A)[o] = "ACT"
              => o \notin LowConfidence /\ o \notin Holdout /\ Iven[o] > 0
BY DEF MarketDecision, Accepted, Ranked, Candidates, Decision

\* What a payload can make of a row.
LEMMA TargetFacts ==
  ASSUME NEW s \in Status, NEW p \in LinkState, p # NoLink, s # "recovered"
  PROVE  /\ targetOpportunityStatus(s, p, Amount) \in Status
         /\ targetExecStatus(p, Amount) \in {"completed", "failed", "created"}
         /\ targetOpportunityStatus(s, p, Amount) = "recovered" <=> p.status = "paid"
         /\ targetExecStatus(p, Amount) = "completed" <=> p.status = "paid"
         /\ targetOpportunityStatus(s, p, Amount) = "executing"
              => s = "executing" \/ p.status = "created"
BY PipelineAssumption
   DEF LinkState, NoLink, targetOpportunityStatus, targetExecStatus, isRecovered,
       mapRazorpayStatusToCanonicalState, Status

-----------------------------------------------------------------------------
(* The steps that only move the gate and the market.                       *)

USE DEF Permitted

\* A step that changes no link, no execution record and no ledger row keeps the
\* invariant when it neither enters "recovered" nor, without a record, "executing".
LEMMA StatusOnlyStep ==
  ASSUME PipelineInv,
         \A o \in Opp : /\ status'[o] = "recovered" => status[o] = "recovered"
                        /\ status'[o] = "executing"
                             => status[o] = "executing" \/ rec[o].link # "none"
                        /\ decision'[o] = "ACT" => o \notin LowConfidence
                               /\ o \notin Holdout /\ Iven[o] > 0,
         TypeOK', CallsArePermitted', AttemptsCapped',
         UNCHANGED <<rec, booked, recon, link>>
  PROVE  PipelineInv'
BY DEF PipelineInv, TypeOK, SettledOnlyIfPaid, RecoveredIsBooked, LinkOnlyIfPermitted,
       ExecutingHasRecord, LiveRecordIsReal, ActWasRanked,
       RealRecordHasLink, SnapshotsAreUsable, recon

\* Freshly ingested opportunities, an idle process, a provider without links.
LEMMA InitInv == Init => PipelineInv
<1> SUFFICES ASSUME Init PROVE PipelineInv
  OBVIOUS
<1> USE PipelineAssumption DEF Init
<1>1. AnyOpp \in Opp
  BY DEF AnyOpp
<1>2. NoLink \in LinkState
  BY DEF LinkState
<1>3. TypeOK
  <2>1. /\ status \in [Opp -> Status] /\ decision \in [Opp -> Decision]
        /\ attempts \in [Opp -> Nat]
        /\ rec \in [Opp -> [link : {"none", "real", "mock"}, status : RecStatus]]
    BY DEF Status, Decision, RecStatus
  <2>2. /\ booked \in [Opp -> 0..MaxBooked]
        /\ failCount \in [Opp -> 0..(RetryIntervals + 1)]
    OBVIOUS
  <2>3. dlqPending \in [Opp -> BOOLEAN] /\ killSwitch \in BOOLEAN
    OBVIOUS
  <2>4. /\ pc \in [Worker -> {"idle", "next", "client", "call", "resp", "adopt",
                              "fallback", "done"}]
        /\ todo \in [Worker -> SUBSET Opp] /\ cur \in [Worker -> Opp]
        /\ mode \in [Worker -> {"batch", "route", "replay"}]
        /\ res \in [Worker -> {"none", "ok", "exists", "success", "failure"}]
    BY <1>1
  <2>5. /\ rpc \in [Recon -> {"idle", "fetch", "commit"}] /\ ropp \in [Recon -> Opp]
        /\ rstat \in [Recon -> Status] /\ rrec \in [Recon -> {"none", "real", "mock"}]
        /\ rpay \in [Recon -> LinkState]
    BY <1>1, <1>2 DEF Status
  <2>6. link \in [Opp -> LinkState] /\ late \subseteq Opp
    BY <1>2
  <2> QED
    BY <2>1, <2>2, <2>3, <2>4, <2>5, <2>6 DEF TypeOK
<1>4. /\ SettledOnlyIfPaid /\ RecoveredIsBooked /\ LinkOnlyIfPermitted
      /\ ExecutingHasRecord /\ LiveRecordIsReal
  BY DEF SettledOnlyIfPaid, RecoveredIsBooked, LinkOnlyIfPermitted,
         ExecutingHasRecord, LiveRecordIsReal
<1>5. /\ ActWasRanked /\ AttemptsCapped /\ CallsArePermitted
      /\ RealRecordHasLink /\ SnapshotsAreUsable
  BY DEF ActWasRanked, AttemptsCapped, CallsArePermitted, RealRecordHasLink,
         SnapshotsAreUsable
<1> QED
  BY <1>3, <1>4, <1>5 DEF PipelineInv

\* The operators' synchronous routes.
LEMMA GateStepsInv ==
  ASSUME PipelineInv
  PROVE  /\ \A o \in Opp : scoreOpportunity(o) \/ evaluateOpportunity(o) => PipelineInv'
         /\ runMarketAllocation \/ runAuthorityPipeline => PipelineInv'
<1> USE DEF PipelineInv
<1>1. ASSUME NEW o \in Opp, scoreOpportunity(o) PROVE PipelineInv'
  <2>1. /\ updateStatus(status[o], "scored") \in Status
        /\ updateStatus(status[o], "scored") \in {"pending", "scored"}
    BY <1>1, UpdateStatusFacts DEF scoreOpportunity, TypeOK, Status
  <2>2. TypeOK' /\ CallsArePermitted' /\ AttemptsCapped'
    BY <1>1, <2>1 DEF scoreOpportunity, TypeOK, CallsArePermitted, AttemptsCapped,
           worker, recon, provider
  <2> QED
    BY <1>1, <2>1, <2>2, StatusOnlyStep DEF scoreOpportunity, TypeOK, ActWasRanked, provider
<1>2. ASSUME NEW o \in Opp, evaluateOpportunity(o) PROVE PipelineInv'
  <2>1. /\ Evaluated(o, status, decision) \in Status
        /\ Evaluated(o, status, decision) = "recovered" <=> status[o] = "recovered"
        /\ Evaluated(o, status, decision) = "executing" => status[o] = "executing"
    <3>1. status \in [Opp -> Status]
      BY DEF TypeOK
    <3> QED
      BY <3>1, EvaluatedFacts
  <2>2. TypeOK' /\ CallsArePermitted' /\ AttemptsCapped'
    BY <1>2, <2>1 DEF evaluateOpportunity, TypeOK, CallsArePermitted, AttemptsCapped,
           worker, recon, provider
  <2> QED
    BY <1>2, <2>1, <2>2, StatusOnlyStep DEF evaluateOpportunity, TypeOK, ActWasRanked, provider
<1>3. ASSUME NEW A \in Accepted(status)
      PROVE  LET st == MarketStatus(status, A)
                 dec == MarketDecision(status, decision, A)
             IN  /\ st \in [Opp -> Status] /\ dec \in [Opp -> Decision]
                 /\ \A o \in Opp :
                      /\ st[o] = "recovered" <=> status[o] = "recovered"
                      /\ st[o] = "executing" => status[o] = "executing"
                      /\ dec[o] = "ACT" => o \notin LowConfidence
                               /\ o \notin Holdout /\ Iven[o] > 0
  BY MarketStatusFacts, MarketDecisionFacts DEF TypeOK, ActWasRanked
<1>4. ASSUME runMarketAllocation PROVE PipelineInv'
  <2> PICK A \in Accepted(status) : /\ status' = MarketStatus(status, A)
                                    /\ decision' = MarketDecision(status, decision, A)
    BY <1>4 DEF runMarketAllocation
  <2>1. TypeOK' /\ CallsArePermitted' /\ AttemptsCapped'
    BY <1>3, <1>4 DEF runMarketAllocation, TypeOK, CallsArePermitted, AttemptsCapped,
           worker, recon, provider
  <2> QED
    BY <1>3, <1>4, <2>1, StatusOnlyStep DEF runMarketAllocation, provider
<1>5. ASSUME runAuthorityPipeline PROVE PipelineInv'
  <2> PICK A \in Accepted(status) :
         /\ decision' = MarketDecision(status, decision, A)
         /\ status' = GateStatus(MarketStatus(status, A), MarketDecision(status, decision, A))
    BY <1>5 DEF runAuthorityPipeline
  <2>1. /\ status' \in [Opp -> Status]
        /\ \A o \in Opp : /\ status'[o] = "recovered" => status[o] = "recovered"
                          /\ status'[o] = "executing" => status[o] = "executing"
    BY <1>3, GateStatusFacts
  <2>2. TypeOK' /\ CallsArePermitted' /\ AttemptsCapped'
    BY <1>3, <1>5, <2>1 DEF runAuthorityPipeline, TypeOK, CallsArePermitted, AttemptsCapped,
           worker, recon, provider
  <2> QED
    BY <1>3, <1>5, <2>1, <2>2, StatusOnlyStep DEF runAuthorityPipeline, provider
<1> QED
  BY <1>1, <1>2, <1>4, <1>5

\* A batch starts with one or two market runs and the gate; its targets are
\* not yet calls.
LEMMA BatchStepsInv ==
  ASSUME PipelineInv, NEW w \in Worker
  PROVE  executeAuthorizedBatch(w) \/ sweepOnce(w) => PipelineInv'
<1> USE DEF PipelineInv
<1>1. ASSUME NEW st \in [Opp -> Status], NEW dec \in [Opp -> Decision],
             \A o \in Opp :
                /\ st[o] = "recovered" => status[o] = "recovered"
                /\ st[o] = "executing" => status[o] = "executing"
                /\ dec[o] = "ACT" => o \notin LowConfidence
                         /\ o \notin Holdout /\ Iven[o] > 0,
             StartBatch(w, st, dec), pc[w] = "idle",
             UNCHANGED <<attempts, rec, booked, failCount, dlqPending, killSwitch,
                         cur, res, recon, provider>>
      PROVE  PipelineInv'
  <2> PICK A \in Accepted(st) :
        \E T \in Targets(Authorized(MarketStatus(st, A), MarketDecision(st, dec, A))) :
          /\ status' = GateStatus(MarketStatus(st, A), MarketDecision(st, dec, A))
          /\ decision' = MarketDecision(st, dec, A)
          /\ todo' = [todo EXCEPT ![w] = T]
          /\ pc' = [pc EXCEPT ![w] = IF T = {} THEN "idle" ELSE "next"]
          /\ mode' = [mode EXCEPT ![w] = "batch"]
    BY <1>1 DEF StartBatch
  <2>1. /\ status' \in [Opp -> Status] /\ decision' \in [Opp -> Decision]
        /\ \A o \in Opp : /\ status'[o] = "recovered" => status[o] = "recovered"
                          /\ status'[o] = "executing" => status[o] = "executing"
                          /\ decision'[o] = "ACT" => o \notin LowConfidence
                                  /\ o \notin Holdout /\ Iven[o] > 0
    <3>1. MarketStatus(st, A) \in [Opp -> Status]
      BY <1>1, MarketStatusFacts
    <3>2. GateStatus(MarketStatus(st, A), MarketDecision(st, dec, A)) \in [Opp -> Status]
      BY <3>1, GateStatusFacts
    <3>3. \A o \in Opp : /\ status'[o] = "recovered" => status[o] = "recovered"
                         /\ status'[o] = "executing" => status[o] = "executing"
      BY <1>1, <3>1, MarketStatusFacts, GateStatusFacts
    <3>4. /\ decision' \in [Opp -> Decision]
          /\ \A o \in Opp : decision'[o] = "ACT" => o \notin LowConfidence
                                  /\ o \notin Holdout /\ Iven[o] > 0
      BY <1>1, MarketDecisionFacts
    <3> QED
      BY <3>2, <3>3, <3>4
  <2>2. \A T \in Targets(Authorized(MarketStatus(st, A), MarketDecision(st, dec, A))) :
          T \subseteq Opp
    BY DEF Targets, Authorized, Gated
  <2>3. TypeOK'
    BY <1>1, <2>1, <2>2 DEF TypeOK, recon, provider
  <2>4. CallsArePermitted' /\ AttemptsCapped'
    BY <1>1 DEF CallsArePermitted, AttemptsCapped, TypeOK, provider
  <2> QED
    BY <1>1, <2>1, <2>3, <2>4, StatusOnlyStep DEF provider
<1>2. ASSUME executeAuthorizedBatch(w) PROVE PipelineInv'
  <2>1. status \in [Opp -> Status] /\ decision \in [Opp -> Decision]
    BY DEF TypeOK
  <2>2. /\ StartBatch(w, status, decision) /\ pc[w] = "idle"
        /\ UNCHANGED <<attempts, rec, booked, failCount, dlqPending, killSwitch,
                       cur, res, recon, provider>>
    BY <1>2 DEF executeAuthorizedBatch
  <2> QED
    BY <1>1, <2>1, <2>2 DEF ActWasRanked
<1>3. ASSUME sweepOnce(w) PROVE PipelineInv'
  <2> PICK A \in Accepted(status) :
        StartBatch(w, MarketStatus(status, A), MarketDecision(status, decision, A))
    BY <1>3 DEF sweepOnce
  <2>1. LET st == MarketStatus(status, A)
            dec == MarketDecision(status, decision, A)
        IN  /\ st \in [Opp -> Status] /\ dec \in [Opp -> Decision]
            /\ \A o \in Opp :
                 /\ st[o] = "recovered" => status[o] = "recovered"
                 /\ st[o] = "executing" => status[o] = "executing"
                 /\ dec[o] = "ACT" => o \notin LowConfidence
                          /\ o \notin Holdout /\ Iven[o] > 0
    BY MarketStatusFacts, MarketDecisionFacts DEF TypeOK, ActWasRanked
  <2> QED
    BY <1>1, <1>3, <2>1 DEF sweepOnce
<1> QED
  BY <1>2, <1>3

-----------------------------------------------------------------------------
(* The executor.                                                           *)

\* A step that writes neither the database nor a reconciliation and changes no
\* link at the provider only has to keep the facts about the calls.
LEMMA WorkerOnlyStep ==
  ASSUME PipelineInv, TypeOK', CallsArePermitted', UNCHANGED <<db, recon, link>>
  PROVE  PipelineInv'
BY DEF PipelineInv, SettledOnlyIfPaid, RecoveredIsBooked, LinkOnlyIfPermitted,
       ExecutingHasRecord, LiveRecordIsReal, ActWasRanked, AttemptsCapped,
       RealRecordHasLink, SnapshotsAreUsable, db, recon

\* The steps of a call, and the ways it starts, that leave the database alone.
LEMMA WorkerStepsInv ==
  ASSUME PipelineInv, NEW w \in Worker
  PROVE  /\ \A o \in Opp : executeRoute(w, o) \/ replayPendingRetries(w, o) => PipelineInv'
         /\ getClient(w) \/ callFails(w) \/ callTimesOut(w) \/ responseLost(w)
              \/ referenceExists(w) => PipelineInv'
<1> USE DEF PipelineInv, Goto
<1>1. ASSUME NEW o \in Opp, executeRoute(w, o) PROVE PipelineInv'
  <2>1. TypeOK'
    BY <1>1 DEF executeRoute, TypeOK, db, recon, provider
  <2>2. CallsArePermitted'
    BY <1>1 DEF executeRoute, CallsArePermitted, TypeOK, provider
  <2> QED
    BY <1>1, <2>1, <2>2, WorkerOnlyStep DEF executeRoute, provider
<1>2. ASSUME NEW o \in Opp, replayPendingRetries(w, o) PROVE PipelineInv'
  <2>1. TypeOK'
    BY <1>2 DEF replayPendingRetries, TypeOK, db, recon, provider
  <2>2. CallsArePermitted'
    BY <1>2 DEF replayPendingRetries, CallsArePermitted, TypeOK, provider
  <2> QED
    BY <1>2, <2>1, <2>2, WorkerOnlyStep DEF replayPendingRetries, provider
<1>3. ASSUME getClient(w) PROVE PipelineInv'
  <2>1. TypeOK'
    BY <1>3 DEF getClient, TypeOK, db, recon, provider
  <2>2. CallsArePermitted'
    BY <1>3 DEF getClient, CallsArePermitted, TypeOK, provider
  <2> QED
    BY <1>3, <2>1, <2>2, WorkerOnlyStep DEF getClient, provider
<1>4. ASSUME callFails(w) PROVE PipelineInv'
  <2>1. TypeOK'
    BY <1>4 DEF callFails, TypeOK, db, recon, provider
  <2>2. CallsArePermitted'
    BY <1>4 DEF callFails, CallsArePermitted, TypeOK, provider
  <2> QED
    BY <1>4, <2>1, <2>2, WorkerOnlyStep DEF callFails, provider
<1>5. ASSUME callTimesOut(w) PROVE PipelineInv'
  <2>1. TypeOK'
    <3>1. late' \subseteq Opp
      BY <1>5 DEF callTimesOut, TypeOK
    <3> QED
      BY <1>5, <3>1 DEF callTimesOut, TypeOK, db, recon
  <2>2. CallsArePermitted'
    BY <1>5 DEF callTimesOut, CallsArePermitted, TypeOK
  <2> QED
    BY <1>5, <2>1, <2>2, WorkerOnlyStep DEF callTimesOut
<1>6. ASSUME responseLost(w) PROVE PipelineInv'
  <2>1. TypeOK'
    BY <1>6 DEF responseLost, TypeOK, db, recon, provider
  <2>2. CallsArePermitted'
    BY <1>6 DEF responseLost, CallsArePermitted, TypeOK, provider
  <2> QED
    BY <1>6, <2>1, <2>2, WorkerOnlyStep DEF responseLost, provider
<1>7. ASSUME referenceExists(w) PROVE PipelineInv'
  <2>1. TypeOK'
    BY <1>7 DEF referenceExists, TypeOK, db, recon, provider
  <2>2. CallsArePermitted'
    BY <1>7 DEF referenceExists, CallsArePermitted, TypeOK, provider
  <2> QED
    BY <1>7, <2>1, <2>2, WorkerOnlyStep DEF referenceExists, provider
<1> QED
  BY <1>1, <1>2, <1>3, <1>4, <1>5, <1>6, <1>7

\* A verdict AUTHORIZED is only given to what every permanent rule allows.
LEMMA AuthorizedFacts ==
  ASSUME PipelineInv, NEW o \in Opp, VerdictOf(o, decision) = "AUTHORIZED"
  PROVE  /\ o \notin HardDecline /\ o \notin LowConfidence /\ o \notin Holdout
         /\ Iven[o] > 0 /\ InitAttempts[o] < RetryCap
<1>1. o \notin HardDecline /\ ~(attempts[o] >= RetryCap) /\ o \notin LowConfidence
      /\ decision[o] = "ACT"
  BY DEF VerdictOf, RuleVerdict
<1>2. attempts[o] = InitAttempts[o] /\ attempts[o] \in Nat
  BY <1>1 DEF PipelineInv, AttemptsCapped, TypeOK
<1> QED
  BY <1>1, <1>2 DEF PipelineInv, ActWasRanked, RetryCap

\* Entering executeOpportunity: the gate decides, an existing record ends it.
LEMMA ExecuteInv ==
  ASSUME PipelineInv, NEW w \in Worker, NEW o \in Opp, executeOpportunity(w, o)
  PROVE  PipelineInv'
<1> USE DEF PipelineInv
<1> DEFINE evaluated == Evaluated(o, status, decision)
<1>1. status \in [Opp -> Status]
  BY DEF TypeOK
<1>2. /\ evaluated \in Status
      /\ evaluated = "recovered" <=> status[o] = "recovered"
      /\ evaluated = "executing" => status[o] = "executing"
  BY <1>1, EvaluatedFacts
<1>3. /\ updateStatus(evaluated, "executing") \in Status
      /\ updateStatus(evaluated, "executing") \in {evaluated, "executing"}
  BY <1>2, UpdateStatusFacts DEF Status
<1>4. /\ status' = [status EXCEPT ![o] = status'[o]]
      /\ \/ status'[o] = evaluated
         \/ status'[o] = updateStatus(evaluated, "executing") /\ rec[o].link # "none"
  BY <1>1 DEF executeOpportunity
<1>5. /\ cur' = [cur EXCEPT ![w] = o]
      /\ \/ pc' = [pc EXCEPT ![w] = "done"]
         \/ /\ pc' = [pc EXCEPT ![w] = "client"]
            /\ VerdictOf(o, decision) = "AUTHORIZED"
      /\ \E x \in {"failure", "success", "none"} : res' = [res EXCEPT ![w] = x]
  BY DEF executeOpportunity, Goto
<1>6. UNCHANGED <<attempts, decision, rec, booked, failCount, dlqPending,
                  killSwitch, todo, mode, recon, provider>>
  BY DEF executeOpportunity
<1>7. status'[o] \in Status
  BY <1>2, <1>3, <1>4
<1>8. TypeOK'
  <2>1. status' \in [Opp -> Status]
    BY <1>1, <1>4, <1>7
  <2>2. cur' \in [Worker -> Opp]
    BY <1>5 DEF TypeOK
  <2>3. pc' \in [Worker -> {"idle", "next", "client", "call", "resp", "adopt",
                            "fallback", "done"}]
    BY <1>5 DEF TypeOK
  <2>4. res' \in [Worker -> {"none", "ok", "exists", "success", "failure"}]
    BY <1>5 DEF TypeOK
  <2> QED
    BY <1>6, <2>1, <2>2, <2>3, <2>4 DEF TypeOK, recon, provider
<1>9. CallsArePermitted'
  <2>1. pc'[w] = "client" => VerdictOf(o, decision) = "AUTHORIZED"
    BY <1>5 DEF TypeOK
  <2>2. pc'[w] = "client" => /\ o \notin HardDecline /\ o \notin LowConfidence
                             /\ o \notin Holdout /\ Iven[o] > 0
                             /\ InitAttempts[o] < RetryCap
    BY <2>1, AuthorizedFacts
  <2>3. cur'[w] = o /\ pc'[w] \in {"done", "client"}
    BY <1>5 DEF TypeOK
  <2>4. \A v \in Worker : v # w => pc'[v] = pc[v] /\ cur'[v] = cur[v]
    BY <1>5 DEF TypeOK
  <2> QED
    BY <1>6, <2>2, <2>3, <2>4 DEF CallsArePermitted, provider
<1>10. \A p \in Opp : /\ status'[p] = "recovered" => status[p] = "recovered"
                      /\ status'[p] = "executing"
                           => status[p] = "executing" \/ rec[p].link # "none"
  BY <1>1, <1>2, <1>3, <1>4
<1> QED
  BY <1>6, <1>8, <1>9, <1>10, StatusOnlyStep DEF AttemptsCapped, ActWasRanked, provider

\* The DLQ's write: the status may become "blocked", the attempt count the
\* number of failures, which is then at least the cap.
LEMMA RecordFailureFacts ==
  ASSUME PipelineInv, NEW o \in Opp, RecordFailure(o)
  PROVE  /\ status' \in [Opp -> Status] /\ attempts' \in [Opp -> Nat]
         /\ failCount' \in [Opp -> 0..(RetryIntervals + 1)]
         /\ dlqPending' \in [Opp -> BOOLEAN]
         /\ \A p \in Opp : /\ status'[p] = "recovered" => status[p] = "recovered"
                           /\ status'[p] = "executing" => status[p] = "executing"
         /\ AttemptsCapped'
<1> USE DEF PipelineInv
<1> DEFINE n == IF failCount[o] < RetryIntervals + 1 THEN failCount[o] + 1 ELSE failCount[o]
           dead == n > RetryIntervals
<1>1. RetryIntervals \in Nat /\ RetryIntervals + 1 >= RetryCap
  BY PipelineAssumption
<1>2. n \in 0..(RetryIntervals + 1) /\ n \in Nat
  BY <1>1 DEF TypeOK
<1>3. dead => n >= RetryCap
  BY <1>1, <1>2 DEF RetryCap
<1>4. /\ failCount' = [failCount EXCEPT ![o] = n]
      /\ dlqPending' = [dlqPending EXCEPT ![o] = @ \/ ~dead]
      /\ status' = [status EXCEPT ![o] = IF dead THEN updateStatus(@, "blocked") ELSE @]
      /\ attempts' = [attempts EXCEPT ![o] = IF dead THEN n ELSE @]
  BY DEF RecordFailure
<1> HIDE DEF n, dead
<1>5. /\ updateStatus(status[o], "blocked") \in Status
      /\ updateStatus(status[o], "blocked") \in {status[o], "blocked"}
  <2>1. status[o] \in Status /\ "blocked" \in Status
    BY DEF TypeOK, Status
  <2> QED
    BY <2>1, UpdateStatusFacts
<1>6. /\ status' \in [Opp -> Status]
      /\ \A p \in Opp : /\ status'[p] = "recovered" => status[p] = "recovered"
                        /\ status'[p] = "executing" => status[p] = "executing"
  BY <1>4, <1>5 DEF TypeOK
<1>7. failCount' \in [Opp -> 0..(RetryIntervals + 1)] /\ attempts' \in [Opp -> Nat]
  BY <1>2, <1>4 DEF TypeOK
<1>8. dlqPending' \in [Opp -> BOOLEAN]
  <2>1. PICK b \in BOOLEAN : dlqPending' = [dlqPending EXCEPT ![o] = b]
    BY <1>4, Zenon
  <2> QED
    BY <2>1 DEF TypeOK
<1>9. AttemptsCapped'
  BY <1>3, <1>4 DEF TypeOK, AttemptsCapped
<1> QED
  BY <1>6, <1>7, <1>8, <1>9

\* Putting a link on record and moving the opportunity to executing: enough
\* that a real link exists, that a simulated one is not for a live opportunity,
\* and that the record does not claim completion.
LEMMA RecordLinkInv ==
  ASSUME PipelineInv, NEW c \in Opp,
         NEW l \in {"real", "mock"}, NEW s \in RecStatus \ {"completed"},
         l = "real" => link[c] # NoLink, l = "mock" => c \notin Live,
         rec' = [rec EXCEPT ![c] = [link |-> l, status |-> s]],
         status' = [status EXCEPT ![c] = updateStatus(@, "executing")],
         \E w \in Worker : Goto(w, "done", "success"),
         UNCHANGED <<attempts, decision, booked, failCount, dlqPending, killSwitch,
                     todo, cur, mode, recon, provider>>
  PROVE  PipelineInv'
<1> USE DEF PipelineInv
<1>1. status[c] \in Status /\ "executing" \in Status
  BY DEF TypeOK, Status
<1>2. /\ status' \in [Opp -> Status]
      /\ status'[c] \in {status[c], "executing"}
      /\ \A p \in Opp : p # c => status'[p] = status[p]
  BY <1>1, UpdateStatusFacts DEF TypeOK
<1>3. /\ rec' \in [Opp -> [link : {"none", "real", "mock"}, status : RecStatus]]
      /\ rec'[c].link = l /\ rec'[c].status = s
      /\ \A p \in Opp : p # c => rec'[p] = rec[p]
  BY DEF TypeOK
<1>4. /\ pc' \in [Worker -> {"idle", "next", "client", "call", "resp", "adopt",
                             "fallback", "done"}]
      /\ res' \in [Worker -> {"none", "ok", "exists", "success", "failure"}]
      /\ \A v \in Worker : pc'[v] \in {pc[v], "done"}
  BY DEF TypeOK, Goto
<1>5. TypeOK'
  BY <1>2, <1>3, <1>4 DEF TypeOK, recon, provider
<1>6. SettledOnlyIfPaid' /\ RecoveredIsBooked' /\ ExecutingHasRecord'
  BY <1>2, <1>3 DEF SettledOnlyIfPaid, RecoveredIsBooked, ExecutingHasRecord, provider
<1>7. LinkOnlyIfPermitted' /\ LiveRecordIsReal' /\ RealRecordHasLink'
  BY <1>3 DEF LinkOnlyIfPermitted, LiveRecordIsReal, RealRecordHasLink, provider
<1>8. ActWasRanked' /\ AttemptsCapped'
  BY DEF ActWasRanked, AttemptsCapped
<1>9. CallsArePermitted'
  BY <1>4 DEF CallsArePermitted, provider
<1>10. SnapshotsAreUsable'
  BY <1>3 DEF SnapshotsAreUsable, TypeOK, recon, provider
<1> QED
  BY <1>5, <1>6, <1>7, <1>8, <1>9, <1>10

\* The answer of the provider, and what the executor does with it.
LEMMA AnswerInv ==
  ASSUME PipelineInv, NEW w \in Worker
  PROVE  recordLink(w) \/ adoptLink(w) \/ executionFailed(w) => PipelineInv'
<1> USE DEF PipelineInv
<1>1. cur[w] \in Opp
  BY DEF TypeOK
<1>2. ASSUME recordLink(w) PROVE PipelineInv'
  <2>1. link[cur[w]] # NoLink /\ "created" \in RecStatus \ {"completed"}
    BY <1>2 DEF recordLink, CallsArePermitted, RecStatus
  <2> QED
    BY <1>1, <1>2, <2>1, RecordLinkInv DEF recordLink
<1>3. ASSUME adoptLink(w) PROVE PipelineInv'
  <2>1. link[cur[w]] # NoLink
    BY <1>3 DEF adoptLink, CallsArePermitted
  <2>2. link[cur[w]].status \in RecStatus \ {"completed"}
    BY <1>1, <2>1 DEF TypeOK, LinkState, RecStatus, NoLink
  <2>3. CASE Goto(w, "fallback", "none") /\ UNCHANGED <<rec, status>>
    <3>1. TypeOK'
      BY <1>3, <2>3 DEF adoptLink, Goto, TypeOK, recon, provider
    <3>2. CallsArePermitted'
      BY <1>3, <2>3 DEF adoptLink, Goto, TypeOK, CallsArePermitted, provider
    <3> QED
      BY <1>3, <2>3, <3>1, <3>2, WorkerOnlyStep DEF adoptLink, db, provider
  <2>4. CASE ~(Goto(w, "fallback", "none") /\ UNCHANGED <<rec, status>>)
    BY <1>1, <1>3, <2>1, <2>2, <2>4, RecordLinkInv DEF adoptLink
  <2> QED
    BY <2>3, <2>4
<1>4. ASSUME executionFailed(w) PROVE PipelineInv'
  <2>1. CASE cur[w] \notin Live
    <3>1. "simulated" \in RecStatus \ {"completed"}
      BY DEF RecStatus
    <3> QED
      BY <1>1, <1>4, <2>1, <3>1, RecordLinkInv DEF executionFailed
  <2>2. CASE cur[w] \in Live
    <3>1. /\ RecordFailure(cur[w]) /\ Goto(w, "done", "failure") /\ UNCHANGED rec
          /\ UNCHANGED <<decision, booked, killSwitch, todo, cur, mode, recon, provider>>
      BY <1>4, <2>2 DEF executionFailed
    <3>2. /\ status' \in [Opp -> Status] /\ attempts' \in [Opp -> Nat]
          /\ failCount' \in [Opp -> 0..(RetryIntervals + 1)]
          /\ dlqPending' \in [Opp -> BOOLEAN]
          /\ \A p \in Opp : /\ status'[p] = "recovered" => status[p] = "recovered"
                            /\ status'[p] = "executing" => status[p] = "executing"
          /\ AttemptsCapped'
      BY <1>1, <3>1, RecordFailureFacts
    <3>3. TypeOK'
      BY <3>1, <3>2 DEF Goto, TypeOK, recon, provider
    <3>4. CallsArePermitted'
      BY <3>1 DEF Goto, TypeOK, CallsArePermitted, provider
    <3> QED
      BY <3>1, <3>2, <3>3, <3>4, StatusOnlyStep DEF ActWasRanked, provider
  <2> QED
    BY <2>1, <2>2
<1> QED
  BY <1>2, <1>3, <1>4

\* Back in the caller: at most the DLQ is written.
LEMMA FinishInv ==
  ASSUME PipelineInv, NEW w \in Worker, finish(w)
  PROVE  PipelineInv'
<1> USE DEF PipelineInv
<1>1. cur[w] \in Opp /\ AnyOpp \in Opp
  BY PipelineAssumption DEF TypeOK, AnyOpp
<1>2. /\ status' \in [Opp -> Status] /\ attempts' \in [Opp -> Nat]
      /\ failCount' \in [Opp -> 0..(RetryIntervals + 1)]
      /\ dlqPending' \in [Opp -> BOOLEAN]
      /\ \A p \in Opp : /\ status'[p] = "recovered" => status[p] = "recovered"
                        /\ status'[p] = "executing" => status[p] = "executing"
      /\ AttemptsCapped'
  <2>1. CASE mode[w] = "replay" /\ res[w] = "failure"
    <3>1. RecordFailure(cur[w])
      BY <2>1 DEF finish
    <3> QED
      BY <1>1, <3>1, RecordFailureFacts
  <2>2. CASE mode[w] = "replay" /\ res[w] = "success"
    BY <2>2 DEF finish, TypeOK, AttemptsCapped
  <2>3. CASE ~(mode[w] = "replay" /\ res[w] \in {"success", "failure"})
    BY <2>3 DEF finish, TypeOK, AttemptsCapped
  <2> QED
    BY <2>1, <2>2, <2>3
<1>3. /\ todo' = [todo EXCEPT ![w] = todo[w] \ {cur[w]}]
      /\ \E x \in {"idle", "next"} : pc' = [pc EXCEPT ![w] = x]
      /\ res' = [res EXCEPT ![w] = "none"]
      /\ cur' = [cur EXCEPT ![w] = AnyOpp] /\ mode' = [mode EXCEPT ![w] = "batch"]
      /\ UNCHANGED <<decision, rec, booked, killSwitch, recon, provider>>
  BY DEF finish, Goto
<1>4. TypeOK'
  <2>1. todo' \in [Worker -> SUBSET Opp] /\ cur' \in [Worker -> Opp]
    BY <1>1, <1>3 DEF TypeOK
  <2>2. pc' \in [Worker -> {"idle", "next", "client", "call", "resp", "adopt",
                            "fallback", "done"}]
    BY <1>3 DEF TypeOK
  <2>3. /\ res' \in [Worker -> {"none", "ok", "exists", "success", "failure"}]
        /\ mode' \in [Worker -> {"batch", "route", "replay"}]
    BY <1>3 DEF TypeOK
  <2> QED
    BY <1>2, <1>3, <2>1, <2>2, <2>3 DEF TypeOK, recon, provider
<1>5. CallsArePermitted'
  BY <1>3 DEF TypeOK, CallsArePermitted, provider
<1> QED
  BY <1>2, <1>3, <1>4, <1>5, StatusOnlyStep DEF ActWasRanked, provider

-----------------------------------------------------------------------------
(* The provider.                                                           *)

\* A link may appear for a permitted opportunity and may change as long as it
\* neither vanishes nor stops being paid.
LEMMA LinkStep ==
  ASSUME PipelineInv, NEW o \in Opp, NEW l \in LinkState \ {NoLink},
         link' = [link EXCEPT ![o] = l], Permitted(o),
         link[o].status = "paid" => l.status = "paid",
         TypeOK', CallsArePermitted', UNCHANGED <<db, recon>>
  PROVE  PipelineInv'
<1> USE DEF PipelineInv
<1>1. /\ link'[o] = l /\ \A p \in Opp : p # o => link'[p] = link[p]
  BY DEF TypeOK
<1>2. SettledOnlyIfPaid' /\ RecoveredIsBooked' /\ ExecutingHasRecord'
  BY <1>1 DEF SettledOnlyIfPaid, RecoveredIsBooked, ExecutingHasRecord, db
<1>3. LinkOnlyIfPermitted' /\ LiveRecordIsReal' /\ RealRecordHasLink'
  BY <1>1 DEF LinkOnlyIfPermitted, LiveRecordIsReal, RealRecordHasLink, db
<1>4. ActWasRanked' /\ AttemptsCapped'
  BY DEF ActWasRanked, AttemptsCapped, db
<1>5. SnapshotsAreUsable'
  BY <1>1 DEF SnapshotsAreUsable, TypeOK, db, recon
<1> QED
  BY <1>2, <1>3, <1>4, <1>5

\* The provider creates a late link, is paid, or closes a link.
LEMMA ProviderStepsInv ==
  ASSUME PipelineInv
  PROVE  /\ \A w \in Worker : paymentLinkCreate(w) => PipelineInv'
         /\ \A o \in Opp : lateCreate(o) \/ pay(o) \/ lapse(o) => PipelineInv'
<1> USE DEF PipelineInv
<1> DEFINE created == [status |-> "created", paid |-> 0]
<1>1. created \in LinkState \ {NoLink}
  BY DEF LinkState, NoLink
<1>2. ASSUME NEW w \in Worker, paymentLinkCreate(w) PROVE PipelineInv'
  <2>1. cur[w] \in Opp /\ Permitted(cur[w])
    BY <1>2 DEF paymentLinkCreate, CallsArePermitted, TypeOK
  <2>2. link[cur[w]] \in LinkState
    BY <2>1 DEF TypeOK
  <2>3. PICK l \in LinkState \ {NoLink} :
          /\ link' = [link EXCEPT ![cur[w]] = l]
          /\ l = created \/ l = link[cur[w]]
          /\ link[cur[w]] # NoLink => l = link[cur[w]]
    <3>1. CASE link[cur[w]] = NoLink
      BY <1>1, <1>2, <2>1, <3>1 DEF paymentLinkCreate
    <3>2. CASE link[cur[w]] # NoLink
      BY <1>2, <2>1, <2>2, <3>2 DEF paymentLinkCreate, TypeOK
    <3> QED
      BY <3>1, <3>2
  <2>4. /\ pc' = [pc EXCEPT ![w] = "resp"]
        /\ \E x \in {"ok", "exists"} : res' = [res EXCEPT ![w] = x]
        /\ UNCHANGED <<db, killSwitch, todo, cur, mode, recon, late>>
    BY <1>2 DEF paymentLinkCreate, Goto
  <2>5. link' \in [Opp -> LinkState]
    BY <2>1, <2>3 DEF TypeOK
  <2>6. /\ pc' \in [Worker -> {"idle", "next", "client", "call", "resp", "adopt",
                               "fallback", "done"}]
        /\ res' \in [Worker -> {"none", "ok", "exists", "success", "failure"}]
    BY <2>4 DEF TypeOK
  <2>7. TypeOK'
    BY <2>4, <2>5, <2>6 DEF TypeOK, db, recon
  <2>8. CallsArePermitted'
    <3>1. \A v \in Worker : /\ cur'[v] = cur[v] /\ cur[v] \in Opp
                            /\ pc'[v] = pc[v] \/ (v = w /\ pc'[v] = "resp")
      BY <2>4 DEF TypeOK
    <3>2. \A p \in Opp : link[p] # NoLink \/ p = cur[w] => link'[p] # NoLink
      BY <2>1, <2>3 DEF TypeOK
    <3> QED
      BY <2>1, <2>4, <3>1, <3>2 DEF CallsArePermitted
  <2>9. link[cur[w]].status = "paid" => l.status = "paid"
    BY <2>3 DEF NoLink
  <2> QED
    BY <2>1, <2>3, <2>4, <2>7, <2>8, <2>9, LinkStep
<1>3. ASSUME NEW o \in Opp, NEW l \in LinkState \ {NoLink},
             Permitted(o), link' = [link EXCEPT ![o] = l],
             link[o].status = "paid" => l.status = "paid",
             late' \subseteq late, UNCHANGED <<db, killSwitch, worker, recon>>
      PROVE  PipelineInv'
  <2>1. link' \in [Opp -> LinkState] /\ late' \subseteq Opp
    BY <1>3 DEF TypeOK
  <2>2. TypeOK'
    BY <1>3, <2>1 DEF TypeOK, db, worker, recon
  <2>3. CallsArePermitted'
    BY <1>3 DEF CallsArePermitted, TypeOK, worker
  <2> QED
    BY <1>3, <2>2, <2>3, LinkStep
<1>4. ASSUME NEW o \in Opp, lateCreate(o) PROVE PipelineInv'
  <2>1. Permitted(o) /\ link[o] \in LinkState
    BY <1>4 DEF lateCreate, CallsArePermitted, TypeOK
  <2>2. CASE link[o] = NoLink
    <3>1. link' = [link EXCEPT ![o] = created]
      BY <1>4, <2>2 DEF lateCreate
    <3>2. link[o].status # "paid"
      BY <2>2 DEF NoLink
    <3>3. late' \subseteq late /\ UNCHANGED <<db, killSwitch, worker, recon>>
      BY <1>4 DEF lateCreate
    <3> HIDE DEF created
    <3> QED
      BY <1>1, <1>3, <2>1, <3>1, <3>2, <3>3
  <2>3. CASE link[o] # NoLink
    <3>1. link' = [link EXCEPT ![o] = link[o]]
      BY <1>4, <2>3 DEF lateCreate
    <3> QED
      BY <1>3, <1>4, <2>1, <2>3, <3>1 DEF lateCreate
  <2> QED
    BY <2>2, <2>3
<1>5. ASSUME NEW o \in Opp, link[o].status = "created" PROVE Permitted(o)
  <2>1. link[o] # NoLink
    BY <1>5 DEF NoLink
  <2> QED
    BY <2>1 DEF LinkOnlyIfPermitted
<1>6. ASSUME NEW o \in Opp, pay(o) PROVE PipelineInv'
  <2>1. [status |-> "paid", paid |-> Amount] \in LinkState \ {NoLink}
    BY PipelineAssumption DEF LinkState, NoLink
  <2> QED
    BY <1>3, <1>5, <1>6, <2>1 DEF pay
<1>7. ASSUME NEW o \in Opp, lapse(o) PROVE PipelineInv'
  <2>1. PICK s \in {"expired", "cancelled"} : link' = [link EXCEPT ![o] = [status |-> s, paid |-> 0]]
    BY <1>7 DEF lapse
  <2>2. [status |-> s, paid |-> 0] \in LinkState \ {NoLink}
    BY DEF LinkState, NoLink
  <2> QED
    BY <1>3, <1>5, <1>7, <2>1, <2>2 DEF lapse
<1> QED
  BY <1>2, <1>4, <1>6, <1>7

-----------------------------------------------------------------------------
(* The reconciler.                                                         *)

\* Beginning, continuing or giving up a reconciliation writes nothing else.
LEMMA ReconOnlyStep ==
  ASSUME PipelineInv, TypeOK', SnapshotsAreUsable',
         UNCHANGED <<db, killSwitch, worker, provider>>
  PROVE  PipelineInv'
BY DEF PipelineInv, SettledOnlyIfPaid, RecoveredIsBooked, LinkOnlyIfPermitted,
       ExecutingHasRecord, LiveRecordIsReal, ActWasRanked, AttemptsCapped,
       RealRecordHasLink, CallsArePermitted, db, worker, provider

\* The steps of a reconciliation before its transaction.
LEMMA ReconStepsInv ==
  ASSUME PipelineInv, NEW r \in Recon
  PROVE  /\ \A o \in Opp : reconcile(r, o) \/ webhook(r, o) => PipelineInv'
         /\ fetch(r) \/ reconcileFails(r) => PipelineInv'
<1> USE DEF PipelineInv
<1>1. AnyOpp \in Opp /\ NoLink \in LinkState /\ "pending" \in Status
  BY PipelineAssumption DEF AnyOpp, LinkState, Status
<1>2. ASSUME NEW o \in Opp, NEW step \in {"fetch", "commit"}, NEW p \in LinkState,
             Snapshot(r, o, step, p),
             step = "commit" => /\ status[o] # "recovered" /\ p # NoLink
                                /\ p.status = "paid" => link[o].status = "paid"
                                /\ p.status # "created",
             UNCHANGED <<db, killSwitch, worker, provider>>
      PROVE  PipelineInv'
  <2>1. status[o] \in Status /\ rec[o].link \in {"none", "real", "mock"}
    BY DEF TypeOK
  <2>2. /\ rpc' \in [Recon -> {"idle", "fetch", "commit"}] /\ ropp' \in [Recon -> Opp]
        /\ rstat' \in [Recon -> Status] /\ rrec' \in [Recon -> {"none", "real", "mock"}]
        /\ rpay' \in [Recon -> LinkState]
    BY <1>2, <2>1 DEF Snapshot, TypeOK
  <2>3. TypeOK'
    BY <1>2, <2>2 DEF TypeOK, db, worker, provider
  <2>4. /\ rpc'[r] = step /\ ropp'[r] = o /\ rstat'[r] = status[o]
        /\ rrec'[r] = rec[o].link /\ rpay'[r] = p
        /\ \A q \in Recon : q # r => /\ rpc'[q] = rpc[q] /\ ropp'[q] = ropp[q]
                                     /\ rstat'[q] = rstat[q] /\ rrec'[q] = rrec[q]
                                     /\ rpay'[q] = rpay[q]
    BY <1>2 DEF Snapshot, TypeOK
  <2>5. SnapshotsAreUsable'
    BY <1>2, <2>4 DEF SnapshotsAreUsable, ExecutingHasRecord, RealRecordHasLink, db, provider
  <2> QED
    BY <1>2, <2>3, <2>5, ReconOnlyStep
<1>3. ASSUME NEW o \in Opp, reconcile(r, o) PROVE PipelineInv'
  BY <1>1, <1>2, <1>3 DEF reconcile
<1>4. ASSUME NEW o \in Opp, webhook(r, o) PROVE PipelineInv'
  <2>1. link[o] \in LinkState /\ link[o] # NoLink
    BY <1>4 DEF webhook, TypeOK, NoLink
  <2> QED
    BY <1>2, <1>4, <2>1 DEF webhook
<1>5. ASSUME ReconDone(r), UNCHANGED <<db, killSwitch, worker, provider>>
      PROVE  PipelineInv'
  <2>1. TypeOK'
    BY <1>1, <1>5 DEF ReconDone, TypeOK, db, worker, provider
  <2>2. SnapshotsAreUsable'
    BY <1>5 DEF ReconDone, SnapshotsAreUsable, TypeOK, db, provider
  <2> QED
    BY <1>5, <2>1, <2>2, ReconOnlyStep
<1>6. ASSUME reconcileFails(r) PROVE PipelineInv'
  BY <1>5, <1>6 DEF reconcileFails
<1>7. ASSUME fetch(r) PROVE PipelineInv'
  <2>1. CASE rstat[r] = "recovered"
    BY <1>5, <1>7, <2>1 DEF fetch
  <2>2. CASE rstat[r] # "recovered"
    <3>1. /\ rpc[r] = "fetch" /\ rrec[r] = "real"
          /\ rpc' = [rpc EXCEPT ![r] = "commit"]
          /\ rpay' = [rpay EXCEPT ![r] = link[ropp[r]]]
          /\ UNCHANGED <<ropp, rstat, rrec>>
          /\ UNCHANGED <<db, killSwitch, worker, provider>>
      BY <1>7, <2>2 DEF fetch
    <3>2. link[ropp[r]] \in LinkState
      BY DEF TypeOK
    <3>3. rpc' \in [Recon -> {"idle", "fetch", "commit"}] /\ rpay' \in [Recon -> LinkState]
      BY <3>1, <3>2 DEF TypeOK
    <3>4. TypeOK'
      BY <3>1, <3>3 DEF TypeOK, db, worker, provider
    <3>5. SnapshotsAreUsable'
      BY <2>2, <3>1 DEF SnapshotsAreUsable, TypeOK, db, provider
    <3> QED
      BY <3>1, <3>4, <3>5, ReconOnlyStep
  <2> QED
    BY <2>1, <2>2
<1> QED
  BY <1>3, <1>4, <1>6, <1>7

\* The reconciler's transaction writes what its snapshot says; the snapshot's
\* facts still hold of the row it writes.
LEMMA CommitInv ==
  ASSUME PipelineInv, NEW r \in Recon, commit(r)
  PROVE  PipelineInv'
<1> USE DEF PipelineInv
<1> DEFINE o == ropp[r]
           target == targetOpportunityStatus(rstat[r], rpay[r], Amount)
           exec == targetExecStatus(rpay[r], Amount)
<1>1. /\ o \in Opp /\ rstat[r] \in Status /\ rpay[r] \in LinkState
      /\ AnyOpp \in Opp /\ NoLink \in LinkState /\ "pending" \in Status
  BY PipelineAssumption DEF TypeOK, AnyOpp, LinkState, Status
<1>2. /\ rstat[r] # "recovered" /\ rpay[r] # NoLink
      /\ rpay[r].status = "paid" => link[o].status = "paid"
      /\ rpay[r].status = "created" => rrec[r] # "none"
      /\ rstat[r] = "executing" => rec[o].link # "none"
      /\ rrec[r] # "none" => rec[o].link # "none"
  BY DEF commit, SnapshotsAreUsable
<1>3. /\ target \in Status /\ exec \in {"completed", "failed", "created"}
      /\ target = "recovered" <=> rpay[r].status = "paid"
      /\ exec = "completed" <=> rpay[r].status = "paid"
      /\ target = "executing" => rstat[r] = "executing" \/ rpay[r].status = "created"
  BY <1>1, <1>2, TargetFacts
<1>4. /\ status' = [status EXCEPT ![o] = target]
      /\ rec' = [rec EXCEPT ![o].status = IF rrec[r] # "none" THEN exec ELSE @]
      /\ booked' = [booked EXCEPT ![o] =
                      IF target = "recovered" /\ @ < MaxBooked THEN @ + 1 ELSE @]
      /\ ReconDone(r)
      /\ UNCHANGED <<attempts, decision, failCount, dlqPending, killSwitch, worker, provider>>
  BY DEF commit
<1> HIDE DEF o, target, exec
<1>5. status' \in [Opp -> Status] /\ status'[o] = target
      /\ \A p \in Opp : p # o => status'[p] = status[p]
  BY <1>1, <1>3, <1>4 DEF TypeOK
<1>6. /\ rec' \in [Opp -> [link : {"none", "real", "mock"}, status : RecStatus]]
      /\ rec'[o].status \in {rec[o].status, exec}
      /\ \A p \in Opp : rec'[p].link = rec[p].link /\ (p # o => rec'[p] = rec[p])
  <2>1. PICK x \in {rec[o].status, exec} : rec' = [rec EXCEPT ![o].status = x]
    BY <1>4
  <2>2. rec[o] \in [link : {"none", "real", "mock"}, status : RecStatus] /\ exec \in RecStatus
    BY <1>1, <1>3 DEF TypeOK, RecStatus
  <2>3. /\ [rec[o] EXCEPT !.status = x] \in [link : {"none", "real", "mock"}, status : RecStatus]
        /\ [rec[o] EXCEPT !.status = x].link = rec[o].link
        /\ [rec[o] EXCEPT !.status = x].status = x
    BY <2>1, <2>2
  <2>4. rec' = [rec EXCEPT ![o] = [rec[o] EXCEPT !.status = x]]
    BY <2>1
  <2> QED
    BY <1>1, <2>1, <2>3, <2>4 DEF TypeOK
<1>7. /\ booked' \in [Opp -> 0..MaxBooked]
      /\ booked'[o] >= booked[o] /\ (target = "recovered" => booked'[o] > 0)
      /\ target # "recovered" => booked'[o] = booked[o]
      /\ \A p \in Opp : p # o => booked'[p] = booked[p]
  BY <1>1, <1>4, PipelineAssumption DEF TypeOK
<1>8. TypeOK'
  <2>1. /\ rpc' \in [Recon -> {"idle", "fetch", "commit"}] /\ ropp' \in [Recon -> Opp]
        /\ rstat' \in [Recon -> Status] /\ rrec' \in [Recon -> {"none", "real", "mock"}]
        /\ rpay' \in [Recon -> LinkState]
    BY <1>1, <1>4 DEF ReconDone, TypeOK
  <2> QED
    BY <1>4, <1>5, <1>6, <1>7, <2>1 DEF TypeOK, worker, provider
<1>9. SettledOnlyIfPaid'
  BY <1>2, <1>3, <1>4, <1>5, <1>6, <1>7 DEF SettledOnlyIfPaid, TypeOK, provider
<1>10. RecoveredIsBooked'
  BY <1>5, <1>7 DEF RecoveredIsBooked
<1>11. ExecutingHasRecord'
  BY <1>2, <1>3, <1>5, <1>6 DEF ExecutingHasRecord
<1>12. LinkOnlyIfPermitted' /\ LiveRecordIsReal' /\ RealRecordHasLink'
  BY <1>4, <1>6 DEF LinkOnlyIfPermitted, LiveRecordIsReal, RealRecordHasLink, provider
<1>13. ActWasRanked' /\ AttemptsCapped' /\ CallsArePermitted'
  BY <1>4 DEF ActWasRanked, AttemptsCapped, CallsArePermitted, worker, provider
<1>14. SnapshotsAreUsable'
  <2>1. /\ rpc'[r] = "idle"
        /\ \A q \in Recon : q # r => /\ rpc'[q] = rpc[q] /\ ropp'[q] = ropp[q]
                                     /\ rstat'[q] = rstat[q] /\ rrec'[q] = rrec[q]
                                     /\ rpay'[q] = rpay[q]
    BY <1>4 DEF ReconDone, TypeOK
  <2> QED
    BY <1>4, <1>6, <2>1 DEF SnapshotsAreUsable, TypeOK, provider
<1> QED
  BY <1>8, <1>9, <1>10, <1>11, <1>12, <1>13, <1>14

-----------------------------------------------------------------------------
(* The whole system.                                                       *)

\* A restart forgets every call; the requests it leaves behind were permitted.
LEMMA RestartInv == ASSUME PipelineInv, restart PROVE PipelineInv'
<1> USE DEF PipelineInv
<1>1. AnyOpp \in Opp /\ NoLink \in LinkState /\ "pending" \in Status
  BY PipelineAssumption DEF AnyOpp, LinkState, Status
<1>2. late' \subseteq Opp /\ \A o \in late' : Permitted(o)
  BY DEF restart, TypeOK, CallsArePermitted
<1>3. TypeOK'
  BY <1>1, <1>2 DEF restart, TypeOK, db
<1>4. CallsArePermitted' /\ SnapshotsAreUsable'
  BY <1>2 DEF restart, CallsArePermitted, SnapshotsAreUsable
<1> QED
  BY <1>3, <1>4 DEF restart, SettledOnlyIfPaid, RecoveredIsBooked, LinkOnlyIfPermitted,
       ExecutingHasRecord, LiveRecordIsReal, ActWasRanked, AttemptsCapped,
       RealRecordHasLink, db

\* Every step keeps the inductive invariant.
LEMMA NextInv == PipelineInv /\ [Next]_vars => PipelineInv'
<1> SUFFICES ASSUME PipelineInv, [Next]_vars PROVE PipelineInv'
  OBVIOUS
<1>1. CASE UNCHANGED vars
  BY <1>1 DEF vars, db, worker, recon, provider, PipelineInv, TypeOK, SettledOnlyIfPaid,
       RecoveredIsBooked, LinkOnlyIfPermitted, ExecutingHasRecord, LiveRecordIsReal,
       ActWasRanked, AttemptsCapped, CallsArePermitted, RealRecordHasLink, SnapshotsAreUsable
<1>2. ASSUME NEW o \in Opp, scoreOpportunity(o) \/ evaluateOpportunity(o)
                            \/ lateCreate(o) \/ pay(o) \/ lapse(o)
      PROVE  PipelineInv'
  BY <1>2, GateStepsInv, ProviderStepsInv
<1>3. CASE runMarketAllocation \/ runAuthorityPipeline \/ restart
  BY <1>3, GateStepsInv, RestartInv
<1>4. CASE setKillSwitch
  <2>1. killSwitch' \in BOOLEAN
    BY <1>4 DEF setKillSwitch
  <2>2. TypeOK' /\ CallsArePermitted'
    BY <1>4, <2>1 DEF setKillSwitch, TypeOK, CallsArePermitted, PipelineInv,
         db, worker, recon, provider
  <2> QED
    BY <1>4, <2>2, WorkerOnlyStep DEF setKillSwitch, provider
<1>5. ASSUME NEW w \in Worker,
             \/ executeAuthorizedBatch(w) \/ sweepOnce(w)
             \/ \E o \in Opp : executeRoute(w, o) \/ replayPendingRetries(w, o)
             \/ WorkerStep(w)
      PROVE  PipelineInv'
  BY <1>5, BatchStepsInv, WorkerStepsInv, ExecuteInv, AnswerInv, FinishInv,
     ProviderStepsInv DEF WorkerStep
<1>6. ASSUME NEW r \in Recon,
             \/ \E o \in Opp : reconcile(r, o) \/ webhook(r, o)
             \/ fetch(r) \/ reconcileFails(r) \/ commit(r)
      PROVE  PipelineInv'
  BY <1>6, ReconStepsInv, CommitInv
<1> QED
  BY <1>1, <1>2, <1>3, <1>4, <1>5, <1>6 DEF Next

\* The inductive invariant holds of every behaviour, for any opportunities, any
\* number of overlapping executions and reconciliations, crashes included.
THEOREM PipelineInvariant == Spec => []PipelineInv
BY InitInv, NextInv, PTL DEF Spec

\* What the pipeline promises of money and compliance: nothing is settled that
\* was not paid, a recovered opportunity is booked, no link exists for a
\* forbidden opportunity, an executing opportunity has its record and a live
\* record names a link the provider holds.
THEOREM PipelineSafety ==
  Spec => [](TypeOK /\ SettledOnlyIfPaid /\ RecoveredIsBooked /\ LinkOnlyIfPermitted
             /\ ExecutingHasRecord /\ LiveRecordIsReal)
<1>1. PipelineInv => TypeOK /\ SettledOnlyIfPaid /\ RecoveredIsBooked /\ LinkOnlyIfPermitted
                     /\ ExecutingHasRecord /\ LiveRecordIsReal
  BY DEF PipelineInv
<1> QED
  BY <1>1, PipelineInvariant, PTL

-----------------------------------------------------------------------------
(* Leaving "recovered".                                                    *)

\* The writers that go through updateStatus leave a recovered row alone.
LEMMA GuardedWritersKeepRecovered ==
  ASSUME PipelineInv, NEW o \in Opp, status[o] = "recovered"
  PROVE  /\ \A p \in Opp : scoreOpportunity(p) \/ evaluateOpportunity(p)
              => status'[o] = "recovered"
         /\ runMarketAllocation \/ runAuthorityPipeline => status'[o] = "recovered"
         /\ \A w \in Worker : executeAuthorizedBatch(w) \/ sweepOnce(w)
              => status'[o] = "recovered"
         /\ \A w \in Worker : \A p \in Opp : executeOpportunity(w, p)
              => status'[o] = "recovered"
         /\ \A w \in Worker : recordLink(w) \/ adoptLink(w) \/ executionFailed(w)
              \/ finish(w) => status'[o] = "recovered"
<1>1. status \in [Opp -> Status] /\ \A w \in Worker : cur[w] \in Opp
  BY DEF PipelineInv, TypeOK
<1>2. \A to \in Status : updateStatus("recovered", to) = "recovered"
  BY UpdateStatusFacts DEF Status
<1>3. {"scored", "executing", "blocked"} \subseteq Status
  BY DEF Status
<1>4. \A p \in Opp : RecordFailure(p) => status'[o] = "recovered"
  BY <1>1, <1>2, <1>3 DEF RecordFailure
<1>5. \A dec : \A p \in Opp : status[p] = "recovered" => Evaluated(p, status, dec) = "recovered"
  BY <1>1, EvaluatedFacts
<1>6. ASSUME NEW st \in [Opp -> Status], NEW A, st[o] = "recovered"
      PROVE  /\ MarketStatus(st, A) \in [Opp -> Status]
             /\ MarketStatus(st, A)[o] = "recovered"
  BY <1>6, MarketStatusFacts
<1>7. ASSUME NEW st \in [Opp -> Status], NEW dec, st[o] = "recovered"
      PROVE  GateStatus(st, dec)[o] = "recovered"
  BY <1>7, GateStatusFacts
<1>8. ASSUME NEW p \in Opp, scoreOpportunity(p) \/ evaluateOpportunity(p)
      PROVE  status'[o] = "recovered"
  BY <1>1, <1>2, <1>3, <1>5, <1>8 DEF scoreOpportunity, evaluateOpportunity
<1>9. ASSUME runMarketAllocation \/ runAuthorityPipeline PROVE status'[o] = "recovered"
  BY <1>1, <1>6, <1>7, <1>9 DEF runMarketAllocation, runAuthorityPipeline
<1>10. ASSUME NEW w \in Worker, NEW st \in [Opp -> Status], NEW dec,
              st[o] = "recovered", StartBatch(w, st, dec)
       PROVE  status'[o] = "recovered"
  BY <1>6, <1>7, <1>10 DEF StartBatch
<1>11. ASSUME NEW w \in Worker, executeAuthorizedBatch(w) \/ sweepOnce(w)
       PROVE  status'[o] = "recovered"
  BY <1>1, <1>6, <1>10, <1>11 DEF executeAuthorizedBatch, sweepOnce
<1>12. ASSUME NEW w \in Worker, NEW p \in Opp, executeOpportunity(w, p)
       PROVE  status'[o] = "recovered"
  BY <1>1, <1>5, <1>12 DEF executeOpportunity
<1>13. ASSUME NEW w \in Worker,
              recordLink(w) \/ adoptLink(w) \/ executionFailed(w) \/ finish(w)
       PROVE  status'[o] = "recovered"
  BY <1>1, <1>2, <1>3, <1>4, <1>13 DEF recordLink, adoptLink, executionFailed, finish
<1> QED
  BY <1>8, <1>9, <1>11, <1>12, <1>13

\* Only a reconciliation whose snapshot predates the recovery, and that does not
\* carry a payment itself, can take an opportunity out of "recovered".
THEOREM OnlyStaleCommitUndoesRecovery == Spec => RecoveredLeftOnlyByStaleCommit
<1> DEFINE Undo(o) == status[o] = "recovered" /\ status'[o] # "recovered"
           Stale(o) == \E r \in Recon : /\ rpc[r] = "commit" /\ rpc'[r] = "idle"
                                        /\ ropp[r] = o /\ rstat[r] # "recovered"
                                        /\ rpay[r].status # "paid"
<1>1. ASSUME PipelineInv, [Next]_vars, NEW o \in Opp, Undo(o) PROVE Stale(o)
  <2>1. status[o] = "recovered" /\ status'[o] # status[o]
    BY <1>1
  <2>2. PICK r \in Recon : commit(r)
    BY <1>1, <2>1, GuardedWritersKeepRecovered
       DEF Next, WorkerStep, vars, db, lateCreate, pay, lapse, setKillSwitch, restart,
           executeRoute, replayPendingRetries, getClient, paymentLinkCreate, callFails,
           callTimesOut, responseLost, referenceExists, reconcile, webhook, fetch,
           reconcileFails
  <2>3. status[ropp[r]] # status'[ropp[r]] /\ ropp[r] = o
    BY <1>1, <2>1, <2>2 DEF commit, PipelineInv, TypeOK
  <2>4. /\ rpc[r] = "commit" /\ rpc'[r] = "idle"
        /\ status'[o] = targetOpportunityStatus(rstat[r], rpay[r], Amount)
    BY <1>1, <2>2, <2>3 DEF commit, ReconDone, PipelineInv, TypeOK
  <2>5. /\ rstat[r] \in Status /\ rpay[r] \in LinkState
        /\ rstat[r] # "recovered" /\ rpay[r] # NoLink
    BY <1>1, <2>4 DEF PipelineInv, SnapshotsAreUsable, TypeOK
  <2>6. rpay[r].status # "paid"
    BY <2>1, <2>4, <2>5, TargetFacts
  <2> QED
    BY <2>3, <2>4, <2>5, <2>6
<1>2. PipelineInv /\ [Next]_vars => [\A o \in Opp : Undo(o) => Stale(o)]_vars
  BY <1>1
<1> QED
  BY <1>2, PipelineInvariant, PTL DEF Spec, RecoveredLeftOnlyByStaleCommit

=============================================================================
