---------------------------- MODULE MCBackground ----------------------------
(* What runs by itself in the server, one part at a time: the daemon's     *)
(* loop, the sweeps of opportunities that compete for its capacity, and    *)
(* inbound webhooks with their delivery queue.                             *)
EXTENDS SweepDaemon, FiniteSets, TLC

CONSTANTS
  o1, o2, o3,
  Opp, Live, HardDecline, LowConfidence, Holdout, OverCeiling, Iven, InitAttempts,
  Amount, Capacity, Worker, Recon, Restarts, RetryIntervals, MaxBooked,
  p1, h1,
  Payment, Delivery, kindOf, payOf, eventOf, Request, max_attempts, MaxOps

VARIABLES
  part,
  status, attempts, decision, rec, booked, failCount, dlqPending, killSwitch,
  pc, todo, cur, mode, res, rpc, ropp, rstat, rrec, rpay, link, late,
  opp, evt, row, batch, job, ops, crashed

Pipeline == INSTANCE RecoveryPipeline
Webhooks == INSTANCE Inbound

ASSUME SweepsAssumption ==
  /\ Opp # {} /\ IsFiniteSet(Opp)
  /\ Live \subseteq Opp /\ HardDecline \subseteq Opp
  /\ LowConfidence \subseteq Opp /\ Holdout \subseteq Opp
  /\ OverCeiling \subseteq Opp
  /\ Iven \in [Opp -> Int] /\ InitAttempts \in [Opp -> Nat]
  /\ RetryIntervals \in Nat /\ RetryIntervals + 1 >= Pipeline!RetryCap
  /\ Restarts \in BOOLEAN
  /\ Amount \in Nat \ {0} /\ Capacity \in Nat \ {0} /\ MaxBooked \in Nat \ {0}
ASSUME InboundAssumption ==
  /\ Delivery \subseteq Nat \ {0} /\ payOf \in [Delivery -> Payment]
  /\ kindOf \in [Delivery -> {"failed", "paid", "bad"}]
  /\ max_attempts \in Nat /\ MaxOps \in Nat
  /\ "none" \notin {eventOf[d] : d \in Delivery}

FailedThenPaid == <<"failed", "paid">>
OnePayment == [d \in Delivery |-> p1]
OwnEvent == <<"e1", "e2">>
FirstIsWorthMost == o1 :> 3 @@ o2 :> 2 @@ o3 :> 1
FirstAttempt == [o \in Opp |-> 1]

pipelineVars == <<status, attempts, decision, rec, booked, failCount, dlqPending, killSwitch,
                  pc, todo, cur, mode, res, rpc, ropp, rstat, rrec, rpay, link, late>>
inboundVars == <<opp, evt, row, batch, job, ops, crashed>>

BackInit ==
  /\ part \in {"daemon", "pipeline", "inbound"}
  /\ Init /\ (part # "daemon" => distributed) /\ Pipeline!Init /\ Webhooks!Init
BackNext ==
  \/ part = "daemon" /\ Next /\ UNCHANGED <<part, pipelineVars, inboundVars>>
  \/ part = "pipeline" /\ Pipeline!Next /\ UNCHANGED <<part, vars, inboundVars>>
  \/ part = "inbound" /\ Webhooks!Next /\ UNCHANGED <<part, vars, pipelineVars>>
\* Nothing of the webhooks is under way in a behaviour of another part, so their
\* fairness asks nothing of it.
BackSpec == BackInit /\ [][BackNext]_<<part, vars, pipelineVars, inboundVars>> /\ Webhooks!Fairness

\* While they compete for capacity, none of the opportunities a rule forbids ever
\* gets a link, however late a request that was authorized before arrives.
ForbiddenGetNoLink == Pipeline!LinkOnlyIfPermitted
\* A delivery shown as PROCESSING is in somebody's hands unless a process died.
DeliveriesInHand == TypeOK /\ Webhooks!TypeOK /\ Webhooks!ProcessingIsInHand
\* A payment that was ingested is put back to pending by nothing but a queued
\* delivery under another event id.
ReopenedOnlyByAnotherDelivery == Webhooks!ReopenedOnlyByAnotherDelivery
\* Every delivery is delivered or becomes a dead letter unless a process died in the
\* middle of it.
DeliverySettles == Webhooks!DeliverySettles
=============================================================================
