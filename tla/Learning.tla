------------------------------ MODULE Learning ------------------------------
(***************************************************************************)
(* What a settled opportunity teaches: the Bayesian calibrator of one      *)
(* decline reason and the bandit's arm.  The reconciler awaits neither, so *)
(* the writes of one observation are interleaved with those of the next;   *)
(* the calibrator counts in memory, the bandit in the database.            *)
(*                                                                         *)
(* A posterior is the static prior plus counts, and is represented by the  *)
(* counts: the outcomes seen with and without an intervention.  The row of *)
(* probability_models and the hot cache are keyed by the reason alone and  *)
(* shared by the tenants.                                                  *)
(***************************************************************************)
EXTENDS Naturals, FiniteSetsExt

CONSTANTS
  Tenant,
  UpdateAt,      \* observations from which every one updates the posterior (5)
  Calibrated,    \* sample size from which a posterior is used (100)
  MaxOutcomes, MaxRestarts, MaxReads

VARIABLES
  observations,   \* observationsCache, per tenant: counts
  arm,            \* the bandit's arm of the reason, per tenant: counts
  updating,       \* posteriors on their way to the tables and the cache
  modelRow, priorRow, cache,
  restarts, reads

vars == <<observations, arm, updating, modelRow, priorRow, cache, restarts, reads>>

Counts == [natSucc : Nat, natTot : Nat, intSucc : Nat, intTot : Nat]
Zero == [natSucc |-> 0, natTot |-> 0, intSucc |-> 0, intTot |-> 0]
Total(c) == c.natTot + c.intTot
None == [of |-> Zero]

Posterior == [by : Tenant, of : Counts, status : {"ACTIVE", "CANDIDATE"}]
Step == {"model", "prior", "cache"}

TypeOK ==
  /\ observations \in [Tenant -> Counts] /\ arm \in [Tenant -> Counts]
  /\ \A u \in updating : u.post \in Posterior /\ u.step \in Step
  /\ {modelRow, cache} \subseteq Posterior \cup {None}
  /\ \A t \in Tenant : priorRow[t] \in Posterior \cup {None}

-----------------------------------------------------------------------------

\* Mutant: a recovery counts twice.
observeTwice(c, recovered, intervened) ==
  LET k == IF recovered THEN 1 ELSE 0
  IN  IF intervened THEN [c EXCEPT !.intTot = @ + 1 + k, !.intSucc = @ + 2 * k]
      ELSE [c EXCEPT !.natTot = @ + 1 + k, !.natSucc = @ + 2 * k]

observe(c, recovered, intervened) ==
  LET k == IF recovered THEN 1 ELSE 0
  IN  IF intervened THEN [c EXCEPT !.intTot = @ + 1, !.intSucc = @ + k]
      ELSE [c EXCEPT !.natTot = @ + 1, !.natSucc = @ + k]

\* updateReward: the arm's four parameters start from fixed priors and count the
\* same outcomes, in the database.
updateReward(c, recovered, intervened) ==
  LET k == IF recovered THEN 1 ELSE 0
  IN  IF intervened THEN [c EXCEPT !.intTot = @ + 1, !.intSucc = @ + k]
      ELSE [c EXCEPT !.natTot = @ + 1, !.natSucc = @ + k]

\* Whether the lift is significant depends on the numbers; too few interventions
\* never are.
evaluateModelPromotion(c, significant) == c.intTot >= Calibrated /\ significant

posteriorStatus(c, significant) ==
  IF evaluateModelPromotion(c, significant) \/ Total(c) < Calibrated THEN "ACTIVE" ELSE "CANDIDATE"

\* The reconciler settles an opportunity of tenant t: the observation, up to the
\* first await of its update, then the reward.
settle(t, recovered, intervened, significant) ==
  LET c == observe(observations[t], recovered, intervened)
  IN  /\ MapThenSumSet(LAMBDA x : Total(arm[x]), Tenant) < MaxOutcomes
      /\ observations' = [observations EXCEPT ![t] = c]
      /\ updating' = IF Total(c) < UpdateAt THEN updating
                     ELSE updating \cup {[post |-> [by |-> t, of |-> c,
                                                    status |-> posteriorStatus(c, significant)],
                                          step |-> "model"]}
      /\ arm' = [arm EXCEPT ![t] = updateReward(@, recovered, intervened)]
      /\ UNCHANGED <<modelRow, priorRow, cache, restarts, reads>>

\* updateCalibratedDistributions, one await at a time: the row of the reason, the
\* tenant's prior, and, back in recordRealtimeObservation, the cache.
updateCalibratedDistributions(u) ==
  /\ u \in updating /\ u.step = "model"
  /\ modelRow' = u.post
  /\ updating' = (updating \ {u}) \cup {[u EXCEPT !.step = "prior"]}
  /\ UNCHANGED <<observations, arm, priorRow, cache, restarts, reads>>

persistPrior(u) ==
  /\ u \in updating /\ u.step = "prior"
  /\ priorRow' = [priorRow EXCEPT ![u.post.by] = u.post]
  /\ updating' = (updating \ {u}) \cup {[u EXCEPT !.step = "cache"]}
  /\ UNCHANGED <<observations, arm, modelRow, cache, restarts, reads>>

fillCache(u) ==
  /\ u \in updating /\ u.step = "cache"
  /\ cache' = u.post
  /\ updating' = updating \ {u}
  /\ UNCHANGED <<observations, arm, modelRow, priorRow, restarts, reads>>

\* A statement of the update fails: the rest of it is dropped with a warning.
updateFails(u) ==
  /\ u \in updating /\ u.step # "cache"
  /\ updating' = updating \ {u}
  /\ UNCHANGED <<observations, arm, modelRow, priorRow, cache, restarts, reads>>

Reading(post) ==
  /\ reads < MaxReads /\ reads' = reads + 1
  /\ updating' = updating \cup {[post |-> post, step |-> "cache"]}
  /\ UNCHANGED <<observations, arm, modelRow, priorRow, cache, restarts>>

\* A tenant's stored prior is on its way to the cache, always as an active model.
loadPriorsFromDatabase(t) ==
  priorRow[t] # None /\ Reading([priorRow[t] EXCEPT !.status = "ACTIVE"])

\* So is the reason's row, if it is active and large enough.
getEffectiveProbabilities ==
  /\ modelRow # None /\ modelRow.status = "ACTIVE" /\ Total(modelRow.of) >= Calibrated
  /\ Reading(modelRow)

Restart ==
  /\ restarts < MaxRestarts /\ restarts' = restarts + 1
  /\ observations' = [t \in Tenant |-> Zero] /\ updating' = {} /\ cache' = None
  /\ UNCHANGED <<arm, modelRow, priorRow, reads>>

Init ==
  /\ observations = [t \in Tenant |-> Zero] /\ arm = [t \in Tenant |-> Zero]
  /\ updating = {} /\ modelRow = None /\ priorRow = [t \in Tenant |-> None] /\ cache = None
  /\ restarts = 0 /\ reads = 0

Next ==
  \/ \E t \in Tenant, recovered, intervened, significant \in BOOLEAN :
       settle(t, recovered, intervened, significant)
  \/ \E u \in updating : updateCalibratedDistributions(u) \/ persistPrior(u)
                         \/ fillCache(u) \/ updateFails(u)
  \/ \E t \in Tenant : loadPriorsFromDatabase(t)
  \/ getEffectiveProbabilities
  \/ Restart

Spec == Init /\ [][Next]_vars

-----------------------------------------------------------------------------
(* Properties.                                                             *)

Stored == {modelRow, cache} \cup {priorRow[t] : t \in Tenant} \cup {u.post : u \in updating}

\* Whatever the order in which updates overtake each other, and whatever a restart
\* forgets, every posterior in a table, in the cache or on its way is of outcomes
\* that its tenant really had: none is counted that the arm has not counted, none
\* is counted twice, and no tenant's counts are added to another's.
EvidenceIsReal ==
  \A p \in Stored \ {None} :
    LET a == arm[p.by]
    IN  /\ p.of.intSucc <= a.intSucc /\ p.of.natSucc <= a.natSucc
        /\ p.of.intTot - p.of.intSucc <= a.intTot - a.intSucc
        /\ p.of.natTot - p.of.natSucc <= a.natTot - a.natSucc
=============================================================================
