-------------------------------- MODULE Advisors --------------------------------
(***************************************************************************)
(* What the agents advise on one failed payment: the diagnosis of the      *)
(* failure, the specialists and their vetoes, the planner and the          *)
(* replanner, the rule-based reasoning that stands in for a language       *)
(* model, and the portfolio sweep with its confidence arithmetic.  All are *)
(* pure functions of a copy of the opportunity, of its first annotation    *)
(* (which no later one replaces) and of its score; the opportunity itself  *)
(* changes while they are asked, in any order.                             *)
(***************************************************************************)
EXTENDS Integers, FiniteSets

CONSTANTS
  Iven,         \* expected incremental values of scores, in paise
  MaxAttempts,  \* bound on attempt_count
  MaxReplans    \* the mission's replan budget (max_replans)

VARIABLES
  opp,         \* the opportunity: decline_type, reason_code, attempt_count
  facts,       \* what does not change: the score and the time of creation
  annotation,  \* the first perception annotation's customer_urgency_score
  plans,       \* plans made so far
  advice       \* the latest advice: who gave it, what, and on what

vars == <<opp, facts, annotation, plans, advice>>

Reason == {"STOLEN_CARD", "FRAUD_SUSPECTED", "GATEWAY_TIMEOUT", "INSUFFICIENT_FUNDS",
           "EXPIRED_CARD", "USER_CANCELLED", "TRANSACTION_LIMIT", "UNKNOWN_ERROR"}
Decline == {"hard", "soft", "unknown"}
ValidActions == {"ACT", "WAIT", "ABSTAIN", "SEND_PAYMENT_LINK", "DEFER_RETRY", "MANUAL_REVIEW"}
Pursuit == {"ACT", "SEND_PAYMENT_LINK"}

Opportunity == [decline : Decline, reason : Reason, attempts : 1..MaxAttempts]
Facts == [iven : Iven, window : {"maintenance", "salary", "plain"}]
Health == {50, 95}      \* of the gateway, in hundredths
NoUrgency == -1
NoAdvice == [by |-> "nobody", says |-> "WAIT", hard |-> FALSE, stop |-> FALSE, draft |-> FALSE,
             gateway |-> 95]

TypeOK ==
  /\ opp \in Opportunity /\ facts \in Facts
  /\ annotation \in {NoUrgency} \cup 0..100
  /\ plans \in 0..(MaxReplans + 1)
  /\ advice.draft \in BOOLEAN /\ advice.gateway \in Health

-----------------------------------------------------------------------------
(* Perception.  Urgencies are in hundredths.                               *)

\* Reason codes the text search of the diagnosis takes for a security stop.
SecurityStop == {"STOLEN_CARD", "FRAUD_SUSPECTED"}

category(o) ==
  CASE o.decline = "hard" \/ o.reason \in SecurityStop -> "SECURITY_STOP"
    [] o.decline # "hard" /\ o.reason = "GATEWAY_TIMEOUT" -> "NETWORK_LATENCY"
    [] o.decline # "hard" /\ o.reason = "INSUFFICIENT_FUNDS" -> "INSUFFICIENT_FUNDS"
    [] o.decline # "hard" /\ o.reason = "EXPIRED_CARD" -> "CARD_EXPIRED"
    [] o.decline # "hard" /\ o.reason = "USER_CANCELLED" -> "USER_ABORT"
    [] o.decline # "hard" /\ o.reason = "TRANSACTION_LIMIT" -> "LIMIT_EXCEEDED"
    [] o.decline # "hard" /\ o.reason = "UNKNOWN_ERROR" -> "TECHNICAL_GLITCH"

diagnosedUrgency(o) ==
  [SECURITY_STOP |-> 5, NETWORK_LATENCY |-> 85, INSUFFICIENT_FUNDS |-> 65, CARD_EXPIRED |-> 70,
   USER_ABORT |-> 75, LIMIT_EXCEEDED |-> 60, TECHNICAL_GLITCH |-> 60][category(o)]

\* Advice on the opportunity as it is; `drafted' with a message to the customer.
saysOver(gateway, who, what, drafted) ==
  advice' = [by |-> who, says |-> what, hard |-> opp.decline = "hard",
             stop |-> category(opp) = "SECURITY_STOP", draft |-> drafted, gateway |-> gateway]
says(who, what) == saysOver(95, who, what, FALSE)

\* The annotation of the diagnosis made on ingestion.
diagnoseFailureReason ==
  /\ annotation' = IF annotation = NoUrgency THEN diagnosedUrgency(opp) ELSE annotation
  /\ says("diagnosis", IF category(opp) = "SECURITY_STOP" THEN "ABSTAIN" ELSE "WAIT")
  /\ UNCHANGED <<opp, facts, plans>>

\* Codes of banks: only a stolen or lost card is hard here.
bankSaysHard(o) == o.reason = "STOLEN_CARD"

\* An annotation that exists is returned as it is, however old.
analyzeOpportunity(o) ==
  CASE annotation # NoUrgency -> annotation
    [] annotation = NoUrgency /\ (o.decline = "hard" \/ bankSaysHard(o)) -> 5
    [] annotation = NoUrgency /\ ~(o.decline = "hard" \/ bankSaysHard(o)) ->
         IF o.reason = "GATEWAY_TIMEOUT" \/ facts.window = "maintenance" THEN 85
         ELSE IF o.attempts >= 3 THEN 30
         ELSE IF facts.window = "salary" THEN 75 ELSE 60

-----------------------------------------------------------------------------
(* The specialists.                                                        *)

checkPreExecutionCompliance(o, night) ==
  CASE o.decline = "hard" \/ o.reason \in {"STOLEN_CARD", "FRAUD_SUSPECTED", "EXPIRED_CARD"} ->
         "hard_decline_blocked"
    [] o.decline # "hard" /\ o.reason \notin {"STOLEN_CARD", "FRAUD_SUSPECTED", "EXPIRED_CARD"} ->
         IF o.attempts >= 3 THEN "contact_limit_exceeded"
         ELSE IF night THEN "dnd_active" ELSE "can_proceed"

\* Mutant: the veto of the compliance check counts only at night.
ensembleUnvetoed(o, night, urgency) ==
  CASE checkPreExecutionCompliance(o, night) = "dnd_active" -> "WAIT"
    [] checkPreExecutionCompliance(o, night) # "dnd_active" ->
         IF facts.iven <= 0 THEN "ABSTAIN" ELSE IF urgency < 25 THEN "WAIT" ELSE "ACT"

\* The vetoes come before the economic and the perception's recommendation.
ensemble(o, night, urgency) ==
  LET verdict == checkPreExecutionCompliance(o, night) IN
  CASE o.decline = "hard" \/ verdict = "hard_decline_blocked" -> "ABSTAIN"
    [] o.decline # "hard" /\ verdict \in {"dnd_active", "contact_limit_exceeded"} -> "WAIT"
    [] o.decline # "hard" /\ verdict = "can_proceed" ->
         IF facts.iven <= 0 THEN "ABSTAIN" ELSE IF urgency < 25 THEN "WAIT" ELSE "ACT"

\* A message is drafted when compliance lets it; the draft waits for review.
draftCustomerCommunication(o, night) ==
  checkPreExecutionCompliance(o, night) = "can_proceed" /\ o.decline # "hard"

coordinateSpecialists(night) ==
  /\ annotation' = analyzeOpportunity(opp)
  /\ saysOver(95, "specialists", ensemble(opp, night, annotation'),
              draftCustomerCommunication(opp, night))
  /\ UNCHANGED <<opp, facts, plans>>

-----------------------------------------------------------------------------
(* Reasoning without a model, and plans.                                   *)

generateDeterministicFallbackIntent(o) ==
  CASE o.decline = "hard" \/ o.attempts >= 3 -> "ABSTAIN"
    [] o.decline # "hard" /\ o.attempts < 3 ->
         IF o.reason = "GATEWAY_TIMEOUT" THEN "WAIT" ELSE "SEND_PAYMENT_LINK"

mapPreferredAction(a) ==
  CASE a \in {"ABSTAIN", "MANUAL_REVIEW"} -> "ABSTAIN"
    [] a \in {"WAIT", "DEFER_RETRY"} -> "WAIT"
    [] a \in {"ACT", "SEND_PAYMENT_LINK"} -> "ACT"

deterministicReason(o) ==
  CASE o.decline = "hard" \/ o.attempts >= 3 -> "ABSTAIN"
    [] o.decline # "hard" /\ o.attempts < 3 ->
         IF o.reason = "GATEWAY_TIMEOUT" THEN "WAIT" ELSE "ACT"

\* The reasoning steps are used up: the score decides.
forceDecision(o) ==
  CASE o.decline = "hard" -> "ABSTAIN"
    [] o.decline # "hard" -> IF facts.iven > 0 THEN "ACT" ELSE "ABSTAIN"

\* An intent: a model's answer, checked against the action list, or the rules'.
AgentIntent(o) == ValidActions \cup {generateDeterministicFallbackIntent(o)}

\* A reasoning step that decides: by a model's intent, by the rules when the
\* provider throws, or forced.
reason ==
  /\ \/ \E a \in AgentIntent(opp) : says("model", mapPreferredAction(a))
     \/ says("rules", deterministicReason(opp))
     \/ says("rules", mapPreferredAction(generateDeterministicFallbackIntent(opp)))
     \/ says("forced", forceDecision(opp))
  /\ UNCHANGED <<opp, facts, annotation, plans>>

\* Mutant: the planner takes the model's preference as it is.
preferredAsProposed(o, proposed) == proposed

\* The planner: candidates of the rules and of the intent, then the override
\* for hard declines.
preferredAction(o, proposed) == IF o.decline = "hard" THEN "ABSTAIN" ELSE proposed

createPlan ==
  /\ plans = 0 /\ plans' = 1
  /\ \E a \in AgentIntent(opp) : says("planner", preferredAction(opp, a))
  /\ UNCHANGED <<opp, facts, annotation>>

\* The active plan's assumptions: gateway health and the retry cap.
validateActivePlan(gateway) == gateway >= 75 /\ opp.attempts < 3

\* Without an intent the planner prefers a payment link.
executeReplan(gateway) ==
  /\ plans > 0 /\ ~validateActivePlan(gateway) /\ plans <= MaxReplans
  /\ plans' = plans + 1
  /\ saysOver(gateway, "planner", preferredAction(opp, "SEND_PAYMENT_LINK"), FALSE)
  /\ UNCHANGED <<opp, facts, annotation>>

-----------------------------------------------------------------------------
(* The portfolio sweep.  Confidences are in thousandths, the composite in  *)
(* hundred-thousandths.                                                    *)

modelConfidence(samples, error) ==
  CASE samples >= 30 -> 1000 - error
    [] samples >= 10 /\ samples < 30 -> 600 - (error * 3) \div 10
    [] samples < 10 -> 350

dataConfidence(scored, perceived, customer, gateway) ==
  200 + (IF scored THEN 250 ELSE 0) + (IF perceived THEN 250 ELSE 0)
      + (IF customer THEN 150 ELSE 0) + (IF gateway THEN 150 ELSE 0)

operationalCost(attempts) ==
  400 + (CASE attempts = 1 -> 0 [] attempts = 2 -> 250 [] attempts = 3 -> 750
           [] attempts > 3 -> 1500 + (attempts - 4) * 500)

\* Mutant: a missing score counts as a certain one.
economicOptimist(scored, iven, cost) ==
  CASE ~scored -> 950
    [] scored -> IF iven > cost * 5 THEN 950 ELSE IF iven > cost * 2 THEN 750
                 ELSE IF iven > cost THEN 550 ELSE IF iven > 0 THEN 350 ELSE 100

economicConfidence(scored, iven, cost) ==
  CASE ~scored -> 300
    [] scored -> IF iven > cost * 5 THEN 950 ELSE IF iven > cost * 2 THEN 750
                 ELSE IF iven > cost THEN 550 ELSE IF iven > 0 THEN 350 ELSE 100

\* assess: the weighted composite.
composite(samples, error, scored, perceived, customer, gateway, iven, cost) ==
  35 * modelConfidence(samples, error) + 35 * dataConfidence(scored, perceived, customer, gateway)
    + 30 * economicConfidence(scored, iven, cost)

recommendation(c, missing) ==
  CASE c >= 70000 -> "PROCEED"
    [] c >= 40000 /\ c < 70000 -> "INVESTIGATE"
    [] c < 40000 -> IF missing >= 3 THEN "ABSTAIN" ELSE "HUMAN_REVIEW"

\* The composite is handed on rounded to four places.
estimate(iven, gateway, c) ==
  LET conf == (c + 5) \div 10
      evoi == (iven * (10000 - conf) + 25000) \div 50000 IN
  CASE gateway < 75 -> IF evoi > 200 THEN "INVESTIGATE" ELSE "WAIT"
    [] gateway >= 75 -> IF iven <= 5000 THEN "WAIT"
                        ELSE IF conf >= 7000 THEN "ACT"
                        ELSE IF evoi > 200 THEN "INVESTIGATE" ELSE "ACT"

\* Mutant: the information value is not asked.
proposedByConfidence(o, perceived, customer, gateway) ==
  LET c == composite(15, 250, TRUE, perceived, customer, TRUE, facts.iven,
                     operationalCost(o.attempts)) IN
  IF o.decline = "hard" \/ recommendation(c, 0) = "HUMAN_REVIEW" THEN "WAIT" ELSE "ACT"

proposedAction(o, perceived, customer, gateway) ==
  LET c == composite(15, 250, TRUE, perceived, customer, TRUE, facts.iven,
                     operationalCost(o.attempts))
      missing == Cardinality({x \in {"perception"} : ~perceived}
                             \cup {x \in {"customer"} : ~customer})
      info == estimate(facts.iven, gateway, c) IN
  CASE o.decline = "hard" -> "WAIT"
    [] o.decline # "hard" ->
         IF recommendation(c, missing) = "INVESTIGATE" \/ info = "INVESTIGATE" THEN "INVESTIGATE"
         ELSE IF info = "WAIT" \/ recommendation(c, missing) = "HUMAN_REVIEW" THEN "WAIT"
         ELSE "ACT"

sweep(customer, gateway) ==
  /\ saysOver(gateway, "portfolio",
              proposedAction(opp, annotation # NoUrgency, customer, gateway), FALSE)
  /\ UNCHANGED <<opp, facts, annotation, plans>>

-----------------------------------------------------------------------------
\* The payment fails again: the row is ingested anew.
failsAgain ==
  /\ opp.attempts < MaxAttempts
  /\ \E d \in Decline, r \in Reason :
       opp' = [decline |-> d, reason |-> r, attempts |-> opp.attempts + 1]
  /\ UNCHANGED <<facts, annotation, plans, advice>>

Init ==
  /\ opp \in [decline : Decline, reason : Reason, attempts : {1}] /\ facts \in Facts
  /\ annotation = NoUrgency /\ plans = 0 /\ advice = NoAdvice

Next ==
  \/ diagnoseFailureReason \/ reason \/ createPlan \/ failsAgain
  \/ \E night \in BOOLEAN : coordinateSpecialists(night)
  \/ \E gateway \in Health : executeReplan(gateway) \/ \E k \in BOOLEAN : sweep(k, gateway)

Spec == Init /\ [][Next]_vars

-----------------------------------------------------------------------------
\* Nothing in the system asks to contact the customer of a hard decline
\* (planner.ts 43-46, specialist_router.ts 121-128, compliance_copilot.ts 28):
\* however old the annotation and whatever the model prefers, a plan made on a
\* hard decline abstains, no advice but a raw model answer pursues it, and a
\* message is drafted only for a payment every veto lets through.
HardDeclineIsNotPursued ==
  /\ advice.hard /\ advice.by # "model" => advice.says \notin Pursuit
  /\ advice.by = "specialists" =>
       /\ advice.stop => advice.says = "ABSTAIN"
       /\ advice.says = "ACT" => advice.draft

\* The sweep proposes to act only where acting pays: above the borderline
\* value, over a healthy gateway, and with the evidence at hand
\* (information_value.ts 61-88, portfolio_agent.ts 130-140).
OnlyWorthwhileIsProposed ==
  advice.by = "portfolio" /\ advice.says = "ACT" =>
    ~advice.hard /\ advice.gateway >= 75 /\ facts.iven > 5000

\* Evidence never counts against an opportunity: with one more signal known the
\* composite confidence is not lower, even when the signal is a worthless score
\* (uncertainty.ts 56-110).
MoreEvidenceNeverHurts ==
  advice = NoAdvice =>
  \A samples \in {5, 15, 40}, scored, perceived, customer, gateway \in BOOLEAN :
    LET c(s, p, k, g) == composite(samples, 250, s, p, k, g, facts.iven,
                                   operationalCost(opp.attempts)) IN
    /\ c(TRUE, perceived, customer, gateway) >= c(scored, perceived, customer, gateway)
    /\ c(scored, TRUE, customer, gateway) >= c(scored, perceived, customer, gateway)
    /\ c(scored, perceived, TRUE, TRUE) >= c(scored, perceived, customer, gateway)
====
