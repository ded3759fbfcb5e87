------------------------------ MODULE Economics ------------------------------
(***************************************************************************)
(* From a failed payment to an authorised intervention: the decline's      *)
(* taxonomy, its score, the market that shares a capacity among the        *)
(* opportunities worth acting on, and the authority gate over its          *)
(* decisions.  The market and the gate run without an await; what is       *)
(* interleaved is when they run, when a score is computed again and when   *)
(* the calibrated model changes.                                           *)
(*                                                                         *)
(* An error text is the set of patterns it contains.  Probabilities are in *)
(* ten-thousandths and money in paise, as in the source.                   *)
(***************************************************************************)
EXTENDS Lifecycle, Integers, FiniteSets

CONSTANTS
  Opp,              \* ids, in the order in which they are ingested
  Errors,           \* [code, reason] of a payment: the sets of patterns they contain
  Amounts,          \* amount_paise of a payment
  GivenAttempts,    \* the payload's attempts; 0 stands for absent
  Pair,             \* [nat, int] a calibrated model or a bandit sample may hold
  Signal,           \* [prob, fatigue] the semantic signals add up to
  Capacities,
  MaxScorings       \* bound: scores computed again

Probability == 0..10000

ASSUME EconomicsAssumption ==
  /\ Opp \subseteq Nat /\ Amounts \subseteq Int /\ GivenAttempts \subseteq Int
  /\ Pair \subseteq [nat : Probability, int : Probability] /\ Signal \subseteq [prob : Int, fatigue : Int]
  /\ Capacities \subseteq Int /\ MaxScorings \in Nat

VARIABLES
  row,        \* opportunities by id, or NoRow
  score,      \* scores table, or NoScore
  decision,   \* allocation decisions table
  model,      \* the calibrated pair of the hot cache, or NoModel
  market,     \* what the last runMarketAllocation returned
  scorings

vars == <<row, score, decision, model, market, scorings>>

NoRow == [decline |-> "none"]
NoScore == [iven |-> 0, confidence |-> "none"]
NoModel == [nat |-> -1, int |-> -1]
NoMarket == [capacity |-> -1, shadow |-> 0, rank |-> <<>>, abstained |-> {}, at |-> <<>>]

-----------------------------------------------------------------------------
(* Perception: the taxonomy.                                               *)

HARD_DECLINE_PATTERNS ==
  {"stolen_card", "lost_card", "pickup_card", "restricted_card", "invalid_vpa",
   "account_blocked", "npci_xb"}
SOFT_DECLINE_PATTERNS ==
  {"insufficient_funds", "expired_card", "generic_decline", "do_not_honor",
   "bank_gateway_timeout", "gateway_error", "limit_exceeded", "npci_u30"}
SoftKeywords == {"insufficient", "timeout", "network", "expired", "honor",
                 "authentication", "temporary"}

\* Mutant: the reason is not looked at for a hard decline.
classifyByCodeOnly(code, reason) ==
  IF code \cap HARD_DECLINE_PATTERNS # {} THEN "hard"
  ELSE IF (code \cup reason) \cap (SOFT_DECLINE_PATTERNS \cup SoftKeywords) # {} THEN "soft"
  ELSE "unknown"

classifyDeclineTaxonomy(code, reason) ==
  IF (code \cup reason) \cap HARD_DECLINE_PATTERNS # {} THEN "hard"
  ELSE IF (code \cup reason) \cap (SOFT_DECLINE_PATTERNS \cup SoftKeywords) # {} THEN "soft"
  ELSE "unknown"

Known == {o \in Opp : row[o] # NoRow}

\* One customer: without a count of its own a payment is one more attempt than
\* the opportunities on record.  "held" says whether the id's hash falls in the
\* control group.
normalizeOpportunity(code, reason, amount, given, held) ==
  [code |-> code, reason |-> reason, amount |-> amount,
   decline |-> classifyDeclineTaxonomy(code, reason),
   attempts |-> IF given >= 1 THEN given ELSE Cardinality(Known) + 1,
   held |-> held, status |-> "pending"]

-----------------------------------------------------------------------------
(* Scoring.                                                                *)

STATIC_PROBABILITY_TABLE ==
  [insufficient_funds |-> [nat |-> 3500, int |-> 5500], expired_card |-> [nat |-> 500, int |-> 6000],
   generic_decline |-> [nat |-> 2500, int |-> 4500], network_error |-> [nat |-> 4500, int |-> 7500],
   bank_gateway_timeout |-> [nat |-> 6000, int |-> 7000], hard_decline |-> [nat |-> 200, int |-> 200],
   default |-> [nat |-> 1500, int |-> 3500]]

\* The first pattern the stored reason code contains decides.
staticBase(code) ==
  LET has(patterns) == code \cap patterns # {}
      base == STATIC_PROBABILITY_TABLE
  IN  IF has({"insufficient_funds"}) THEN base.insufficient_funds
      ELSE IF has({"expired_card"}) THEN base.expired_card
      ELSE IF has({"bank_gateway_timeout"}) THEN base.bank_gateway_timeout
      ELSE IF has({"timeout", "network"}) THEN base.network_error
      ELSE IF has({"generic_decline", "do_not_honor"}) THEN base.generic_decline
      ELSE base.default

HardPair == [nat |-> 200, int |-> 200]

getEffectiveProbabilitiesSync(r) ==
  IF r.decline = "hard" THEN HardPair
  ELSE IF model # NoModel THEN model
  ELSE staticBase(r.code)

NonNegative(n) == IF n < 0 THEN 0 ELSE n
Clamp(n, lo, hi) == IF n < lo THEN lo ELSE IF n > hi THEN hi ELSE n
Incremental(p) == NonNegative(p.int - p.nat)

estimateProbabilities(r) == IF r.decline = "hard" THEN HardPair ELSE getEffectiveProbabilitiesSync(r)

\* A Thompson sample is any pair, but for a hard decline.
sampleProbabilities(r, sample) == IF r.decline = "hard" THEN HardPair ELSE sample

calculateCosts(n) ==
  400 + CASE n <= 1 -> 0 [] n = 2 -> 250 [] n = 3 -> 750 [] OTHER -> 1500 + (n - 4) * 500

determineConfidence(r) ==
  CASE r.decline = "unknown" \/ r.attempts >= 3 -> "low"
    [] r.decline # "unknown" /\ r.attempts < 3
       /\ (r.decline = "hard" \/ r.code \cap {"timeout", "network", "bank_gateway_timeout"} # {}) -> "high"
    [] OTHER -> "medium"

\* Math.round of a gross in ten-thousandths of a paisa.
Gross(inc, amount) == (2 * inc * amount + 10000) \div 20000

calculateScore(r, pair) ==
  LET iven == Gross(Incremental(pair), NonNegative(r.amount)) - calculateCosts(Clamp(r.attempts, 1, 20))
  IN  [iven |-> IF r.decline = "hard" THEN Clamp(iven, iven, 0) ELSE iven,
       confidence |-> determineConfidence(r)]

\* What the semantic signals may add is bounded.
calculateModifiers(sig) ==
  [prob |-> Clamp(sig.prob, -1000, 1000), fatigue |-> Clamp(sig.fatigue, 0, 500)]

bridgedScore(r, sig) ==
  LET m == calculateModifiers(sig)
      inc == IF r.decline = "hard" THEN 0
             ELSE Clamp(Incremental(estimateProbabilities(r)) + m.prob, 0, 9500)
  IN  [iven |-> Gross(inc, r.amount) - calculateCosts(r.attempts) - m.fatigue,
       confidence |-> determineConfidence(r)]

\* The stored score, or the one scoreOpportunity stores where there is none.
ScoreOf(o) == IF score[o] # NoScore THEN score[o] ELSE calculateScore(row[o], estimateProbabilities(row[o]))

-----------------------------------------------------------------------------
(* The market.                                                             *)

Candidates == {o \in Known : row[o].status \in {"pending", "scored", "deferred"}}

isSyntheticHoldout(o) == row[o].held

Worth(o) == ScoreOf(o).confidence # "low" /\ ScoreOf(o).iven > 0 /\ ~isSyntheticHoldout(o)
Eligible == {o \in Candidates : Worth(o)}

\* Mutant: the eligible stay in the order of getAllOpportunities, newest first.
listedBefore(a, b) == a > b

\* By value, the stable sort keeping the listing's order among equals.
ranksBefore(a, b) ==
  \/ ScoreOf(a).iven > ScoreOf(b).iven
  \/ ScoreOf(a).iven = ScoreOf(b).iven /\ a > b

rankInBatch(o) == Cardinality({p \in Eligible : ranksBefore(p, o)}) + 1

\* What the last unit of capacity earns, where the capacity binds.
shadowPrice(capacity) ==
  IF Cardinality(Eligible) >= capacity /\ capacity > 0
  THEN ScoreOf(CHOOSE o \in Eligible : rankInBatch(o) = capacity).iven ELSE 0

\* What the market decides for each candidate, and the status it writes.
MarketDecision(capacity, o) ==
  IF o \notin Eligible THEN "ABSTAIN" ELSE IF rankInBatch(o) <= capacity THEN "ACT" ELSE "WAIT"

MarketStatus == [ACT |-> "allocated", WAIT |-> "deferred", ABSTAIN |-> "abstained"]

\* The tables after runMarketAllocation; a pending row is scored on the way.
AfterMarket(capacity) ==
  LET decided == [o \in Candidates |-> MarketDecision(capacity, o)]
      scored(r) == IF r.status = "pending" THEN "scored" ELSE r.status
  IN  [row |-> [o \in Opp |-> IF o \in Candidates
                              THEN [row[o] EXCEPT !.status =
                                      updateStatus(IF score[o] = NoScore THEN scored(row[o]) ELSE @,
                                                   MarketStatus[decided[o]])]
                              ELSE row[o]],
       score |-> [o \in Opp |-> IF o \in Candidates THEN ScoreOf(o) ELSE score[o]],
       decision |-> [o \in Opp |-> IF o \in Candidates THEN decided[o] ELSE decision[o]],
       result |-> [capacity |-> capacity, shadow |-> shadowPrice(capacity),
                   rank |-> [o \in Eligible |-> rankInBatch(o)], abstained |-> Candidates \ Eligible,
                   at |-> [o \in Candidates |-> ScoreOf(o)]]]

-----------------------------------------------------------------------------
(* The gate.                                                               *)

verdictOf(r, s, d) == RuleVerdict(FALSE, r.decline = "hard", r.attempts, s.confidence = "low", d)

\* The row after evaluateOpportunity with a score and a decision ("none" is the
\* default WAIT).
Evaluated(r, s, d) == [r EXCEPT !.status = updateStatus(@, suggestedStatus[verdictOf(r, s, d)])]

-----------------------------------------------------------------------------
(* Actions.                                                                *)

ingest(o, code, reason, amount, given, held) ==
  /\ row[o] = NoRow /\ \A p \in Opp : p < o => row[p] # NoRow
  /\ row' = [row EXCEPT ![o] = normalizeOpportunity(code, reason, amount, given, held)]
  /\ UNCHANGED <<score, decision, model, market, scorings>>

\* scoreOpportunity, from the routes that score anew; the pair is the model's or,
\* with ENABLE_THOMPSON_SAMPLING, a sample of the bandit.
scoreOpportunity(o, pair) ==
  /\ o \in Known /\ scorings < MaxScorings /\ scorings' = scorings + 1
  /\ score' = [score EXCEPT ![o] = calculateScore(row[o], pair)]
  /\ row' = [row EXCEPT ![o].status = IF @ = "pending" THEN "scored" ELSE @]
  /\ UNCHANGED <<decision, model, market>>

\* A mission's score is the deterministic one with bounded modifiers.
scoreWithSemanticBridge(o, sig) ==
  /\ o \in Known /\ scorings < MaxScorings /\ scorings' = scorings + 1
  /\ score' = [score EXCEPT ![o] = bridgedScore(row[o], sig)]
  /\ UNCHANGED <<row, decision, model, market>>

\* The calibrator promotes another pair into its cache.
modelChanges(m) ==
  /\ model # m /\ scorings < MaxScorings /\ scorings' = scorings + 1
  /\ model' = m
  /\ UNCHANGED <<row, score, decision, market>>

runMarketAllocation(capacity) ==
  LET m == AfterMarket(capacity)
  IN  /\ Candidates # {}
      /\ row' = m.row /\ score' = m.score /\ decision' = m.decision /\ market' = m.result
      /\ UNCHANGED <<model, scorings>>

\* The market, then the gate over what is allocated, pending or scored, with
\* the scores and decisions now stored.
runAuthorityPipeline(capacity) ==
  LET m == AfterMarket(capacity)
      gated == {o \in Known : m.row[o].status \in {"allocated", "pending", "scored"}}
  IN  /\ Known # {}
      /\ row' = [o \in Opp |-> IF o \in gated THEN Evaluated(m.row[o], m.score[o], m.decision[o]) ELSE m.row[o]]
      /\ score' = m.score /\ decision' = m.decision /\ market' = m.result
      /\ UNCHANGED <<model, scorings>>

\* One opportunity at the gate, outside any market run.
evaluateOpportunity(o) ==
  /\ o \in Known
  /\ LET r == IF score[o] = NoScore /\ row[o].status = "pending" THEN [row[o] EXCEPT !.status = "scored"]
              ELSE row[o]
     IN  row' = [row EXCEPT ![o] = Evaluated(r, ScoreOf(o), decision[o])]
  /\ score' = [score EXCEPT ![o] = ScoreOf(o)]
  /\ UNCHANGED <<decision, model, market, scorings>>

\* PortfolioAgent.sweep scores what has no score and proposes; it decides nothing.
sweep ==
  /\ \E o \in Candidates : score[o] = NoScore
  /\ score' = [o \in Opp |-> IF o \in Candidates THEN ScoreOf(o) ELSE score[o]]
  /\ row' = [o \in Opp |-> IF o \in Candidates /\ score[o] = NoScore /\ row[o].status = "pending"
                           THEN [row[o] EXCEPT !.status = "scored"] ELSE row[o]]
  /\ UNCHANGED <<decision, model, market, scorings>>

Init ==
  /\ row = [o \in Opp |-> NoRow] /\ score = [o \in Opp |-> NoScore]
  /\ decision = [o \in Opp |-> "none"] /\ model = NoModel /\ market = NoMarket
  /\ scorings = 0

Next ==
  \/ \E o \in Opp :
       \/ \E e \in Errors, amount \in Amounts, given \in GivenAttempts, held \in BOOLEAN :
            ingest(o, e.code, e.reason, amount, given, held)
       \/ \E pair \in Pair : o \in Known /\ scoreOpportunity(o, sampleProbabilities(row[o], pair))
       \/ o \in Known /\ scoreOpportunity(o, estimateProbabilities(row[o]))
       \/ \E sig \in Signal : scoreWithSemanticBridge(o, sig)
       \/ evaluateOpportunity(o)
  \/ \E m \in Pair : modelChanges(m)
  \/ \E capacity \in Capacities : runMarketAllocation(capacity) \/ runAuthorityPipeline(capacity)
  \/ sweep

Spec == Init /\ [][Next]_vars

-----------------------------------------------------------------------------
(* Properties.                                                             *)

Confidence == {"none", "low", "medium", "high"}
TypeOK ==
  /\ \A o \in Known : row[o].decline \in {"hard", "soft", "unknown"} /\ row[o].status \in Status
  /\ \A o \in Opp : score[o].iven \in Int /\ score[o].confidence \in Confidence
  /\ decision \in [Opp -> Decision] /\ model \in Pair \cup {NoModel} /\ scorings \in 0..MaxScorings

\* No choice of as many interventions as the capacity allows earns more: as many are
\* accepted as there are eligible and capacity for, and none that is left out is worth
\* more than an accepted one.  The shadow price is what the last unit of capacity
\* earned, and every candidate is ranked or abstained from (runMarketAllocation).
MarketIsOptimal ==
  market # NoMarket =>
    LET value(o) == market.at[o].iven
        eligible == {o \in DOMAIN market.at : value(o) > 0 /\ market.at[o].confidence # "low"
                                              /\ ~row[o].held}
        accepted == {o \in DOMAIN market.rank : market.rank[o] <= market.capacity}
        binds == market.capacity > 0 /\ Cardinality(eligible) >= market.capacity
    IN  /\ accepted \subseteq eligible /\ DOMAIN market.rank = eligible
        /\ Cardinality(accepted) = IF binds THEN market.capacity
                                   ELSE IF market.capacity <= 0 THEN 0 ELSE Cardinality(eligible)
        /\ \A a \in accepted, o \in eligible \ accepted : value(a) >= value(o)
        /\ IF binds THEN /\ \A a \in accepted : value(a) >= market.shadow
                         /\ \E a \in accepted : value(a) = market.shadow
           ELSE market.shadow = 0
        /\ market.abstained = DOMAIN market.at \ eligible

\* A payment the issuer declined for good, whichever field says so, and one of the
\* control group are never allocated nor authorised, whatever the calibrated
\* model, the bandit or the semantic signals say, and in whatever order scores,
\* markets and gates run; what is authorised was accepted by a market.
UnreachableStaysOut ==
  \A o \in Known :
    /\ row[o].status \in {"allocated", "authorized"} =>
         /\ (row[o].code \cup row[o].reason) \cap HARD_DECLINE_PATTERNS = {}
         /\ ~row[o].held
    /\ row[o].status = "authorized" => decision[o] = "ACT"
=============================================================================
