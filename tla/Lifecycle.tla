------------------------------ MODULE Lifecycle ------------------------------
(***************************************************************************)
(* The pure vocabulary of the recovery control plane: the status of an     *)
(* opportunity and the guard every ordinary writer goes through, the       *)
(* compliance verdict, and how a payment link as the provider reports it   *)
(* is read and turned into the status an opportunity is reconciled to.     *)
(* No state lives here.                                                    *)
(***************************************************************************)
EXTENDS Naturals

Status == {"pending", "scored", "allocated", "authorized", "deferred",
           "blocked", "abstained", "executing", "recovered", "not_recovered"}

-----------------------------------------------------------------------------
(* Writing a status.                                                       *)

\* The rows of updateStatus's table of rejected transitions.
invalidTransitions ==
  [s \in Status |->
    CASE s = "pending"       -> {"executing", "recovered", "not_recovered"}
      [] s = "scored"        -> {"executing", "pending", "recovered", "not_recovered"}
      [] s = "allocated"     -> {"pending", "scored", "recovered"}
      [] s = "authorized"    -> {"pending", "scored", "allocated"}
      [] s = "deferred"      -> {"executing", "recovered"}
      [] s = "blocked"       -> {"pending", "scored", "allocated", "authorized",
                                 "executing", "recovered"}
      [] s = "abstained"     -> {"pending", "allocated", "authorized",
                                 "executing", "recovered"}
      [] s = "executing"     -> {"pending", "scored", "allocated", "authorized"}
      [] s = "recovered"     -> Status \ {"recovered"}
      [] s = "not_recovered" -> {"pending", "scored", "allocated", "authorized",
                                 "executing"}]

\* Mutant: the terminal guard on recovered is missing.
updateStatusWithoutTerminalGuard(from, to) ==
  IF from # "recovered" /\ to \in invalidTransitions[from] THEN from ELSE to

\* What the row holds after updateStatus(id, to): a rejected write is a no-op.
updateStatus(from, to) ==
  IF \/ from = "recovered" /\ to # "recovered"
     \/ to \in invalidTransitions[from]
  THEN from
  ELSE to

-----------------------------------------------------------------------------
(* The verdict of the authority rules.  Failed rules rank BLOCKED over     *)
(* ABSTAIN over WAIT.                                                      *)

Verdict == {"AUTHORIZED", "BLOCKED", "ABSTAIN", "WAIT"}
Decision == {"none", "ACT", "WAIT", "ABSTAIN"}

RetryCap == 3

RuleVerdict(killSwitch, hardDecline, attempts, lowConfidence, decision) ==
  IF killSwitch \/ hardDecline \/ attempts >= RetryCap THEN "BLOCKED"
  ELSE IF lowConfidence THEN "ABSTAIN"
  ELSE IF decision # "ACT" THEN "WAIT"
  ELSE "AUTHORIZED"

suggestedStatus ==
  [v \in Verdict |->
    CASE v = "AUTHORIZED" -> "authorized"
      [] v = "BLOCKED"    -> "blocked"
      [] v = "ABSTAIN"    -> "abstained"
      [] v = "WAIT"       -> "deferred"]

-----------------------------------------------------------------------------
(* Reading the provider.  A payload is a payment link as the provider      *)
(* reports it: its status and the amount paid so far.                      *)

\* Mutant: a link that exists counts as paid.
createdCountsAsRecovered(payload) == payload.status \in {"created", "paid", "captured"}

\* ProviderTruthEvaluator.evaluate(...).is_recovered
isRecovered(payload) ==
  payload.status \in {"paid", "captured"} /\ payload.paid > 0

mapRazorpayStatusToCanonicalState(payload, amount) ==
  LET s == payload.status
  IN  CASE s \in {"paid", "captured"} /\ payload.paid > 0 ->
             IF amount > 0 /\ payload.paid < amount
             THEN "MISMATCH" ELSE "PAYMENT_CONFIRMED"
        [] s = "partially_paid" /\ payload.paid > 0 -> "MISMATCH"
        [] s \in {"created", "issued", "simulated"}
             \/ (s = "partially_paid" /\ payload.paid = 0) -> "PROVIDER_OBJECT_CREATED"
        [] s = "expired"   -> "EXPIRED"
        [] s = "cancelled" -> "CANCELLED"
        [] s = "failed"    -> "FAILED"
        [] OTHER           -> "UNKNOWN"

\* The status reconcileOpportunity writes for an opportunity it read in
\* status "current", and the status it gives the execution record.
targetOpportunityStatus(current, payload, amount) ==
  LET c == mapRazorpayStatusToCanonicalState(payload, amount)
  IN  IF c = "PAYMENT_CONFIRMED" \/ isRecovered(payload) THEN "recovered"
      ELSE IF c \in {"EXPIRED", "CANCELLED", "FAILED"} THEN "not_recovered"
      ELSE IF c = "MISMATCH" THEN "executing"
      ELSE IF current \in {"pending", "deferred", "allocated"} THEN "executing"
      ELSE current

targetExecStatus(payload, amount) ==
  LET c == mapRazorpayStatusToCanonicalState(payload, amount)
  IN  IF c = "PAYMENT_CONFIRMED" \/ isRecovered(payload) THEN "completed"
      ELSE IF c \in {"EXPIRED", "CANCELLED", "FAILED"} THEN "failed"
      ELSE "created"
=============================================================================
