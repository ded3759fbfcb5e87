------------------------------ MODULE StateAudit ------------------------------
(***************************************************************************)
(* The operators' audit of the database against the provider and the       *)
(* script that repairs what it finds: an audit, one reconciliation per     *)
(* execution record, the sweep of stale missions, and the audit again.     *)
(* Customers pay, links expire and missions take steps while the script    *)
(* runs; no other reconciler does.                                         *)
(***************************************************************************)
EXTENDS Lifecycle, FiniteSets

CONSTANTS
  Audited,     \* opportunities that have an execution record
  MaxFetchFailures, \* bound on fetches of a link that fail
  MaxPayments  \* bound on what happens to links while the script runs

VARIABLES
  local,    \* per opportunity: the row's status, the record's, the booking, its link
  link,     \* the link as the provider has it
  mission,  \* a running mission: its age and its latest activity
  script,   \* how far the script is
  seen,     \* what the script read of each link; NotSeen before and on failure
  fetchFailures,
  payments

vars == <<local, link, mission, script, seen, fetchFailures, payments>>

Amount == 2
Links == {[status |-> s, paid |-> p] :
            s \in {"created", "partially_paid", "paid", "expired"}, p \in 0..Amount}
RealLinks == {l \in Links : /\ l.status \in {"created", "expired"} => l.paid = 0
                            /\ l.status = "partially_paid" => l.paid = 1
                            /\ l.status = "paid" => l.paid = Amount}
NotSeen == [status |-> "none", paid |-> 0]
Unsettled == Status \ {"recovered"}

\* Rows as the running system leaves them: nothing is reconciled yet, or all of it.
Rows == [opp : Unsettled, rec : {"created"}, booked : {FALSE}, mock : BOOLEAN]
          \cup [opp : {"recovered"}, rec : {"completed"}, booked : {TRUE}, mock : BOOLEAN]

TypeOK ==
  /\ local \in [Audited -> [opp : Status, rec : {"created", "completed", "failed"},
                            booked : BOOLEAN, mock : BOOLEAN]]
  /\ link \in [Audited -> RealLinks] /\ seen \in [Audited -> RealLinks \cup {NotSeen}]
  /\ mission \in {"none", "young", "active", "waiting", "stale", "aborted"}
  /\ script \in [at : {"start", "reconciling", "done"}, todo : SUBSET Audited, clean : BOOLEAN]
  /\ fetchFailures \in 0..MaxFetchFailures /\ payments \in 0..MaxPayments

-----------------------------------------------------------------------------
(* The audit.                                                              *)

\* A link of a unit test is taken for what the row says it is.
providerObj(o) ==
  CASE local[o].mock -> IF local[o].opp = "recovered"
                          THEN [status |-> "paid", paid |-> Amount]
                          ELSE [status |-> "created", paid |-> 0]
    [] ~local[o].mock -> link[o]

inconsistencies(o) ==
  LET truth == isRecovered(providerObj(o))
      row == local[o] IN
  {c \in {"PROVIDER_PAID_LOCAL_UNRECONCILED"} : truth /\ row.opp # "recovered"}
    \cup {c \in {"FALSE_LOCAL_RECOVERY"} : row.opp = "recovered" /\ ~truth}
    \cup {c \in {"EXECUTION_STATUS_MISMATCH"} : truth /\ row.rec # "completed"}
    \cup {c \in {"MISSING_DOUBLE_ENTRY_LEDGER"} : truth /\ ~row.booked}

\* The audit goes by the age of a mission, not by its steps.
staleRunningMission == mission \in {"active", "waiting", "stale"}

\* Debits and credits are the same sum of the same column.
unbalanced(debits, credits) == debits # credits

isFullyConsistent ==
  /\ \A o \in Audited : inconsistencies(o) = {}
  /\ ~staleRunningMission
  /\ LET sum == Cardinality({o \in Audited : local[o].booked}) * Amount IN ~unbalanced(sum, sum)

-----------------------------------------------------------------------------
(* The repair.                                                             *)

\* A database the first audit finds nothing in is gone through all the same.
begin ==
  /\ script.at = "start"
  /\ script' = [at |-> "reconciling", todo |-> Audited, clean |-> isFullyConsistent]
  /\ UNCHANGED <<local, link, mission, seen, fetchFailures, payments>>

\* Mutant: what is paid in part is settled too.
reconciledInPart(row, payload) ==
  [row EXCEPT !.opp = IF payload.paid > 0 THEN "recovered"
                      ELSE targetOpportunityStatus(row.opp, payload, Amount),
              !.rec = targetExecStatus(payload, Amount),
              !.booked = @ \/ payload.paid > 0]

\* What reconcileOpportunity's transaction leaves of a row that is not settled.
reconciled(row, payload) ==
  [row EXCEPT !.opp = targetOpportunityStatus(row.opp, payload, Amount),
              !.rec = targetExecStatus(payload, Amount),
              !.booked = @ \/ isRecovered(payload)]

\* The link is fetched and the row written; a settled row is left as it is.
reconcileOpportunity(o) ==
  /\ script.at = "reconciling" /\ o \in script.todo /\ ~local[o].mock
  /\ script' = [script EXCEPT !.todo = @ \ {o}]
  /\ seen' = [seen EXCEPT ![o] = link[o]]
  /\ local' = IF local[o].opp = "recovered" THEN local
              ELSE [local EXCEPT ![o] = reconciled(local[o], link[o])]
  /\ UNCHANGED <<link, mission, fetchFailures, payments>>

\* The fetch fails - always for a test's link -, and the row keeps its status.
quarantine(o) ==
  /\ script.at = "reconciling" /\ o \in script.todo
  /\ \/ local[o].mock /\ UNCHANGED fetchFailures
     \/ ~local[o].mock /\ fetchFailures < MaxFetchFailures /\ fetchFailures' = fetchFailures + 1
  /\ script' = [script EXCEPT !.todo = @ \ {o}]
  /\ UNCHANGED <<local, link, mission, seen, payments>>

\* Without a step for five minutes and without a wake condition.
inactive(m) == m = "stale"

sweepStaleMissions ==
  /\ script.at = "reconciling" /\ script.todo = {}
  /\ script' = [script EXCEPT !.at = "done"]
  /\ mission' = IF inactive(mission) THEN "aborted" ELSE mission
  /\ UNCHANGED <<local, link, seen, fetchFailures, payments>>

-----------------------------------------------------------------------------
(* Meanwhile.                                                              *)

linkChanges(o) ==
  /\ payments < MaxPayments /\ payments' = payments + 1
  /\ link[o].status \in {"created", "partially_paid"}
  /\ \E l \in RealLinks : /\ l.paid >= link[o].paid /\ l # link[o]
                          /\ l.status = "expired" => link[o].paid = 0
                          /\ link' = [link EXCEPT ![o] = l]
  /\ UNCHANGED <<local, mission, script, seen, fetchFailures>>

missionGoesOn ==
  /\ \/ mission = "young" /\ mission' = "stale"
     \/ mission = "stale" /\ mission' \in {"active", "waiting"}
     \/ mission = "active" /\ mission' = "stale"
  /\ UNCHANGED <<local, link, script, seen, fetchFailures, payments>>

Init ==
  /\ local \in [Audited -> Rows]
  /\ link \in {l \in [Audited -> RealLinks] :
                 \A o \in Audited : local[o].opp = "recovered" => l[o].status = "paid"}
  /\ mission \in {"none", "young", "stale"}
  /\ script = [at |-> "start", todo |-> {}, clean |-> FALSE]
  /\ seen = [o \in Audited |-> NotSeen] /\ fetchFailures = 0 /\ payments = 0

Next ==
  \/ begin \/ sweepStaleMissions \/ missionGoesOn
  \/ \E o \in Audited : reconcileOpportunity(o) \/ quarantine(o) \/ linkChanges(o)

Spec == Init /\ [][Next]_vars

-----------------------------------------------------------------------------
\* What the repair has looked at is consistent: the second audit reports an
\* opportunity only if its link could not be fetched, or has changed since; the
\* repair makes no recovery up, not even of a link that is paid in part
\* (audit_state_consistency.ts 118-189, reconcile_state_inconsistencies.ts 57-70).
RepairSettles ==
  script.at = "done" =>
    \A o \in Audited :
      /\ seen[o] = link[o] => inconsistencies(o) = {}
      /\ "FALSE_LOCAL_RECOVERY" \notin inconsistencies(o)
====
