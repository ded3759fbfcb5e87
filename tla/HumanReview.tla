----------------------------- MODULE HumanReview -----------------------------
(***************************************************************************)
(* Reviews by a person: the requests the dead letter queue raises, held in *)
(* the memory of the process, and the outreach drafts of the missions.     *)
(* A request past its time is marked when somebody reads the list; until   *)
(* then an operator may still decide it.                                   *)
(***************************************************************************)
EXTENDS Naturals

CONSTANTS ReviewId, DraftId, SLA, MaxDay

VARIABLES
  today,
  review,   \* per request: status, when it times out, who resolved it
  draft     \* status of each outreach draft

vars == <<today, review, draft>>

Resolution == {"APPROVED", "REJECTED", "OVERRIDDEN", "TIMED_OUT"}
None == [status |-> "none", timeout_at |-> 0, operator |-> "none"]

TypeOK ==
  /\ today \in 0..MaxDay
  /\ review \in [ReviewId -> [status : Resolution \cup {"none", "PENDING"},
                              timeout_at : 0..(MaxDay + SLA),
                              operator : {"none", "person", "system"}]]
  /\ draft \in [DraftId -> {"DRAFT", "APPROVED", "REJECTED"}]

Init ==
  /\ today = 0 /\ review = [i \in ReviewId |-> None]
  /\ draft = [d \in DraftId |-> "DRAFT"]

createRequest(i) ==
  /\ review[i].status = "none"
  /\ review' = [review EXCEPT ![i] =
       [status |-> "PENDING", timeout_at |-> today + SLA, operator |-> "none"]]
  /\ UNCHANGED <<today, draft>>

\* Mutant: every request past its time is marked, decided or not.
markAllPast(i) ==
  IF review[i].status # "none" /\ review[i].timeout_at <= today
  THEN [review[i] EXCEPT !.status = "TIMED_OUT", !.operator = "system"] ELSE review[i]

\* What checkTimeouts makes of one request.
timedOut(i) ==
  IF review[i].status = "PENDING" /\ review[i].timeout_at <= today
  THEN [review[i] EXCEPT !.status = "TIMED_OUT", !.operator = "system"] ELSE review[i]

\* The three readers, and so the two GET routes.
checkTimeouts == review' = [i \in ReviewId |-> timedOut(i)] /\ UNCHANGED <<today, draft>>

\* resolveRequest, from the routes approve, reject and override.
resolveRequest(i, decision) ==
  /\ review[i].status = "PENDING"
  /\ review' = [review EXCEPT ![i].status = decision, ![i].operator = "person"]
  /\ UNCHANGED <<today, draft>>

\* POST /outreach/drafts/:id/review writes whatever the draft was before.
reviewDraft(d, status) ==
  draft' = [draft EXCEPT ![d] = status] /\ UNCHANGED <<today, review>>

\* The map is lost with the process.
Restart == review' = [i \in ReviewId |-> None] /\ UNCHANGED <<today, draft>>

Tomorrow == today < MaxDay /\ today' = today + 1 /\ UNCHANGED <<review, draft>>

Next ==
  \/ \E i \in ReviewId : createRequest(i)
                         \/ \E s \in Resolution \ {"TIMED_OUT"} : resolveRequest(i, s)
  \/ checkTimeouts
  \/ \E d \in DraftId, s \in {"APPROVED", "REJECTED"} : reviewDraft(d, s)
  \/ Restart \/ Tomorrow

Spec == Init /\ [][Next]_vars

\* A decision stands: nothing but the loss of the process changes a request
\* that was approved, rejected, overridden or timed out, and a time-out never
\* comes before its time.
DecisionStands ==
  [][\A i \in ReviewId :
       /\ review[i].status \in Resolution => review'[i] \in {review[i], None}
       /\ review[i].status = "PENDING" /\ review'[i].status = "TIMED_OUT"
            => review[i].timeout_at <= today]_vars
=============================================================================
