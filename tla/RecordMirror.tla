----------------------------- MODULE RecordMirror -----------------------------
(***************************************************************************)
(* The writers of database.ts.  Rows are written on the synchronous SQLite *)
(* connection, whose foreign keys are on; opportunities and their children *)
(* are then copied to Supabase by calls nobody waits for.  A child waits   *)
(* for the copy of its opportunity that is under way, or copies it first.  *)
(* After a network failure nothing is sent for a minute.                   *)
(***************************************************************************)
EXTENDS Lifecycle, FiniteSets

CONSTANTS
  Opp, Run,
  Written,     \* the statuses written in this instance
  MaxCalls,    \* bound on calls under way at a time
  MaxFaults    \* bound on failed calls and restarts

VARIABLES
  row,        \* per opportunity: its local status, or "none"
  run,        \* per agent run: "none", "placeholder", "running" or "ended"
  copy,       \* per opportunity: its status in Supabase, or "none"
  calls,      \* per slot: a call under way, or Free
  sync,       \* opportunitySyncPromises: per opportunity 0, a slot, or Settled
  broken,     \* supabaseBrokenUntil is in the future
  faults,
  unsent,     \* opportunities a copy of which failed or was skipped
  orphaned    \* opportunities one of whose children Supabase refused

vars == <<row, run, copy, calls, sync, broken, faults, unsent, orphaned>>

Slot == 1..MaxCalls
Settled == MaxCalls + 1
Free == [kind |-> "free"]

Rows == Status \cup {"none"}
Call ==
  {Free} \cup
  [kind : {"opportunity", "update"}, opp : Opp, value : Status] \cup
  [kind : {"parent"}, opp : Opp, value : Status] \cup
  [kind : {"waiting"}, opp : Opp, for : Slot] \cup
  [kind : {"child"}, opp : Opp]

TypeOK ==
  /\ row \in [Opp -> Rows] /\ copy \in [Opp -> Rows]
  /\ run \in [Run -> {"none", "placeholder", "running", "ended"}]
  /\ calls \in [Slot -> Call] /\ sync \in [Opp -> 0..Settled]
  /\ broken \in BOOLEAN /\ faults \in 0..MaxFaults
  /\ unsent \subseteq Opp /\ orphaned \subseteq Opp

-----------------------------------------------------------------------------
(* What each writer does.  "ensures" creates a missing parent first;       *)
(* without it the foreign key refuses the row.                             *)

Child(table, ensures, mirrored) ==
  [table |-> table, ensures |-> ensures, mirrored |-> mirrored]

upsertScore == Child("scores", FALSE, TRUE)
upsertAllocationDecision == Child("allocation_decisions", FALSE, TRUE)
insertAuthorityCheck == Child("authority_checks", TRUE, TRUE)
upsertExecutionRecord == Child("execution_records", FALSE, TRUE)
insertLedgerEntry == Child("ledger_entries", FALSE, TRUE)
insertPerceptionAnnotation == Child("perception_annotations", TRUE, FALSE)
insertAgentState == Child("agent_states", TRUE, FALSE)
insertAgentStep == Child("agent_steps", TRUE, FALSE)
insertAgentToolCall == Child("agent_tool_calls", TRUE, FALSE)
insertAgentPlan == Child("agent_plans", TRUE, FALSE)
insertAgentHypothesis == Child("agent_hypotheses", TRUE, FALSE)
insertAgentProposal == Child("agent_proposals", TRUE, FALSE)
insertAgentOutcome == Child("agent_outcomes", TRUE, FALSE)
insertAgentAuthorityCheck == Child("agent_authority_checks", TRUE, FALSE)
insertLLMInvocation == Child("llm_invocations", TRUE, FALSE)
insertOutreachDraft == Child("outreach_drafts", TRUE, FALSE)

OpportunityChildren ==
  {upsertScore, upsertAllocationDecision, insertAuthorityCheck, upsertExecutionRecord,
   insertLedgerEntry, insertPerceptionAnnotation}
RunChildren ==
  {insertAgentState, insertAgentStep, insertAgentToolCall, insertAgentPlan,
   insertAgentHypothesis, insertAgentProposal, insertAgentOutcome,
   insertAgentAuthorityCheck, insertLLMInvocation, insertOutreachDraft}

-----------------------------------------------------------------------------
(* Opportunities.                                                          *)

\* A copy of the row is sent, and remembered as under way; with the circuit open it
\* is skipped, and remembered all the same.
syncOpportunityToSupabaseInternal(o, s) ==
  IF broken
  THEN /\ sync' = [sync EXCEPT ![o] = Settled] /\ unsent' = unsent \cup {o}
       /\ UNCHANGED calls
  ELSE \E k \in Slot :
         /\ calls[k] = Free
         /\ calls' = [calls EXCEPT ![k] = [kind |-> "opportunity", opp |-> o, value |-> s]]
         /\ sync' = [sync EXCEPT ![o] = k]
         /\ UNCHANGED unsent

\* insertOpportunity and upsertOpportunity overwrite the row, its status included.
upsertOpportunity(o, s) ==
  /\ row' = [row EXCEPT ![o] = s]
  /\ syncOpportunityToSupabaseInternal(o, s)
  /\ UNCHANGED <<run, copy, broken, faults, orphaned>>

\* The update is sent whether or not the local guard refused it.
updateInSupabase(o, s) ==
  IF broken THEN UNCHANGED calls
  ELSE \E k \in Slot :
         /\ calls[k] = Free
         /\ calls' = [calls EXCEPT ![k] = [kind |-> "update", opp |-> o, value |-> s]]

updateOpportunityStatus(o, s) ==
  /\ row' = IF row[o] = "none" THEN row ELSE [row EXCEPT ![o] = updateStatus(row[o], s)]
  /\ updateInSupabase(o, s)
  /\ UNCHANGED <<run, copy, sync, broken, faults, unsent, orphaned>>

-----------------------------------------------------------------------------
(* Children.                                                               *)

\* Mutant: the child does not look for a copy under way.
sendChildAtOnce(o) == [kind |-> "child", opp |-> o]

\* The first thing a child's call does: wait for the copy under way, go on when one
\* settled in the last 30 s, or copy the local row itself.
syncToSupabase(o) ==
  IF sync[o] \in Slot THEN [kind |-> "waiting", opp |-> o, for |-> sync[o]]
  ELSE IF sync[o] = Settled THEN [kind |-> "child", opp |-> o]
  ELSE [kind |-> "parent", opp |-> o, value |-> row[o]]

sendChild(o) ==
  IF broken THEN UNCHANGED calls
  ELSE \E k \in Slot : calls[k] = Free /\ calls' = [calls EXCEPT ![k] = syncToSupabase(o)]

\* A row that refers to an opportunity; refused, with an exception, without it.
writeChild(o, w) ==
  /\ w \in OpportunityChildren /\ row[o] # "none"
  /\ IF w.mirrored THEN sendChild(o) ELSE UNCHANGED calls
  /\ UNCHANGED <<row, run, copy, sync, broken, faults, unsent, orphaned>>

\* The same for a missing opportunity, where ensureOpportunity upserts a placeholder
\* first, whose copy the child's call then waits for.
ensureOpportunity(o, w) ==
  /\ w \in OpportunityChildren /\ w.ensures /\ row[o] = "none"
  /\ row' = [row EXCEPT ![o] = "pending"]
  /\ IF broken \/ ~w.mirrored THEN syncOpportunityToSupabaseInternal(o, "pending")
     ELSE \E j, k \in Slot :
            /\ j # k /\ calls[j] = Free /\ calls[k] = Free
            /\ calls' = [calls EXCEPT
                 ![k] = [kind |-> "opportunity", opp |-> o, value |-> "pending"],
                 ![j] = [kind |-> "waiting", opp |-> o, for |-> k]]
            /\ sync' = [sync EXCEPT ![o] = k]
            /\ UNCHANGED unsent
  /\ UNCHANGED <<run, copy, broken, faults, orphaned>>

-----------------------------------------------------------------------------
(* Agent runs.                                                             *)

\* A plain INSERT: refused when a placeholder has the id already.
insertAgentRun(r) ==
  /\ run[r] = "none" /\ run' = [run EXCEPT ![r] = "running"]
  /\ UNCHANGED <<row, copy, calls, sync, broken, faults, unsent, orphaned>>

updateAgentRun(r) ==
  /\ run[r] # "none" /\ run' = [run EXCEPT ![r] = "ended"]
  /\ UNCHANGED <<row, copy, calls, sync, broken, faults, unsent, orphaned>>

\* A record of a run that does not exist makes it up, as running.
ensureAgentRun(r, w) ==
  /\ w \in RunChildren /\ w.ensures /\ run[r] = "none"
  /\ run' = [run EXCEPT ![r] = "placeholder"]
  /\ UNCHANGED <<row, copy, calls, sync, broken, faults, unsent, orphaned>>

-----------------------------------------------------------------------------
(* The calls.                                                              *)

\* A child that waited for call k is sent when k settles, however it did.
Settle(c, k, next) ==
  [j \in Slot |->
     IF j = k THEN next
     ELSE IF c[j].kind = "waiting" /\ c[j].for = k THEN [kind |-> "child", opp |-> c[j].opp]
     ELSE c[j]]

Promises(k) == [o \in Opp |-> IF sync[o] = k THEN Settled ELSE sync[o]]

AfterParent(c) == IF c.kind = "parent" THEN [kind |-> "child", opp |-> c.opp] ELSE Free

\* Supabase carries out the call: an upsert, an update of the rows there are, or a
\* child, refused without its parent.
succeed(k) ==
  LET c == calls[k]
  IN /\ c.kind \notin {"free", "waiting"}
     /\ calls' = Settle(calls, k, AfterParent(c)) /\ sync' = Promises(k)
     /\ copy' = IF \/ c.kind \in {"opportunity", "parent"}
                   \/ c.kind = "update" /\ copy[c.opp] # "none"
                THEN [copy EXCEPT ![c.opp] = c.value] ELSE copy
     /\ orphaned' = IF c.kind = "child" /\ copy[c.opp] = "none"
                    THEN orphaned \cup {c.opp} ELSE orphaned
     /\ UNCHANGED <<row, run, broken, faults, unsent>>

\* handleSupabaseError: a network failure opens the circuit.
handleSupabaseError(k) ==
  LET c == calls[k]
  IN /\ c.kind \notin {"free", "waiting"} /\ faults < MaxFaults
     /\ calls' = Settle(calls, k, AfterParent(c)) /\ sync' = Promises(k)
     /\ broken' = TRUE /\ faults' = faults + 1 /\ unsent' = unsent \cup {c.opp}
     /\ UNCHANGED <<row, run, copy, orphaned>>

circuitCloses ==
  /\ broken /\ broken' = FALSE
  /\ UNCHANGED <<row, run, copy, calls, sync, faults, unsent, orphaned>>

\* The promise is forgotten 30 s after it settled.
forget(o) ==
  /\ sync[o] = Settled /\ sync' = [sync EXCEPT ![o] = 0]
  /\ UNCHANGED <<row, run, copy, calls, broken, faults, unsent, orphaned>>

restart ==
  /\ faults < MaxFaults /\ faults' = faults + 1
  /\ calls' = [k \in Slot |-> Free] /\ sync' = [o \in Opp |-> 0] /\ broken' = FALSE
  /\ unsent' = unsent \cup {calls[k].opp : k \in {j \in Slot : calls[j] # Free}}
  /\ UNCHANGED <<row, run, copy, orphaned>>

Init ==
  /\ row = [o \in Opp |-> "none"] /\ copy = row /\ run = [r \in Run |-> "none"]
  /\ calls = [k \in Slot |-> Free] /\ sync = [o \in Opp |-> 0]
  /\ broken = FALSE /\ faults = 0 /\ unsent = {} /\ orphaned = {}

Next ==
  \/ \E o \in Opp, s \in Written : upsertOpportunity(o, s) \/ updateOpportunityStatus(o, s)
  \/ \E o \in Opp, w \in OpportunityChildren : writeChild(o, w) \/ ensureOpportunity(o, w)
  \/ \E r \in Run : insertAgentRun(r) \/ updateAgentRun(r)
  \/ \E r \in Run, w \in RunChildren : ensureAgentRun(r, w)
  \/ \E k \in Slot : succeed(k) \/ handleSupabaseError(k)
  \/ \E o \in Opp : forget(o)
  \/ circuitCloses \/ restart

Spec == Init /\ [][Next]_vars

-----------------------------------------------------------------------------
(* Properties.                                                             *)

\* Supabase refuses a child only after a copy of its opportunity failed or was
\* skipped: the unordered calls never overtake the parent by themselves.
ParentGoesFirst == orphaned \subseteq unsent
=============================================================================
