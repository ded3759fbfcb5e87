---------------------------- MODULE ServicesProofs ----------------------------
(***************************************************************************)
(* The services around the pipeline, for any opportunities, keys, merchants *)
(* and bounds: the repair of the database, the mirror, credentials,        *)
(* accounts and the agents' memory.                                        *)
(***************************************************************************)
EXTENDS MCServices, FiniteSetTheorems, SequenceTheorems, TLAPS

(* The state audit and its repair.                                         *)

\* What is settled locally is settled whole and was paid; what the repair saw paid is
\* settled; the script reads no link of a unit test.
RowsAreSettledWhole ==
  \A o \in Audited :
    /\ local[o].opp = "recovered" =>
         local[o].rec = "completed" /\ local[o].booked /\ link[o].status = "paid"
    /\ seen[o].status = "paid" => local[o].opp = "recovered"
    /\ local[o].mock => seen[o] = Audit!NotSeen

AuditInv == Audit!TypeOK /\ RowsAreSettledWhole

LEMMA LinkFacts ==
  ASSUME NEW l \in Audit!RealLinks
  PROVE  /\ Audit!isRecovered(l) <=> l.status = "paid"
         /\ l.status \in {"created", "partially_paid", "paid", "expired"}
         /\ l # Audit!NotSeen
BY DEF Audit!RealLinks, Audit!Links, Audit!isRecovered, Audit!Amount, Audit!NotSeen

\* A row is reconciled to settled exactly when its link is paid.
LEMMA ReconciledFacts ==
  ASSUME NEW l \in Audit!RealLinks,
         NEW row0 \in [opp : Audit!Status, rec : {"created", "completed", "failed"},
                       booked : BOOLEAN, mock : BOOLEAN],
         row0.opp # "recovered"
  PROVE  LET n == Audit!reconciled(row0, l) IN
         /\ n \in [opp : Audit!Status, rec : {"created", "completed", "failed"},
                   booked : BOOLEAN, mock : BOOLEAN]
         /\ n.opp = "recovered" <=> l.status = "paid"
         /\ l.status = "paid" => n.rec = "completed" /\ n.booked
         /\ n.mock = row0.mock
<1> DEFINE target == Audit!targetOpportunityStatus(row0.opp, l, Audit!Amount)
           exec == Audit!targetExecStatus(l, Audit!Amount)
           booked == row0.booked \/ Audit!isRecovered(l)
<1>1. /\ target \in Audit!Status /\ (target = "recovered" <=> l.status = "paid")
      /\ exec \in {"created", "completed", "failed"} /\ (l.status = "paid" => exec = "completed")
  BY LinkFacts DEF Audit!targetOpportunityStatus, Audit!targetExecStatus, Audit!Status,
     Audit!mapRazorpayStatusToCanonicalState
<1>2. booked \in BOOLEAN /\ (l.status = "paid" => booked)
  BY LinkFacts
<1>3. Audit!reconciled(row0, l) = [row0 EXCEPT !.opp = target, !.rec = exec, !.booked = booked]
  BY DEF Audit!reconciled
<1> HIDE DEF target, exec, booked
<1> QED
  BY <1>1, <1>2, <1>3

LEMMA AuditInit == Audit!Init => AuditInv
<1> SUFFICES ASSUME Audit!Init PROVE AuditInv
  OBVIOUS
<1>1. local \in [Audited -> Audit!Rows] /\ link \in [Audited -> Audit!RealLinks]
  BY DEF Audit!Init
<1>2. \A o \in Audited : local[o].opp = "recovered" => link[o].status = "paid"
  BY DEF Audit!Init
<1>3. \A row0 \in Audit!Rows :
        /\ row0 \in [opp : Audit!Status, rec : {"created", "completed", "failed"},
                     booked : BOOLEAN, mock : BOOLEAN]
        /\ row0.opp = "recovered" => row0.rec = "completed" /\ row0.booked
  BY DEF Audit!Rows, Audit!Unsettled, Audit!Status
<1>4. Audit!TypeOK
  <2>1. fetchFailures \in 0..MaxFetchFailures /\ payments \in 0..MaxPayments
    BY AuditAssumption DEF Audit!Init
  <2> QED
    BY <1>1, <1>3, <2>1 DEF Audit!Init, Audit!TypeOK
<1>5. RowsAreSettledWhole
  BY <1>1, <1>2, <1>3 DEF RowsAreSettledWhole, Audit!Init, Audit!NotSeen
<1> QED
  BY <1>4, <1>5 DEF AuditInv

LEMMA AuditStep ==
  ASSUME AuditInv, [Audit!Next]_auditVars PROVE AuditInv'
<1> USE DEF AuditInv
<1>0. Audit!TypeOK /\ RowsAreSettledWhole
  OBVIOUS
<1>1. ASSUME NEW o \in Audited, Audit!reconcileOpportunity(o) PROVE AuditInv'
  <2>1. link[o] \in Audit!RealLinks /\ link[o] # Audit!NotSeen
        /\ local[o] \in [opp : Audit!Status, rec : {"created", "completed", "failed"},
                         booked : BOOLEAN, mock : BOOLEAN]
    BY LinkFacts DEF Audit!TypeOK
  <2>2. /\ seen' = [seen EXCEPT ![o] = link[o]] /\ ~local[o].mock
        /\ UNCHANGED <<link, mission, fetchFailures, payments>>
        /\ script' \in [at : {"start", "reconciling", "done"}, todo : SUBSET Audited, clean : BOOLEAN]
    BY <1>1 DEF Audit!reconcileOpportunity, Audit!TypeOK
  <2>3. /\ local'[o] \in [opp : Audit!Status, rec : {"created", "completed", "failed"},
                         booked : BOOLEAN, mock : BOOLEAN]
        /\ ~local'[o].mock
        /\ (local'[o].opp = "recovered" <=> link[o].status = "paid")
        /\ link[o].status = "paid" => local'[o].rec = "completed" /\ local'[o].booked
        /\ local' = [local EXCEPT ![o] = local'[o]]
    <3>1. CASE local[o].opp = "recovered"
      BY <1>1, <2>1, <2>2, <3>1 DEF Audit!reconcileOpportunity, Audit!TypeOK, RowsAreSettledWhole
    <3>2. CASE local[o].opp # "recovered"
      <4> DEFINE n == Audit!reconciled(local[o], link[o])
      <4>1. local' = [local EXCEPT ![o] = n]
        BY <1>1, <3>2 DEF Audit!reconcileOpportunity
      <4>2. /\ n \in [opp : Audit!Status, rec : {"created", "completed", "failed"},
                      booked : BOOLEAN, mock : BOOLEAN]
            /\ n.opp = "recovered" <=> link[o].status = "paid"
            /\ link[o].status = "paid" => n.rec = "completed" /\ n.booked
            /\ n.mock = local[o].mock
        BY <2>1, <3>2, ReconciledFacts
      <4> HIDE DEF n
      <4>3. local'[o] = n
        BY <4>1 DEF Audit!TypeOK
      <4> QED
        BY <2>2, <4>1, <4>2, <4>3
    <3> QED
      BY <3>1, <3>2
  <2>4. Audit!TypeOK'
    BY <2>1, <2>2, <2>3 DEF Audit!TypeOK
  <2>5. RowsAreSettledWhole'
    <3> SUFFICES ASSUME NEW p \in Audited PROVE RowsAreSettledWhole!(p)'
      BY DEF RowsAreSettledWhole
    <3>1. CASE p = o
      BY <2>1, <2>2, <2>3, <3>1 DEF Audit!TypeOK
    <3>2. CASE p # o
      BY <2>2, <2>3, <3>2 DEF Audit!TypeOK, RowsAreSettledWhole
    <3> QED
      BY <3>1, <3>2
  <2> QED
    BY <2>4, <2>5
<1>2. ASSUME NEW o \in Audited, Audit!quarantine(o) PROVE AuditInv'
  <2>1. fetchFailures' \in 0..MaxFetchFailures
    BY <1>2, AuditAssumption DEF Audit!quarantine, Audit!TypeOK
  <2>2. script' \in [at : {"start", "reconciling", "done"}, todo : SUBSET Audited, clean : BOOLEAN]
    BY <1>2 DEF Audit!quarantine, Audit!TypeOK
  <2> QED
    BY <1>2, <2>1, <2>2 DEF Audit!quarantine, Audit!TypeOK, RowsAreSettledWhole
<1>3. ASSUME NEW o \in Audited, Audit!linkChanges(o) PROVE AuditInv'
  <2>1. PICK l \in Audit!RealLinks : link' = [link EXCEPT ![o] = l]
    BY <1>3 DEF Audit!linkChanges
  <2>2. link[o].status # "paid"
    BY <1>3 DEF Audit!linkChanges
  <2>3. payments' \in 0..MaxPayments
    BY <1>3, AuditAssumption DEF Audit!linkChanges, Audit!TypeOK
  <2>4. UNCHANGED <<local, mission, script, seen, fetchFailures>>
    BY <1>3 DEF Audit!linkChanges
  <2>5. Audit!TypeOK'
    BY <2>1, <2>3, <2>4 DEF Audit!TypeOK
  <2>6. RowsAreSettledWhole'
    BY <2>1, <2>2, <2>4 DEF RowsAreSettledWhole, Audit!TypeOK
  <2> QED
    BY <2>5, <2>6
<1>4. CASE Audit!begin \/ Audit!sweepStaleMissions \/ Audit!missionGoesOn
  <2>1. UNCHANGED <<local, link, seen, fetchFailures, payments>>
    BY <1>4 DEF Audit!begin, Audit!sweepStaleMissions, Audit!missionGoesOn
  <2>2. script' \in [at : {"start", "reconciling", "done"}, todo : SUBSET Audited, clean : BOOLEAN]
    <3>1. Audit!isFullyConsistent \in BOOLEAN
      BY DEF Audit!isFullyConsistent
    <3>2. CASE Audit!begin
      BY <3>1, <3>2 DEF Audit!begin
    <3>3. CASE Audit!sweepStaleMissions
      BY <3>3 DEF Audit!sweepStaleMissions, Audit!TypeOK
    <3> QED
      BY <1>4, <3>2, <3>3 DEF Audit!missionGoesOn, Audit!TypeOK
  <2>3. mission' \in {"none", "young", "active", "waiting", "stale", "aborted"}
    BY <1>4 DEF Audit!begin, Audit!sweepStaleMissions, Audit!missionGoesOn, Audit!TypeOK
  <2> QED
    BY <2>1, <2>2, <2>3 DEF Audit!TypeOK, RowsAreSettledWhole
<1>5. CASE UNCHANGED auditVars
  BY <1>5 DEF auditVars, Audit!TypeOK, RowsAreSettledWhole
<1> QED
  BY <1>1, <1>2, <1>3, <1>4, <1>5 DEF Audit!Next

\* After the repair an opportunity is inconsistent only if its link could not be fetched
\* or has changed since, and no recovery was made up, for any number of opportunities,
\* failing fetches and payments (audit_state_consistency.ts,
\* reconcile_state_inconsistencies.ts).
THEOREM RepairIsSound == ServicesSpec => []RepairSettles
<1> DEFINE Inv == part = "audit" => AuditInv
<1>1. ServicesInit => Inv
  BY AuditInit DEF ServicesInit
<1>2. Inv /\ [ServicesNext]_all => Inv'
  BY AuditStep DEF ServicesNext, all, auditVars
<1>3. Inv => RepairSettles
  <2> SUFFICES ASSUME AuditInv, NEW o \in Audited
               PROVE  /\ seen[o] = link[o] => Audit!inconsistencies(o) = {}
                      /\ "FALSE_LOCAL_RECOVERY" \notin Audit!inconsistencies(o)
    BY DEF RepairSettles, Audit!RepairSettles, AuditInv
  <2>1. link[o] \in Audit!RealLinks
    BY DEF AuditInv, Audit!TypeOK
  <2>2. local[o].opp = "recovered" => Audit!isRecovered(Audit!providerObj(o))
    BY <2>1, LinkFacts DEF AuditInv, RowsAreSettledWhole, Audit!providerObj, Audit!isRecovered,
       Audit!Amount, Audit!TypeOK
  <2>3. seen[o] = link[o] /\ Audit!isRecovered(Audit!providerObj(o)) => local[o].opp = "recovered"
    BY <2>1, LinkFacts DEF AuditInv, RowsAreSettledWhole, Audit!providerObj
  <2>4. local[o].opp = "recovered" => local[o].rec = "completed" /\ local[o].booked
    BY DEF AuditInv, RowsAreSettledWhole
  <2> QED
    BY <2>2, <2>3, <2>4 DEF Audit!inconsistencies
<1> HIDE DEF Inv
<1> QED
  BY <1>1, <1>2, <1>3, PTL DEF ServicesSpec

-----------------------------------------------------------------------------
(* The mirror in Supabase.                                                 *)

\* Supabase has the opportunity, or a copy of it is known to have got lost.
Mirrored(o) == copy[o] # "none" \/ o \in unsent

\* A child that is sent has its parent there; one that waits, waits for a copy of its
\* own opportunity.
CallsInOrder ==
  \A k \in Mirror!Slot :
    /\ calls[k].kind = "child" => Mirrored(calls[k].opp)
    /\ calls[k].kind = "waiting" =>
         calls[calls[k].for].kind = "opportunity" /\ calls[calls[k].for].opp = calls[k].opp

\* The promise kept for an opportunity is that of a copy under way, or has settled.
PromisesInOrder ==
  \A o \in Opp :
    /\ sync[o] \in Mirror!Slot => calls[sync[o]].kind = "opportunity" /\ calls[sync[o]].opp = o
    /\ sync[o] = Mirror!Settled => Mirrored(o)

MirrorInv == Mirror!TypeOK /\ CallsInOrder /\ PromisesInOrder /\ Mirror!ParentGoesFirst

\* What a call holds, by its kind.
LEMMA CallFacts ==
  ASSUME NEW c \in Mirror!Call
  PROVE  /\ c.kind \in {"free", "opportunity", "update", "parent", "waiting", "child"}
         /\ c.kind = "free" <=> c = Mirror!Free
         /\ c.kind # "free" => c.opp \in Opp
         /\ c.kind \in {"opportunity", "update", "parent"} => c.value \in Mirror!Status
         /\ c.kind = "waiting" => c.for \in Mirror!Slot
BY DEF Mirror!Call, Mirror!Free

LEMMA MirrorConstants ==
  /\ Mirror!Settled \notin Mirror!Slot /\ 0 \notin Mirror!Slot /\ 0 # Mirror!Settled
  /\ Mirror!Slot \subseteq 0..Mirror!Settled
  /\ 0 \in 0..Mirror!Settled /\ Mirror!Settled \in 0..Mirror!Settled
  /\ "none" \notin Mirror!Status /\ "pending" \in Mirror!Status
BY MirrorAssumption DEF Mirror!Slot, Mirror!Settled, Mirror!Status

LEMMA MirrorInit == Mirror!Init => MirrorInv
<1> SUFFICES ASSUME Mirror!Init PROVE MirrorInv
  OBVIOUS
<1>1. Mirror!Free \in Mirror!Call /\ Mirror!Free.kind = "free" /\ "none" \in Mirror!Rows
  BY DEF Mirror!Call, Mirror!Free, Mirror!Rows
<1>2. 0 \in 0..MaxFaults
  BY MirrorAssumption
<1>3. Mirror!TypeOK
  BY <1>1, <1>2, MirrorConstants DEF Mirror!Init, Mirror!TypeOK
<1>4. CallsInOrder
  BY <1>1 DEF Mirror!Init, CallsInOrder
<1>5. PromisesInOrder
  BY MirrorConstants DEF Mirror!Init, PromisesInOrder
<1> QED
  BY <1>3, <1>4, <1>5 DEF MirrorInv, Mirror!Init, Mirror!ParentGoesFirst

\* A call begins in a free slot, which nothing waits for and no promise names.
LEMMA CallBegins ==
  ASSUME MirrorInv, NEW k \in Mirror!Slot, calls[k] = Mirror!Free, NEW c \in Mirror!Call,
         calls' = [calls EXCEPT ![k] = c], UNCHANGED <<copy, unsent>>,
         c.kind \in {"opportunity", "update", "parent", "child", "waiting"},
         c.kind = "child" => Mirrored(c.opp),
         c.kind = "waiting" =>
           calls[c.for].kind = "opportunity" /\ calls[c.for].opp = c.opp,
         \/ UNCHANGED sync
         \/ \E o \in Opp : sync' = [sync EXCEPT ![o] = k] /\ c.kind = "opportunity" /\ c.opp = o
  PROVE  /\ calls' \in [Mirror!Slot -> Mirror!Call] /\ sync' \in [Opp -> 0..Mirror!Settled]
         /\ CallsInOrder' /\ PromisesInOrder'
<1>1. calls \in [Mirror!Slot -> Mirror!Call] /\ sync \in [Opp -> 0..Mirror!Settled]
  BY DEF MirrorInv, Mirror!TypeOK
<1>2. calls[k].kind = "free"
  BY DEF Mirror!Free
<1>3. /\ calls'[k] = c /\ \A j \in Mirror!Slot \ {k} : calls'[j] = calls[j]
  BY <1>1
<1>4. CallsInOrder'
  <2> SUFFICES ASSUME NEW j \in Mirror!Slot PROVE CallsInOrder!(j)'
    BY DEF CallsInOrder
  <2>1. CASE j = k
    <3>1. c.kind = "waiting" => c.for \in Mirror!Slot /\ c.for # k
      BY <1>2, CallFacts
    <3> QED
      BY <1>3, <2>1, <3>1 DEF Mirrored
  <2>2. CASE j # k
    <3>1. calls[j].kind = "waiting" => calls[j].for \in Mirror!Slot /\ calls[j].for # k
      BY <1>1, <1>2, CallFacts DEF MirrorInv, CallsInOrder
    <3> QED
      BY <1>3, <2>2, <3>1 DEF MirrorInv, CallsInOrder, Mirrored
  <2> QED
    BY <2>1, <2>2
<1>5. sync' \in [Opp -> 0..Mirror!Settled]
  BY <1>1, MirrorConstants
<1>6. PromisesInOrder'
  <2> SUFFICES ASSUME NEW p \in Opp PROVE PromisesInOrder!(p)'
    BY DEF PromisesInOrder
  <2>1. CASE sync'[p] = sync[p]
    <3>1. sync[p] \in Mirror!Slot => sync[p] # k
      BY <1>2 DEF MirrorInv, PromisesInOrder
    <3> QED
      BY <1>3, <2>1, <3>1 DEF MirrorInv, PromisesInOrder, Mirrored
  <2>2. CASE sync'[p] # sync[p]
    <3>1. sync'[p] = k /\ c.kind = "opportunity" /\ c.opp = p
      BY <1>1, <2>2
    <3> QED
      BY <1>3, <3>1, MirrorConstants
  <2> QED
    BY <2>1, <2>2
<1> QED
  BY <1>1, <1>3, <1>4, <1>5, <1>6

\* A copy of the row is sent and remembered, or skipped and remembered as skipped.
LEMMA SyncInv ==
  ASSUME MirrorInv, NEW o \in Opp, NEW v \in Mirror!Status,
         Mirror!syncOpportunityToSupabaseInternal(o, v), UNCHANGED copy
  PROVE  /\ calls' \in [Mirror!Slot -> Mirror!Call] /\ sync' \in [Opp -> 0..Mirror!Settled]
         /\ unsent \subseteq unsent' /\ unsent' \subseteq Opp
         /\ CallsInOrder' /\ PromisesInOrder'
<1>0. /\ calls \in [Mirror!Slot -> Mirror!Call] /\ sync \in [Opp -> 0..Mirror!Settled]
      /\ unsent \subseteq Opp
  BY DEF MirrorInv, Mirror!TypeOK
<1>1. CASE broken
  <2>1. /\ sync' = [sync EXCEPT ![o] = Mirror!Settled] /\ unsent' = unsent \cup {o}
        /\ UNCHANGED calls
    BY <1>1 DEF Mirror!syncOpportunityToSupabaseInternal
  <2>2. CallsInOrder'
    BY <2>1 DEF MirrorInv, CallsInOrder, Mirrored
  <2>3. PromisesInOrder'
    BY <1>0, <2>1, MirrorConstants DEF MirrorInv, PromisesInOrder, Mirrored
  <2> QED
    BY <1>0, <2>1, <2>2, <2>3, MirrorConstants
<1>2. CASE ~broken
  <2> DEFINE c == [kind |-> "opportunity", opp |-> o, value |-> v]
  <2>1. PICK k \in Mirror!Slot :
          /\ calls[k] = Mirror!Free
          /\ calls' = [calls EXCEPT ![k] = c] /\ sync' = [sync EXCEPT ![o] = k]
          /\ UNCHANGED unsent
    BY <1>2 DEF Mirror!syncOpportunityToSupabaseInternal
  <2>2. c \in Mirror!Call /\ c.kind = "opportunity" /\ c.opp = o
    BY DEF Mirror!Call
  <2> HIDE DEF c
  <2> QED
    BY <1>0, <2>1, <2>2, CallBegins
<1> QED
  BY <1>1, <1>2

\* The writers of opportunities.
LEMMA OpportunityWritersInv ==
  ASSUME MirrorInv, NEW o \in Opp, NEW v \in Written,
         Mirror!upsertOpportunity(o, v) \/ Mirror!updateOpportunityStatus(o, v)
  PROVE  MirrorInv'
<1>0. v \in Mirror!Status /\ row \in [Opp -> Mirror!Rows] /\ v \in Mirror!Rows
  BY MirrorAssumption DEF MirrorInv, Mirror!TypeOK, Mirror!Rows
<1>1. CASE Mirror!upsertOpportunity(o, v)
  <2>1. /\ row' = [row EXCEPT ![o] = v] /\ Mirror!syncOpportunityToSupabaseInternal(o, v)
        /\ UNCHANGED <<run, copy, broken, faults, orphaned>>
    BY <1>1 DEF Mirror!upsertOpportunity
  <2>2. row' \in [Opp -> Mirror!Rows]
    BY <1>0, <2>1
  <2> QED
    BY <1>0, <2>1, <2>2, SyncInv DEF MirrorInv, Mirror!TypeOK, Mirror!ParentGoesFirst
<1>2. CASE Mirror!updateOpportunityStatus(o, v)
  <2>1. /\ row' = IF row[o] = "none" THEN row
                  ELSE [row EXCEPT ![o] = Mirror!updateStatus(row[o], v)]
        /\ Mirror!updateInSupabase(o, v)
        /\ UNCHANGED <<run, copy, sync, broken, faults, unsent, orphaned>>
    BY <1>2 DEF Mirror!updateOpportunityStatus
  <2>2. Mirror!updateStatus(row[o], v) \in Mirror!Rows
    BY <1>0 DEF Mirror!updateStatus
  <2>3. row' \in [Opp -> Mirror!Rows]
    BY <1>0, <2>1, <2>2
  <2>4. calls' \in [Mirror!Slot -> Mirror!Call] /\ CallsInOrder' /\ PromisesInOrder'
    <3>1. CASE broken
      BY <2>1, <3>1 DEF Mirror!updateInSupabase, MirrorInv, Mirror!TypeOK, CallsInOrder,
         PromisesInOrder, Mirrored
    <3>2. CASE ~broken
      <4> DEFINE c == [kind |-> "update", opp |-> o, value |-> v]
      <4>1. PICK k \in Mirror!Slot :
              calls[k] = Mirror!Free /\ calls' = [calls EXCEPT ![k] = c]
        BY <2>1, <3>2 DEF Mirror!updateInSupabase
      <4>2. c \in Mirror!Call /\ c.kind = "update"
        BY <1>0 DEF Mirror!Call
      <4> HIDE DEF c
      <4> QED
        BY <2>1, <4>1, <4>2, CallBegins
    <3> QED
      BY <3>1, <3>2
  <2> QED
    BY <2>1, <2>3, <2>4 DEF MirrorInv, Mirror!TypeOK, Mirror!ParentGoesFirst
<1> QED
  BY <1>1, <1>2

\* A row that refers to an opportunity waits for its copy, finds it settled, or copies the
\* row itself.
LEMMA WriteChildInv ==
  ASSUME MirrorInv, NEW o \in Opp, NEW w \in Mirror!OpportunityChildren, Mirror!writeChild(o, w)
  PROVE  MirrorInv'
<1> DEFINE c == Mirror!syncToSupabase(o)
<1>1. row[o] # "none" /\ UNCHANGED <<row, run, copy, sync, broken, faults, unsent, orphaned>>
  BY DEF Mirror!writeChild
<1>2. row[o] \in Mirror!Status /\ sync[o] \in 0..Mirror!Settled
  BY <1>1 DEF MirrorInv, Mirror!TypeOK, Mirror!Rows
<1>3. /\ c \in Mirror!Call /\ c.kind \in {"parent", "child", "waiting"}
      /\ c.kind = "child" => Mirrored(c.opp)
      /\ c.kind = "waiting" => calls[c.for].kind = "opportunity" /\ calls[c.for].opp = c.opp
  <2>1. CASE sync[o] \in Mirror!Slot
    BY <2>1 DEF Mirror!syncToSupabase, Mirror!Call, MirrorInv, PromisesInOrder
  <2>2. CASE sync[o] = Mirror!Settled
    BY <2>2, MirrorConstants DEF Mirror!syncToSupabase, Mirror!Call, MirrorInv, PromisesInOrder
  <2>3. CASE sync[o] \notin Mirror!Slot /\ sync[o] # Mirror!Settled
    BY <1>2, <2>3 DEF Mirror!syncToSupabase, Mirror!Call
  <2> QED
    BY <2>1, <2>2, <2>3
<1> HIDE DEF c
<1>4. CASE UNCHANGED calls
  BY <1>1, <1>4 DEF MirrorInv, Mirror!TypeOK, CallsInOrder, PromisesInOrder, Mirrored,
     Mirror!ParentGoesFirst
<1>5. CASE \E k \in Mirror!Slot : calls[k] = Mirror!Free /\ calls' = [calls EXCEPT ![k] = c]
  <2>1. calls' \in [Mirror!Slot -> Mirror!Call] /\ CallsInOrder' /\ PromisesInOrder'
    BY <1>1, <1>3, <1>5, CallBegins
  <2> QED
    BY <1>1, <2>1 DEF MirrorInv, Mirror!TypeOK, Mirror!ParentGoesFirst
<1> QED
  BY <1>4, <1>5 DEF Mirror!writeChild, Mirror!sendChild, c

\* A missing opportunity gets a placeholder, whose copy the child waits for.
LEMMA EnsureOpportunityInv ==
  ASSUME MirrorInv, NEW o \in Opp, NEW w \in Mirror!OpportunityChildren,
         Mirror!ensureOpportunity(o, w)
  PROVE  MirrorInv'
<1>1. row' = [row EXCEPT ![o] = "pending"] /\ UNCHANGED <<run, copy, broken, faults, orphaned>>
  BY DEF Mirror!ensureOpportunity
<1>2. row' \in [Opp -> Mirror!Rows]
  BY <1>1, MirrorConstants DEF MirrorInv, Mirror!TypeOK, Mirror!Rows
<1>3. /\ calls' \in [Mirror!Slot -> Mirror!Call] /\ sync' \in [Opp -> 0..Mirror!Settled]
      /\ unsent \subseteq unsent' /\ unsent' \subseteq Opp
      /\ CallsInOrder' /\ PromisesInOrder'
  <2>1. CASE broken \/ ~w.mirrored
    BY <1>1, <2>1, SyncInv, MirrorConstants DEF Mirror!ensureOpportunity
  <2>2. CASE ~(broken \/ ~w.mirrored)
    <3>1. PICK j \in Mirror!Slot, k \in Mirror!Slot :
            /\ j # k /\ calls[j] = Mirror!Free /\ calls[k] = Mirror!Free
            /\ calls' = [calls EXCEPT
                 ![k] = [kind |-> "opportunity", opp |-> o, value |-> "pending"],
                 ![j] = [kind |-> "waiting", opp |-> o, for |-> k]]
            /\ sync' = [sync EXCEPT ![o] = k]
            /\ UNCHANGED unsent
      BY <2>2 DEF Mirror!ensureOpportunity
    <3>2. /\ calls \in [Mirror!Slot -> Mirror!Call] /\ sync \in [Opp -> 0..Mirror!Settled]
          /\ calls[j].kind = "free" /\ calls[k].kind = "free"
      BY <3>1 DEF MirrorInv, Mirror!TypeOK, Mirror!Free
    <3>3. /\ [kind |-> "opportunity", opp |-> o, value |-> "pending"] \in Mirror!Call
          /\ [kind |-> "waiting", opp |-> o, for |-> k] \in Mirror!Call
      BY MirrorConstants DEF Mirror!Call
    <3>4. /\ calls' \in [Mirror!Slot -> Mirror!Call]
          /\ calls'[k] = [kind |-> "opportunity", opp |-> o, value |-> "pending"]
          /\ calls'[j] = [kind |-> "waiting", opp |-> o, for |-> k]
          /\ \A i \in Mirror!Slot \ {j, k} : calls'[i] = calls[i]
      BY <3>1, <3>2, <3>3
    <3>5. CallsInOrder'
      <4> SUFFICES ASSUME NEW i \in Mirror!Slot PROVE CallsInOrder!(i)'
        BY DEF CallsInOrder
      <4>1. CASE i \in {j, k}
        BY <3>4, <4>1
      <4>2. CASE i \notin {j, k}
        <5>1. calls[i].kind = "waiting" => calls[i].for \in Mirror!Slot \ {j, k}
          BY <3>2, CallFacts DEF MirrorInv, CallsInOrder
        <5> QED
          BY <1>1, <3>1, <3>4, <4>2, <5>1 DEF MirrorInv, CallsInOrder, Mirrored
      <4> QED
        BY <4>1, <4>2
    <3>6. PromisesInOrder'
      <4> SUFFICES ASSUME NEW p \in Opp PROVE PromisesInOrder!(p)'
        BY DEF PromisesInOrder
      <4>1. CASE p = o
        <5>1. sync'[p] = k
          BY <3>1, <3>2, <4>1
        <5> QED
          BY <3>4, <4>1, <5>1, MirrorConstants
      <4>2. CASE p # o
        <5>1. sync'[p] = sync[p] /\ (sync[p] \in Mirror!Slot => sync[p] \notin {j, k})
          BY <3>1, <3>2, <4>2 DEF MirrorInv, PromisesInOrder
        <5> QED
          BY <1>1, <3>1, <3>4, <5>1 DEF MirrorInv, PromisesInOrder, Mirrored
      <4> QED
        BY <4>1, <4>2
    <3> QED
      BY <3>1, <3>2, <3>4, <3>5, <3>6, MirrorConstants DEF MirrorInv, Mirror!TypeOK
  <2> QED
    BY <2>1, <2>2
<1> QED
  BY <1>1, <1>2, <1>3 DEF MirrorInv, Mirror!TypeOK, Mirror!ParentGoesFirst

\* A call settles: the opportunity it copied is there or known to be lost, so the
\* children that waited for it may go.
LEMMA SettleInv ==
  ASSUME MirrorInv, NEW k \in Mirror!Slot, calls[k].kind \notin {"free", "waiting"},
         calls' = Mirror!Settle(calls, k, Mirror!AfterParent(calls[k])), sync' = Mirror!Promises(k),
         \A o \in Opp : Mirrored(o) => Mirrored(o)',
         \A o \in Opp :
           calls[k].kind \in {"opportunity", "parent"} /\ calls[k].opp = o => Mirrored(o)'
  PROVE  /\ calls' \in [Mirror!Slot -> Mirror!Call] /\ sync' \in [Opp -> 0..Mirror!Settled]
         /\ CallsInOrder' /\ PromisesInOrder'
<1>0. calls \in [Mirror!Slot -> Mirror!Call] /\ sync \in [Opp -> 0..Mirror!Settled]
  BY DEF MirrorInv, Mirror!TypeOK
<1>1. \A j \in Mirror!Slot :
        /\ calls[j] \in Mirror!Call
        /\ calls[j].kind # "free" => calls[j].opp \in Opp
        /\ calls[j].kind = "waiting" => calls[j].for \in Mirror!Slot
  BY <1>0, CallFacts
<1>2. /\ calls'[k] = IF calls[k].kind = "parent" THEN [kind |-> "child", opp |-> calls[k].opp]
                     ELSE Mirror!Free
      /\ \A j \in Mirror!Slot \ {k} :
           calls'[j] = IF calls[j].kind = "waiting" /\ calls[j].for = k
                         THEN [kind |-> "child", opp |-> calls[j].opp] ELSE calls[j]
  BY DEF Mirror!Settle, Mirror!AfterParent
<1>3. \A o \in Opp : [kind |-> "child", opp |-> o] \in Mirror!Call
  BY DEF Mirror!Call
<1>4. Mirror!Free \in Mirror!Call /\ Mirror!Free.kind = "free"
  BY DEF Mirror!Call, Mirror!Free
<1>5. calls' \in [Mirror!Slot -> Mirror!Call]
  <2>1. \A j \in Mirror!Slot : calls'[j] \in Mirror!Call
    BY <1>1, <1>2, <1>3, <1>4
  <2> QED
    BY <2>1 DEF Mirror!Settle
<1>6. CallsInOrder'
  <2> SUFFICES ASSUME NEW j \in Mirror!Slot PROVE CallsInOrder!(j)'
    BY DEF CallsInOrder
  <2>1. CASE j = k
    BY <1>1, <1>2, <1>4, <2>1
  <2>2. CASE j # k /\ calls[j].kind = "waiting" /\ calls[j].for = k
    <3>1. calls[k].kind = "opportunity" /\ calls[k].opp = calls[j].opp /\ calls[j].opp \in Opp
      BY <1>1, <2>2 DEF MirrorInv, CallsInOrder
    <3>2. calls'[j] = [kind |-> "child", opp |-> calls[j].opp]
      BY <1>2, <2>2
    <3>3. \A o \in Opp : calls[j].opp = o => copy'[o] # "none" \/ o \in unsent'
      BY <3>1 DEF Mirrored
    <3> QED
      BY <3>1, <3>2, <3>3 DEF Mirrored
  <2>3. CASE j # k /\ calls[j].kind = "waiting" /\ calls[j].for # k
    <3>1. LET i == calls[j].for IN
          /\ i \in Mirror!Slot \ {k} /\ calls[i].kind = "opportunity" /\ calls[i].opp = calls[j].opp
      BY <1>1, <2>3 DEF MirrorInv, CallsInOrder
    <3> QED
      BY <1>2, <2>3, <3>1
  <2>4. CASE j # k /\ calls[j].kind # "waiting"
    BY <1>1, <1>2, <2>4 DEF MirrorInv, CallsInOrder
  <2> QED
    BY <2>1, <2>2, <2>3, <2>4
<1>7. sync' \in [Opp -> 0..Mirror!Settled]
  BY <1>0, MirrorConstants DEF Mirror!Promises
<1>8. PromisesInOrder'
  <2> SUFFICES ASSUME NEW p \in Opp PROVE PromisesInOrder!(p)'
    BY DEF PromisesInOrder
  <2>1. sync'[p] = IF sync[p] = k THEN Mirror!Settled ELSE sync[p]
    BY DEF Mirror!Promises
  <2>2. CASE sync[p] = k
    <3>1. calls[k].kind = "opportunity" /\ calls[k].opp = p
      BY <2>2 DEF MirrorInv, PromisesInOrder
    <3>2. sync'[p] = Mirror!Settled /\ Mirrored(p)'
      BY <2>1, <2>2, <3>1
    <3> QED
      BY <3>2, MirrorConstants
  <2>3. CASE sync[p] # k
    <3>1. sync'[p] = sync[p]
      BY <2>1, <2>3
    <3>2. ASSUME sync[p] \in Mirror!Slot
          PROVE  calls'[sync[p]].kind = "opportunity" /\ calls'[sync[p]].opp = p
      <4>1. calls[sync[p]].kind = "opportunity" /\ calls[sync[p]].opp = p
        BY <3>2 DEF MirrorInv, PromisesInOrder
      <4>2. calls'[sync[p]] = calls[sync[p]]
        BY <1>2, <2>3, <3>2, <4>1
      <4> QED
        BY <4>1, <4>2
    <3>3. sync[p] = Mirror!Settled => Mirrored(p)'
      BY DEF MirrorInv, PromisesInOrder
    <3> QED
      BY <3>1, <3>2, <3>3
  <2> QED
    BY <2>2, <2>3
<1> QED
  BY <1>5, <1>6, <1>7, <1>8

\* A call that is no child waiting settles, one way or the other.
LEMMA CallsInv ==
  ASSUME MirrorInv, NEW k \in Mirror!Slot, Mirror!succeed(k) \/ Mirror!handleSupabaseError(k)
  PROVE  MirrorInv'
<1>0. /\ calls[k].kind \notin {"free", "waiting"} /\ calls[k] \in Mirror!Call
      /\ calls' = Mirror!Settle(calls, k, Mirror!AfterParent(calls[k])) /\ sync' = Mirror!Promises(k)
  BY DEF Mirror!succeed, Mirror!handleSupabaseError, MirrorInv, Mirror!TypeOK
<1>1. calls[k].opp \in Opp
  BY <1>0, CallFacts
<1>2. CASE Mirror!succeed(k)
  <2> DEFINE c == calls[k]
  <2>0. UNCHANGED <<row, run, broken, faults, unsent>>
    BY <1>2 DEF Mirror!succeed
  <2>1. copy' = IF \/ c.kind \in {"opportunity", "parent"}
                   \/ c.kind = "update" /\ copy[c.opp] # "none"
                THEN [copy EXCEPT ![c.opp] = c.value] ELSE copy
    BY <1>2 DEF Mirror!succeed
  <2>2. orphaned' = IF c.kind = "child" /\ copy[c.opp] = "none"
                    THEN orphaned \cup {c.opp} ELSE orphaned
    BY <1>2 DEF Mirror!succeed
  <2>3. c.kind \in {"opportunity", "parent", "update"} =>
          c.value \in Mirror!Rows /\ c.value # "none"
    BY <1>0, CallFacts, MirrorConstants DEF Mirror!Rows
  <2>4. copy \in [Opp -> Mirror!Rows]
    BY DEF MirrorInv, Mirror!TypeOK
  <2>5. copy' \in [Opp -> Mirror!Rows]
    BY <1>1, <2>1, <2>3, <2>4
  <2>6. \A o \in Opp : Mirrored(o) => Mirrored(o)'
    BY <1>1, <2>0, <2>1, <2>3, <2>4 DEF Mirrored
  <2>7. \A o \in Opp : c.kind \in {"opportunity", "parent"} /\ c.opp = o => Mirrored(o)'
    BY <1>1, <2>1, <2>3, <2>4 DEF Mirrored
  <2>8. c.kind = "child" /\ copy[c.opp] = "none" => c.opp \in unsent
    BY DEF MirrorInv, CallsInOrder, Mirrored
  <2>9. orphaned' \subseteq unsent'
    BY <2>0, <2>2, <2>8 DEF MirrorInv, Mirror!ParentGoesFirst
  <2>10. /\ calls' \in [Mirror!Slot -> Mirror!Call] /\ sync' \in [Opp -> 0..Mirror!Settled]
         /\ CallsInOrder' /\ PromisesInOrder'
    BY <1>0, <2>6, <2>7, SettleInv
  <2> QED
    BY <2>0, <2>5, <2>9, <2>10 DEF MirrorInv, Mirror!TypeOK, Mirror!ParentGoesFirst
<1>3. CASE Mirror!handleSupabaseError(k)
  <2>1. /\ broken' = TRUE /\ faults < MaxFaults /\ faults' = faults + 1
        /\ unsent' = unsent \cup {calls[k].opp} /\ UNCHANGED <<row, run, copy, orphaned>>
    BY <1>3 DEF Mirror!handleSupabaseError
  <2>2. \A o \in Opp : Mirrored(o) => Mirrored(o)'
    BY <2>1 DEF Mirrored
  <2>3. \A o \in Opp : calls[k].opp = o => Mirrored(o)'
    BY <2>1 DEF Mirrored
  <2>4. /\ calls' \in [Mirror!Slot -> Mirror!Call] /\ sync' \in [Opp -> 0..Mirror!Settled]
        /\ CallsInOrder' /\ PromisesInOrder'
    BY <1>0, <2>2, <2>3, SettleInv
  <2>5. faults' \in 0..MaxFaults
    BY <2>1, MirrorAssumption DEF MirrorInv, Mirror!TypeOK
  <2> QED
    BY <1>1, <2>1, <2>4, <2>5 DEF MirrorInv, Mirror!TypeOK, Mirror!ParentGoesFirst
<1> QED
  BY <1>2, <1>3

\* A restart loses the calls under way, and with them what they would have sent.
LEMMA RestartInv == MirrorInv /\ Mirror!restart => MirrorInv'
<1> SUFFICES ASSUME MirrorInv, Mirror!restart PROVE MirrorInv'
  OBVIOUS
<1>1. /\ faults < MaxFaults /\ faults' = faults + 1 /\ broken' = FALSE
      /\ calls' = [k \in Mirror!Slot |-> Mirror!Free] /\ sync' = [o \in Opp |-> 0]
      /\ unsent' = unsent \cup {calls[k].opp : k \in {j \in Mirror!Slot : calls[j] # Mirror!Free}}
      /\ UNCHANGED <<row, run, copy, orphaned>>
  BY DEF Mirror!restart
<1>2. Mirror!Free \in Mirror!Call /\ Mirror!Free.kind = "free"
  BY DEF Mirror!Call, Mirror!Free
<1>3. \A j \in Mirror!Slot : calls[j] # Mirror!Free => calls[j].opp \in Opp
  BY CallFacts DEF MirrorInv, Mirror!TypeOK
<1>4. unsent' \subseteq Opp /\ unsent \subseteq unsent'
  BY <1>1, <1>3 DEF MirrorInv, Mirror!TypeOK
<1>5. faults' \in 0..MaxFaults
  BY <1>1, MirrorAssumption DEF MirrorInv, Mirror!TypeOK
<1>6. CallsInOrder'
  BY <1>1, <1>2 DEF CallsInOrder
<1>7. PromisesInOrder'
  BY <1>1, MirrorConstants DEF PromisesInOrder
<1>8. calls' \in [Mirror!Slot -> Mirror!Call] /\ sync' \in [Opp -> 0..Mirror!Settled]
  BY <1>1, <1>2, MirrorConstants
<1> QED
  BY <1>1, <1>4, <1>5, <1>6, <1>7, <1>8 DEF MirrorInv, Mirror!TypeOK, Mirror!ParentGoesFirst

LEMMA MirrorStep == MirrorInv /\ [Mirror!Next]_mirrorVars => MirrorInv'
<1> SUFFICES ASSUME MirrorInv, [Mirror!Next]_mirrorVars PROVE MirrorInv'
  OBVIOUS
<1>1. ASSUME NEW o \in Opp, NEW s \in Written,
             Mirror!upsertOpportunity(o, s) \/ Mirror!updateOpportunityStatus(o, s)
      PROVE  MirrorInv'
  BY <1>1, OpportunityWritersInv
<1>2. ASSUME NEW o \in Opp, NEW w \in Mirror!OpportunityChildren,
             Mirror!writeChild(o, w) \/ Mirror!ensureOpportunity(o, w)
      PROVE  MirrorInv'
  BY <1>2, WriteChildInv, EnsureOpportunityInv
<1>3. ASSUME NEW r \in Run,
             \/ Mirror!insertAgentRun(r) \/ Mirror!updateAgentRun(r)
             \/ \E w \in Mirror!RunChildren : Mirror!ensureAgentRun(r, w)
      PROVE  MirrorInv'
  <2>1. /\ \E v \in {"running", "ended", "placeholder"} : run' = [run EXCEPT ![r] = v]
        /\ UNCHANGED <<row, copy, calls, sync, broken, faults, unsent, orphaned>>
    BY <1>3 DEF Mirror!insertAgentRun, Mirror!updateAgentRun, Mirror!ensureAgentRun
  <2> QED
    BY <2>1 DEF MirrorInv, Mirror!TypeOK, CallsInOrder, PromisesInOrder, Mirrored,
       Mirror!ParentGoesFirst
<1>4. ASSUME NEW k \in Mirror!Slot, Mirror!succeed(k) \/ Mirror!handleSupabaseError(k)
      PROVE  MirrorInv'
  BY <1>4, CallsInv
<1>5. ASSUME NEW o \in Opp, Mirror!forget(o) PROVE MirrorInv'
  <2>1. sync' = [sync EXCEPT ![o] = 0]
        /\ UNCHANGED <<row, run, copy, calls, broken, faults, unsent, orphaned>>
    BY <1>5 DEF Mirror!forget
  <2>2. sync' \in [Opp -> 0..Mirror!Settled]
    BY <2>1, MirrorConstants DEF MirrorInv, Mirror!TypeOK
  <2>3. CallsInOrder'
    BY <2>1 DEF MirrorInv, CallsInOrder, Mirrored
  <2>4. PromisesInOrder'
    BY <2>1, MirrorConstants DEF MirrorInv, Mirror!TypeOK, PromisesInOrder, Mirrored
  <2> QED
    BY <2>1, <2>2, <2>3, <2>4 DEF MirrorInv, Mirror!TypeOK, Mirror!ParentGoesFirst
<1>6. CASE Mirror!circuitCloses \/ UNCHANGED mirrorVars
  BY <1>6 DEF Mirror!circuitCloses, mirrorVars, MirrorInv, Mirror!TypeOK, CallsInOrder,
     PromisesInOrder, Mirrored, Mirror!ParentGoesFirst
<1>7. CASE Mirror!restart
  BY <1>7, RestartInv
<1> QED
  BY <1>1, <1>2, <1>3, <1>4, <1>5, <1>6, <1>7 DEF Mirror!Next

\* Whatever the order in which the mirror's calls settle, fail or are lost in a restart,
\* Supabase refuses a child only when a copy of its opportunity failed or was skipped.
THEOREM ChildrenFollowTheirParent == ServicesSpec => []ParentGoesFirst
<1> DEFINE Inv == part = "mirror" => MirrorInv
<1>1. ServicesInit => Inv
  BY MirrorInit DEF ServicesInit
<1>2. Inv /\ [ServicesNext]_all => Inv'
  BY MirrorStep DEF ServicesNext, all, mirrorVars
<1>3. Inv => ParentGoesFirst
  BY DEF MirrorInv, ParentGoesFirst
<1> HIDE DEF Inv
<1> QED
  BY <1>1, <1>2, <1>3, PTL DEF ServicesSpec

-----------------------------------------------------------------------------
(* The credential and the API keys.                                        *)

\* A registration has stored its credential and not yet taken the pooled client out.
Busy == \E i \in Registration : reg[i].at \in {"saving", "invalidating"}

Stored == {i \in Registration : reg[i].at # "new"}

\* As long as the row was not set back, it holds what was stored last, or it is lost
\* and Supabase holds it.
RowIsCurrent ==
  ~setBack => IF cred.local = 0 THEN cred.remote = newest /\ ~Busy ELSE cred.local = newest

\* A reader that is in no doubt has what was stored last, or is about to fetch it.
ReadersAreCurrent ==
  \A g \in Reader :
    /\ reader[g].at = "hydrating" => reader[g].v # 0
    /\ reader[g].at # "idle" /\ ~reader[g].doubtful /\ ~setBack =>
         ~Busy /\ (IF reader[g].at = "fetching" THEN cred.remote ELSE reader[g].v) = newest

\* A key is turned away only once Supabase has it revoked.
KeysAreKept ==
  \A k \in Key : /\ key[k].local = "misnamed" => key[k].remote # "none"
                 /\ k \in turnedAway => key[k].remote = "REVOKED"

VersionsCount == newest = Cardinality(Stored)

\* The types of what the credential's actions change.
Clients == [v : Keys!Version, doubtful : BOOLEAN, here : BOOLEAN]
Registrations == [at : {"new", "saving", "invalidating", "done"}, v : Keys!Version]
Readers == [at : {"idle", "fetching", "hydrating", "building"},
            v : Keys!Version, doubtful : BOOLEAN, pools : BOOLEAN]
KeyRows == [local : {"none", "live", "misnamed", "revoked"}, remote : {"none", "ACTIVE", "REVOKED"}]

CredTypes ==
  /\ cred \in [local : Keys!Version, remote : Keys!Version]
  /\ pool \in Clients /\ reg \in [Registration -> Registrations] /\ reader \in [Reader -> Readers]
  /\ newest \in Keys!Version /\ setBack \in BOOLEAN
StoreTypes ==
  storeBroken \in BOOLEAN /\ outages \in 0..MaxOutages /\ losses \in 0..MaxLosses
KeyTypes == key \in [Key -> KeyRows] /\ saved \subseteq Key /\ turnedAway \subseteq Key

KeysInv ==
  /\ CredTypes /\ StoreTypes /\ KeyTypes /\ VersionsCount /\ RowIsCurrent /\ ReadersAreCurrent
  /\ Keys!PooledIsCurrent /\ KeysAreKept

LEMMA KeysTypes == Keys!TypeOK <=> CredTypes /\ StoreTypes /\ KeyTypes
BY DEF Keys!TypeOK, CredTypes, StoreTypes, KeyTypes, Clients, Registrations, Readers, KeyRows

LEMMA SameCardinality == \A S : Keys!Cardinality(S) = Cardinality(S)
BY DEF Keys!Cardinality, Cardinality, Keys!IsFiniteSet, IsFiniteSet

LEMMA VersionFacts ==
  /\ Keys!Version = 0..Cardinality(Registration) /\ Cardinality(Registration) \in Nat
  /\ 0 \in Keys!Version /\ Keys!NoClient \in Clients /\ Keys!IdleReader \in Readers
  /\ ~Keys!NoClient.here /\ Keys!IdleReader.at = "idle"
<1>1. Keys!Version = 0..Cardinality(Registration)
  BY SameCardinality DEF Keys!Version
<1>2. Cardinality(Registration) \in Nat
  BY KeysAssumption, FS_CardinalityType
<1>3. 0 \in Keys!Version
  BY <1>1, <1>2
<1> QED
  BY <1>1, <1>2, <1>3 DEF Keys!NoClient, Keys!IdleReader, Clients, Readers

LEMMA KeysInit == Keys!Init => KeysInv
<1> SUFFICES ASSUME Keys!Init PROVE KeysInv
  OBVIOUS
<1>1. /\ cred = [local |-> 0, remote |-> 0] /\ pool = Keys!NoClient
      /\ reg = [i \in Registration |-> [at |-> "new", v |-> 0]]
      /\ reader = [g \in Reader |-> Keys!IdleReader]
      /\ newest = 0 /\ setBack = FALSE
  BY DEF Keys!Init
<1>2. CredTypes
  BY <1>1, VersionFacts DEF CredTypes, Registrations
<1>3. StoreTypes
  <2>1. storeBroken = FALSE /\ outages = 0 /\ losses = 0
    BY DEF Keys!Init
  <2>2. outages \in 0..MaxOutages /\ losses \in 0..MaxLosses
    BY <2>1, KeysAssumption
  <2> QED
    BY <2>1, <2>2 DEF StoreTypes
<1>6. KeyTypes /\ KeysAreKept
  BY DEF Keys!Init, KeyTypes, KeyRows, KeysAreKept
<1>4. VersionsCount
  <2>1. Stored = {}
    BY <1>1 DEF Stored
  <2> QED
    BY <1>1, <2>1, FS_EmptySet DEF VersionsCount
<1>5. RowIsCurrent /\ ReadersAreCurrent /\ Keys!PooledIsCurrent
  BY <1>1, VersionFacts DEF RowIsCurrent, ReadersAreCurrent, Busy, Keys!PooledIsCurrent
<1> QED
  BY <1>2, <1>3, <1>4, <1>5, <1>6 DEF KeysInv

\* Whether Supabase answers, fails or is not asked.
LEMMA StoreStep ==
  ASSUME StoreTypes, Keys!Answers \/ Keys!tripStoreCircuit \/ Keys!Skipped
  PROVE  StoreTypes'
<1>1. storeBroken' \in BOOLEAN
  BY DEF StoreTypes, Keys!Answers, Keys!tripStoreCircuit, Keys!Skipped
<1>2. outages' \in 0..MaxOutages
  BY KeysAssumption DEF StoreTypes, Keys!Answers, Keys!tripStoreCircuit, Keys!Skipped
<1>3. losses' \in 0..MaxLosses
  BY DEF StoreTypes, Keys!Answers, Keys!tripStoreCircuit, Keys!Skipped
<1> QED
  BY <1>1, <1>2, <1>3 DEF StoreTypes

\* What the set of registrations that stored something is after a step.
LEMMA CountStays ==
  ASSUME VersionsCount, UNCHANGED newest,
         \A i \in Registration : reg'[i].at = "new" <=> reg[i].at = "new"
  PROVE  VersionsCount'
<1>1. Stored' = Stored
  BY DEF Stored
<1> QED
  BY <1>1 DEF VersionsCount

\* A credential is stored: a version more, and every reader under way is in doubt.
LEMMA StoreInv ==
  ASSUME KeysInv, NEW i \in Registration, Keys!storeTenantCredential(i)
  PROVE  KeysInv'
<1>0. CredTypes /\ StoreTypes /\ KeyTypes
  BY DEF KeysInv
<1>1. /\ reg[i].at = "new" /\ newest' = newest + 1
      /\ cred' = [cred EXCEPT !.local = newest']
      /\ reg' = [reg EXCEPT ![i] = [at |-> "saving", v |-> newest']]
      /\ reader' = [g \in Reader |->
           [reader[g] EXCEPT !.doubtful = @ \/ reader[g].at # "idle"]]
      /\ UNCHANGED <<pool, setBack, storeBroken, outages, losses, key, saved, turnedAway>>
  BY DEF Keys!storeTenantCredential, Keys!Racing, Keys!keyVars
<1>2. Stored' = Stored \cup {i} /\ i \notin Stored
  BY <1>0, <1>1 DEF Stored, CredTypes, Registrations
<1>3. IsFiniteSet(Stored) /\ Stored' \subseteq Registration
  BY KeysAssumption, FS_Subset DEF Stored
<1>4. Cardinality(Stored') = newest + 1 /\ Cardinality(Stored') <= Cardinality(Registration)
  BY <1>2, <1>3, FS_AddElement, FS_Subset, KeysAssumption DEF KeysInv, VersionsCount
<1>5. VersionsCount'
  BY <1>1, <1>4 DEF VersionsCount
<1>6. newest \in 0..Cardinality(Registration) /\ newest' \in Keys!Version /\ newest' # 0
  BY <1>0, <1>1, <1>4, VersionFacts DEF CredTypes
<1>7. cred' \in [local : Keys!Version, remote : Keys!Version] /\ cred'.local = newest'
  BY <1>0, <1>1, <1>6 DEF CredTypes
<1>8. reg' \in [Registration -> Registrations]
  <2>1. [at |-> "saving", v |-> newest'] \in Registrations
    BY <1>6 DEF Registrations
  <2> QED
    BY <1>0, <1>1, <2>1 DEF CredTypes
<1>9. Busy'
  BY <1>0, <1>1 DEF Busy, CredTypes
<1>10. /\ reader' \in [Reader -> Readers]
       /\ \A g \in Reader : /\ reader'[g].at = reader[g].at /\ reader'[g].v = reader[g].v
                            /\ reader[g].at # "idle" => reader'[g].doubtful
  <2> SUFFICES ASSUME NEW g \in Reader
               PROVE  /\ reader'[g] \in Readers
                      /\ reader'[g].at = reader[g].at /\ reader'[g].v = reader[g].v
                      /\ reader[g].at # "idle" => reader'[g].doubtful
    BY <1>1
  <2>1. reader[g] \in Readers
    BY <1>0 DEF CredTypes
  <2>2. (reader[g].doubtful \/ reader[g].at # "idle") \in BOOLEAN
    OBVIOUS
  <2>3. reader'[g] = [reader[g] EXCEPT !.doubtful = reader[g].doubtful \/ reader[g].at # "idle"]
    BY <1>1
  <2> QED
    BY <2>1, <2>2, <2>3 DEF Readers
<1>11. RowIsCurrent'
  BY <1>6, <1>7 DEF RowIsCurrent
<1>12. ReadersAreCurrent'
  BY <1>10 DEF ReadersAreCurrent, KeysInv
<1>13. Keys!PooledIsCurrent'
  BY <1>9 DEF Keys!PooledIsCurrent, Busy
<1>14. CredTypes' /\ StoreTypes' /\ KeyTypes'
  BY <1>0, <1>1, <1>6, <1>7, <1>8, <1>10 DEF CredTypes, StoreTypes, KeyTypes
<1>15. KeysAreKept'
  BY <1>1 DEF KeysInv, KeysAreKept
<1> QED
  BY <1>5, <1>11, <1>12, <1>13, <1>14, <1>15 DEF KeysInv

\* It is saved in Supabase, or not; then the pooled client is taken out.
LEMMA RegisterInv ==
  ASSUME KeysInv, NEW i \in Registration, Keys!saveCredential(i) \/ Keys!registerConnection(i)
  PROVE  KeysInv'
<1>0. CredTypes /\ StoreTypes /\ KeyTypes
  BY DEF KeysInv
<1>1. /\ UNCHANGED <<reader, newest, setBack, key, saved, turnedAway>>
      /\ \E a \in {"invalidating", "done"} : reg' = [reg EXCEPT ![i].at = a]
      /\ reg[i].at \in {"saving", "invalidating"}
  BY DEF Keys!saveCredential, Keys!registerConnection, Keys!keyVars
<1>2. /\ reg' \in [Registration -> Registrations] /\ reg'[i].at \in {"invalidating", "done"}
      /\ \A j \in Registration \ {i} : reg'[j] = reg[j]
  <2>1. PICK a \in {"invalidating", "done"} : reg' = [reg EXCEPT ![i].at = a]
    BY <1>1
  <2>2. reg[i] \in Registrations
    BY <1>0 DEF CredTypes
  <2>3. [reg[i] EXCEPT !.at = a] \in Registrations /\ [reg[i] EXCEPT !.at = a].at = a
    BY <2>2 DEF Registrations
  <2> QED
    BY <1>0, <2>1, <2>3 DEF CredTypes
<1>3. VersionsCount'
  <2>1. \A j \in Registration : reg'[j].at = "new" <=> reg[j].at = "new"
    BY <1>1, <1>2
  <2> QED
    BY <1>1, <2>1, CountStays DEF KeysInv
<1>4. Busy /\ (Busy' => Busy)
  BY <1>1 DEF Busy
<1>5. StoreTypes'
  BY <1>0, StoreStep DEF Keys!saveCredential, Keys!registerConnection, StoreTypes
<1>6. KeyTypes' /\ KeysAreKept'
  BY <1>0, <1>1 DEF KeysInv, KeysAreKept, KeyTypes
<1>7. /\ cred' \in [local : Keys!Version, remote : Keys!Version] /\ cred'.local = cred.local
      /\ pool' \in Clients
      /\ pool'.here => pool' = pool /\ reg'[i].at = "invalidating"
  <2>1. CASE Keys!saveCredential(i)
    <3>1. UNCHANGED pool /\ (cred' = [cred EXCEPT !.remote = reg[i].v] \/ UNCHANGED cred)
      BY <2>1 DEF Keys!saveCredential
    <3>2. reg[i].v \in Keys!Version
      BY <1>0 DEF CredTypes, Registrations
    <3>3. cred' \in [local : Keys!Version, remote : Keys!Version] /\ cred'.local = cred.local
      BY <1>0, <3>1, <3>2 DEF CredTypes
    <3>4. reg'[i].at = "invalidating"
      BY <1>0, <2>1 DEF Keys!saveCredential, CredTypes, Registrations
    <3> QED
      BY <1>0, <3>1, <3>3, <3>4 DEF CredTypes
  <2>2. CASE Keys!registerConnection(i)
    BY <1>0, <2>2, VersionFacts DEF Keys!registerConnection, Keys!invalidate, CredTypes
  <2> QED
    BY <2>1, <2>2
<1>8. RowIsCurrent'
  BY <1>1, <1>4, <1>7 DEF KeysInv, RowIsCurrent
<1>9. ReadersAreCurrent'
  BY <1>1, <1>4 DEF KeysInv, ReadersAreCurrent
<1>10. Keys!PooledIsCurrent'
  BY <1>7 DEF Keys!PooledIsCurrent
<1>11. CredTypes'
  BY <1>0, <1>1, <1>2, <1>7 DEF CredTypes
<1> QED
  BY <1>3, <1>5, <1>6, <1>8, <1>9, <1>10, <1>11 DEF KeysInv

\* A reader's own steps leave every other reader alone.
LEMMA ReaderSteps ==
  ASSUME KeysInv, NEW g \in Reader, NEW r \in Readers, reader' = [reader EXCEPT ![g] = r],
         UNCHANGED <<reg, newest>>, setBack => setBack',
         \A h \in Reader : reader[h].at = "fetching" => UNCHANGED cred.remote,
         r.at = "hydrating" => r.v # 0,
         r.at # "idle" /\ ~r.doubtful /\ ~setBack' =>
           ~Busy /\ (IF r.at = "fetching" THEN cred'.remote ELSE r.v) = newest
  PROVE  reader' \in [Reader -> Readers] /\ ReadersAreCurrent' /\ VersionsCount'
<1>1. /\ reader' \in [Reader -> Readers] /\ reader'[g] = r
      /\ \A h \in Reader \ {g} : reader'[h] = reader[h]
  BY DEF KeysInv, CredTypes
<1>2. Busy' <=> Busy
  BY DEF Busy
<1>3. ReadersAreCurrent'
  <2> SUFFICES ASSUME NEW h \in Reader PROVE ReadersAreCurrent!(h)'
    BY DEF ReadersAreCurrent
  <2>1. CASE h = g
    BY <1>1, <1>2, <2>1
  <2>2. CASE h # g
    BY <1>1, <1>2, <2>2 DEF KeysInv, ReadersAreCurrent
  <2> QED
    BY <2>1, <2>2
<1> QED
  BY <1>1, <1>3, CountStays DEF KeysInv

\* The credential is read; a row that is there is the one stored last, and one that is
\* missing is about to be fetched.
LEMMA ReadInv ==
  ASSUME KeysInv, NEW g \in Reader, NEW pools \in BOOLEAN, Keys!read(g, pools)
  PROVE  KeysInv'
<1> DEFINE r == [at |-> IF cred.local = 0 THEN "fetching" ELSE "building",
                 v |-> cred.local, pools |-> pools, doubtful |-> Busy]
<1>1. /\ reader' = [reader EXCEPT ![g] = r]
      /\ UNCHANGED <<cred, pool, reg, newest, setBack, storeBroken, outages, losses,
                     key, saved, turnedAway>>
  BY DEF Keys!read, Keys!keyVars, Busy
<1>2. r \in Readers
  <2>1. Busy \in BOOLEAN
    BY DEF Busy
  <2> QED
    BY <2>1 DEF KeysInv, CredTypes, Readers
<1>3. /\ r.at = "fetching" <=> cred.local = 0
      /\ r.at \in {"fetching", "building"} /\ r.v = cred.local /\ r.doubtful = Busy
  OBVIOUS
<1> HIDE DEF r
<1>4. ~r.doubtful /\ ~setBack' =>
        ~Busy /\ (IF r.at = "fetching" THEN cred'.remote ELSE r.v) = newest
  BY <1>1, <1>3 DEF KeysInv, RowIsCurrent
<1>5. reader' \in [Reader -> Readers] /\ ReadersAreCurrent' /\ VersionsCount'
  BY <1>1, <1>2, <1>3, <1>4, ReaderSteps
<1> QED
  BY <1>1, <1>5 DEF KeysInv, CredTypes, StoreTypes, KeyTypes, RowIsCurrent, Busy,
     Keys!PooledIsCurrent, KeysAreKept

\* Supabase has it, has none, or does not answer, which leaves the reader in doubt.
LEMMA FetchInv ==
  ASSUME KeysInv, NEW g \in Reader, Keys!fetchCredential(g)
  PROVE  KeysInv'
<1>0. /\ reader[g].at = "fetching" /\ reader[g] \in Readers /\ cred.remote \in Keys!Version
      /\ UNCHANGED <<cred, pool, reg, newest, setBack, key, saved, turnedAway>>
  BY DEF Keys!fetchCredential, Keys!keyVars, KeysInv, CredTypes
<1>1. StoreTypes'
  BY StoreStep DEF Keys!fetchCredential, KeysInv
<1>2. reader' \in [Reader -> Readers] /\ ReadersAreCurrent' /\ VersionsCount'
  <2>1. CASE Keys!Answers
    <3> DEFINE r == [reader[g] EXCEPT !.v = cred.remote,
                       !.at = IF cred.remote = 0 THEN "building" ELSE "hydrating"]
    <3>1. reader' = [reader EXCEPT ![g] = r]
      BY <2>1 DEF Keys!fetchCredential, Keys!Answers, Keys!Skipped, Keys!tripStoreCircuit,
         KeysInv, CredTypes
    <3>2. /\ r \in Readers /\ r.v = cred.remote /\ r.doubtful = reader[g].doubtful
          /\ r.at = IF cred.remote = 0 THEN "building" ELSE "hydrating"
      BY <1>0 DEF Readers
    <3> HIDE DEF r
    <3>3. ~r.doubtful /\ ~setBack => ~Busy /\ cred.remote = newest
      BY <1>0, <3>2 DEF KeysInv, ReadersAreCurrent
    <3> QED
      BY <1>0, <3>1, <3>2, <3>3, ReaderSteps
  <2>2. CASE ~Keys!Answers
    <3> DEFINE r == [reader[g] EXCEPT !.at = "building", !.doubtful = TRUE]
    <3>1. reader' = [reader EXCEPT ![g] = r]
      BY <2>2 DEF Keys!fetchCredential, KeysInv, CredTypes
    <3>2. r \in Readers /\ r.doubtful /\ r.at = "building"
      BY <1>0 DEF Readers
    <3> HIDE DEF r
    <3> QED
      BY <1>0, <3>1, <3>2, ReaderSteps
  <2> QED
    BY <2>1, <2>2
<1> QED
  BY <1>0, <1>1, <1>2 DEF KeysInv, CredTypes, KeyTypes, RowIsCurrent, Busy,
     Keys!PooledIsCurrent, KeysAreKept

\* What was fetched replaces the local row.
LEMMA HydrateInv ==
  ASSUME KeysInv, NEW g \in Reader, Keys!getTenantCredential(g)
  PROVE  KeysInv'
<1>0. /\ reader[g].at = "hydrating" /\ reader[g] \in Readers
      /\ cred' = [cred EXCEPT !.local = reader[g].v]
      /\ reader' = [reader EXCEPT ![g].at = "building"]
      /\ setBack' = (setBack \/ reader[g].v # newest)
      /\ UNCHANGED <<pool, reg, newest, storeBroken, outages, losses, key, saved, turnedAway>>
  BY DEF Keys!getTenantCredential, Keys!keyVars, KeysInv, CredTypes
<1> DEFINE r == [reader[g] EXCEPT !.at = "building"]
<1>1. reader' = [reader EXCEPT ![g] = r]
  BY <1>0 DEF KeysInv, CredTypes
<1>2. r \in Readers /\ r.at = "building" /\ r.v = reader[g].v /\ r.doubtful = reader[g].doubtful
  BY <1>0 DEF Readers
<1> HIDE DEF r
<1>3. /\ cred' \in [local : Keys!Version, remote : Keys!Version]
      /\ cred'.local = reader[g].v /\ cred'.remote = cred.remote
  BY <1>0 DEF KeysInv, CredTypes, Readers
<1>4. setBack' \in BOOLEAN /\ (setBack => setBack') /\ (~setBack' => reader[g].v = newest)
  BY <1>0 DEF KeysInv, CredTypes
<1>5. r.v # 0 /\ (~r.doubtful /\ ~setBack' => ~Busy /\ r.v = newest)
  BY <1>0, <1>2, <1>4 DEF KeysInv, ReadersAreCurrent
<1>6. reader' \in [Reader -> Readers] /\ ReadersAreCurrent' /\ VersionsCount'
  BY <1>0, <1>1, <1>2, <1>3, <1>4, <1>5, ReaderSteps
<1>7. RowIsCurrent'
  BY <1>0, <1>2, <1>3, <1>4, <1>5 DEF RowIsCurrent
<1>8. Keys!PooledIsCurrent'
  BY <1>0, <1>4 DEF KeysInv, Keys!PooledIsCurrent
<1> QED
  BY <1>0, <1>3, <1>4, <1>6, <1>7, <1>8 DEF KeysInv, CredTypes, StoreTypes, KeyTypes, KeysAreKept

\* The client is made of what the reader has.
LEMMA PoolInv ==
  ASSUME KeysInv, NEW g \in Reader, Keys!poolClient(g)
  PROVE  KeysInv'
<1>0. /\ reader[g].at = "building" /\ reader[g] \in Readers
      /\ reader' = [reader EXCEPT ![g] = Keys!IdleReader]
      /\ UNCHANGED <<cred, reg, newest, setBack, storeBroken, outages, losses,
                     key, saved, turnedAway>>
  BY DEF Keys!poolClient, Keys!keyVars, KeysInv, CredTypes
<1>1. reader' \in [Reader -> Readers] /\ ReadersAreCurrent' /\ VersionsCount'
  BY <1>0, VersionFacts, ReaderSteps
<1>2. \/ UNCHANGED pool
      \/ pool' = [v |-> reader[g].v, doubtful |-> reader[g].doubtful, here |-> TRUE]
  BY DEF Keys!poolClient
<1>3. pool' \in Clients
  <2>1. reader[g].v \in Keys!Version /\ reader[g].doubtful \in BOOLEAN
    BY <1>0 DEF Readers
  <2>2. [v |-> reader[g].v, doubtful |-> reader[g].doubtful, here |-> TRUE] \in Clients
    BY <2>1 DEF Clients
  <2> QED
    BY <1>2, <2>2 DEF KeysInv, CredTypes
<1>4. Keys!PooledIsCurrent'
  <2>1. ~reader[g].doubtful /\ ~setBack => reader[g].v = newest
    BY <1>0 DEF KeysInv, ReadersAreCurrent
  <2> QED
    BY <1>0, <1>2, <2>1 DEF KeysInv, Keys!PooledIsCurrent
<1> QED
  BY <1>0, <1>1, <1>3, <1>4 DEF KeysInv, CredTypes, StoreTypes, KeyTypes, RowIsCurrent, Busy,
     KeysAreKept

\* The pooled client expires, or the local row is deleted.
LEMMA ForgetInv ==
  ASSUME KeysInv, Keys!expireClient \/ Keys!deleteTenantCredential
  PROVE  KeysInv'
<1>1. CASE Keys!expireClient
  <2>1. /\ pool' = Keys!NoClient
        /\ UNCHANGED <<cred, reg, reader, newest, setBack, storeBroken, outages, losses,
                       key, saved, turnedAway>>
    BY <1>1 DEF Keys!expireClient, Keys!keyVars
  <2>2. CredTypes' /\ Keys!PooledIsCurrent' /\ VersionsCount'
    BY <2>1, VersionFacts, CountStays DEF KeysInv, CredTypes, Keys!PooledIsCurrent
  <2> QED
    BY <2>1, <2>2 DEF KeysInv, StoreTypes, KeyTypes, RowIsCurrent, ReadersAreCurrent, Busy,
       KeysAreKept
<1>2. CASE Keys!deleteTenantCredential
  <2>1. /\ cred' = [cred EXCEPT !.local = 0] /\ setBack' = TRUE
        /\ reader' = [g \in Reader |->
             [reader[g] EXCEPT !.doubtful = @ \/ reader[g].at # "idle"]]
        /\ UNCHANGED <<pool, reg, newest, storeBroken, outages, losses, key, saved, turnedAway>>
    BY <1>2 DEF Keys!deleteTenantCredential, Keys!Racing, Keys!keyVars
  <2>2. cred' \in [local : Keys!Version, remote : Keys!Version]
    BY <2>1, VersionFacts DEF KeysInv, CredTypes
  <2>3. \A g \in Reader : /\ reader'[g] \in Readers /\ reader'[g].at = reader[g].at
                          /\ reader'[g].v = reader[g].v
    <3> SUFFICES ASSUME NEW g \in Reader
                 PROVE  /\ reader'[g] \in Readers /\ reader'[g].at = reader[g].at
                        /\ reader'[g].v = reader[g].v
      OBVIOUS
    <3>1. reader[g] \in Readers
      BY DEF KeysInv, CredTypes
    <3>2. (reader[g].doubtful \/ reader[g].at # "idle") \in BOOLEAN
      OBVIOUS
    <3>3. reader'[g] = [reader[g] EXCEPT !.doubtful = reader[g].doubtful \/ reader[g].at # "idle"]
      BY <2>1
    <3> QED
      BY <3>1, <3>2, <3>3 DEF Readers
  <2>4. reader' \in [Reader -> Readers]
    BY <2>1, <2>3
  <2>5. ReadersAreCurrent' /\ RowIsCurrent' /\ Keys!PooledIsCurrent' /\ VersionsCount'
    BY <2>1, <2>3, CountStays
       DEF KeysInv, ReadersAreCurrent, RowIsCurrent, Keys!PooledIsCurrent
  <2> QED
    BY <2>1, <2>2, <2>4, <2>5 DEF KeysInv, CredTypes, StoreTypes, KeyTypes, KeysAreKept
<1> QED
  BY <1>1, <1>2

\* The local database is lost: what Supabase has is all there is.
LEMMA LossInv ==
  ASSUME KeysInv, Keys!loseLocalDatabase
  PROVE  KeysInv'
<1>1. /\ losses < MaxLosses /\ losses' = losses + 1 /\ storeBroken' = FALSE
      /\ cred' = [cred EXCEPT !.local = 0] /\ setBack' = (setBack \/ cred.remote # newest)
      /\ key' = [k \in Key |-> [key[k] EXCEPT !.local = "none"]]
      /\ pool' = Keys!NoClient
      /\ reg' = [i \in Registration |->
           [reg[i] EXCEPT !.at = IF reg[i].at = "new" THEN "new" ELSE "done"]]
      /\ reader' = [g \in Reader |-> Keys!IdleReader]
      /\ UNCHANGED <<outages, newest, saved, turnedAway>>
  BY DEF Keys!loseLocalDatabase
<1>2. /\ cred' \in [local : Keys!Version, remote : Keys!Version]
      /\ cred'.local = 0 /\ cred'.remote = cred.remote
  BY <1>1, VersionFacts DEF KeysInv, CredTypes
<1>3. \A i \in Registration : /\ reg'[i] \in Registrations /\ reg'[i].at \in {"new", "done"}
                              /\ reg'[i].at = "new" <=> reg[i].at = "new"
  BY <1>1 DEF KeysInv, CredTypes, Registrations
<1>4. \A k \in Key : /\ key'[k] \in KeyRows /\ key'[k].local = "none"
                     /\ key'[k].remote = key[k].remote
  BY <1>1 DEF KeysInv, KeyTypes, KeyRows
<1>5. reg' \in [Registration -> Registrations] /\ key' \in [Key -> KeyRows] /\ ~Busy'
  BY <1>1, <1>3, <1>4 DEF Busy
<1>6. CredTypes'
  BY <1>1, <1>2, <1>5, VersionFacts DEF KeysInv, CredTypes
<1>7. StoreTypes'
  <2>1. losses' \in 0..MaxLosses
    BY <1>1, KeysAssumption DEF KeysInv, StoreTypes
  <2> QED
    BY <1>1, <2>1 DEF KeysInv, StoreTypes
<1>8. KeyTypes' /\ KeysAreKept'
  BY <1>1, <1>4, <1>5 DEF KeysInv, KeyTypes, KeysAreKept
<1>9. RowIsCurrent'
  BY <1>1, <1>2, <1>5 DEF RowIsCurrent
<1>10. ReadersAreCurrent' /\ Keys!PooledIsCurrent'
  BY <1>1, VersionFacts DEF ReadersAreCurrent, Keys!PooledIsCurrent
<1>11. VersionsCount'
  BY <1>1, <1>3, CountStays DEF KeysInv
<1> QED
  BY <1>6, <1>7, <1>8, <1>9, <1>10, <1>11 DEF KeysInv

\* A key is made, looked for, listed or revoked.
LEMMA ApiKeyInv ==
  ASSUME KeysInv,
         \/ Keys!listApiKeys
         \/ \E k \in Key : Keys!createApiKey(k) \/ Keys!authenticateKey(k)
         \/ \E k \in Key, byId \in BOOLEAN : Keys!revokeApiKey(k, byId)
  PROVE  KeysInv'
<1>1. UNCHANGED <<cred, pool, reg, reader, newest, setBack>> /\ StoreTypes'
  BY StoreStep DEF KeysInv, StoreTypes, Keys!listApiKeys, Keys!createApiKey, Keys!authenticateKey,
     Keys!fetchApiKeyByHash, Keys!revokeApiKey, Keys!credVars, Keys!Answers
<1>2. \A k \in Key : key[k] \in KeyRows
  BY DEF KeysInv, KeyTypes
<1>3. KeyTypes' /\ KeysAreKept'
  <2>1. CASE Keys!listApiKeys
    <3>1. /\ UNCHANGED <<saved, turnedAway>>
          /\ key' = [k \in Key |-> IF key[k].remote = "none" THEN key[k]
                                   ELSE [key[k] EXCEPT !.local = "misnamed"]]
      BY <2>1 DEF Keys!listApiKeys
    <3>2. \A k \in Key : /\ key'[k] \in KeyRows /\ key'[k].remote = key[k].remote
                         /\ key'[k].local = "misnamed" =>
                              key[k].remote # "none" \/ key[k].local = "misnamed"
      BY <1>2, <3>1 DEF KeyRows
    <3>3. key' \in [Key -> KeyRows]
      BY <3>1, <3>2
    <3> QED
      BY <3>1, <3>2, <3>3 DEF KeysInv, KeyTypes, KeysAreKept
  <2>2. ASSUME NEW k \in Key, NEW r \in KeyRows, key' = [key EXCEPT ![k] = r],
               saved' \subseteq Key, UNCHANGED turnedAway, r.local # "misnamed",
               key[k].remote = "REVOKED" => r.remote = "REVOKED"
        PROVE  KeyTypes' /\ KeysAreKept'
    <3>1. key' \in [Key -> KeyRows] /\ key'[k] = r /\ \A j \in Key \ {k} : key'[j] = key[j]
      BY <2>2 DEF KeysInv, KeyTypes
    <3> QED
      BY <2>2, <3>1 DEF KeysInv, KeyTypes, KeysAreKept
  <2>3. ASSUME NEW k \in Key, Keys!createApiKey(k) PROVE KeyTypes' /\ KeysAreKept'
    <3>1. /\ key[k].remote = "none" /\ UNCHANGED turnedAway
          /\ saved' = saved \cup {k} \/ UNCHANGED saved
      BY <2>3 DEF Keys!createApiKey
    <3>2. \/ key' = [key EXCEPT ![k] = [local |-> "live", remote |-> "ACTIVE"]]
          \/ key' = [key EXCEPT ![k] = [key[k] EXCEPT !.local = "live"]]
      BY <2>3 DEF Keys!createApiKey, KeysInv, KeyTypes
    <3>3. /\ [local |-> "live", remote |-> "ACTIVE"] \in KeyRows
          /\ [key[k] EXCEPT !.local = "live"] \in KeyRows
          /\ [key[k] EXCEPT !.local = "live"].local = "live"
      BY <1>2 DEF KeyRows
    <3>4. saved' \subseteq Key
      BY <3>1 DEF KeysInv, KeyTypes
    <3> QED
      BY <2>2, <3>1, <3>2, <3>3, <3>4
  <2>4. ASSUME NEW k \in Key, Keys!authenticateKey(k) PROVE KeyTypes' /\ KeysAreKept'
    <3>1. /\ UNCHANGED saved /\ key[k].local \in {"none", "misnamed"}
          /\ key[k] # [local |-> "none", remote |-> "none"]
      BY <2>4 DEF Keys!authenticateKey, Keys!fetchApiKeyByHash
    <3>2. key[k].remote # "none"
      <4>1. key[k].local = "none" => key[k].remote # "none"
        BY <1>2, <3>1 DEF KeyRows
      <4> QED
        BY <3>1, <4>1 DEF KeysInv, KeysAreKept
    <3>3. CASE UNCHANGED turnedAway /\ key' = [key EXCEPT ![k] = [key[k] EXCEPT !.local = "live"]]
      <4>1. /\ [key[k] EXCEPT !.local = "live"] \in KeyRows
            /\ [key[k] EXCEPT !.local = "live"].local = "live"
            /\ [key[k] EXCEPT !.local = "live"].remote = key[k].remote
        BY <1>2 DEF KeyRows
      <4>2. saved' \subseteq Key
        BY <3>1 DEF KeysInv, KeyTypes
      <4> QED
        BY <2>2, <3>3, <4>1, <4>2
    <3>4. CASE /\ UNCHANGED key /\ key[k].remote # "ACTIVE"
               /\ turnedAway' = turnedAway \cup {k}
      <4>1. key[k].remote = "REVOKED"
        BY <1>2, <3>2, <3>4 DEF KeyRows
      <4> QED
        BY <3>1, <3>4, <4>1 DEF KeysInv, KeyTypes, KeysAreKept
    <3>5. CASE UNCHANGED <<key, turnedAway>>
      BY <3>1, <3>5 DEF KeysInv, KeyTypes, KeysAreKept
    <3>6. \/ /\ UNCHANGED turnedAway
             /\ key' = [key EXCEPT ![k] = [key[k] EXCEPT !.local = "live"]]
          \/ UNCHANGED key /\ key[k].remote # "ACTIVE" /\ turnedAway' = turnedAway \cup {k}
          \/ UNCHANGED <<key, turnedAway>>
      BY <2>4 DEF Keys!authenticateKey, Keys!fetchApiKeyByHash, KeysInv, KeyTypes
    <3> QED
      BY <3>3, <3>4, <3>5, <3>6
  <2>5. ASSUME NEW k \in Key, NEW byId \in BOOLEAN, Keys!revokeApiKey(k, byId)
        PROVE  KeyTypes' /\ KeysAreKept'
    <3> DEFINE gone == IF byId /\ key[k].remote = "ACTIVE" THEN "REVOKED" ELSE key[k].remote
               here == [key[k] EXCEPT !.local = "revoked"]
               both == [key[k] EXCEPT !.local = "revoked", !.remote = gone]
    <3>1. /\ here \in KeyRows /\ here.local = "revoked" /\ here.remote = key[k].remote
          /\ both \in KeyRows /\ both.local = "revoked" /\ both.remote = gone
      BY <1>2 DEF KeyRows
    <3>2. key' = [key EXCEPT ![k] = here] \/ key' = [key EXCEPT ![k] = both]
      <4>1. CASE Keys!Answers /\ key' = [key EXCEPT ![k].local = "revoked",
                       ![k].remote = IF byId /\ @ = "ACTIVE" THEN "REVOKED" ELSE @]
        BY <1>2, <4>1 DEF KeysInv, KeyTypes, KeyRows
      <4>2. CASE key' = [key EXCEPT ![k].local = "revoked"]
        BY <4>2 DEF KeysInv, KeyTypes
      <4> QED
        BY <2>5, <4>1, <4>2 DEF Keys!revokeApiKey
    <3>3. saved' \subseteq Key /\ UNCHANGED turnedAway
      BY <2>5 DEF Keys!revokeApiKey, KeysInv, KeyTypes
    <3> HIDE DEF here, both
    <3>4. key[k].remote = "REVOKED" => gone = "REVOKED"
      OBVIOUS
    <3> QED
      BY <2>2, <3>1, <3>2, <3>3, <3>4
  <2> QED
    BY <2>1, <2>3, <2>4, <2>5
<1> QED
  BY <1>1, <1>3 DEF KeysInv, CredTypes, VersionsCount, Stored, RowIsCurrent, ReadersAreCurrent,
     Busy, Keys!PooledIsCurrent

LEMMA KeysStep == KeysInv /\ [Keys!Next]_keyVars => KeysInv'
<1> SUFFICES ASSUME KeysInv, [Keys!Next]_keyVars PROVE KeysInv'
  OBVIOUS
<1>1. ASSUME NEW i \in Registration,
             \/ Keys!storeTenantCredential(i) \/ Keys!saveCredential(i)
             \/ Keys!registerConnection(i)
      PROVE  KeysInv'
  BY <1>1, StoreInv, RegisterInv
<1>2. ASSUME NEW g \in Reader,
             \/ Keys!getClient(g) \/ Keys!verifyConnection(g) \/ Keys!getWebhookSecrets(g)
             \/ Keys!listTenantCredentials(g)
      PROVE  KeysInv'
  <2>1. \E pools \in BOOLEAN : Keys!read(g, pools)
    BY <1>2 DEF Keys!getClient, Keys!verifyConnection, Keys!getWebhookSecrets,
       Keys!listTenantCredentials
  <2> QED
    BY <2>1, ReadInv
<1>3. ASSUME NEW g \in Reader,
             Keys!fetchCredential(g) \/ Keys!getTenantCredential(g) \/ Keys!poolClient(g)
      PROVE  KeysInv'
  BY <1>3, FetchInv, HydrateInv, PoolInv
<1>4. CASE Keys!loseLocalDatabase
  BY <1>4, LossInv
<1>5. CASE Keys!expireClient \/ Keys!deleteTenantCredential
  BY <1>5, ForgetInv
<1>6. CASE \/ Keys!listApiKeys
           \/ \E k \in Key : Keys!createApiKey(k) \/ Keys!authenticateKey(k)
           \/ \E k \in Key, byId \in BOOLEAN : Keys!revokeApiKey(k, byId)
  BY <1>6, ApiKeyInv
<1>7. CASE Keys!circuitCloses \/ UNCHANGED keyVars
  <2>1. /\ UNCHANGED <<cred, pool, reg, reader, newest, setBack, key, saved, turnedAway>>
        /\ StoreTypes'
    BY <1>7 DEF Keys!circuitCloses, Keys!keyVars, Keys!credVars, keyVars, KeysInv, StoreTypes
  <2> QED
    BY <2>1 DEF KeysInv, CredTypes, KeyTypes, VersionsCount, Stored, RowIsCurrent,
       ReadersAreCurrent, Busy, Keys!PooledIsCurrent, KeysAreKept
<1> QED
  BY <1>1, <1>2, <1>3, <1>4, <1>5, <1>6, <1>7 DEF Keys!Next

\* A pooled client is made of the credential stored last, apart from the windows the code
\* leaves open, and a key Supabase has is turned away only when it is revoked there, however
\* registrations, readers, outages and losses of the local database fall together.
THEOREM CredentialsAreKept == ServicesSpec => []CredentialsHold
<1> DEFINE Inv == part = "keys" => KeysInv
<1>1. ServicesInit => Inv
  BY KeysInit DEF ServicesInit
<1>2. Inv /\ [ServicesNext]_all => Inv'
  BY KeysStep DEF ServicesNext, all, keyVars
<1>3. Inv => CredentialsHold
  BY KeysTypes DEF KeysInv, KeyTypes, CredentialsHold, KeysAreKept, Keys!SavedKeyIsAccepted
<1> HIDE DEF Inv
<1> QED
  BY <1>1, <1>2, <1>3, PTL DEF ServicesSpec

-----------------------------------------------------------------------------
(* Merchant accounts and sessions.                                         *)

Email == [box : Merchants!Box, capital : BOOLEAN]
Ended == {"ok", "refused", "failed"}
Inserted == {"session", "insert", "ok", "failed"}
SignIns == {"verifyOtp", "signup", "login", "demo", "refresh"}
Seeding == {"seed", "seedUser", "seedMember", "demoUser", "demoMember"}
Stages ==
  Ended \cup Inserted \cup Seeding \cup
  {"idle", "checking", "missed", "matched", "purge", "consume", "lookup", "onboard",
   "refresh", "logout", "tenant", "environment"}
Handled ==
  [at : Stages, call : SignIns \cup {"none", "sendOtp", "logout", "tenant", "environment"},
   email : Email, user : Merchants!UserId, tenant : Merchants!TenantId,
   seen : 0..OtpTries, token : Merchants!Request \cup {0}]

\* A user keeps its address: that of the request that made it, or one of the demo's.
Fits(x, e) ==
  /\ x = Merchants!Demo => e.box \in Merchants!DemoBox
  /\ x = Merchants!Outsider => e.box \in Mailbox
  /\ x \in Merchants!Request => req[x].at \in Inserted /\ req[x].email = e
OfMerchant(x) == \E e \in Email : Fits(x, e) /\ e.box \in Mailbox

\* The request acts for a user.
Signed(q) ==
  \/ req[q].at \in {"session", "insert", "refresh", "logout", "tenant", "environment"}
  \/ req[q].at = "ok" /\ req[q].call # "sendOtp"

SessionOf(q, t) == \E s \in sessions : s.id = t /\ s.user = req[q].user
EndedSessionOf(q, t) ==
  \E s \in sessions : s.id = t /\ s.user = req[q].user /\ s.state = "revoked"

ActsForItsUser(q) ==
  Signed(q) => /\ Fits(req[q].user, req[q].email)
               /\ req[q].tenant \in tenants \cup {Merchants!DefaultTenant, Merchants!Outsider}
HasAnAccount(q) ==
  /\ req[q].at \in {"session", "insert", "ok"} /\ req[q].call \in {"verifyOtp", "signup"}
  /\ req[q].email.box \in Mailbox
  => \E u \in users : u.email = req[q].email /\ \E m \in memberships : m[1] = u.id
KeepsToItsStage(q) ==
  /\ req[q].at \in {"refresh", "logout", "tenant", "environment"} => req[q].call = req[q].at
  /\ req[q].at \in {"session", "insert"} \cup Seeding => req[q].call \in SignIns
  /\ req[q].at \in Seeding =>
       /\ req[q].email.box \in Merchants!DemoBox
       /\ req[q].at # "seed" => Merchants!DefaultTenant \in tenants
  /\ req[q].at \in {"checking", "missed"} => req[q].seen < OtpTries
HasItsSession(q) ==
  /\ req[q].call = "logout" /\ req[q].at \in {"logout", "ok"} =>
       LET t == req[q].token IN
       t \in Merchants!Tokens /\ req[t].email = req[q].email /\ req[t].user = req[q].user
  /\ q \in Merchants!Tokens /\ req[q].email.box \in Mailbox => SessionOf(q, q)
  /\ req[q].call = "logout" /\ req[q].at = "ok" /\ req[q].email.box \in Mailbox =>
       EndedSessionOf(q, req[q].token)

RequestInv(q) == ActsForItsUser(q) /\ HasAnAccount(q) /\ KeepsToItsStage(q) /\ HasItsSession(q)

\* Users keep their address, members have their tenant, a merchant's tenant its member.
TablesInv ==
  /\ \A u \in users : Fits(u.id, u.email)
  /\ \A m \in memberships : m[2] \in tenants
  /\ \A q \in tenants \cap Merchants!Request :
       /\ req[q].at \in Inserted
       /\ req[q].email.box \in Mailbox =>
            \E u \in users : u.email.box \in Mailbox /\ <<u.id, q>> \in memberships

RowTypes ==
  /\ tenants \subseteq Merchants!TenantId
  /\ users \subseteq [id : Merchants!UserId, email : Email]
  /\ memberships \subseteq (Merchants!UserId \X Merchants!TenantId)
  /\ sessions \subseteq [id : Merchants!Request, user : Merchants!UserId,
                         tenant : Merchants!TenantId, state : {"live", "revoked", "expired"}]
SettingTypes == settings \in [environment : {"test", "live"}, capacity_limit : 1..100]
CodeTypes ==
  /\ codes \in [Merchants!Box -> [by : Merchants!Request \cup {0}, expired : BOOLEAN]]
  /\ failed \in [Merchants!Box -> 0..OtpTries]

AccountsInv ==
  /\ RowTypes /\ SettingTypes /\ CodeTypes /\ req \in [Merchants!Request -> Handled]
  /\ TablesInv /\ \A q \in Merchants!Request : RequestInv(q)

\* What a step never takes away: an ended request, and what belongs to a merchant.
Onward ==
  \A q \in Merchants!Request :
    /\ req[q].at \in Ended => req'[q] = req[q]
    /\ req[q].at \in Inserted => req'[q].at \in Inserted /\ req'[q].email = req[q].email
KeepsMerchants ==
  /\ tenants \subseteq tenants'
  /\ \A u \in users : u.email.box \in Mailbox => u \in users'
  /\ \A m \in memberships : OfMerchant(m[1]) => m \in memberships'
  /\ \A s \in sessions : OfMerchant(s.user) =>
       \E z \in sessions' : /\ z.id = s.id /\ z.user = s.user
                            /\ s.state = "revoked" => z.state = "revoked"

LEMMA AccountConstants ==
  /\ Merchants!Demo \notin Merchants!Request /\ Merchants!Outsider \notin Merchants!Request
  /\ Merchants!Demo # Merchants!Outsider /\ Merchants!DefaultTenant \notin Merchants!Request
  /\ Merchants!UserId = Merchants!Request \cup {Merchants!Demo, Merchants!Outsider}
  /\ Merchants!TenantId = Merchants!Request \cup {Merchants!DefaultTenant, Merchants!Outsider}
  /\ Mailbox \cap Merchants!DemoBox = {} /\ Merchants!Box = Mailbox \cup Merchants!DemoBox
  /\ Merchants!DemoAddress \in Email /\ Merchants!DemoAddress.box \in Merchants!DemoBox
  /\ Merchants!NoCode \in [by : Merchants!Request \cup {0}, expired : BOOLEAN]
  /\ 0 \in 0..OtpTries
  /\ \A e \in Email : Merchants!lower(e) \in Email /\ Merchants!lower(e).box = e.box
<1>1. /\ Merchants!Request = 1..Requests /\ Merchants!Demo = 0 /\ Merchants!DefaultTenant = 0
      /\ Merchants!Outsider = Requests + 1
  BY DEF Merchants!Request, Merchants!Demo, Merchants!DefaultTenant, Merchants!Outsider
<1>2. /\ Merchants!Demo \notin Merchants!Request /\ Merchants!Outsider \notin Merchants!Request
      /\ Merchants!Demo # Merchants!Outsider /\ Merchants!DefaultTenant \notin Merchants!Request
  BY <1>1, AccountsAssumption
<1>3. /\ Merchants!UserId = Merchants!Request \cup {Merchants!Demo, Merchants!Outsider}
      /\ Merchants!TenantId = Merchants!Request \cup {Merchants!DefaultTenant, Merchants!Outsider}
      /\ Merchants!Box = Mailbox \cup Merchants!DemoBox /\ Mailbox \cap Merchants!DemoBox = {}
  BY AccountsAssumption DEF Merchants!UserId, Merchants!TenantId, Merchants!Box
<1>4. Merchants!DemoAddress \in Email /\ Merchants!DemoAddress.box \in Merchants!DemoBox
  BY <1>3 DEF Merchants!DemoAddress, Merchants!DemoBox, Email
<1>5. /\ Merchants!NoCode \in [by : Merchants!Request \cup {0}, expired : BOOLEAN]
  BY DEF Merchants!NoCode
<1>6. 0 \in 0..OtpTries
  BY AccountsAssumption
<1>7. \A e \in Email : Merchants!lower(e) \in Email /\ Merchants!lower(e).box = e.box
  BY DEF Merchants!lower, Email
<1> QED
  BY <1>2, <1>3, <1>4, <1>5, <1>6, <1>7

\* A user that has a merchant's address is a merchant, whoever finds the row.
LEMMA MerchantFacts ==
  ASSUME AccountsInv, NEW u \in users
  PROVE  /\ u.email.box \in Mailbox => OfMerchant(u.id)
         /\ OfMerchant(u.id) => u.email.box \in Mailbox /\ u.id # Merchants!Demo
<1>1. Fits(u.id, u.email) /\ u.email \in Email /\ u.id \in Merchants!UserId
  BY DEF AccountsInv, TablesInv, RowTypes
<1>2. u.email.box \in Mailbox => OfMerchant(u.id)
  BY <1>1 DEF OfMerchant
<1>3. ASSUME NEW e \in Email, Fits(u.id, e), e.box \in Mailbox
      PROVE  u.email.box \in Mailbox /\ u.id # Merchants!Demo
  BY <1>1, <1>3, AccountConstants DEF Fits
<1> QED
  BY <1>2, <1>3 DEF OfMerchant

LEMMA FitsStays ==
  ASSUME Onward, NEW x, NEW e, Fits(x, e)
  PROVE  Fits(x, e)'
BY DEF Fits, Onward

\* What holds of a request holds as long as it makes no step itself.
LEMMA RequestStays ==
  ASSUME AccountsInv, Onward, KeepsMerchants, NEW q \in Merchants!Request, req'[q] = req[q]
  PROVE  RequestInv(q)'
<1>0. /\ RequestInv(q) /\ (Signed(q)' <=> Signed(q)) /\ req[q] \in Handled
      /\ q \in Merchants!Tokens' <=> q \in Merchants!Tokens
  BY DEF AccountsInv, Signed, Merchants!Tokens
<1>1. ActsForItsUser(q)'
  BY <1>0, FitsStays DEF RequestInv, ActsForItsUser, KeepsMerchants
<1>2. HasAnAccount(q)'
  <2> SUFFICES ASSUME req[q].at \in {"session", "insert", "ok"},
                      req[q].call \in {"verifyOtp", "signup"}, req[q].email.box \in Mailbox
               PROVE  \E u \in users' : /\ u.email = req[q].email
                                        /\ \E m \in memberships' : m[1] = u.id
    BY DEF HasAnAccount
  <2>1. PICK u \in users : u.email = req[q].email /\ \E m \in memberships : m[1] = u.id
    BY <1>0 DEF RequestInv, HasAnAccount
  <2>2. u \in users' /\ OfMerchant(u.id)
    BY <2>1, MerchantFacts DEF KeepsMerchants
  <2> QED
    BY <2>1, <2>2 DEF KeepsMerchants
<1>3. KeepsToItsStage(q)'
  BY <1>0 DEF RequestInv, KeepsToItsStage, KeepsMerchants
<1>4. HasItsSession(q)'
  <2>1. ASSUME Signed(q), req[q].email.box \in Mailbox PROVE OfMerchant(req[q].user)
    BY <1>0, <2>1 DEF RequestInv, ActsForItsUser, OfMerchant, Handled
  <2>2. ASSUME req[q].call = "logout", req[q].at \in {"logout", "ok"}
        PROVE  LET t == req[q].token IN
               t \in Merchants!Tokens' /\ req'[t].email = req[q].email /\ req'[t].user = req[q].user
    <3>1. LET t == req[q].token IN
          /\ t \in Merchants!Tokens /\ req[t].email = req[q].email /\ req[t].user = req[q].user
      BY <1>0, <2>2 DEF RequestInv, HasItsSession
    <3>2. \A t \in Merchants!Tokens : req'[t] = req[t] /\ t \in Merchants!Tokens'
      BY DEF Merchants!Tokens, Onward, Ended
    <3> QED
      BY <3>1, <3>2
  <2>3. ASSUME q \in Merchants!Tokens, req[q].email.box \in Mailbox PROVE SessionOf(q, q)'
    <3>1. Signed(q)
      BY <2>3 DEF Signed, Merchants!Tokens
    <3>2. PICK s \in sessions : s.id = q /\ s.user = req[q].user
      BY <1>0, <2>3 DEF RequestInv, HasItsSession, SessionOf
    <3> QED
      BY <2>1, <2>3, <3>1, <3>2 DEF KeepsMerchants, SessionOf
  <2>4. ASSUME req[q].call = "logout", req[q].at = "ok", req[q].email.box \in Mailbox
        PROVE  EndedSessionOf(q, req[q].token)'
    <3>1. Signed(q)
      BY <2>4 DEF Signed
    <3>2. PICK s \in sessions : s.id = req[q].token /\ s.user = req[q].user /\ s.state = "revoked"
      BY <1>0, <2>4 DEF RequestInv, HasItsSession, EndedSessionOf
    <3> QED
      BY <2>1, <2>4, <3>1, <3>2 DEF KeepsMerchants, EndedSessionOf
  <2> QED
    BY <1>0, <2>2, <2>3, <2>4 DEF HasItsSession
<1> QED
  BY <1>1, <1>2, <1>3, <1>4 DEF RequestInv

LEMMA AccountsInit == Merchants!Init => AccountsInv
<1> SUFFICES ASSUME Merchants!Init PROVE AccountsInv
  OBVIOUS
<1>1. /\ tenants = {} /\ users = {} /\ memberships = {} /\ sessions = {}
      /\ settings = [environment |-> "test", capacity_limit |-> 5]
      /\ codes = [b \in Merchants!Box |-> Merchants!NoCode]
      /\ failed = [b \in Merchants!Box |-> 0]
      /\ req = [q \in Merchants!Request |-> Merchants!Idle]
  BY DEF Merchants!Init
<1>2. /\ Merchants!Idle \in Handled
      /\ Merchants!Idle.at = "idle" /\ Merchants!Idle.call = "none"
  BY AccountConstants DEF Merchants!Idle, Handled, Stages
<1>3. RowTypes /\ CodeTypes /\ SettingTypes
  <2>1. SettingTypes
    BY <1>1 DEF SettingTypes
  <2>2. RowTypes /\ CodeTypes
    BY <1>1, AccountConstants DEF RowTypes, CodeTypes
  <2> QED
    BY <2>1, <2>2
<1>4. TablesInv
  BY <1>1 DEF TablesInv
<1>5. ASSUME NEW q \in Merchants!Request PROVE RequestInv(q)
  <2>1. req[q].at = "idle" /\ req[q].call = "none"
    BY <1>1, <1>2
  <2> QED
    BY <2>1 DEF RequestInv, ActsForItsUser, Signed, HasAnAccount, KeepsToItsStage, Seeding,
       HasItsSession, Merchants!Tokens
<1> QED
  BY <1>1, <1>2, <1>3, <1>4, <1>5 DEF AccountsInv

\* A request goes on, or is answered; everything said of the others stays true.
LEMMA OtherRequests ==
  ASSUME AccountsInv, KeepsMerchants, NEW q \in Merchants!Request, NEW n \in Handled,
         req' = [req EXCEPT ![q] = n], req[q].at \notin Ended,
         req[q].at \in Inserted => n.at \in Inserted /\ n.email = req[q].email
  PROVE  /\ Onward /\ req' \in [Merchants!Request -> Handled] /\ req'[q] = n
         /\ \A p \in Merchants!Request \ {q} : req'[p] = req[p] /\ RequestInv(p)'
<1>1. /\ req' \in [Merchants!Request -> Handled] /\ req'[q] = n
      /\ \A p \in Merchants!Request \ {q} : req'[p] = req[p]
  BY DEF AccountsInv
<1>2. Onward
  BY <1>1 DEF Onward
<1> QED
  BY <1>1, <1>2, RequestStays

\* The tables are left alone: what is said of them stays true.
LEMMA TablesStay ==
  ASSUME AccountsInv, Onward, UNCHANGED <<tenants, users, memberships>>
  PROVE  TablesInv'
BY FitsStays DEF AccountsInv, TablesInv, Onward

LEMMA TablesKept ==
  ASSUME UNCHANGED <<tenants, users, memberships, sessions>>
  PROVE  KeepsMerchants
BY DEF KeepsMerchants

\* A request that does nothing to the tables and acts for nobody yet, or no more.
LEMMA PlainStep ==
  ASSUME AccountsInv, NEW q \in Merchants!Request, NEW n \in Handled,
         req' = [req EXCEPT ![q] = n], req[q].at \notin Ended,
         \/ n.at \in {"refused", "lookup", "purge", "matched", "consume", "onboard"}
         \/ n.at \in {"checking", "missed"} /\ n.seen < OtpTries
         \/ n.at = "ok" /\ n.call = "sendOtp"
         \/ n.at = "failed" /\ n.email = req[q].email,
         req[q].at \in Inserted => n.at = "failed",
         UNCHANGED <<tenants, users, memberships, sessions>>, CodeTypes', SettingTypes'
  PROVE  AccountsInv'
<1>1. KeepsMerchants
  BY TablesKept
<1>2. req[q].at \in Inserted => n.at \in Inserted /\ n.email = req[q].email
  BY DEF Inserted
<1>3. /\ Onward /\ req' \in [Merchants!Request -> Handled] /\ req'[q] = n
      /\ \A p \in Merchants!Request \ {q} : RequestInv(p)'
  BY <1>1, <1>2, OtherRequests
<1>4. TablesInv'
  BY <1>3, TablesStay
<1>5. RequestInv(q)'
  BY <1>3 DEF RequestInv, ActsForItsUser, Signed, HasAnAccount, KeepsToItsStage, Seeding,
     HasItsSession, Merchants!Tokens
<1>6. RowTypes'
  BY DEF AccountsInv, RowTypes
<1> QED
  BY <1>3, <1>4, <1>5, <1>6 DEF AccountsInv

\* The ways a request goes on.
LEMMA GoesTo ==
  ASSUME AccountsInv, NEW q \in Merchants!Request, NEW l \in Stages, Merchants!goesTo(q, l)
  PROVE  \E n \in Handled :
           /\ req' = [req EXCEPT ![q] = n] /\ n.at = l /\ n.call = req[q].call
           /\ n.email = req[q].email /\ n.user = req[q].user /\ n.tenant = req[q].tenant
           /\ n.seen = req[q].seen /\ n.token = req[q].token
<1> DEFINE n == [req[q] EXCEPT !.at = l]
<1>1. req[q] \in Handled
  BY DEF AccountsInv
<1>2. /\ n \in Handled /\ n.at = l /\ n.call = req[q].call
      /\ n.email = req[q].email /\ n.user = req[q].user /\ n.tenant = req[q].tenant
      /\ n.seen = req[q].seen /\ n.token = req[q].token
  BY <1>1 DEF Handled
<1>3. req' = [req EXCEPT ![q] = n]
  BY DEF Merchants!goesTo, AccountsInv
<1> QED
  BY <1>2, <1>3

LEMMA Begins ==
  ASSUME AccountsInv, NEW q \in Merchants!Request, NEW l \in Stages, NEW e \in Email,
         NEW c \in {"sendOtp", "signup", "login", "demo"}, Merchants!begins(q, c, e, l)
  PROVE  /\ req[q].at = "idle"
         /\ \E n \in Handled :
              req' = [req EXCEPT ![q] = n] /\ n.at = l /\ n.call = c /\ n.email = e
<1> DEFINE n == [req[q] EXCEPT !.at = l, !.call = c, !.email = e]
<1>1. req[q] \in Handled
  BY DEF AccountsInv
<1>2. n \in Handled /\ n.at = l /\ n.call = c /\ n.email = e
  BY <1>1 DEF Handled, SignIns
<1>3. req[q].at = "idle" /\ req' = [req EXCEPT ![q] = n]
  BY DEF Merchants!begins, Merchants!arrives, AccountsInv
<1> QED
  BY <1>2, <1>3

\* A request that signs somebody in, from the row of the user and its membership.
LEMMA SignsIn ==
  ASSUME AccountsInv, NEW q \in Merchants!Request, req[q].at \in {"idle", "lookup"},
         NEW e \in Email, NEW c \in {"verifyOtp", "login", "demo"},
         NEW um \in Merchants!joined(e), Merchants!signInAs(q, c, e, um),
         UNCHANGED <<tenants, users, memberships, sessions, settings, codes, failed>>
  PROVE  AccountsInv'
<1> DEFINE n == [req[q] EXCEPT !.at = "session", !.call = c, !.email = e,
                               !.user = um[1].id, !.tenant = um[2][2]]
<1>1. /\ um[1] \in users /\ um[2] \in memberships /\ um[1].email = e /\ um[1].id = um[2][1]
  BY DEF Merchants!joined
<1>2. /\ um[1].id \in Merchants!UserId /\ um[2][2] \in Merchants!TenantId
      /\ um[2][2] \in tenants /\ Fits(um[1].id, e)
  BY <1>1 DEF AccountsInv, RowTypes, TablesInv
<1>3. /\ n \in Handled /\ n.at = "session" /\ n.call = c /\ n.email = e /\ n.user = um[1].id
      /\ n.tenant = um[2][2]
  <2>1. req[q] \in Handled
    BY DEF AccountsInv
  <2> QED
    BY <1>2, <2>1 DEF Handled, SignIns, Stages, Inserted
<1>4. req' = [req EXCEPT ![q] = n]
  BY DEF Merchants!signInAs, AccountsInv
<1> HIDE DEF n
<1>5. /\ Onward /\ req' \in [Merchants!Request -> Handled] /\ req'[q] = n
      /\ \A p \in Merchants!Request \ {q} : RequestInv(p)'
  BY <1>3, <1>4, TablesKept, OtherRequests DEF Ended, Inserted
<1>6. TablesInv' /\ RowTypes' /\ SettingTypes' /\ CodeTypes'
  BY <1>5, TablesStay DEF AccountsInv, RowTypes, SettingTypes, CodeTypes
<1>7. RequestInv(q)'
  <2>1. ActsForItsUser(q)'
    BY <1>2, <1>3, <1>5, FitsStays DEF ActsForItsUser
  <2>2. HasAnAccount(q)'
    BY <1>1, <1>3, <1>5 DEF HasAnAccount
  <2> QED
    BY <1>3, <1>5, <2>1, <2>2 DEF RequestInv, KeepsToItsStage, SignIns, Seeding, HasItsSession,
       Merchants!Tokens
<1> QED
  BY <1>5, <1>6, <1>7 DEF AccountsInv

\* A step of one request that adds to the tables, or takes rows of the demo account away.
LEMMA AccountStep ==
  ASSUME AccountsInv, KeepsMerchants, NEW q \in Merchants!Request, NEW n \in Handled,
         req' = [req EXCEPT ![q] = n], req[q].at \notin Ended,
         req[q].at \in Inserted => n.at \in Inserted /\ n.email = req[q].email,
         RowTypes', SettingTypes', CodeTypes',
         \A u \in users' : u \in users \/ Fits(u.id, u.email) \/ Fits(u.id, u.email)',
         \A m \in memberships' : m \in memberships \/ m[2] \in tenants',
         \A p \in (tenants' \ tenants) \cap Merchants!Request :
           /\ req'[p].at \in Inserted
           /\ \E u \in users' : u.email = req'[p].email /\ <<u.id, p>> \in memberships'
  PROVE  Onward /\ req'[q] = n /\ (RequestInv(q)' => AccountsInv')
<1>1. /\ Onward /\ req' \in [Merchants!Request -> Handled] /\ req'[q] = n
      /\ \A p \in Merchants!Request \ {q} : RequestInv(p)'
  BY OtherRequests
<1>2. \A u \in users' : Fits(u.id, u.email)'
  BY <1>1, FitsStays DEF AccountsInv, TablesInv
<1>3. \A m \in memberships' : m[2] \in tenants'
  BY DEF AccountsInv, TablesInv, KeepsMerchants
<1>4. ASSUME NEW p \in tenants' \cap Merchants!Request
      PROVE  /\ req'[p].at \in Inserted
             /\ req'[p].email.box \in Mailbox =>
                  \E u \in users' : u.email.box \in Mailbox /\ <<u.id, p>> \in memberships'
  <2>1. CASE p \in tenants
    <3>1. /\ req[p].at \in Inserted /\ req'[p].at \in Inserted /\ req'[p].email = req[p].email
      BY <1>1, <2>1 DEF AccountsInv, TablesInv, Onward
    <3>2. ASSUME req[p].email.box \in Mailbox
          PROVE  \E u \in users' : u.email.box \in Mailbox /\ <<u.id, p>> \in memberships'
      <4>1. PICK u \in users : u.email.box \in Mailbox /\ <<u.id, p>> \in memberships
        BY <2>1, <3>2 DEF AccountsInv, TablesInv
      <4>2. OfMerchant(u.id) /\ <<u.id, p>>[1] = u.id
        BY <4>1, MerchantFacts
      <4> QED
        BY <4>1, <4>2 DEF KeepsMerchants
    <3> QED
      BY <3>1, <3>2
  <2>2. CASE p \notin tenants
    BY <2>2
  <2> QED
    BY <2>1, <2>2
<1>5. TablesInv'
  BY <1>2, <1>3, <1>4 DEF TablesInv
<1> QED
  BY <1>1, <1>5 DEF AccountsInv

LEMMA TablesGrow ==
  ASSUME tenants \subseteq tenants', users \subseteq users', memberships \subseteq memberships',
         sessions \subseteq sessions'
  PROVE  KeepsMerchants
BY DEF KeepsMerchants

\* The one-time codes, and every other step that leaves the tables alone.
LEMMA CodesInv ==
  ASSUME AccountsInv, NEW q \in Merchants!Request,
         \/ \E e \in Address : Merchants!sendOtp(q, e) \/ Merchants!verifyOtp(q, e)
         \/ \E b \in BOOLEAN : Merchants!compareOtp(q, b)
         \/ Merchants!countFailure(q) \/ Merchants!clearFailures(q) \/ Merchants!deleteOtp(q)
         \/ Merchants!answer500(q)
         \/ \E e \in Address, b \in BOOLEAN : Merchants!signup(q, e, b)
  PROVE  AccountsInv'
<1>0. /\ req[q] \in Handled /\ req[q].email.box \in Merchants!Box /\ Address \subseteq Email
      /\ UNCHANGED <<tenants, users, memberships, sessions, settings>>
  <2>1. req[q] \in Handled
    BY DEF AccountsInv
  <2>2. Address \subseteq Email
    BY AccountsAssumption DEF Email
  <2>3. UNCHANGED <<tenants, users, memberships, sessions, settings>>
    BY DEF Merchants!sendOtp, Merchants!verifyOtp, Merchants!compareOtp, Merchants!countFailure,
       Merchants!clearFailures, Merchants!deleteOtp, Merchants!answer500, Merchants!signup,
       Merchants!tables
  <2> QED
    BY <2>1, <2>2, <2>3 DEF Handled, Email
<1>1. SettingTypes'
  BY <1>0 DEF AccountsInv, SettingTypes
<1>2. ASSUME NEW e \in Address, Merchants!sendOtp(q, e) PROVE AccountsInv'
  <2>1. Merchants!lower(e) \in Email /\ e.box \in Merchants!Box
    BY <1>0, AccountConstants DEF Email
  <2>2. PICK n \in Handled : /\ req[q].at = "idle" /\ req' = [req EXCEPT ![q] = n]
                             /\ n.at = "ok" /\ n.call = "sendOtp"
    BY <1>2, <2>1, Begins DEF Merchants!sendOtp, Stages, Ended
  <2>3. CodeTypes'
    <3>1. [by |-> q, expired |-> FALSE] \in [by : Merchants!Request \cup {0}, expired : BOOLEAN]
      OBVIOUS
    <3> QED
      BY <1>2, <2>1, <3>1 DEF Merchants!sendOtp, AccountsInv, CodeTypes
  <2> QED
    BY <1>0, <1>1, <2>2, <2>3, PlainStep DEF Ended, Inserted
<1>3. ASSUME NEW e \in Address, Merchants!verifyOtp(q, e) PROVE AccountsInv'
  <2>1. PICK l \in {"refused", "checking", "lookup"} :
          /\ req[q].at = "idle" /\ UNCHANGED <<codes, failed>>
          /\ l = "checking" => ~(failed[e.box] >= OtpTries)
          /\ req' = [req EXCEPT ![q].at = l, ![q].call = "verifyOtp",
                                ![q].email = Merchants!lower(e), ![q].seen = failed[e.box]]
    BY <1>3 DEF Merchants!verifyOtp, Merchants!arrives, Merchants!otpVars
  <2>2. failed[e.box] \in 0..OtpTries /\ Merchants!lower(e) \in Email
    BY <1>0, AccountConstants DEF AccountsInv, CodeTypes, Email
  <2> DEFINE n == [req[q] EXCEPT !.at = l, !.call = "verifyOtp",
                                 !.email = Merchants!lower(e), !.seen = failed[e.box]]
  <2>3. n \in Handled /\ n.at = l /\ n.seen = failed[e.box]
    BY <1>0, <2>2 DEF Handled, Stages, SignIns, Ended
  <2>4. req' = [req EXCEPT ![q] = n]
    BY <2>1 DEF AccountsInv
  <2> HIDE DEF n
  <2>5. n.at = "checking" => n.seen < OtpTries
    BY <2>1, <2>2, <2>3, AccountsAssumption
  <2>6. CodeTypes'
    BY <2>1 DEF AccountsInv, CodeTypes
  <2> QED
    BY <1>0, <1>1, <2>1, <2>3, <2>4, <2>5, <2>6, PlainStep DEF Ended, Inserted
<1>4. ASSUME NEW b \in BOOLEAN, Merchants!compareOtp(q, b) PROVE AccountsInv'
  <2>1. PICK l \in {"refused", "purge", "matched", "missed"} :
          req[q].at = "checking" /\ Merchants!goesTo(q, l) /\ UNCHANGED <<codes, failed>>
    <3>1. CASE codes[req[q].email.box] = Merchants!NoCode
      BY <1>4, <3>1 DEF Merchants!compareOtp, Merchants!otpVars
    <3>2. CASE codes[req[q].email.box] # Merchants!NoCode /\ codes[req[q].email.box].expired
      BY <1>4, <3>2 DEF Merchants!compareOtp, Merchants!otpVars
    <3>3. CASE codes[req[q].email.box] # Merchants!NoCode /\ ~codes[req[q].email.box].expired
      BY <1>4, <3>3 DEF Merchants!compareOtp, Merchants!otpVars
    <3> QED
      BY <3>1, <3>2, <3>3
  <2>2. PICK n \in Handled : req' = [req EXCEPT ![q] = n] /\ n.at = l /\ n.seen = req[q].seen
    BY <2>1, GoesTo DEF Stages, Ended
  <2>3. req[q].seen < OtpTries
    BY <2>1 DEF AccountsInv, RequestInv, KeepsToItsStage
  <2>4. CodeTypes'
    BY <2>1 DEF AccountsInv, CodeTypes
  <2> QED
    BY <1>0, <1>1, <2>1, <2>2, <2>3, <2>4, PlainStep DEF Ended, Inserted
<1>5. ASSUME Merchants!countFailure(q) \/ Merchants!clearFailures(q) \/ Merchants!deleteOtp(q)
      PROVE  AccountsInv'
  <2>1. PICK l \in {"refused", "consume", "lookup"} :
          Merchants!goesTo(q, l) /\ req[q].at \in {"missed", "matched", "purge", "consume"}
    BY <1>5 DEF Merchants!countFailure, Merchants!clearFailures, Merchants!deleteOtp
  <2>2. PICK n \in Handled : req' = [req EXCEPT ![q] = n] /\ n.at = l
    BY <2>1, GoesTo DEF Stages, Ended
  <2>3. CodeTypes'
    <3>1. req[q].at = "missed" => req[q].seen + 1 \in 0..OtpTries
      BY <1>0, AccountsAssumption DEF AccountsInv, RequestInv, KeepsToItsStage, Handled
    <3>2. \/ UNCHANGED failed
          \/ \E v \in 0..OtpTries : failed' = [failed EXCEPT ![req[q].email.box] = v]
      BY <1>5, <3>1, AccountConstants
         DEF Merchants!countFailure, Merchants!clearFailures, Merchants!deleteOtp
    <3>3. UNCHANGED codes \/ codes' = [codes EXCEPT ![req[q].email.box] = Merchants!NoCode]
      BY <1>5 DEF Merchants!countFailure, Merchants!clearFailures, Merchants!deleteOtp
    <3> QED
      BY <1>0, <3>2, <3>3, AccountConstants DEF AccountsInv, CodeTypes
  <2> QED
    BY <1>0, <1>1, <2>1, <2>2, <2>3, PlainStep DEF Ended, Inserted
<1>6. CASE Merchants!answer500(q)
  <2>1. PICK n \in Handled :
          req' = [req EXCEPT ![q] = n] /\ n.at = "failed" /\ n.email = req[q].email
    BY <1>6, GoesTo DEF Merchants!answer500, Stages, Ended
  <2>2. CodeTypes' /\ req[q].at \notin Ended
    BY <1>6 DEF Merchants!answer500, Merchants!otpVars, AccountsInv, CodeTypes, Ended
  <2> QED
    BY <1>0, <1>1, <2>1, <2>2, PlainStep
<1>7. ASSUME NEW e \in Address, NEW b \in BOOLEAN, Merchants!signup(q, e, b) PROVE AccountsInv'
  <2>1. PICK l \in {"onboard", "refused"} : Merchants!begins(q, "signup", e, l)
    BY <1>7 DEF Merchants!signup
  <2>2. PICK n \in Handled : req[q].at = "idle" /\ req' = [req EXCEPT ![q] = n] /\ n.at = l
    BY <1>0, <2>1, Begins DEF Stages, Ended
  <2>3. CodeTypes'
    BY <1>7 DEF Merchants!signup, Merchants!otpVars, AccountsInv, CodeTypes
  <2> QED
    BY <1>0, <1>1, <2>2, <2>3, PlainStep DEF Ended, Inserted
<1> QED
  BY <1>2, <1>3, <1>4, <1>5, <1>6, <1>7

\* An account is inserted whole, or the address is taken and nothing is.
LEMMA InsertInv ==
  ASSUME AccountsInv, NEW q \in Merchants!Request,
         Merchants!onboard(q) \/ Merchants!createMerchant(q)
  PROVE  AccountsInv'
<1>0. /\ req[q].at = "onboard" /\ req[q].call \in {"verifyOtp", "signup"}
      /\ Merchants!insertAccount(q) /\ UNCHANGED <<sessions, settings, codes, failed>>
      /\ req[q] \in Handled
  BY DEF Merchants!onboard, Merchants!createMerchant, Merchants!otpVars, AccountsInv
<1>1. SettingTypes' /\ CodeTypes'
  BY <1>0 DEF AccountsInv, SettingTypes, CodeTypes
<1>2. CASE \E u \in users : u.email = req[q].email
  <2>1. Merchants!goesTo(q, "failed") /\ UNCHANGED <<tenants, users, memberships>>
    BY <1>0, <1>2 DEF Merchants!insertAccount
  <2>2. PICK n \in Handled :
          req' = [req EXCEPT ![q] = n] /\ n.at = "failed" /\ n.email = req[q].email
    BY <2>1, GoesTo DEF Stages, Ended
  <2> QED
    BY <1>0, <1>1, <2>1, <2>2, PlainStep DEF Ended
<1>3. CASE ~\E u \in users : u.email = req[q].email
  <2> DEFINE w == [id |-> q, email |-> req[q].email]
             n == [req[q] EXCEPT !.at = "session", !.user = q, !.tenant = q]
  <2>1. /\ tenants' = tenants \cup {q} /\ users' = users \cup {w}
        /\ memberships' = memberships \cup {<<q, q>>}
        /\ req' = [req EXCEPT ![q].at = "session", ![q].user = q, ![q].tenant = q]
    BY <1>0, <1>3 DEF Merchants!insertAccount
  <2>2. req' = [req EXCEPT ![q] = n]
    BY <2>1 DEF AccountsInv
  <2>3. /\ n \in Handled /\ n.at = "session" /\ n.user = q /\ n.tenant = q
        /\ n.email = req[q].email /\ n.call = req[q].call
    BY <1>0, AccountConstants DEF Handled, Stages, Inserted
  <2>4. w.id = q /\ w.email = req[q].email /\ w \in [id : Merchants!UserId, email : Email]
    BY <1>0, AccountConstants DEF Handled
  <2>5. <<q, q>> \in Merchants!UserId \X Merchants!TenantId /\ <<q, q>>[1] = q /\ <<q, q>>[2] = q
    BY AccountConstants
  <2> HIDE DEF n, w
  <2>6. RowTypes'
    BY <1>0, <2>1, <2>4, <2>5, AccountConstants DEF AccountsInv, RowTypes
  <2>7. KeepsMerchants
    BY <1>0, <2>1, TablesGrow
  <2>8. req'[q] = n
    BY <2>2 DEF AccountsInv
  <2>9. \A e \in Email : e = req[q].email => Fits(q, e)'
    BY <1>0, <2>3, <2>8, AccountConstants DEF Fits, Inserted
  <2>10. \A u \in users' : u \in users \/ Fits(u.id, u.email)'
    <3>1. \A u \in users' : u \in users \/ (u.id = q /\ u.email = req[q].email)
      BY <2>1, <2>4
    <3> QED
      BY <1>0, <2>9, <3>1 DEF Handled
  <2>11. \A p \in (tenants' \ tenants) \cap Merchants!Request :
           /\ req'[p].at \in Inserted
           /\ \E u \in users' : u.email = req'[p].email /\ <<u.id, p>> \in memberships'
    BY <2>1, <2>3, <2>4, <2>8 DEF Inserted
  <2>12. Onward /\ req'[q] = n /\ (RequestInv(q)' => AccountsInv')
    <3>1. req[q].at \notin Ended /\ req[q].at \notin Inserted
      BY <1>0 DEF Ended, Inserted
    <3>2. \A m \in memberships' : m \in memberships \/ m[2] \in tenants'
      BY <2>1, <2>5
    <3> QED
      BY <1>1, <2>2, <2>3, <2>6, <2>7, <2>10, <2>11, <3>1, <3>2, AccountStep
  <2>13. ActsForItsUser(q)'
    <3>1. Fits(req[q].user, req[q].email)'
      BY <2>3, <2>8, AccountConstants DEF Fits, Inserted
    <3> QED
      BY <2>1, <2>3, <2>8, <3>1 DEF ActsForItsUser
  <2>14. HasAnAccount(q)'
    BY <2>1, <2>3, <2>4, <2>5, <2>8 DEF HasAnAccount
  <2>15. KeepsToItsStage(q)' /\ HasItsSession(q)'
    BY <1>0, <2>3, <2>8 DEF KeepsToItsStage, SignIns, Seeding, HasItsSession, Merchants!Tokens
  <2> QED
    BY <2>12, <2>13, <2>14, <2>15 DEF RequestInv
<1> QED
  BY <1>2, <1>3

\* A request of the demo account that goes on to seed it.
LEMMA SeedStep ==
  ASSUME AccountsInv, KeepsMerchants, NEW q \in Merchants!Request, NEW n \in Handled,
         req' = [req EXCEPT ![q] = n], req[q].at \in {"idle"} \cup Seeding,
         n.at \in Seeding, n.email.box \in Merchants!DemoBox, n.call \in SignIns,
         n.at # "seed" => Merchants!DefaultTenant \in tenants',
         RowTypes', UNCHANGED <<settings, codes, failed>>,
         \A u \in users' : u \in users \/ Fits(u.id, u.email),
         memberships' \subseteq memberships,
         tenants' \subseteq tenants \cup {Merchants!DefaultTenant}
  PROVE  AccountsInv'
<1>1. SettingTypes' /\ CodeTypes'
  BY DEF AccountsInv, SettingTypes, CodeTypes
<1>2. req[q].at \notin Ended /\ req[q].at \notin Inserted
  BY DEF Seeding, Ended, Inserted
<1>3. Onward /\ req'[q] = n /\ (RequestInv(q)' => AccountsInv')
  BY <1>1, <1>2, AccountConstants, AccountStep
<1>4. ActsForItsUser(q)' /\ HasAnAccount(q)' /\ HasItsSession(q)'
  BY <1>3 DEF Seeding, ActsForItsUser, Signed, HasAnAccount, HasItsSession, Merchants!Tokens
<1>5. KeepsToItsStage(q)'
  BY <1>3 DEF Seeding, KeepsToItsStage
<1> QED
  BY <1>3, <1>4, <1>5 DEF RequestInv

\* Somebody is found and signed in, or is not.
LEMMA LookupInv ==
  ASSUME AccountsInv, NEW q \in Merchants!Request,
         \/ Merchants!lookup(q) \/ Merchants!handleDemoLogin(q)
         \/ \E e \in Address, b \in BOOLEAN : Merchants!login(q, e, b)
  PROVE  AccountsInv'
<1>0. /\ UNCHANGED <<tenants, users, memberships, sessions, settings, codes, failed>>
      /\ Address \subseteq Email
  BY AccountsAssumption DEF Merchants!lookup, Merchants!handleDemoLogin, Merchants!login,
     Merchants!tables, Merchants!otpVars, Email
<1>1. SettingTypes' /\ CodeTypes' /\ RowTypes' /\ KeepsMerchants
  BY <1>0, TablesKept DEF AccountsInv, SettingTypes, CodeTypes, RowTypes
<1>2. ASSUME NEW e \in Email, e.box \in Merchants!DemoBox, NEW c \in {"login", "demo"},
             Merchants!begins(q, c, e, "seed")
      PROVE  AccountsInv'
  <2>1. PICK n \in Handled : /\ req[q].at = "idle" /\ req' = [req EXCEPT ![q] = n]
                             /\ n.at = "seed" /\ n.call = c /\ n.email = e
    BY <1>2, Begins DEF Stages, Seeding
  <2>2. n.at \in Seeding /\ n.call \in SignIns
    BY <2>1 DEF Seeding, SignIns
  <2> QED
    BY <1>0, <1>1, <1>2, <2>1, <2>2, SeedStep
<1>3. ASSUME NEW e \in Address, Merchants!begins(q, "login", e, "refused") PROVE AccountsInv'
  <2>1. PICK n \in Handled :
          req[q].at = "idle" /\ req' = [req EXCEPT ![q] = n] /\ n.at = "refused"
    BY <1>0, <1>3, Begins DEF Stages, Ended
  <2> QED
    BY <1>0, <1>1, <2>1, PlainStep DEF Ended, Inserted
<1>4. CASE Merchants!lookup(q)
  <2>1. req[q].at = "lookup" /\ req[q].email \in Email
    BY <1>4 DEF Merchants!lookup, AccountsInv, Handled
  <2>2. CASE Merchants!goesTo(q, "onboard")
    <3>1. PICK n \in Handled : req' = [req EXCEPT ![q] = n] /\ n.at = "onboard"
      BY <2>2, GoesTo DEF Stages
    <3> QED
      BY <1>0, <1>1, <2>1, <3>1, PlainStep DEF Ended, Inserted
  <2>3. CASE \E um \in Merchants!joined(req[q].email) :
               Merchants!signInAs(q, "verifyOtp", req[q].email, um)
    BY <1>0, <2>1, <2>3, SignsIn
  <2> QED
    BY <1>4, <2>2, <2>3 DEF Merchants!lookup
<1>5. CASE Merchants!handleDemoLogin(q)
  <2>1. \/ Merchants!begins(q, "demo", Merchants!DemoAddress, "seed")
        \/ /\ req[q].at = "idle"
           /\ \E um \in Merchants!joined(Merchants!DemoAddress) :
                Merchants!signInAs(q, "demo", Merchants!DemoAddress, um)
    BY <1>5 DEF Merchants!handleDemoLogin, Merchants!arrives
  <2> QED
    BY <1>0, <1>2, <2>1, AccountConstants, SignsIn
<1>6. ASSUME NEW e \in Address, NEW b \in BOOLEAN, Merchants!login(q, e, b) PROVE AccountsInv'
  <2>1. \/ Merchants!begins(q, "login", e, "seed") /\ e.box \in Merchants!DemoBox
        \/ Merchants!begins(q, "login", e, "refused")
        \/ /\ req[q].at = "idle"
           /\ \E um \in Merchants!joined(e) : Merchants!signInAs(q, "login", e, um)
    BY <1>6 DEF Merchants!login, Merchants!arrives
  <2> QED
    BY <1>0, <1>2, <1>3, <2>1, SignsIn
<1> QED
  BY <1>4, <1>5, <1>6

\* The last step of the seedings signs in as the demo user.
LEMMA SeededStep ==
  ASSUME AccountsInv, NEW q \in Merchants!Request, req[q].at \in {"seedMember", "demoMember"},
         memberships' = memberships \cup {<<Merchants!Demo, Merchants!DefaultTenant>>}
           \/ UNCHANGED memberships,
         req' = [req EXCEPT ![q].at = "session", ![q].user = Merchants!Demo,
                            ![q].tenant = Merchants!DefaultTenant],
         UNCHANGED <<tenants, users, sessions, settings, codes, failed>>
  PROVE  AccountsInv'
<1> DEFINE n == [req[q] EXCEPT !.at = "session", !.user = Merchants!Demo,
                               !.tenant = Merchants!DefaultTenant]
           dm == <<Merchants!Demo, Merchants!DefaultTenant>>
<1>0. /\ req[q] \in Handled /\ req[q].call \in SignIns /\ req[q].email.box \in Merchants!DemoBox
      /\ Merchants!DefaultTenant \in tenants
  BY DEF AccountsInv, RequestInv, KeepsToItsStage, Seeding
<1>1. /\ n \in Handled /\ n.at = "session" /\ n.user = Merchants!Demo
      /\ n.tenant = Merchants!DefaultTenant /\ n.email = req[q].email /\ n.call = req[q].call
  BY <1>0, AccountConstants DEF Handled, Stages, Inserted
<1>2. req' = [req EXCEPT ![q] = n]
  BY DEF AccountsInv
<1>3. dm \in Merchants!UserId \X Merchants!TenantId /\ dm[2] = Merchants!DefaultTenant
  BY AccountConstants
<1> HIDE DEF n, dm
<1>4. memberships' = memberships \cup {dm} \/ UNCHANGED memberships
  BY DEF dm
<1>5. RowTypes' /\ SettingTypes' /\ CodeTypes'
  BY <1>3, <1>4 DEF AccountsInv, RowTypes, SettingTypes, CodeTypes
<1>6. KeepsMerchants
  BY <1>4, TablesGrow
<1>7. req[q].at \notin Ended /\ req[q].at \notin Inserted
  BY DEF Ended, Inserted
<1>8. \A m \in memberships' : m \in memberships \/ m[2] \in tenants'
  BY <1>0, <1>3, <1>4
<1>9. Onward /\ req'[q] = n /\ (RequestInv(q)' => AccountsInv')
  BY <1>1, <1>2, <1>5, <1>6, <1>7, <1>8, AccountStep
<1>10. Fits(Merchants!Demo, req[q].email)
  BY <1>0, AccountConstants DEF Fits
<1>11. ActsForItsUser(q)'
  BY <1>0, <1>1, <1>9, <1>10, FitsStays DEF ActsForItsUser
<1>12. HasAnAccount(q)' /\ KeepsToItsStage(q)' /\ HasItsSession(q)'
  BY <1>0, <1>1, <1>9, AccountConstants DEF HasAnAccount, KeepsToItsStage, SignIns, Seeding,
     HasItsSession, Merchants!Tokens
<1> QED
  BY <1>9, <1>11, <1>12 DEF RequestInv

\* The demo account is seeded, or what is there is left as it is.
LEMMA SeedInv ==
  ASSUME AccountsInv, NEW q \in Merchants!Request,
         Merchants!seedDemo(q) \/ Merchants!demoLogin(q)
  PROVE  AccountsInv'
<1> DEFINE demo == [id |-> Merchants!Demo, email |-> req[q].email]
<1>0. /\ req[q] \in Handled /\ UNCHANGED <<settings, codes, failed>>
      /\ req[q].at \in Seeding =>
           /\ req[q].email.box \in Merchants!DemoBox /\ req[q].call \in SignIns
           /\ req[q].at # "seed" => Merchants!DefaultTenant \in tenants
  BY DEF AccountsInv, RequestInv, KeepsToItsStage, Merchants!seedDemo, Merchants!demoLogin,
     Merchants!otpVars
<1>1. \A e \in Email : e.box \in Merchants!DemoBox => Fits(Merchants!Demo, e)
  BY AccountConstants DEF Fits
<1>2. ASSUME req[q].at \in Seeding, NEW l \in Seeding, l # "seed", Merchants!goesTo(q, l)
      PROVE  \E n \in Handled : /\ req' = [req EXCEPT ![q] = n] /\ n.at = l
                                /\ n.email.box \in Merchants!DemoBox /\ n.call \in SignIns
  BY <1>0, <1>2, GoesTo DEF Stages
\* The tenant.
<1>3. ASSUME req[q].at = "seed", tenants' = tenants \cup {Merchants!DefaultTenant},
             Merchants!goesTo(q, "seedUser"), UNCHANGED <<users, memberships, sessions>>
      PROVE  AccountsInv'
  <2>1. PICK n \in Handled : /\ req' = [req EXCEPT ![q] = n] /\ n.at = "seedUser"
                             /\ n.email.box \in Merchants!DemoBox /\ n.call \in SignIns
    BY <1>2, <1>3 DEF Seeding
  <2>2. RowTypes' /\ KeepsMerchants
    BY <1>3, AccountConstants, TablesGrow DEF AccountsInv, RowTypes
  <2> QED
    BY <1>0, <1>3, <2>1, <2>2, SeedStep DEF Seeding
<1>4. ASSUME Merchants!begins(q, "demo", Merchants!DemoAddress, "demoUser"),
             tenants' = tenants \cup {Merchants!DefaultTenant},
             UNCHANGED <<users, memberships, sessions>>
      PROVE  AccountsInv'
  <2>1. PICK n \in Handled : /\ req[q].at = "idle" /\ req' = [req EXCEPT ![q] = n]
                             /\ n.at = "demoUser" /\ n.call = "demo"
                             /\ n.email = Merchants!DemoAddress
    BY <1>4, Begins, AccountConstants DEF Stages, Seeding
  <2>2. RowTypes' /\ KeepsMerchants
    BY <1>4, AccountConstants, TablesGrow DEF AccountsInv, RowTypes
  <2> QED
    BY <1>0, <1>4, <2>1, <2>2, AccountConstants, SeedStep DEF Seeding, SignIns
\* The user: replaced with what refers to it, or left alone.
<1>5. ASSUME req[q].at = "seedUser", Merchants!replaceUser(demo),
             Merchants!goesTo(q, "seedMember"), UNCHANGED tenants
      PROVE  AccountsInv'
  <2> DEFINE gone == {w \in users : w.id = demo.id \/ w.email = demo.email}
             ids == {w.id : w \in gone}
  <2>1. /\ users' = (users \ gone) \cup {demo}
        /\ memberships' = {m \in memberships : m[1] \notin ids}
        /\ sessions' = {s \in sessions : s.user \notin ids}
    BY <1>5 DEF Merchants!replaceUser
  <2>2. PICK n \in Handled : /\ req' = [req EXCEPT ![q] = n] /\ n.at = "seedMember"
                             /\ n.email.box \in Merchants!DemoBox /\ n.call \in SignIns
    BY <1>2, <1>5 DEF Seeding
  <2>3. /\ req[q].email \in Email /\ req[q].email.box \in Merchants!DemoBox
        /\ Merchants!DefaultTenant \in tenants
    BY <1>0, <1>5 DEF Handled, Seeding
  <2>4. demo \in [id : Merchants!UserId, email : Email] /\ Fits(demo.id, demo.email)
    BY <1>1, <2>3, AccountConstants
  <2>5. ASSUME NEW w \in gone PROVE ~OfMerchant(w.id) /\ w.email.box \notin Mailbox
    BY <2>3, AccountConstants, MerchantFacts
  <2>6. KeepsMerchants
    BY <1>5, <2>1, <2>5 DEF KeepsMerchants
  <2>7. RowTypes'
    BY <1>5, <2>1, <2>4 DEF AccountsInv, RowTypes
  <2>8. \A u \in users' : u \in users \/ Fits(u.id, u.email)
    BY <2>1, <2>4
  <2>9. memberships' \subseteq memberships
    BY <2>1
  <2> QED
    BY <1>0, <1>5, <2>2, <2>3, <2>6, <2>7, <2>8, <2>9, SeedStep DEF Seeding
<1>6. ASSUME req[q].at = "demoUser", Merchants!goesTo(q, "demoMember"),
             UNCHANGED <<tenants, memberships, sessions>>,
             Merchants!ignoreUser([id |-> Merchants!Demo, email |-> Merchants!DemoAddress])
      PROVE  AccountsInv'
  <2> DEFINE u == [id |-> Merchants!Demo, email |-> Merchants!DemoAddress]
  <2>1. users' = users \/ users' = users \cup {u}
    BY <1>6 DEF Merchants!ignoreUser
  <2>2. u \in [id : Merchants!UserId, email : Email] /\ Fits(u.id, u.email)
    BY <1>1, AccountConstants
  <2> HIDE DEF u
  <2>3. PICK n \in Handled : /\ req' = [req EXCEPT ![q] = n] /\ n.at = "demoMember"
                             /\ n.email.box \in Merchants!DemoBox /\ n.call \in SignIns
    BY <1>2, <1>6 DEF Seeding
  <2>4. RowTypes' /\ KeepsMerchants
    BY <1>6, <2>1, <2>2, TablesGrow DEF AccountsInv, RowTypes
  <2>5. Merchants!DefaultTenant \in tenants
    BY <1>0, <1>6 DEF Seeding
  <2>6. \A w \in users' : w \in users \/ Fits(w.id, w.email)
    BY <2>1, <2>2
  <2> QED
    BY <1>0, <1>6, <2>3, <2>4, <2>5, <2>6, SeedStep DEF Seeding
\* The membership.
<1>7. ASSUME req[q].at \in {"seedMember", "demoMember"},
             memberships' = memberships \cup {<<Merchants!Demo, Merchants!DefaultTenant>>}
               \/ UNCHANGED memberships,
             req' = [req EXCEPT ![q].at = "session", ![q].user = Merchants!Demo,
                                ![q].tenant = Merchants!DefaultTenant],
             UNCHANGED <<tenants, users, sessions>>
      PROVE  AccountsInv'
  BY <1>0, <1>7, SeededStep
<1>8. CASE Merchants!seedDemo(q)
  BY <1>3, <1>5, <1>7, <1>8 DEF Merchants!seedDemo
<1>9. CASE Merchants!demoLogin(q)
  <2>1. ASSUME memberships' = memberships \cup
                 {m \in {<<Merchants!Demo, Merchants!DefaultTenant>>} :
                    \E u \in users : u.id = Merchants!Demo}
        PROVE  memberships' = memberships \cup {<<Merchants!Demo, Merchants!DefaultTenant>>}
                 \/ UNCHANGED memberships
    BY <2>1
  <2> QED
    BY <1>4, <1>6, <1>7, <1>9, <2>1 DEF Merchants!demoLogin
<1> QED
  BY <1>8, <1>9

\* Before a session is created its tenant and its user are, if they are missing.
LEMMA ParentsInv ==
  ASSUME AccountsInv, NEW q \in Merchants!Request, Merchants!ensureParents(q)
  PROVE  AccountsInv'
<1> DEFINE u == [id |-> req[q].user, email |-> req[q].email]
<1>0. /\ req[q] \in Handled /\ req[q].at = "session" /\ RequestInv(q) /\ Signed(q)
      /\ tenants' = tenants \cup {req[q].tenant} /\ (users' = users \/ users' = users \cup {u})
      /\ Merchants!goesTo(q, "insert")
      /\ UNCHANGED <<memberships, sessions, settings, codes, failed>>
  BY DEF AccountsInv, Signed, Merchants!ensureParents, Merchants!ignoreUser, Merchants!otpVars
<1>1. /\ Fits(req[q].user, req[q].email)
      /\ req[q].tenant \in tenants \cup {Merchants!DefaultTenant, Merchants!Outsider}
      /\ req[q].call \in SignIns
  BY <1>0 DEF RequestInv, ActsForItsUser, KeepsToItsStage
<1>2. u \in [id : Merchants!UserId, email : Email] /\ Fits(u.id, u.email)
  BY <1>0, <1>1 DEF Handled
<1>3. PICK n \in Handled :
        /\ req' = [req EXCEPT ![q] = n] /\ n.at = "insert" /\ n.call = req[q].call
        /\ n.email = req[q].email /\ n.user = req[q].user /\ n.tenant = req[q].tenant
  BY <1>0, GoesTo DEF Stages, Inserted
<1> HIDE DEF u
<1>4. RowTypes' /\ SettingTypes' /\ CodeTypes' /\ KeepsMerchants
  <2>1. req[q].tenant \in Merchants!TenantId
    BY <1>0 DEF Handled
  <2> QED
    BY <1>0, <1>2, <2>1, TablesGrow DEF AccountsInv, RowTypes, SettingTypes, CodeTypes
<1>5. \A w \in users' : w \in users \/ Fits(w.id, w.email)
  BY <1>0, <1>2
<1>6. (tenants' \ tenants) \cap Merchants!Request = {}
  BY <1>0, <1>1, AccountConstants
<1>7. req[q].at \notin Ended /\ n.at \in Inserted
  BY <1>0, <1>3 DEF Ended, Inserted
<1>8. Onward /\ req'[q] = n /\ (RequestInv(q)' => AccountsInv')
  BY <1>0, <1>3, <1>4, <1>5, <1>6, <1>7, AccountStep
<1>9. ActsForItsUser(q)'
  BY <1>0, <1>1, <1>3, <1>8, FitsStays DEF ActsForItsUser
<1>10. HasAnAccount(q)'
  <2>1. users \subseteq users'
    BY <1>0
  <2> QED
    BY <1>0, <1>3, <1>8, <2>1 DEF RequestInv, HasAnAccount
<1>11. KeepsToItsStage(q)' /\ HasItsSession(q)'
  BY <1>1, <1>3, <1>8 DEF KeepsToItsStage, SignIns, Seeding, HasItsSession, Merchants!Tokens
<1> QED
  BY <1>8, <1>9, <1>10, <1>11 DEF RequestInv

\* The session is there before the token is given out.
LEMMA SessionInv ==
  ASSUME AccountsInv, NEW q \in Merchants!Request, Merchants!createSession(q)
  PROVE  AccountsInv'
<1>0. /\ req[q] \in Handled /\ req[q].at = "insert" /\ RequestInv(q) /\ Signed(q)
      /\ UNCHANGED <<tenants, users, memberships, settings, codes, failed>>
  BY DEF AccountsInv, Signed, Merchants!createSession, Merchants!otpVars
<1>1. SettingTypes' /\ CodeTypes'
  BY <1>0 DEF AccountsInv, SettingTypes, CodeTypes
<1>2. CASE Merchants!goesTo(q, "failed") /\ UNCHANGED sessions
  <2>1. PICK n \in Handled :
          req' = [req EXCEPT ![q] = n] /\ n.at = "failed" /\ n.email = req[q].email
    BY <1>2, GoesTo DEF Stages, Ended
  <2> QED
    BY <1>0, <1>1, <1>2, <2>1, PlainStep DEF Ended
<1> DEFINE z == [id |-> q, user |-> req[q].user, tenant |-> req[q].tenant, state |-> "live"]
<1>3. CASE Merchants!goesTo(q, "ok") /\ sessions' = sessions \cup {z}
  <2>1. PICK n \in Handled :
          /\ req' = [req EXCEPT ![q] = n] /\ n.at = "ok" /\ n.call = req[q].call
          /\ n.email = req[q].email /\ n.user = req[q].user /\ n.tenant = req[q].tenant
    BY <1>3, GoesTo DEF Stages, Ended
  <2>2. /\ z \in [id : Merchants!Request, user : Merchants!UserId,
                  tenant : Merchants!TenantId, state : {"live", "revoked", "expired"}]
        /\ z.id = q /\ z.user = req[q].user
    BY <1>0 DEF Handled
  <2> HIDE DEF z
  <2>3. RowTypes' /\ KeepsMerchants
    BY <1>0, <1>3, <2>2, TablesGrow DEF AccountsInv, RowTypes
  <2>4. req[q].at \notin Ended /\ n.at \in Inserted
    BY <1>0, <2>1 DEF Ended, Inserted
  <2>5. Onward /\ req'[q] = n /\ (RequestInv(q)' => AccountsInv')
    BY <1>0, <1>1, <2>1, <2>3, <2>4, AccountStep
  <2>6. ActsForItsUser(q)'
    BY <1>0, <2>1, <2>5, FitsStays DEF RequestInv, ActsForItsUser
  <2>7. HasAnAccount(q)'
    BY <1>0, <2>1, <2>5 DEF RequestInv, HasAnAccount
  <2>8. req[q].call \in SignIns
    BY <1>0 DEF RequestInv, KeepsToItsStage
  <2>9. KeepsToItsStage(q)'
    BY <2>1, <2>5 DEF KeepsToItsStage, Seeding
  <2>10. HasItsSession(q)'
    <3>1. SessionOf(q, q)'
      BY <1>3, <2>1, <2>2, <2>5 DEF SessionOf
    <3>2. n.call # "logout"
      BY <2>1, <2>8 DEF SignIns
    <3> QED
      BY <2>5, <3>1, <3>2 DEF HasItsSession
  <2> QED
    BY <2>5, <2>6, <2>7, <2>9, <2>10 DEF RequestInv
<1> QED
  BY <1>2, <1>3 DEF Merchants!createSession

\* The token names the request that signed somebody in; the new one acts for the same.
LEMMA TokenInv ==
  ASSUME AccountsInv, NEW q \in Merchants!Request, NEW t \in Merchants!Tokens,
         NEW c \in {"refresh", "logout", "tenant", "environment"},
         Merchants!authenticateTenant(q, t, c)
  PROVE  AccountsInv'
<1> DEFINE l == IF Merchants!validateSession(t) THEN c ELSE "refused"
           n == [req[q] EXCEPT !.at = l, !.call = c, !.email = req[t].email,
                               !.user = req[t].user, !.tenant = req[t].tenant, !.token = t]
<1>0. /\ req[q].at = "idle" /\ req' = [req EXCEPT ![q] = n]
      /\ UNCHANGED <<tenants, users, memberships, sessions, settings, codes, failed>>
  BY DEF Merchants!authenticateTenant, Merchants!arrives, Merchants!tables, Merchants!otpVars,
     AccountsInv
<1>1. /\ t \in Merchants!Request /\ req[t] \in Handled /\ req[q] \in Handled /\ t # q
      /\ RequestInv(t) /\ Signed(t)
  BY <1>0 DEF AccountsInv, Merchants!Tokens, Signed
<1>3. l \in {"refused", c}
  OBVIOUS
<1> HIDE DEF l
<1>2. /\ n \in Handled /\ n.at = l /\ n.call = c /\ n.email = req[t].email
      /\ n.user = req[t].user /\ n.tenant = req[t].tenant /\ n.token = t
  <2>1. l \in Stages /\ c \in SignIns \cup {"none", "sendOtp", "logout", "tenant", "environment"}
    BY <1>3 DEF Stages, Ended, SignIns
  <2>2. /\ req[t].email \in Email /\ req[t].user \in Merchants!UserId
        /\ req[t].tenant \in Merchants!TenantId /\ t \in Merchants!Request \cup {0}
    BY <1>1 DEF Handled
  <2> QED
    BY <1>1, <2>1, <2>2 DEF Handled
<1> HIDE DEF n
<1>4. SettingTypes' /\ CodeTypes' /\ RowTypes' /\ KeepsMerchants
  BY <1>0, TablesKept DEF AccountsInv, SettingTypes, CodeTypes, RowTypes
<1>5. CASE l = "refused"
  BY <1>0, <1>2, <1>4, <1>5, PlainStep DEF Ended, Inserted
<1>6. CASE l = c
  <2>1. req[q].at \notin Ended /\ req[q].at \notin Inserted
    BY <1>0 DEF Ended, Inserted
  <2>2. Onward /\ req'[q] = n /\ (RequestInv(q)' => AccountsInv')
    BY <1>0, <1>2, <1>4, <2>1, AccountStep
  <2>3. ActsForItsUser(q)'
    BY <1>0, <1>1, <1>2, <2>2, FitsStays DEF RequestInv, ActsForItsUser
  <2>4. HasAnAccount(q)' /\ KeepsToItsStage(q)'
    BY <1>2, <1>6, <2>2 DEF HasAnAccount, KeepsToItsStage, Seeding
  <2>5. HasItsSession(q)'
    <3>1. t \in Merchants!Tokens' /\ req'[t] = req[t]
      BY <2>2 DEF Onward, Ended, Merchants!Tokens
    <3>2. n.at # "ok"
      BY <1>2, <1>6
    <3> QED
      BY <1>2, <2>2, <3>1, <3>2 DEF HasItsSession, Merchants!Tokens
  <2> QED
    BY <2>2, <2>3, <2>4, <2>5 DEF RequestInv
<1> QED
  BY <1>3, <1>5, <1>6

LEMMA OutsiderInv ==
  ASSUME AccountsInv, NEW q \in Merchants!Request, NEW b \in Mailbox,
         Merchants!verifySupabaseToken(q, b)
  PROVE  AccountsInv'
<1> DEFINE e == [box |-> b, capital |-> FALSE]
           n == [req[q] EXCEPT !.at = "refresh", !.call = "refresh", !.email = e,
                               !.user = Merchants!Outsider, !.tenant = Merchants!Outsider]
<1>0. /\ req[q].at = "idle" /\ req' = [req EXCEPT ![q] = n] /\ req[q] \in Handled
      /\ UNCHANGED <<tenants, users, memberships, sessions, settings, codes, failed>>
  BY DEF Merchants!verifySupabaseToken, Merchants!arrives, Merchants!tables, Merchants!otpVars,
     AccountsInv
<1>1. e \in Email /\ e.box = b
  BY AccountConstants DEF Email
<1> HIDE DEF e
<1>2. /\ n \in Handled /\ n.at = "refresh" /\ n.call = "refresh" /\ n.email = e
      /\ n.user = Merchants!Outsider /\ n.tenant = Merchants!Outsider
  BY <1>0, <1>1, AccountConstants DEF Handled, Stages, SignIns
<1> HIDE DEF n
<1>3. SettingTypes' /\ CodeTypes' /\ RowTypes' /\ KeepsMerchants
  BY <1>0, TablesKept DEF AccountsInv, SettingTypes, CodeTypes, RowTypes
<1>4. req[q].at \notin Ended /\ req[q].at \notin Inserted
  BY <1>0 DEF Ended, Inserted
<1>5. Onward /\ req'[q] = n /\ (RequestInv(q)' => AccountsInv')
  BY <1>0, <1>2, <1>3, <1>4, AccountStep
<1>6. Fits(Merchants!Outsider, e)
  BY <1>1, AccountConstants DEF Fits
<1>7. ActsForItsUser(q)'
  BY <1>2, <1>5, <1>6, FitsStays DEF ActsForItsUser
<1>8. HasAnAccount(q)' /\ KeepsToItsStage(q)' /\ HasItsSession(q)'
  BY <1>2, <1>5 DEF HasAnAccount, KeepsToItsStage, Seeding, HasItsSession, Merchants!Tokens
<1> QED
  BY <1>5, <1>7, <1>8 DEF RequestInv

\* The row of a session that is revoked stays.
LEMMA RevokedFacts ==
  ASSUME AccountsInv, NEW t, Merchants!revokeSessionByToken(t),
         UNCHANGED <<tenants, users, memberships>>
  PROVE  /\ RowTypes' /\ KeepsMerchants
         /\ \A s \in sessions : s.id = t =>
              \E z \in sessions' : z.id = t /\ z.user = s.user /\ z.state = "revoked"
<1> DEFINE kept(s) == IF s.id = t /\ s.state # "revoked" THEN [s EXCEPT !.state = "revoked"] ELSE s
           Rows == [id : Merchants!Request, user : Merchants!UserId,
                    tenant : Merchants!TenantId, state : {"live", "revoked", "expired"}]
<1>1. sessions' = {kept(s) : s \in sessions}
  BY DEF Merchants!revokeSessionByToken, Merchants!revoked
<1>2. \A s \in sessions : s \in Rows
  BY DEF AccountsInv, RowTypes
<1>3. \A s \in sessions : /\ kept(s) \in Rows /\ kept(s).id = s.id /\ kept(s).user = s.user
                          /\ s.state = "revoked" \/ s.id = t => kept(s).state = "revoked"
  BY <1>2
<1> HIDE DEF kept
<1>4. RowTypes'
  BY <1>1, <1>3 DEF AccountsInv, RowTypes
<1>5. KeepsMerchants
  BY <1>1, <1>3 DEF KeepsMerchants
<1> QED
  BY <1>1, <1>3, <1>4, <1>5

\* The routes behind the middleware.
LEMMA RoutesInv ==
  ASSUME AccountsInv, NEW q \in Merchants!Request,
         \/ Merchants!refresh(q) \/ Merchants!logout(q)
         \/ \E c \in {0, 7, 101} : Merchants!updateTenant(q, c)
         \/ \E env \in {"test", "live"} : Merchants!switchEnvironment(q, env)
  PROVE  AccountsInv'
<1>0. /\ req[q] \in Handled /\ RequestInv(q) /\ Signed(q) /\ req[q].call = req[q].at
      /\ req[q].at \in {"refresh", "logout", "tenant", "environment"}
      /\ UNCHANGED <<tenants, users, memberships, codes, failed>>
  BY DEF AccountsInv, RequestInv, KeepsToItsStage, Signed, Merchants!refresh, Merchants!logout,
     Merchants!updateTenant, Merchants!switchEnvironment, Merchants!otpVars, Merchants!tables
<1>1. PICK l \in {"session", "ok"} :
        Merchants!goesTo(q, l) /\ (l = "session" <=> req[q].at = "refresh")
  BY DEF Merchants!refresh, Merchants!logout, Merchants!updateTenant,
     Merchants!switchEnvironment
<1>2. PICK n \in Handled :
        /\ req' = [req EXCEPT ![q] = n] /\ n.at = l /\ n.call = req[q].call
        /\ n.email = req[q].email /\ n.user = req[q].user /\ n.tenant = req[q].tenant
        /\ n.token = req[q].token
  BY <1>1, GoesTo DEF Stages, Inserted
<1>3. CodeTypes'
  BY <1>0 DEF AccountsInv, CodeTypes
<1>4. SettingTypes'
  <2>1. \A c \in {0, 7, 101} : Merchants!clampCapacity(c) \in 1..100
    BY DEF Merchants!clampCapacity
  <2>2. \/ UNCHANGED settings
        \/ \E v \in 1..100 : settings' = [settings EXCEPT !.capacity_limit = v]
        \/ \E env \in {"test", "live"} : settings' = [settings EXCEPT !.environment = env]
    BY <2>1 DEF Merchants!refresh, Merchants!logout, Merchants!updateTenant,
       Merchants!switchEnvironment
  <2> QED
    BY <2>2 DEF AccountsInv, SettingTypes
<1>5. RowTypes' /\ KeepsMerchants
  <2>1. CASE UNCHANGED sessions
    BY <1>0, <2>1, TablesKept DEF AccountsInv, RowTypes
  <2>2. CASE Merchants!revokeSessionByToken(req[q].token)
    BY <1>0, <2>2, RevokedFacts
  <2> QED
    BY <2>1, <2>2 DEF Merchants!refresh, Merchants!logout, Merchants!updateTenant,
       Merchants!switchEnvironment, Merchants!tables
<1>6. Onward /\ req'[q] = n /\ (RequestInv(q)' => AccountsInv')
  <2>1. req[q].at \notin Ended /\ req[q].at \notin Inserted
    BY <1>0 DEF Ended, Inserted
  <2> QED
    BY <1>0, <1>2, <1>3, <1>4, <1>5, <2>1, AccountStep
<1>7. ActsForItsUser(q)'
  BY <1>0, <1>2, <1>6, FitsStays DEF RequestInv, ActsForItsUser
<1>8. HasAnAccount(q)'
  BY <1>0, <1>2, <1>6 DEF HasAnAccount
<1>9. KeepsToItsStage(q)'
  BY <1>0, <1>1, <1>2, <1>6 DEF KeepsToItsStage, Seeding, SignIns
<1>10. HasItsSession(q)'
  <2>1. CASE req[q].at # "logout"
    BY <1>0, <1>1, <1>2, <1>6, <2>1 DEF HasItsSession, Merchants!Tokens
  <2>2. CASE req[q].at = "logout"
    <3> DEFINE t == req[q].token
    <3>1. t \in Merchants!Tokens /\ req[t].email = req[q].email /\ req[t].user = req[q].user
      BY <1>0, <2>2 DEF RequestInv, HasItsSession
    <3>2. t \in Merchants!Tokens' /\ req'[t] = req[t]
      BY <1>6, <3>1 DEF Onward, Ended, Merchants!Tokens
    <3>3. Merchants!revokeSessionByToken(t)
      BY <1>0, <2>2 DEF Merchants!refresh, Merchants!logout, Merchants!updateTenant,
         Merchants!switchEnvironment
    <3>4. ASSUME req[q].email.box \in Mailbox
          PROVE  \E z \in sessions' : z.id = t /\ z.user = req[q].user /\ z.state = "revoked"
      <4>1. t \in Merchants!Request
        BY <3>1 DEF Merchants!Tokens
      <4>2. PICK s \in sessions : s.id = t /\ s.user = req[t].user
        BY <3>1, <3>4, <4>1 DEF AccountsInv, RequestInv, HasItsSession, SessionOf
      <4> QED
        BY <1>0, <3>1, <3>3, <4>2, RevokedFacts
    <3>5. n.token = t
      BY <1>2
    <3> HIDE DEF t
    <3> QED
      BY <1>0, <1>2, <1>6, <2>2, <3>1, <3>2, <3>4, <3>5
         DEF HasItsSession, Merchants!Tokens, EndedSessionOf
  <2> QED
    BY <2>1, <2>2
<1> QED
  BY <1>6, <1>7, <1>8, <1>9, <1>10 DEF RequestInv

\* Codes, counts and sessions run out.
LEMMA ExpireInv ==
  ASSUME AccountsInv, Merchants!expire
  PROVE  AccountsInv'
<1>0. UNCHANGED <<tenants, users, memberships, settings, req>>
  BY DEF Merchants!expire
<1>1. Onward
  BY <1>0 DEF Onward
<1>2. TablesInv'
  BY <1>0, <1>1, TablesStay
<1>3. CodeTypes'
  <2>1. CASE UNCHANGED <<codes, failed>>
    BY <2>1 DEF AccountsInv, CodeTypes
  <2>2. ASSUME NEW b \in Merchants!Box, codes' = [codes EXCEPT ![b].expired = TRUE],
               UNCHANGED failed
        PROVE  CodeTypes'
    BY <2>2 DEF AccountsInv, CodeTypes
  <2>3. ASSUME NEW b \in Merchants!Box, failed' = [failed EXCEPT ![b] = 0], UNCHANGED codes
        PROVE  CodeTypes'
    BY <2>3, AccountConstants DEF AccountsInv, CodeTypes
  <2> QED
    BY <2>1, <2>2, <2>3 DEF Merchants!expire, Merchants!otpVars
<1>4. RowTypes' /\ KeepsMerchants
  <2>1. CASE UNCHANGED sessions
    BY <1>0, <2>1, TablesKept DEF AccountsInv, RowTypes
  <2>2. ASSUME NEW s \in sessions, s.state = "live",
               sessions' = (sessions \ {s}) \cup {[s EXCEPT !.state = "expired"]}
        PROVE  RowTypes' /\ KeepsMerchants
    <3> DEFINE z == [s EXCEPT !.state = "expired"]
    <3>1. /\ z \in [id : Merchants!Request, user : Merchants!UserId,
                    tenant : Merchants!TenantId, state : {"live", "revoked", "expired"}]
          /\ z.id = s.id /\ z.user = s.user
      BY DEF AccountsInv, RowTypes
    <3>2. sessions' = (sessions \ {s}) \cup {z}
      BY <2>2
    <3> HIDE DEF z
    <3> QED
      BY <1>0, <2>2, <3>1, <3>2 DEF AccountsInv, RowTypes, KeepsMerchants
  <2> QED
    BY <2>1, <2>2 DEF Merchants!expire
<1>5. \A q \in Merchants!Request : RequestInv(q)'
  BY <1>0, <1>1, <1>4, RequestStays
<1> QED
  BY <1>0, <1>2, <1>3, <1>4, <1>5 DEF AccountsInv, SettingTypes

LEMMA AccountsStep == AccountsInv /\ [Merchants!Next]_accountVars => AccountsInv'
<1> SUFFICES ASSUME AccountsInv, [Merchants!Next]_accountVars PROVE AccountsInv'
  OBVIOUS
<1>1. ASSUME NEW q \in Merchants!Request, NEW e \in Address,
             \/ Merchants!sendOtp(q, e) \/ Merchants!verifyOtp(q, e)
             \/ \E b \in BOOLEAN : Merchants!signup(q, e, b) \/ Merchants!login(q, e, b)
      PROVE  AccountsInv'
  BY <1>1, CodesInv, LookupInv
<1>2. ASSUME NEW q \in Merchants!Request,
             \/ \E b \in BOOLEAN : Merchants!compareOtp(q, b)
             \/ Merchants!countFailure(q) \/ Merchants!clearFailures(q)
             \/ Merchants!deleteOtp(q) \/ Merchants!answer500(q)
      PROVE  AccountsInv'
  BY <1>2, CodesInv
<1>3. ASSUME NEW q \in Merchants!Request,
             \/ Merchants!handleDemoLogin(q) \/ Merchants!lookup(q)
             \/ Merchants!demoLogin(q) \/ Merchants!seedDemo(q)
             \/ Merchants!onboard(q) \/ Merchants!createMerchant(q)
      PROVE  AccountsInv'
  BY <1>3, LookupInv, SeedInv, InsertInv
<1>4. ASSUME NEW q \in Merchants!Request,
             \/ Merchants!ensureParents(q) \/ Merchants!createSession(q)
             \/ \E t \in Merchants!Tokens, c \in {"refresh", "logout", "tenant", "environment"} :
                  Merchants!authenticateTenant(q, t, c)
             \/ \E b \in Mailbox : Merchants!verifySupabaseToken(q, b)
      PROVE  AccountsInv'
  BY <1>4, ParentsInv, SessionInv, TokenInv, OutsiderInv
<1>5. ASSUME NEW q \in Merchants!Request,
             \/ Merchants!refresh(q) \/ Merchants!logout(q)
             \/ \E c \in {0, 7, 101} : Merchants!updateTenant(q, c)
             \/ \E env \in {"test", "live"} : Merchants!switchEnvironment(q, env)
      PROVE  AccountsInv'
  BY <1>5, RoutesInv
<1>6. CASE Merchants!expire
  BY <1>6, ExpireInv
<1>7. CASE UNCHANGED accountVars
  <2>1. /\ UNCHANGED <<tenants, users, memberships, sessions, settings, codes, failed, req>>
        /\ Onward
    BY <1>7 DEF accountVars, Onward
  <2>2. TablesInv' /\ \A q \in Merchants!Request : RequestInv(q)'
    BY <2>1, TablesStay, TablesKept, RequestStays
  <2> QED
    BY <2>1, <2>2 DEF AccountsInv, RowTypes, SettingTypes, CodeTypes
<1> QED
  BY <1>1, <1>2, <1>3, <1>4, <1>5, <1>6, <1>7 DEF Merchants!Next

LEMMA AccountsImplied == AccountsInv => Merchants!TypeOK /\ Merchants!AccountsAreWhole
                                        /\ Merchants!LoggedOutIsRefused
<1> SUFFICES ASSUME AccountsInv
             PROVE  Merchants!TypeOK /\ Merchants!AccountsAreWhole
                    /\ Merchants!LoggedOutIsRefused
  OBVIOUS
<1>1. Merchants!TypeOK
  BY DEF AccountsInv, RowTypes, SettingTypes, CodeTypes, Email, Handled, Merchants!TypeOK
<1>2. ASSUME NEW q \in tenants \cap Merchants!Request, req[q].email.box \in Mailbox
      PROVE  \E u \in users : <<u.id, q>> \in memberships
  BY <1>2 DEF AccountsInv, TablesInv
<1>3. ASSUME NEW q \in Merchants!Request, req[q].at = "ok",
             req[q].call \in {"verifyOtp", "signup"}, req[q].email.box \in Mailbox
      PROVE  \E u \in users : u.email = req[q].email /\ Merchants!isMember(u)
  BY <1>3 DEF AccountsInv, TablesInv, RequestInv, HasAnAccount, Merchants!isMember
<1>4. ASSUME NEW q \in Merchants!Request, req[q].at = "ok", req[q].call = "logout",
             req[q].email.box \in Mailbox
      PROVE  ~Merchants!validateSession(req[q].token)
  <2>1. EndedSessionOf(q, req[q].token)
    BY <1>4 DEF AccountsInv, RequestInv, HasItsSession
  <2> QED
    BY <2>1 DEF EndedSessionOf, Merchants!validateSession
<1> QED
  BY <1>1, <1>2, <1>3, <1>4 DEF Merchants!AccountsAreWhole, Merchants!LoggedOutIsRefused

\* However sign-ups, first sign-ins, seedings of the demo account and sessions interleave, a
\* merchant's account is there whole or not at all, whoever was told of it finds it again,
\* and a token whose log-out was answered is refused.
THEOREM AccountsAreKept == ServicesSpec => []AccountsHold
<1> DEFINE Inv == part = "accounts" => AccountsInv
<1>1. ServicesInit => Inv
  BY AccountsInit DEF ServicesInit
<1>2. Inv /\ [ServicesNext]_all => Inv'
  BY AccountsStep DEF ServicesNext, all, accountVars
<1>3. Inv => AccountsHold
  BY AccountsImplied DEF AccountsHold
<1> HIDE DEF Inv
<1> QED
  BY <1>1, <1>2, <1>3, PTL DEF ServicesSpec

-----------------------------------------------------------------------------
(* The agents' memory.  What a step does to the rows an answer may hold is *)
(* nothing, or it puts one behind every cutoff that has passed.            *)

\* A memory is stored now, behind the rows there are, and may be indexed.
Stores ==
  /\ memories' \in Seq(Memory!Item) /\ Len(memories') = Len(memories) + 1
  /\ \A n \in Memory!Rows : memories'[n] = memories[n]
  /\ memories'[Len(memories) + 1].at = clock
  /\ documents' \subseteq documents \cup {Len(memories) + 1} /\ documents \subseteq documents'

LEMMA MemoryInit == Memory!Init => Memory!TypeOK
<1>1. <<>> \in Seq(Memory!Item) /\ Len(<<>>) = 0
  BY EmptySeq
<1> QED
  BY <1>1, MemoryAssumption DEF Memory!Init, Memory!TypeOK

LEMMA StoresRow ==
  ASSUME Memory!TypeOK, NEW type \in Memory!MemoryType, NEW topic \in Topic,
         Memory!insertAgentMemory(type, topic), UNCHANGED clock,
         documents' = documents \/ Memory!addDocument
  PROVE  Stores /\ Memory!TypeOK'
<1> DEFINE item == [type |-> type, topic |-> topic, at |-> clock]
<1>1. item \in Memory!Item /\ item.at = clock /\ memories \in Seq(Memory!Item)
  BY DEF Memory!TypeOK, Memory!Item
<1>2. memories' = Append(memories, item) /\ Len(memories) < MaxMemories
  BY DEF Memory!insertAgentMemory
<1> HIDE DEF item
<1>3. /\ memories' \in Seq(Memory!Item) /\ Len(memories') = Len(memories) + 1
      /\ \A n \in 1..Len(memories) : memories'[n] = memories[n]
      /\ memories'[Len(memories) + 1] = item
  BY <1>1, <1>2, AppendProperties
<1>4. /\ Len(memories) \in Nat /\ Memory!Rows = 1..Len(memories)
      /\ Memory!Rows' = 1..(Len(memories) + 1)
  BY <1>1, <1>3, LenProperties DEF Memory!Rows
<1>5. documents' \subseteq documents \cup {Len(memories) + 1} /\ documents \subseteq documents'
  BY DEF Memory!addDocument
<1>6. Stores
  BY <1>1, <1>3, <1>4, <1>5 DEF Stores
<1>7. Memory!TypeOK'
  BY <1>2, <1>3, <1>4, <1>5, MemoryAssumption DEF Memory!TypeOK
<1> QED
  BY <1>6, <1>7

\* The rows there are keep their places in every answer.
LEMMA SameOrder ==
  ASSUME Memory!TypeOK, Stores, NEW S \in SUBSET Memory!Rows, NEW limit
  PROVE  /\ Memory!latest(S, limit)' = Memory!latest(S, limit)
         /\ \A topic : Memory!closest(S, topic, limit)' = Memory!closest(S, topic, limit)
         /\ \A topic : \A m, n \in Memory!Rows :
              Memory!Closer(m, n, topic)' <=> Memory!Closer(m, n, topic)
<1>1. \A n \in Memory!Rows : memories'[n] = memories[n]
  BY DEF Stores
<1>2. \A m, n \in Memory!Rows : Memory!Newer(m, n)' <=> Memory!Newer(m, n)
  BY <1>1 DEF Memory!Newer
<1>3. ASSUME NEW topic, NEW m \in Memory!Rows, NEW n \in Memory!Rows
      PROVE  Memory!Closer(m, n, topic)' <=> Memory!Closer(m, n, topic)
  BY <1>1 DEF Memory!Closer
<1>4. ASSUME NEW n \in S
      PROVE  {m \in S : Memory!Newer(m, n)'} = {m \in S : Memory!Newer(m, n)}
  BY <1>2
<1>5. ASSUME NEW topic, NEW n \in S
      PROVE  {m \in S : Memory!Closer(m, n, topic)'} = {m \in S : Memory!Closer(m, n, topic)}
  BY <1>3
<1>6. Memory!latest(S, limit)' = Memory!latest(S, limit)
  BY <1>4 DEF Memory!latest
<1>7. ASSUME NEW topic
      PROVE  Memory!closest(S, topic, limit)' = Memory!closest(S, topic, limit)
  BY <1>5 DEF Memory!closest
<1> QED
  BY <1>3, <1>6, <1>7

\* A set of rows, and one of those that remain of it, are finite.
LEMMA RowsAreFinite ==
  ASSUME Memory!TypeOK, Stores, NEW S, S \subseteq Memory!Rows \cup {Len(memories) + 1}
  PROVE  /\ Memory!Cardinality(S) \in Nat
         /\ \A T \in SUBSET S : Memory!Cardinality(T) \in Nat
                                /\ Memory!Cardinality(T) <= Memory!Cardinality(S)
<1>1. Len(memories) \in Nat /\ Memory!Rows = 1..Len(memories)
  BY LenProperties DEF Memory!TypeOK, Memory!Rows
<1>2. IsFiniteSet(1..(Len(memories) + 1))
  BY <1>1, FS_Interval
<1>3. S \subseteq 1..(Len(memories) + 1)
  BY <1>1
<1>4. IsFiniteSet(S)
  BY <1>2, <1>3, FS_Subset
<1>5. \A T : Memory!Cardinality(T) = Cardinality(T)
  BY DEF Memory!Cardinality, Cardinality, Memory!IsFiniteSet, IsFiniteSet
<1>6. \A T \in SUBSET S : IsFiniteSet(T) /\ Cardinality(T) <= Cardinality(S)
  BY <1>4, FS_Subset
<1> QED
  BY <1>4, <1>5, <1>6, FS_CardinalityType

\* A new memory finds its way into no answer for a moment that has passed, and pushes none
\* out that a query for episodes or rules gave.
LEMMA QueriesStay ==
  ASSUME Memory!TypeOK, Stores, NEW topic \in Topic, NEW cutoff \in 0..MaxClock, cutoff < clock
  PROVE  /\ Memory!queryEpisodicMemories(topic, cutoff)' = Memory!queryEpisodicMemories(topic, cutoff)
         /\ Memory!querySemanticMemories(topic, cutoff)' = Memory!querySemanticMemories(topic, cutoff)
<1> DEFINE In(type) == {n \in Memory!Stored(type, topic) : memories[n].at <= cutoff}
<1>1. /\ Len(memories) \in Nat /\ Memory!Rows = 1..Len(memories)
      /\ Memory!Rows' = Memory!Rows \cup {Len(memories) + 1} /\ clock \in Nat
  BY LenProperties DEF Memory!TypeOK, Stores, Memory!Rows
<1>2. /\ \A n \in Memory!Rows : memories'[n] = memories[n]
      /\ ~(memories'[Len(memories) + 1].at <= cutoff)
  BY <1>1 DEF Stores
<1>3. ASSUME NEW type PROVE In(type)' = In(type) /\ In(type) \in SUBSET Memory!Rows
  BY <1>1, <1>2 DEF Memory!Stored
<1>4. ASSUME NEW S \in SUBSET Memory!Rows
      PROVE  /\ Memory!filterMemories(S, cutoff)' = Memory!filterMemories(S, cutoff)
             /\ Memory!filterMemories(S, cutoff) \in SUBSET Memory!Rows
  BY <1>2 DEF Memory!filterMemories
<1>5. ASSUME NEW S \in SUBSET Memory!Rows, NEW limit
      PROVE  Memory!latest(S, limit) \in SUBSET Memory!Rows
  BY DEF Memory!latest
<1> HIDE DEF In
<1>6. Memory!queryEpisodicMemories(topic, cutoff)' = Memory!queryEpisodicMemories(topic, cutoff)
  <2>1. PICK A : A = In("episodic")
    OBVIOUS
  <2>2. PICK B : B = Memory!latest(A, FetchLimit)
    OBVIOUS
  <2>3. PICK C : C = Memory!filterMemories(B, cutoff)
    OBVIOUS
  <2>4. /\ A = In("episodic")' /\ A \in SUBSET Memory!Rows
        /\ B = Memory!latest(A, FetchLimit)' /\ B \in SUBSET Memory!Rows
    BY <1>3, <1>5, <2>1, <2>2, SameOrder
  <2>5. C = Memory!filterMemories(B, cutoff)' /\ C \in SUBSET Memory!Rows
    BY <1>4, <2>3, <2>4
  <2>6. Memory!latest(C, RecallLimit)' = Memory!latest(C, RecallLimit)
    BY <2>5, SameOrder
  <2> QED
    BY <2>1, <2>2, <2>3, <2>4, <2>5, <2>6
       DEF In, Memory!queryEpisodicMemories, Memory!getEpisodicMemories
<1>7. Memory!querySemanticMemories(topic, cutoff)' = Memory!querySemanticMemories(topic, cutoff)
  <2>1. PICK A : A = In("semantic")
    OBVIOUS
  <2>2. PICK C : C = Memory!filterMemories(A, cutoff)
    OBVIOUS
  <2>3. A = In("semantic")' /\ A \in SUBSET Memory!Rows
    BY <1>3, <2>1
  <2>4. C = Memory!filterMemories(A, cutoff)' /\ C \in SUBSET Memory!Rows
    BY <1>4, <2>2, <2>3
  <2>5. Memory!latest(C, RecallLimit)' = Memory!latest(C, RecallLimit)
    BY <2>4, SameOrder
  <2> QED
    BY <2>1, <2>2, <2>3, <2>4, <2>5
       DEF In, Memory!querySemanticMemories, Memory!getSemanticMemories
<1> QED
  BY <1>6, <1>7

\* A search for a moment that has passed finds nothing new: a memory it still finds was
\* among the best before, and so was whatever is closer.
LEMMA SearchLosesOnly ==
  ASSUME Memory!TypeOK, Stores, NEW topic \in Topic, NEW cutoff \in 0..MaxClock, cutoff < clock
  PROVE  Memory!searchSimilarMemories(topic, cutoff)' \subseteq
           Memory!searchSimilarMemories(topic, cutoff)
<1> DEFINE K == TopK * 2
<1>1. PICK D : D = documents
  OBVIOUS
<1>2. PICK E : E = documents'
  OBVIOUS
<1>3. PICK new : new = Len(memories) + 1
  OBVIOUS
<1>4. /\ Len(memories) \in Nat /\ Memory!Rows = 1..Len(memories) /\ clock \in Nat
      /\ D \subseteq Memory!Rows /\ D \subseteq E /\ E \subseteq D \cup {new}
  BY <1>1, <1>2, <1>3, LenProperties DEF Memory!TypeOK, Stores, Memory!Rows
<1>5. /\ \A n \in Memory!Rows : memories'[n] = memories[n]
      /\ ~(memories'[new].at <= cutoff) /\ K \in Nat
  BY <1>3, <1>4, MemoryAssumption DEF Stores
<1> DEFINE Ahead(S, n) == {m \in S : Memory!Closer(m, n, topic)}
<1>6. \A m, n \in Memory!Rows : Memory!Closer(m, n, topic)' <=> Memory!Closer(m, n, topic)
  BY SameOrder
<1>7. ASSUME NEW S \in SUBSET Memory!Rows, NEW limit
      PROVE  Memory!closest(S, topic, limit)' = Memory!closest(S, topic, limit)
  BY <1>7, SameOrder
\* What the new search takes into account, and what the old one did.
<1>9. PICK A : A = Memory!closest(E, topic, K)'
  OBVIOUS
<1>10. PICK B : B = Memory!closest(D, topic, K)
  OBVIOUS
<1>11. PICK F : F = Memory!filterMemories(A, cutoff)'
  OBVIOUS
<1>12. PICK G : G = Memory!filterMemories(B, cutoff)
  OBVIOUS
<1>13. ASSUME NEW n \in E
       PROVE  n \in A <=> Memory!Cardinality({m \in E : Memory!Closer(m, n, topic)'}) < K
  BY <1>9, <1>13 DEF Memory!closest
<1>14. A \subseteq E
  BY <1>9 DEF Memory!closest
<1>15. F \subseteq A \cap D /\ \A n \in F : memories[n].at <= cutoff
  BY <1>4, <1>5, <1>11, <1>14 DEF Memory!filterMemories
<1>16. /\ \A n \in D : n \in B <=> Memory!Cardinality(Ahead(D, n)) < K
       /\ B \subseteq D /\ G = {n \in B : memories[n].at <= cutoff}
  BY <1>10, <1>12 DEF Memory!closest, Memory!filterMemories
\* Fewer memories were ahead of an old one before.
<1>17. ASSUME NEW n \in D
       PROVE  /\ Memory!Cardinality(Ahead(D, n)) \in Nat
              /\ Memory!Cardinality({m \in E : Memory!Closer(m, n, topic)'}) \in Nat
              /\ Memory!Cardinality(Ahead(D, n)) <=
                   Memory!Cardinality({m \in E : Memory!Closer(m, n, topic)'})
  <2>1. PICK P : P = {m \in E : Memory!Closer(m, n, topic)'}
    OBVIOUS
  <2>2. P \subseteq Memory!Rows \cup {Len(memories) + 1}
    BY <1>3, <1>4, <2>1
  <2>3. Ahead(D, n) \subseteq P
    BY <1>4, <1>6, <2>1
  <2> HIDE DEF Ahead
  <2> QED
    BY <2>1, <2>2, <2>3, RowsAreFinite
<1>18. F \subseteq G
  <2> SUFFICES ASSUME NEW n \in F PROVE n \in G
    OBVIOUS
  <2> HIDE DEF K
  <2>1. n \in D /\ n \in E /\ n \in A /\ memories[n].at <= cutoff
    BY <1>4, <1>15
  <2>2. Memory!Cardinality({m \in E : Memory!Closer(m, n, topic)'}) < K
    BY <1>13, <2>1
  <2>3. Memory!Cardinality(Ahead(D, n)) < K
    <3> HIDE DEF Ahead
    <3> QED
      BY <1>5, <1>17, <2>1, <2>2
  <2> QED
    BY <1>16, <2>1, <2>3
\* What is ahead of a memory that is still found is still found.
<1>19. ASSUME NEW n \in F, NEW m \in G, Memory!Closer(m, n, topic) PROVE m \in F
  <2>1. /\ n \in D /\ m \in D /\ n \in A /\ m \in E /\ n \in E /\ memories[m].at <= cutoff
        /\ n \in Memory!Rows /\ m \in Memory!Rows
    BY <1>4, <1>15, <1>16
  <2>2. PICK P : P = {x \in E : Memory!Closer(x, m, topic)'}
    OBVIOUS
  <2>3. PICK Q : Q = {x \in E : Memory!Closer(x, n, topic)'}
    OBVIOUS
  <2>4. P \subseteq Q
    <3>1. ASSUME NEW x \in Nat, NEW y \in Nat, NEW z \in Nat,
                 Memory!Closer(x, y, topic)', Memory!Closer(y, z, topic)'
          PROVE  Memory!Closer(x, z, topic)'
      BY <3>1 DEF Memory!Closer, Memory!cosineSimilarity
    <3>2. m \in Nat /\ n \in Nat /\ \A x \in E : x \in Nat
      BY <1>3, <1>4, <2>1
    <3>3. Memory!Closer(m, n, topic)'
      BY <1>6, <1>19, <2>1
    <3> QED
      BY <2>2, <2>3, <3>1, <3>2, <3>3
  <2>5. Q \subseteq Memory!Rows \cup {Len(memories) + 1}
    BY <1>3, <1>4, <2>3
  <2>6. Memory!Cardinality(P) < K
    <3> HIDE DEF K
    <3>1. Memory!Cardinality(Q) < K
      BY <1>13, <2>1, <2>3
    <3>2. /\ Memory!Cardinality(P) \in Nat /\ Memory!Cardinality(Q) \in Nat
          /\ Memory!Cardinality(P) <= Memory!Cardinality(Q)
      BY <2>4, <2>5, RowsAreFinite
    <3> QED
      BY <1>5, <3>1, <3>2
  <2>7. m \in A
    BY <1>13, <2>1, <2>2, <2>6
  <2> QED
    BY <1>5, <1>11, <2>1, <2>7 DEF Memory!filterMemories
<1>20. ASSUME NEW n \in Memory!closest(F, topic, TopK) PROVE n \in Memory!closest(G, topic, TopK)
  <2>1. n \in F /\ Memory!Cardinality(Ahead(F, n)) < TopK
    BY <1>20 DEF Memory!closest
  <2>2. Ahead(G, n) = Ahead(F, n)
    BY <1>18, <1>19, <2>1
  <2> QED
    BY <1>18, <2>1, <2>2 DEF Memory!closest
<1>21. F \in SUBSET Memory!Rows
  BY <1>4, <1>15
<1>22. Memory!searchSimilarMemories(topic, cutoff)' = Memory!closest(F, topic, TopK)'
  BY <1>2, <1>9, <1>11 DEF Memory!searchSimilarMemories, Memory!searchSimilar
<1>23. Memory!searchSimilarMemories(topic, cutoff) = Memory!closest(G, topic, TopK)
  BY <1>1, <1>10, <1>12 DEF Memory!searchSimilarMemories, Memory!searchSimilar
<1> QED
  BY <1>7, <1>20, <1>21, <1>22, <1>23

\* What a step leaves of an answer for a moment that has passed.
Recalls ==
  \A topic \in Topic, cutoff \in 0..MaxClock : cutoff < clock =>
    /\ Memory!queryEpisodicMemories(topic, cutoff)' = Memory!queryEpisodicMemories(topic, cutoff)
    /\ Memory!querySemanticMemories(topic, cutoff)' = Memory!querySemanticMemories(topic, cutoff)
    /\ Memory!searchSimilarMemories(topic, cutoff)' \subseteq
         Memory!searchSimilarMemories(topic, cutoff)

LEMMA MemoryStep ==
  ASSUME Memory!TypeOK, [Memory!Next]_memoryVars PROVE Memory!TypeOK' /\ Recalls
<1> USE DEF Memory!latest, Memory!Newer, Memory!Rows
<1>1. CASE Memory!TypeOK' /\ Stores
  BY <1>1, QueriesStay, SearchLosesOnly DEF Recalls
<1>2. CASE Memory!tick
  <2>1. Memory!TypeOK'
    BY <1>2, MemoryAssumption DEF Memory!tick, Memory!TypeOK
  <2>2. Recalls
    BY <1>2 DEF Memory!tick, Recalls, Memory!queryEpisodicMemories, Memory!getEpisodicMemories,
       Memory!querySemanticMemories, Memory!getSemanticMemories, Memory!searchSimilarMemories,
       Memory!searchSimilar, Memory!filterMemories, Memory!Stored, Memory!closest, Memory!Closer
  <2> QED
    BY <2>1, <2>2
<1>3. CASE Memory!restart
  <2>1. Memory!TypeOK'
    BY <1>3 DEF Memory!restart, Memory!TypeOK
  <2>2. \A topic, cutoff : Memory!searchSimilarMemories(topic, cutoff)' = {}
    BY <1>3 DEF Memory!restart, Memory!searchSimilarMemories, Memory!searchSimilar,
       Memory!filterMemories, Memory!closest
  <2>3. Recalls
    BY <1>3, <2>2 DEF Memory!restart, Recalls, Memory!queryEpisodicMemories,
       Memory!getEpisodicMemories, Memory!querySemanticMemories, Memory!getSemanticMemories,
       Memory!filterMemories, Memory!Stored
  <2> QED
    BY <2>1, <2>3
<1>4. CASE UNCHANGED memoryVars
  <2>1. Memory!TypeOK'
    BY <1>4 DEF memoryVars, Memory!TypeOK
  <2>2. Recalls
    BY <1>4 DEF memoryVars, Recalls, Memory!queryEpisodicMemories, Memory!getEpisodicMemories,
       Memory!querySemanticMemories, Memory!getSemanticMemories, Memory!searchSimilarMemories,
       Memory!searchSimilar, Memory!filterMemories, Memory!Stored, Memory!closest, Memory!Closer
  <2> QED
    BY <2>1, <2>2
<1>5. ASSUME NEW topic \in Topic,
             \/ Memory!addWorkingMemory(topic)
             \/ Memory!recordEpisode(topic) \/ Memory!recordSemanticMemory(topic)
      PROVE  Memory!TypeOK' /\ Stores
  BY <1>5, StoresRow DEF Memory!addWorkingMemory, Memory!recordEpisode,
     Memory!recordSemanticMemory, Memory!MemoryType
<1> QED
  BY <1>1, <1>2, <1>3, <1>4, <1>5 DEF Memory!Next

\* The temporal firewall, for any topics, limits and number of memories: what the agents
\* recalled for a moment that has passed they recall again; only a search by similarity may
\* lose memories to later ones.
THEOREM ThePastIsSettled == ServicesSpec => RecallIsSettled
<1> DEFINE Inv == part = "memory" => Memory!TypeOK
           Step == [Recalls]_memoryVars
<1>1. ServicesInit => Inv
  BY MemoryInit DEF ServicesInit
<1>2. Inv /\ [ServicesNext]_all => Inv' /\ Step
  <2> SUFFICES ASSUME Inv, [ServicesNext]_all PROVE Inv' /\ Step
    OBVIOUS
  <2>1. CASE part = "memory" /\ Memory!Next /\ UNCHANGED part
    BY <2>1, MemoryStep
  <2>2. CASE part # "memory" /\ UNCHANGED <<part, memoryVars>>
    BY <2>2
  <2>3. CASE UNCHANGED all
    BY <2>3, MemoryStep DEF all
  <2> QED
    BY <2>1, <2>2, <2>3 DEF ServicesNext
<1>3. Step => [\A topic \in Topic, cutoff \in 0..MaxClock : cutoff < clock =>
         /\ Memory!queryEpisodicMemories(topic, cutoff)' = Memory!queryEpisodicMemories(topic, cutoff)
         /\ Memory!querySemanticMemories(topic, cutoff)' = Memory!querySemanticMemories(topic, cutoff)
         /\ Memory!searchSimilarMemories(topic, cutoff)' \subseteq
              Memory!searchSimilarMemories(topic, cutoff)]_Memory!memoryVars
  BY DEF Recalls, memoryVars, Memory!memoryVars
<1> HIDE DEF Inv, Step
<1> QED
  BY <1>1, <1>2, <1>3, PTL DEF ServicesSpec, RecallIsSettled, Memory!RecallIsSettled
=============================================================================
