----------------------------- MODULE AgentsProofs -----------------------------
(***************************************************************************)
(* The agent layer is sound for any opportunities, batches, workers, tools, *)
(* agents, providers, requests and limits: missions and the coordinator,   *)
(* the tool gate, the language model router, and reviews by a person.      *)
(***************************************************************************)
EXTENDS MCAgents, FiniteSetTheorems, SequenceTheorems, WellFoundedInduction, TLAPS

-----------------------------------------------------------------------------
(* Reviews by a person.                                                    *)

LEMMA ReviewsInit == HITL!Init => HITL!TypeOK
BY ReviewAssumption DEF HITL!Init, HITL!TypeOK, HITL!None

LEMMA ReviewsStep == HITL!TypeOK /\ [HITL!Next]_hitlVars => HITL!TypeOK'
<1> SUFFICES ASSUME HITL!TypeOK, [HITL!Next]_hitlVars PROVE HITL!TypeOK'
  OBVIOUS
<1>1. CASE UNCHANGED hitlVars
  BY <1>1 DEF hitlVars, HITL!TypeOK
<1>2. ASSUME NEW i \in ReviewId, HITL!createRequest(i) PROVE HITL!TypeOK'
  <2>1. SLA \in Nat /\ MaxDay \in Nat /\ today + SLA \in 0..(MaxDay + SLA)
    BY ReviewAssumption DEF HITL!TypeOK
  <2> QED
    BY <1>2, <2>1 DEF HITL!createRequest, HITL!TypeOK
<1>3. ASSUME NEW i \in ReviewId, NEW s \in HITL!Resolution, HITL!resolveRequest(i, s)
      PROVE  HITL!TypeOK'
  BY <1>3 DEF HITL!resolveRequest, HITL!TypeOK
<1>4. CASE HITL!checkTimeouts
  <2>1. \A i \in ReviewId :
          HITL!timedOut(i) \in [status : HITL!Resolution \cup {"none", "PENDING"},
                                timeout_at : 0..(MaxDay + SLA),
                                operator : {"none", "person", "system"}]
    BY DEF HITL!timedOut, HITL!TypeOK, HITL!Resolution
  <2> QED
    BY <1>4, <2>1 DEF HITL!checkTimeouts, HITL!TypeOK
<1>5. ASSUME NEW d \in DraftId, NEW s \in {"APPROVED", "REJECTED"}, HITL!reviewDraft(d, s)
      PROVE  HITL!TypeOK'
  BY <1>5 DEF HITL!reviewDraft, HITL!TypeOK
<1>6. CASE HITL!Restart
  BY <1>6, ReviewAssumption DEF HITL!Restart, HITL!TypeOK, HITL!None
<1>7. CASE HITL!Tomorrow
  BY <1>7, ReviewAssumption DEF HITL!Tomorrow, HITL!TypeOK
<1> QED
  BY <1>1, <1>2, <1>3, <1>4, <1>5, <1>6, <1>7 DEF HITL!Next

\* A request that is resolved is left alone by everything but a restart, and the
\* reader of the list marks no request before its time.
LEMMA ReviewsStand ==
  ASSUME HITL!TypeOK, HITL!Next, NEW i \in ReviewId
  PROVE  /\ review[i].status \in HITL!Resolution => review'[i] \in {review[i], HITL!None}
         /\ review[i].status = "PENDING" /\ review'[i].status = "TIMED_OUT"
              => review[i].timeout_at <= today
<1>1. ASSUME NEW j \in ReviewId, HITL!createRequest(j)
      PROVE  /\ review[i].status \in HITL!Resolution => review'[i] = review[i]
             /\ review[i].status = "PENDING" => review'[i] = review[i]
  BY <1>1 DEF HITL!createRequest, HITL!TypeOK, HITL!Resolution
<1>2. ASSUME NEW j \in ReviewId, NEW s \in HITL!Resolution \ {"TIMED_OUT"},
             HITL!resolveRequest(j, s)
      PROVE  /\ review[i].status \in HITL!Resolution => review'[i] = review[i]
             /\ review[i].status = "PENDING" => review'[i].status # "TIMED_OUT"
  BY <1>2 DEF HITL!resolveRequest, HITL!TypeOK, HITL!Resolution
<1>3. CASE HITL!checkTimeouts
  BY <1>3 DEF HITL!checkTimeouts, HITL!timedOut, HITL!TypeOK, HITL!Resolution
<1>4. CASE HITL!Restart
  BY <1>4 DEF HITL!Restart, HITL!None
<1>5. CASE UNCHANGED review
  BY <1>5
<1> QED
  BY <1>1, <1>2, <1>3, <1>4, <1>5 DEF HITL!Next, HITL!reviewDraft, HITL!Tomorrow

-----------------------------------------------------------------------------
(* The language model router.                                              *)

LEMMA SmallestNumber ==
  ASSUME NEW T \in SUBSET Nat, T # {} PROVE \E x \in T : \A y \in T : x <= y
<1> DEFINE R == {ss \in Nat \X Nat : ss[1] < ss[2]}
<1>1. PICK x \in T : \A y \in T : ~ (<<y, x>> \in R)
  <2>1. IsWellFoundedOn(R, Nat)
    BY NatLessThanWellFounded DEF OpToRel
  <2> HIDE DEF R
  <2> QED
    BY <2>1, WFMin
<1>2. \A y \in T : ~ (y < x)
  BY <1>1
<1> QED
  BY <1>2

\* The next provider to ask is at a place of the order, or there is none left.
LEMMA AdvanceFacts ==
  ASSUME NEW r, NEW k \in Nat, r.order \in Seq(Provider)
  PROVE  \E i \in 0..(Len(r.order) + 1), s \in {"awaiting", "deterministic"} :
           LLM!Advance(r, k) = [r EXCEPT !.i = i, !.outcome = s]
<1> DEFINE left == {j \in k..Len(r.order) : LLM!Callable(r, j)}
           next == CHOOSE j \in left : \A l \in left : j <= l
<1>0. Len(r.order) \in Nat
  BY LenProperties
<1>1. LLM!Advance(r, k) =
        IF left = {} THEN [r EXCEPT !.i = Len(r.order) + 1, !.outcome = "deterministic"]
        ELSE [r EXCEPT !.i = next, !.outcome = "awaiting"]
  BY DEF LLM!Advance
<1>2. left \subseteq Nat /\ left \subseteq 0..Len(r.order)
  BY <1>0
<1> HIDE DEF left
<1>3. CASE left = {}
  <2>1. Len(r.order) + 1 \in 0..(Len(r.order) + 1)
    BY <1>0
  <2> QED
    BY <1>1, <1>3, <2>1
<1>4. CASE left # {}
  <2>1. \E j \in left : \A l \in left : j <= l
    BY <1>2, <1>4, SmallestNumber
  <2>2. next \in left
    BY <2>1
  <2> HIDE DEF next
  <2>3. next \in 0..(Len(r.order) + 1)
    BY <1>0, <1>2, <2>2
  <2> QED
    BY <1>1, <1>4, <2>3
<1> QED
  BY <1>3, <1>4

RequestRecord ==
  [order : Orders, i : Nat, now : 0..MaxNow,
   outcome : {"none", "awaiting", "llm", "deterministic"}]

RouterInv ==
  /\ time \in 0..MaxNow /\ available \subseteq Provider
  /\ health \in [Provider -> [fails : 0..MaxTries, until : 0..(MaxNow + OpenFor)]]
  /\ request \in [Request -> RequestRecord]
  /\ \A q \in Request : request[q].i <= Len(request[q].order) + 1
  /\ LLM!OpenMeansFailing

LEMMA RouterInit == LLM!Init => RouterInv
<1> SUFFICES ASSUME LLM!Init PROVE RouterInv
  OBVIOUS
<1>1. {Trips, OpenFor, MaxNow, MaxTries} \subseteq Nat
  BY RouterAssumption
<1>2. /\ time \in 0..MaxNow /\ available \subseteq Provider
      /\ health \in [Provider -> [fails : 0..MaxTries, until : 0..(MaxNow + OpenFor)]]
  BY <1>1 DEF LLM!Init
<1>3. \A q \in Request : \E o \in Orders :
        request[q] = [order |-> o, i |-> 0, now |-> 0, outcome |-> "none"]
  BY DEF LLM!Init
<1>4. request \in [Request -> RequestRecord]
  BY <1>1, <1>3 DEF LLM!Init, RequestRecord
<1>5. ASSUME NEW q \in Request PROVE request[q].i <= Len(request[q].order) + 1
  <2>0. PICK o \in Orders :
          request[q] = [order |-> o, i |-> 0, now |-> 0, outcome |-> "none"]
    BY <1>3
  <2>1. request[q].order \in Seq(Provider) /\ request[q].i = 0
    BY <2>0, RouterAssumption
  <2>2. Len(request[q].order) \in Nat
    BY <2>1, LenProperties
  <2> QED
    BY <2>1, <2>2
<1>6. LLM!OpenMeansFailing
  BY DEF LLM!Init, LLM!OpenMeansFailing
<1> QED
  BY <1>2, <1>4, <1>5, <1>6 DEF RouterInv

\* A request that goes on to a place of its order, from its own record or from one
\* with another reading of the clock.
LEMMA RequestAdvances ==
  ASSUME RouterInv, NEW q \in Request, NEW r \in RequestRecord, NEW k \in Nat,
         request' = [request EXCEPT ![q] = LLM!Advance(r, k)]
  PROVE  /\ request' \in [Request -> RequestRecord]
         /\ \A p \in Request : request'[p].i <= Len(request'[p].order) + 1
<1>1. r.order \in Seq(Provider)
  BY RouterAssumption DEF RequestRecord
<1>2. PICK i \in 0..(Len(r.order) + 1), s \in {"awaiting", "deterministic"} :
        LLM!Advance(r, k) = [r EXCEPT !.i = i, !.outcome = s]
  BY <1>1, AdvanceFacts
<1>3. Len(r.order) \in Nat
  BY <1>1, LenProperties
<1> DEFINE n == [r EXCEPT !.i = i, !.outcome = s]
<1>4. n \in RequestRecord /\ n.i <= Len(n.order) + 1
  <2>1. i \in Nat /\ i <= Len(r.order) + 1
    BY <1>3
  <2> QED
    BY <2>1 DEF RequestRecord
<1>5. request' = [request EXCEPT ![q] = n]
  BY <1>2
<1> HIDE DEF n
<1> QED
  BY <1>4, <1>5 DEF RouterInv

LEMMA RouterStep == RouterInv /\ [LLM!Next]_llmVars => RouterInv'
<1> SUFFICES ASSUME RouterInv, [LLM!Next]_llmVars PROVE RouterInv'
  OBVIOUS
<1>0. {Trips, OpenFor, MaxNow, MaxTries} \subseteq Nat
  BY RouterAssumption
<1>1. CASE UNCHANGED llmVars
  BY <1>1 DEF llmVars, RouterInv, LLM!OpenMeansFailing
<1>2. ASSUME NEW q \in Request, LLM!executeWithFallback(q) PROVE RouterInv'
  <2> DEFINE r == [request[q] EXCEPT !.now = time]
  <2>1. r \in RequestRecord
    BY DEF RouterInv, RequestRecord
  <2>2. request' = [request EXCEPT ![q] = LLM!Advance(r, 1)]
    BY <1>2 DEF LLM!executeWithFallback, RouterInv
  <2> HIDE DEF r
  <2>3. /\ request' \in [Request -> RequestRecord]
        /\ \A p \in Request : request'[p].i <= Len(request'[p].order) + 1
    BY <2>1, <2>2, RequestAdvances
  <2> QED
    BY <1>2, <2>3 DEF LLM!executeWithFallback, RouterInv, LLM!OpenMeansFailing
<1>3. ASSUME NEW q \in Request, LLM!generateFails(q) PROVE RouterInv'
  <2> DEFINE p == LLM!Awaited(q)
             failed == [fails |-> health[p].fails + 1,
                        until |-> IF health[p].fails + 1 >= Trips THEN time + OpenFor
                                  ELSE health[p].until]
  <2>1. /\ health[p].fails < MaxTries /\ health' = [health EXCEPT ![p] = failed]
        /\ request' = [request EXCEPT ![q] = LLM!Advance(request[q], request[q].i + 1)]
        /\ UNCHANGED <<time, available>>
    BY <1>3 DEF LLM!generateFails, RouterInv
  <2>2. request[q] \in RequestRecord /\ request[q].i + 1 \in Nat
    BY DEF RouterInv, RequestRecord
  <2>3. /\ request' \in [Request -> RequestRecord]
        /\ \A x \in Request : request'[x].i <= Len(request'[x].order) + 1
    BY <2>1, <2>2, RequestAdvances
  <2>4. ASSUME p \in Provider
        PROVE  /\ failed \in [fails : 0..MaxTries, until : 0..(MaxNow + OpenFor)]
               /\ failed.until > 0 => failed.fails >= Trips
    <3>1. /\ health[p] \in [fails : 0..MaxTries, until : 0..(MaxNow + OpenFor)]
          /\ health[p].until > 0 => health[p].fails >= Trips
      BY <2>4 DEF RouterInv, LLM!OpenMeansFailing
    <3>2. time + OpenFor \in 0..(MaxNow + OpenFor)
      BY <1>0 DEF RouterInv
    <3> QED
      BY <1>0, <2>1, <3>1, <3>2
  <2> HIDE DEF failed, p
  <2>5. health' \in [Provider -> [fails : 0..MaxTries, until : 0..(MaxNow + OpenFor)]]
    BY <2>1, <2>4 DEF RouterInv
  <2>6. LLM!OpenMeansFailing'
    BY <2>1, <2>4 DEF RouterInv, LLM!OpenMeansFailing
  <2> QED
    BY <2>1, <2>3, <2>5, <2>6 DEF RouterInv
<1>4. ASSUME NEW q \in Request, NEW valid \in BOOLEAN, LLM!generateSucceeds(q, valid)
      PROVE  RouterInv'
  <2>1. PICK s \in {"llm", "deterministic"} : request' = [request EXCEPT ![q].outcome = s]
    BY <1>4 DEF LLM!generateSucceeds
  <2>2. /\ request' \in [Request -> RequestRecord]
        /\ \A x \in Request : request'[x].i = request[x].i /\ request'[x].order = request[x].order
    BY <2>1 DEF RouterInv, RequestRecord
  <2> DEFINE p == LLM!Awaited(q)
             closed == [fails |-> 0, until |-> 0]
  <2>0. health' = [health EXCEPT ![p] = closed]
    BY <1>4 DEF LLM!generateSucceeds
  <2>5. /\ closed \in [fails : 0..MaxTries, until : 0..(MaxNow + OpenFor)]
        /\ closed.until = 0
    BY <1>0
  <2> HIDE DEF p, closed
  <2>6. health' \in [Provider -> [fails : 0..MaxTries, until : 0..(MaxNow + OpenFor)]]
    BY <2>0, <2>5 DEF RouterInv
  <2>3. LLM!OpenMeansFailing'
    BY <2>0, <2>5 DEF RouterInv, LLM!OpenMeansFailing
  <2> QED
    BY <1>4, <2>2, <2>3, <2>6 DEF LLM!generateSucceeds, RouterInv
<1>5. ASSUME NEW q \in Request, LLM!Again(q) PROVE RouterInv'
  <2>1. request' = [request EXCEPT ![q] = [request[q] EXCEPT !.i = 0, !.outcome = "none"]]
    BY <1>5 DEF LLM!Again, RouterInv
  <2> DEFINE n == [request[q] EXCEPT !.i = 0, !.outcome = "none"]
  <2>2. n \in RequestRecord /\ n.i = 0 /\ n.order \in Seq(Provider)
    BY RouterAssumption DEF RouterInv, RequestRecord
  <2>3. Len(n.order) \in Nat
    BY <2>2, LenProperties
  <2> HIDE DEF n
  <2>4. /\ request' \in [Request -> RequestRecord]
        /\ \A x \in Request : request'[x].i <= Len(request'[x].order) + 1
    BY <2>1, <2>2, <2>3 DEF RouterInv, n
  <2> QED
    BY <1>5, <2>4 DEF LLM!Again, RouterInv, LLM!OpenMeansFailing
<1>6. CASE LLM!Tick
  BY <1>0, <1>6 DEF LLM!Tick, RouterInv, LLM!OpenMeansFailing
<1> QED
  BY <1>1, <1>2, <1>3, <1>4, <1>5, <1>6 DEF LLM!Next

LEMMA RouterTypes == RouterInv => LLM!TypeOK /\ LLM!OpenMeansFailing
<1> SUFFICES ASSUME RouterInv PROVE LLM!TypeOK
  BY DEF RouterInv
<1>1. ASSUME NEW q \in Request
      PROVE  /\ request[q].order \in Orders /\ request[q].i \in 0..(Len(request[q].order) + 1)
             /\ request[q].now \in 0..MaxNow
             /\ request[q].outcome \in {"none", "awaiting", "llm", "deterministic"}
  <2>1. request[q] \in RequestRecord /\ request[q].i <= Len(request[q].order) + 1
    BY DEF RouterInv
  <2>2. request[q].order \in Seq(Provider)
    BY <2>1, RouterAssumption DEF RequestRecord
  <2>3. Len(request[q].order) \in Nat
    BY <2>2, LenProperties
  <2> QED
    BY <2>1, <2>3 DEF RequestRecord
<1> QED
  BY <1>1 DEF RouterInv, LLM!TypeOK

-----------------------------------------------------------------------------
(* The tool gate.                                                          *)

\* Every handler started within the window is one of the counted calls, and no more
\* calls are counted in a window than the limit.
RateInv ==
  \A a \in Agent :
    /\ IsFiniteSet(rateLimitMap[a])
    /\ Cardinality(Gate!Recent(a)) <= MAX_CALLS
    /\ {s \in started[a] : clock - s.at < WINDOW} \subseteq rateLimitMap[a]

\* The mission waits for one call at a time, of a tool that the guard lets through: while
\* it waits nobody writes to its history.
GuardInv ==
  \A c \in inflight : c.by = "mission" =>
    /\ ~Gate!FailedInARow(toolCallHistory, c.tool)
    /\ \A d \in inflight : d.by = "mission" => d = c

GateInv == Gate!TypeOK /\ RateInv /\ GuardInv

\* The gate counts with the Cardinality of its own instance.
LEMMA GateCardinality == \A S : Gate!Cardinality(S) = Cardinality(S)
BY DEF Gate!Cardinality, Cardinality, Gate!IsFiniteSet, IsFiniteSet

LEMMA GateInit == Gate!Init => GateInv
<1> SUFFICES ASSUME Gate!Init PROVE GateInv
  OBVIOUS
<1>1. Gate!TypeOK
  <2>1. clock \in 0..MaxClock /\ toolCalls \in Nat
    BY GateAssumption DEF Gate!Init
  <2>2. stopped \in BOOLEAN
    BY DEF Gate!Init
  <2>3. toolCallHistory \in Seq(Gate!Entry)
    BY EmptySeq DEF Gate!Init
  <2> QED
    BY <2>1, <2>2, <2>3 DEF Gate!Init, Gate!TypeOK
<1>2. RateInv
  <2> SUFFICES ASSUME NEW a \in Agent
               PROVE  /\ IsFiniteSet(rateLimitMap[a])
                      /\ Cardinality(Gate!Recent(a)) <= MAX_CALLS
                      /\ {s \in started[a] : clock - s.at < WINDOW} \subseteq rateLimitMap[a]
    BY DEF RateInv
  <2>1. rateLimitMap[a] = {} /\ started[a] = {} /\ Gate!Recent(a) = {}
    BY DEF Gate!Init, Gate!Recent
  <2> QED
    BY <2>1, FS_EmptySet, GateAssumption
<1>3. GuardInv
  BY DEF Gate!Init, GuardInv
<1> QED
  BY <1>1, <1>2, <1>3 DEF GateInv

\* The record of a tool that failed in a row and fails again; one that others make longer.
LEMMA FailsOn ==
  ASSUME NEW h \in Seq(Gate!Entry), NEW e \in Gate!Entry, NEW t \in Tool,
         Gate!FailedInARow(h, t), e.tool # t \/ ~e.success
  PROVE  Gate!FailedInARow(Append(h, e), t)
<1> DEFINE g == Append(h, e)
           mine == Gate!EntriesOf(h, t)
           ours == Gate!EntriesOf(g, t)
           n == Len(h)
<1>1. /\ n \in Nat /\ DOMAIN h = 1..n /\ DOMAIN g = 1..(n + 1)
      /\ \A i \in 1..n : g[i] = h[i]
      /\ g[n + 1] = e
  BY LenProperties, AppendProperties
<1>2. /\ ours = IF e.tool = t THEN mine \cup {n + 1} ELSE mine
      /\ mine \subseteq 1..n
  BY <1>1 DEF Gate!EntriesOf
<1> HIDE DEF ours, mine, g, n
<1>3. IsFiniteSet(mine) /\ n + 1 \notin mine
  <2>0. 1 \in Int /\ n \in Int /\ n + 1 \notin 1..n
    BY <1>1
  <2>1. IsFiniteSet(1..n)
    BY <2>0, FS_Interval
  <2>2. mine \in SUBSET (1..n)
    BY <1>2
  <2>3. IsFiniteSet(mine)
    BY <2>1, <2>2, FS_Subset
  <2> QED
    BY <2>0, <2>2, <2>3
<1>4. ASSUME NEW k \in mine PROVE IsFiniteSet({j \in mine : j > k})
  <2>1. {j \in mine : j > k} \in SUBSET mine
    OBVIOUS
  <2> HIDE DEF mine
  <2> QED
    BY <1>3, <2>1, FS_Subset
<1>5. Cardinality(mine) >= maxFailures /\ maxFailures \in Nat
      /\ \A k \in mine : Cardinality({j \in mine : j > k}) < maxFailures => ~h[k].success
  BY GateAssumption, GateCardinality DEF Gate!FailedInARow, mine
<1>6. CASE e.tool # t
  <2>1. ours = mine /\ \A k \in mine : g[k] = h[k]
    BY <1>1, <1>2, <1>6
  <2> QED
    BY <1>5, <2>1, GateCardinality DEF Gate!FailedInARow, ours, g
<1>7. CASE e.tool = t
  <2>1. ours = mine \cup {n + 1} /\ ~e.success
    BY <1>2, <1>7
  <2>2. Cardinality(ours) = Cardinality(mine) + 1 /\ Cardinality(mine) \in Nat
    BY <1>3, <2>1, FS_AddElement, FS_CardinalityType
  <2>3. ASSUME NEW k \in mine, Cardinality({j \in ours : j > k}) < maxFailures
        PROVE  ~g[k].success
    <3>1. {j \in ours : j > k} = {j \in mine : j > k} \cup {n + 1}
      BY <1>1, <1>2, <2>1
    <3>2. /\ Cardinality({j \in ours : j > k}) = Cardinality({j \in mine : j > k}) + 1
          /\ Cardinality({j \in mine : j > k}) \in Nat
      BY <1>3, <1>4, <3>1, FS_AddElement, FS_CardinalityType
    <3>3. Cardinality({j \in mine : j > k}) < maxFailures
      BY <1>5, <2>3, <3>2
    <3> QED
      BY <1>1, <1>2, <1>5, <3>3
  <2>4. ~g[n + 1].success
    BY <1>1, <2>1
  <2>5. Cardinality(ours) >= maxFailures
    BY <1>5, <2>2
  <2>6. \A k \in ours : Cardinality({j \in ours : j > k}) < maxFailures => ~g[k].success
    BY <2>1, <2>3, <2>4
  <2> QED
    BY <2>5, <2>6, GateCardinality DEF Gate!FailedInARow, ours, g
<1> QED
  BY <1>6, <1>7

\* Counting a call.
LEMMA CountCallFacts ==
  ASSUME GateInv, NEW a \in Agent, Gate!CountCall(a), clock' = clock
  PROVE  /\ rateLimitMap' \in [Agent -> SUBSET Gate!Stamp]
         /\ \A b \in Agent : /\ IsFiniteSet(rateLimitMap'[b])
                             /\ Cardinality(Gate!Recent(b)') <= MAX_CALLS
                             /\ Gate!Recent(b) \subseteq rateLimitMap'[b]
         /\ Gate!underLimit(a) => Gate!now(a) \in rateLimitMap'[a]
         /\ Gate!now(a) \in Gate!Stamp
<1> DEFINE counted == Gate!Recent(a) \cup {Gate!now(a)}
<1>1. /\ MAX_CALLS \in Nat /\ clock \in 0..MaxClock
      /\ rateLimitMap \in [Agent -> SUBSET Gate!Stamp]
      /\ \A b \in Agent : IsFiniteSet(rateLimitMap[b]) /\ Gate!Recent(b) \subseteq rateLimitMap[b]
  BY GateAssumption DEF GateInv, RateInv, Gate!TypeOK, Gate!Recent
<1>2. Gate!now(a) \in Gate!Stamp
  <2>1. IsFiniteSet({s \in rateLimitMap[a] : s.at = clock})
    BY <1>1, FS_Subset
  <2>2. Cardinality({s \in rateLimitMap[a] : s.at = clock}) \in Nat
    BY <2>1, FS_CardinalityType
  <2> QED
    BY <1>1, <2>2, GateCardinality DEF Gate!now, Gate!Stamp
<1>3. CASE ~Gate!underLimit(a)
  <2>1. rateLimitMap' = rateLimitMap
    BY <1>3 DEF Gate!CountCall
  <2>2. \A b \in Agent : Gate!Recent(b)' = Gate!Recent(b)
    BY <2>1 DEF Gate!Recent
  <2> QED
    BY <1>1, <1>2, <1>3, <2>1, <2>2 DEF GateInv, RateInv
<1>4. CASE Gate!underLimit(a)
  <2>1. rateLimitMap' = [rateLimitMap EXCEPT ![a] = counted]
    BY <1>4 DEF Gate!CountCall
  <2>2. IsFiniteSet(Gate!Recent(a)) /\ Cardinality(Gate!Recent(a)) \in Nat
        /\ Cardinality(Gate!Recent(a)) < MAX_CALLS
    <3>1. IsFiniteSet(Gate!Recent(a))
      BY <1>1, FS_Subset
    <3> QED
      BY <1>4, <3>1, FS_CardinalityType, GateCardinality DEF Gate!underLimit
  <2>3. IsFiniteSet(counted) /\ Cardinality(counted) <= MAX_CALLS /\ Cardinality(counted) \in Nat
    <3>1. /\ IsFiniteSet(counted) /\ Cardinality(counted) \in Nat
          /\ \/ Cardinality(counted) = Cardinality(Gate!Recent(a)) + 1
             \/ Cardinality(counted) = Cardinality(Gate!Recent(a))
      BY <2>2, FS_AddElement, FS_CardinalityType
    <3> QED
      BY <1>1, <2>2, <3>1
  <2>4. counted \subseteq Gate!Stamp
    BY <1>1, <1>2
  <2>5. Gate!Recent(a) \subseteq counted /\ Gate!now(a) \in counted
    OBVIOUS
  <2> HIDE DEF counted
  <2>6. ASSUME NEW b \in Agent
        PROVE  /\ IsFiniteSet(rateLimitMap'[b])
               /\ Cardinality(Gate!Recent(b)') <= MAX_CALLS
               /\ Gate!Recent(b) \subseteq rateLimitMap'[b]
    <3>1. CASE b = a
      <4>1. rateLimitMap'[b] = counted /\ Gate!Recent(b)' \subseteq counted
        BY <1>1, <2>1, <3>1 DEF Gate!Recent
      <4>2. Cardinality(Gate!Recent(b)') <= Cardinality(counted)
            /\ Cardinality(Gate!Recent(b)') \in Nat
        BY <2>3, <4>1, FS_Subset, FS_CardinalityType
      <4> QED
        BY <1>1, <2>3, <2>5, <3>1, <4>1, <4>2
    <3>2. CASE b # a
      <4>1. rateLimitMap'[b] = rateLimitMap[b] /\ Gate!Recent(b)' = Gate!Recent(b)
        BY <1>1, <2>1, <3>2 DEF Gate!Recent
      <4> QED
        BY <1>1, <4>1 DEF GateInv, RateInv
    <3> QED
      BY <3>1, <3>2
  <2>7. rateLimitMap' \in [Agent -> SUBSET Gate!Stamp] /\ rateLimitMap'[a] = counted
    BY <1>1, <2>1, <2>4
  <2> QED
    BY <1>2, <2>5, <2>6, <2>7
<1> QED
  BY <1>3, <1>4

\* What a call leaves of the rates: it is counted, and started only if it was.
LEMMA RatesKept ==
  ASSUME GateInv, NEW a \in Agent, Gate!CountCall(a), clock' = clock,
         \/ started' = started
         \/ /\ Gate!underLimit(a)
            /\ started' = [started EXCEPT ![a] = started[a] \cup {Gate!now(a)}]
  PROVE  RateInv' /\ started' \in [Agent -> SUBSET Gate!Stamp]
<1>1. /\ \A b \in Agent : /\ IsFiniteSet(rateLimitMap'[b])
                          /\ Cardinality(Gate!Recent(b)') <= MAX_CALLS
                          /\ Gate!Recent(b) \subseteq rateLimitMap'[b]
      /\ Gate!underLimit(a) => Gate!now(a) \in rateLimitMap'[a]
      /\ Gate!now(a) \in Gate!Stamp
  BY CountCallFacts
<1>2. started \in [Agent -> SUBSET Gate!Stamp]
  BY DEF GateInv, Gate!TypeOK
<1>3. started' \in [Agent -> SUBSET Gate!Stamp]
  BY <1>1, <1>2
<1>4. ASSUME NEW b \in Agent
      PROVE  {s \in started'[b] : clock' - s.at < WINDOW} \subseteq rateLimitMap'[b]
  <2>1. {s \in started[b] : clock' - s.at < WINDOW} \subseteq rateLimitMap'[b]
    BY <1>1 DEF GateInv, RateInv, Gate!Recent
  <2>2. \/ started'[b] = started[b]
        \/ Gate!underLimit(a) /\ b = a /\ started'[b] = started[b] \cup {Gate!now(a)}
    BY <1>2
  <2> QED
    BY <1>1, <2>1, <2>2
<1> QED
  BY <1>1, <1>3, <1>4 DEF RateInv

\* What the mission records keeps a blocked tool blocked, unless the tool is the one that
\* is recorded and it succeeded.
LEMMA RecordFacts ==
  ASSUME Gate!TypeOK, NEW c \in Gate!Call, NEW ok \in BOOLEAN, Gate!Record(c, ok)
  PROVE  /\ toolCallHistory' \in Seq(Gate!Entry)
         /\ c.by # "mission" => toolCallHistory' = toolCallHistory
         /\ \A t \in Tool : Gate!FailedInARow(toolCallHistory, t) /\ (c.tool # t \/ ~ok)
              => Gate!FailedInARow(toolCallHistory', t)
<1> DEFINE e == [tool |-> c.tool, payload |-> c.payload, success |-> ok]
<1>1. e \in Gate!Entry /\ e.tool = c.tool /\ e.success = ok
  BY DEF Gate!Call, Gate!Entry
<1>2. toolCallHistory' = IF c.by = "mission" THEN Append(toolCallHistory, e)
                         ELSE toolCallHistory
  BY DEF Gate!Record, Gate!recordToolExecution
<1>3. toolCallHistory \in Seq(Gate!Entry)
  BY DEF Gate!TypeOK
<1> HIDE DEF e
<1>4. CASE c.by = "mission"
  <2>1. ASSUME NEW t \in Tool, Gate!FailedInARow(toolCallHistory, t), c.tool # t \/ ~ok
        PROVE  Gate!FailedInARow(Append(toolCallHistory, e), t)
    BY <1>1, <1>3, <2>1, FailsOn
  <2> QED
    BY <1>1, <1>2, <1>3, <1>4, <2>1, AppendProperties
<1>5. CASE c.by # "mission"
  BY <1>2, <1>3, <1>5
<1> QED
  BY <1>4, <1>5

LEMMA ExecuteToolInv ==
  ASSUME GateInv, NEW c \in Gate!Call, Gate!executeTool(c)
  PROVE  /\ GateInv'
         /\ \A t \in Tool : Gate!FailedInARow(toolCallHistory, t)
                              => Gate!FailedInARow(toolCallHistory', t)
<1>1. /\ c.agent \in Agent /\ c.tool \in Tool /\ Gate!CountCall(c.agent)
      /\ UNCHANGED <<stopped, clock>>
      /\ c.by = "mission" => \A d \in inflight : d.by # "mission"
  BY DEF Gate!executeTool, Gate!Call
<1>2. rateLimitMap' \in [Agent -> SUBSET Gate!Stamp]
  BY <1>1, CountCallFacts
<1>3. CASE ~Gate!evaluate(c) /\ Gate!deny(c) /\ UNCHANGED <<inflight, started, toolCalls>>
  <2>1. RateInv' /\ started' \in [Agent -> SUBSET Gate!Stamp]
    BY <1>1, <1>3, RatesKept
  <2>2. /\ toolCallHistory' \in Seq(Gate!Entry)
        /\ c.by # "mission" => toolCallHistory' = toolCallHistory
        /\ \A t \in Tool : Gate!FailedInARow(toolCallHistory, t)
             => Gate!FailedInARow(toolCallHistory', t)
    BY <1>3, RecordFacts DEF Gate!deny, GateInv
  <2>3. Gate!TypeOK'
    BY <1>1, <1>2, <1>3, <2>1, <2>2 DEF GateInv, Gate!TypeOK
  <2>4. GuardInv'
    <3>1. CASE c.by = "mission"
      BY <1>1, <1>3, <3>1 DEF GuardInv
    <3>2. CASE c.by # "mission"
      BY <1>3, <2>2, <3>2 DEF GateInv, GuardInv
    <3> QED
      BY <3>1, <3>2
  <2> QED
    BY <2>1, <2>2, <2>3, <2>4 DEF GateInv
<1>4. CASE /\ Gate!evaluate(c) /\ inflight' = inflight \cup {c}
           /\ toolCalls' = IF c.by = "mission" THEN toolCalls + 1 ELSE toolCalls
           /\ started' = [started EXCEPT ![c.agent] = @ \cup {Gate!now(c.agent)}]
           /\ UNCHANGED toolCallHistory
  <2>1. RateInv' /\ started' \in [Agent -> SUBSET Gate!Stamp]
    <3>1. started' = [started EXCEPT ![c.agent] = started[c.agent] \cup {Gate!now(c.agent)}]
      BY <1>1, <1>4 DEF GateInv, Gate!TypeOK
    <3>2. Gate!underLimit(c.agent)
      BY <1>4 DEF Gate!evaluate
    <3> QED
      BY <1>1, <3>1, <3>2, RatesKept
  <2>2. Gate!TypeOK'
    <3>1. toolCalls' \in Nat
      BY <1>4 DEF GateInv, Gate!TypeOK
    <3> QED
      BY <1>1, <1>2, <1>4, <2>1, <3>1 DEF GateInv, Gate!TypeOK
  <2>3. c.by = "mission" => ~Gate!FailedInARow(toolCallHistory, c.tool)
    BY <1>4 DEF Gate!evaluate, Gate!checkToolCall
  <2>4. GuardInv'
    BY <1>1, <1>4, <2>3 DEF GateInv, GuardInv
  <2> QED
    BY <1>4, <2>1, <2>2, <2>4 DEF GateInv
<1> QED
  BY <1>3, <1>4 DEF Gate!executeTool

LEMMA HandlerSettlesInv ==
  ASSUME GateInv, NEW c \in Gate!Call, NEW ok \in BOOLEAN, Gate!handlerSettles(c, ok)
  PROVE  /\ GateInv'
         /\ \A t \in Tool : Gate!FailedInARow(toolCallHistory, t)
                              => Gate!FailedInARow(toolCallHistory', t)
<1>1. /\ c \in inflight /\ inflight' = inflight \ {c} /\ Gate!Record(c, ok)
      /\ UNCHANGED <<stopped, clock, rateLimitMap, toolCalls, started>>
  BY DEF Gate!handlerSettles
<1>2. /\ toolCallHistory' \in Seq(Gate!Entry)
      /\ c.by # "mission" => toolCallHistory' = toolCallHistory
      /\ \A t \in Tool : Gate!FailedInARow(toolCallHistory, t) /\ c.tool # t
           => Gate!FailedInARow(toolCallHistory', t)
  BY <1>1, RecordFacts DEF GateInv
<1>3. c.by = "mission" => ~Gate!FailedInARow(toolCallHistory, c.tool)
  BY <1>1 DEF GateInv, GuardInv
<1>4. Gate!TypeOK'
  BY <1>1, <1>2 DEF GateInv, Gate!TypeOK
<1>5. RateInv'
  BY <1>1 DEF GateInv, RateInv, Gate!Recent
<1>6. GuardInv'
  BY <1>1, <1>2 DEF GateInv, GuardInv
<1> QED
  BY <1>2, <1>3, <1>4, <1>5, <1>6 DEF GateInv

LEMMA GateStep ==
  GateInv /\ [Gate!Next]_gateVars =>
    /\ GateInv'
    /\ \A t \in Tool : Gate!FailedInARow(toolCallHistory, t)
                         => Gate!FailedInARow(toolCallHistory', t)
<1> SUFFICES ASSUME GateInv, [Gate!Next]_gateVars
             PROVE  /\ GateInv'
                    /\ \A t \in Tool : Gate!FailedInARow(toolCallHistory, t)
                                         => Gate!FailedInARow(toolCallHistory', t)
  OBVIOUS
<1>1. CASE UNCHANGED gateVars
  BY <1>1 DEF gateVars, GateInv, Gate!TypeOK, RateInv, Gate!Recent, GuardInv
<1>2. ASSUME NEW on \in BOOLEAN, Gate!setKillSwitch(on) PROVE GateInv'
  BY <1>2 DEF Gate!setKillSwitch, GateInv, Gate!TypeOK, RateInv, Gate!Recent, GuardInv
<1>3. CASE Gate!Tick
  <2>1. clock' = clock + 1 /\ clock \in Nat /\ clock < MaxClock /\ MaxClock \in Nat
        /\ UNCHANGED <<stopped, rateLimitMap, toolCallHistory, toolCalls, inflight, started>>
    BY <1>3, GateAssumption DEF Gate!Tick, GateInv, Gate!TypeOK
  <2>2. Gate!TypeOK'
    BY <2>1 DEF GateInv, Gate!TypeOK
  <2>3. ASSUME NEW a \in Agent
        PROVE  /\ IsFiniteSet(rateLimitMap'[a])
               /\ Cardinality(Gate!Recent(a)') <= MAX_CALLS
               /\ {s \in started'[a] : clock' - s.at < WINDOW} \subseteq rateLimitMap'[a]
    <3>1. /\ rateLimitMap[a] \subseteq Gate!Stamp /\ started[a] \subseteq Gate!Stamp
          /\ IsFiniteSet(rateLimitMap[a]) /\ Cardinality(Gate!Recent(a)) <= MAX_CALLS
          /\ {s \in started[a] : clock - s.at < WINDOW} \subseteq rateLimitMap[a]
      BY DEF GateInv, Gate!TypeOK, RateInv
    <3>2. \A s \in Gate!Stamp : clock' - s.at < WINDOW => clock - s.at < WINDOW
      BY <2>1, GateAssumption DEF Gate!Stamp
    <3>3. Gate!Recent(a)' \subseteq Gate!Recent(a)
      BY <2>1, <3>1, <3>2 DEF Gate!Recent
    <3>4. IsFiniteSet(Gate!Recent(a)) /\ Gate!Recent(a) \subseteq rateLimitMap[a]
      BY <3>1, FS_Subset DEF Gate!Recent
    <3>5. /\ Cardinality(Gate!Recent(a)') <= Cardinality(Gate!Recent(a))
          /\ Cardinality(Gate!Recent(a)') \in Nat /\ Cardinality(Gate!Recent(a)) \in Nat
      BY <3>3, <3>4, FS_Subset, FS_CardinalityType
    <3> QED
      BY <2>1, <3>1, <3>2, <3>5, GateAssumption
  <2>4. RateInv' /\ GuardInv'
    BY <2>1, <2>3 DEF GateInv, RateInv, GuardInv
  <2> QED
    BY <2>1, <2>2, <2>4 DEF GateInv
<1>4. ASSUME NEW c \in Gate!Call,
             Gate!executeTool(c) \/ \E ok \in BOOLEAN : Gate!handlerSettles(c, ok)
      PROVE  /\ GateInv'
             /\ \A t \in Tool : Gate!FailedInARow(toolCallHistory, t)
                                  => Gate!FailedInARow(toolCallHistory', t)
  BY <1>4, ExecuteToolInv, HandlerSettlesInv
<1>5. (\E on \in BOOLEAN : Gate!setKillSwitch(on)) => toolCallHistory' = toolCallHistory
  BY DEF Gate!setKillSwitch
<1> QED
  BY <1>1, <1>2, <1>3, <1>4, <1>5 DEF Gate!Next, Gate!Tick

\* No more handlers were started within a window than calls were counted.
LEMMA GateHolds == GateInv => Gate!HandlerRateBounded
<1> SUFFICES ASSUME GateInv, NEW a \in Agent
             PROVE  Cardinality({s \in started[a] : clock - s.at < WINDOW}) <= MAX_CALLS
  BY GateCardinality DEF Gate!HandlerRateBounded
<1> DEFINE recent == {s \in started[a] : clock - s.at < WINDOW}
<1>1. recent \subseteq Gate!Recent(a)
  BY DEF GateInv, RateInv, Gate!Recent
<1>2. IsFiniteSet(Gate!Recent(a)) /\ Cardinality(Gate!Recent(a)) <= MAX_CALLS
  <2>1. IsFiniteSet(rateLimitMap[a]) /\ Gate!Recent(a) \in SUBSET rateLimitMap[a]
        /\ Cardinality(Gate!Recent(a)) <= MAX_CALLS
    BY DEF GateInv, RateInv, Gate!Recent
  <2> QED
    BY <2>1, FS_Subset
<1> HIDE DEF recent
<1>3. /\ Cardinality(recent) <= Cardinality(Gate!Recent(a))
      /\ Cardinality(recent) \in Nat /\ Cardinality(Gate!Recent(a)) \in Nat
  BY <1>1, <1>2, FS_Subset, FS_CardinalityType
<1>4. Cardinality(recent) <= MAX_CALLS
  BY <1>2, <1>3, GateAssumption
<1> QED
  BY <1>4 DEF recent

-----------------------------------------------------------------------------
(* The record of a mission.                                                *)

MissionRecord ==
  [kind : {"linear", "loop"}, opp : MOpp, pc : Waiting \cup Ended, state : AgentState,
   iter : Nat, tools : Nat, by : Pool \cup {"route"}]

\* Where the state machine is while the mission waits for something, and when it has
\* ended: the loop leaves the validation of its plan out, so it is refused the rest.
StateFits(r) ==
  /\ r.pc = "perceiving" => r.state = IF r.kind = "linear" THEN "INVESTIGATE" ELSE "OBSERVE"
  /\ r.pc \in {"thinking", "tool"} => r.state = "DIAGNOSE"
  /\ r.pc \in {"executing", "drafting"} =>
       r.state = IF r.kind = "linear" THEN "EXECUTE" ELSE "PLAN"
  /\ r.pc = "done" => r.state \in {"WAIT_AUTHORITY", "PLAN", "COMPLETE"}
  /\ r.pc = "aborted" => r.state = "ABORTED"
  /\ r.pc = "thrown" => r.state \notin {"ABORTED", "COMPLETE"}

\* A cycle counts at most two tool calls, and the last one none.
Within(r) == r.iter <= maxIterations /\ r.tools <= 2 * r.iter
BudgetFits(r) ==
  IF r.pc = "tool" THEN r.iter < maxIterations /\ r.tools <= 2 * r.iter + 2 ELSE Within(r)

\* The same mission, further on.
Same(r, s) == s \in MissionRecord /\ s.kind = r.kind /\ s.opp = r.opp
Counts(r, s) == s.iter = r.iter /\ s.tools = r.tools

LEMMA ToFacts ==
  ASSUME NEW r \in MissionRecord, NEW state \in AgentState
  PROVE  /\ Same(r, To(r, state)) /\ Counts(r, To(r, state))
         /\ To(r, state).state = transition(r.state, state) /\ To(r, state).pc = r.pc
<1> DEFINE n == transition(r.state, state)
<1>1. n \in AgentState
  BY DEF transition, MissionRecord
<1>2. To(r, state) = [r EXCEPT !.state = n]
  BY DEF To
<1> HIDE DEF n
<1>3. r.state \in AgentState
  BY DEF MissionRecord
<1>4. [r EXCEPT !.state = n] \in MissionRecord
  BY <1>1 DEF MissionRecord
<1>5. /\ [r EXCEPT !.state = n].kind = r.kind /\ [r EXCEPT !.state = n].opp = r.opp
      /\ [r EXCEPT !.state = n].iter = r.iter /\ [r EXCEPT !.state = n].tools = r.tools
      /\ [r EXCEPT !.state = n].pc = r.pc /\ [r EXCEPT !.state = n].state = n
  BY DEF MissionRecord
<1> QED
  BY <1>2, <1>4, <1>5 DEF Same, Counts, n

LEMMA PcFacts ==
  ASSUME NEW r \in MissionRecord, NEW p \in Waiting \cup Ended
  PROVE  /\ Same(r, [r EXCEPT !.pc = p]) /\ Counts(r, [r EXCEPT !.pc = p])
         /\ [r EXCEPT !.pc = p].state = r.state /\ [r EXCEPT !.pc = p].pc = p
BY DEF Same, Counts, MissionRecord

\* The rows of the table that the missions come to.
LEMMA Transitions ==
  /\ transition("IDLE", "TRIGGERED") = "TRIGGERED"
  /\ transition("TRIGGERED", "OBSERVE") = "OBSERVE"
  /\ transition("TRIGGERED", "ABORTED") = "ABORTED"
  /\ transition("OBSERVE", "INVESTIGATE") = "INVESTIGATE"
  /\ transition("INVESTIGATE", "DIAGNOSE") = "DIAGNOSE"
  /\ transition("DIAGNOSE", "DIAGNOSE") = "DIAGNOSE"
  /\ transition("DIAGNOSE", "OBSERVE") = "DIAGNOSE"
  /\ transition("INVESTIGATE", "ABORTED") = "ABORTED"
  /\ transition("DIAGNOSE", "ABORTED") = "ABORTED"
  /\ transition("DIAGNOSE", "HYPOTHESIZE") = "HYPOTHESIZE"
  /\ transition("HYPOTHESIZE", "PLAN") = "PLAN"
  /\ transition("PLAN", "WAIT_AUTHORITY") = "PLAN"
  /\ transition("PLAN", "VALIDATE_PLAN") = "VALIDATE_PLAN"
  /\ transition("VALIDATE_PLAN", "PROPOSE") = "PROPOSE"
  /\ transition("PROPOSE", "WAIT_AUTHORITY") = "WAIT_AUTHORITY"
  /\ transition("WAIT_AUTHORITY", "EXECUTE") = "EXECUTE"
  /\ transition("PLAN", "EXECUTE") = "PLAN"
BY DEF transition, VALID_STATE_TRANSITIONS, AgentState

\* Learning is refused to a mission that did not execute.
LEMMA LearningTransitions ==
  /\ \A s \in {"PLAN", "WAIT_AUTHORITY"}, t \in {"OBSERVE_OUTCOME", "LEARN", "MEMORY_UPDATE",
                                                 "COMPLETE"} : transition(s, t) = s
  /\ transition("EXECUTE", "OBSERVE_OUTCOME") = "OBSERVE_OUTCOME"
  /\ transition("OBSERVE_OUTCOME", "LEARN") = "LEARN"
  /\ transition("LEARN", "MEMORY_UPDATE") = "MEMORY_UPDATE"
  /\ transition("MEMORY_UPDATE", "COMPLETE") = "COMPLETE"
BY DEF transition, VALID_STATE_TRANSITIONS, AgentState

LEMMA AbortFacts ==
  ASSUME NEW r \in MissionRecord, r.state \in {"TRIGGERED", "INVESTIGATE", "DIAGNOSE"}
  PROVE  /\ Same(r, abort(r)) /\ Counts(r, abort(r))
         /\ abort(r).pc = "aborted" /\ abort(r).state = "ABORTED"
<1>1. /\ Same(r, To(r, "ABORTED")) /\ Counts(r, To(r, "ABORTED"))
      /\ To(r, "ABORTED").state = "ABORTED"
  BY ToFacts, Transitions DEF AgentState
<1>2. To(r, "ABORTED") \in MissionRecord /\ "aborted" \in Waiting \cup Ended
  BY <1>1 DEF Same, Ended
<1> QED
  BY <1>1, <1>2, PcFacts DEF abort, Same, Counts

\* The top of a cycle: the mission is aborted, or it asks for a diagnosis.
LEMMA CycleFacts ==
  ASSUME NEW r \in MissionRecord, r.state \in {"INVESTIGATE", "DIAGNOSE"}, NEW c \in cycle(r)
  PROVE  /\ Same(r, c) /\ Counts(r, c) /\ StateFits(c) /\ c.pc \in {"thinking", "aborted"}
         /\ c.state \notin {"COMPLETE"}
<1>1. c = abort(r) \/ c = [To(r, "DIAGNOSE") EXCEPT !.pc = "thinking"]
  BY DEF cycle, budgetExceeded, exceeded
<1>2. CASE c = abort(r)
  BY <1>2, AbortFacts DEF StateFits
<1>3. CASE c = [To(r, "DIAGNOSE") EXCEPT !.pc = "thinking"]
  <2>1. /\ Same(r, To(r, "DIAGNOSE")) /\ Counts(r, To(r, "DIAGNOSE"))
        /\ To(r, "DIAGNOSE").state = "DIAGNOSE"
    BY ToFacts, Transitions DEF AgentState
  <2>2. To(r, "DIAGNOSE") \in MissionRecord /\ "thinking" \in Waiting \cup Ended
    BY <2>1 DEF Same, Waiting
  <2> QED
    BY <1>3, <2>1, <2>2, PcFacts DEF Same, Counts, StateFits
<1> QED
  BY <1>1, <1>2, <1>3

\* The end of a mission: only one that executed is COMPLETE.
LEMMA FinishFacts ==
  ASSUME NEW r \in MissionRecord, r.state \in {"EXECUTE", "PLAN", "WAIT_AUTHORITY"}
  PROVE  /\ Same(r, finish(r)) /\ Counts(r, finish(r)) /\ finish(r).pc = "done"
         /\ finish(r).state = IF r.state = "EXECUTE" THEN "COMPLETE" ELSE r.state
<1> DEFINE a == To(r, "OBSERVE_OUTCOME")
           b == To(a, "LEARN")
           c == To(b, "MEMORY_UPDATE")
           d == To(c, "COMPLETE")
<1>0. {"OBSERVE_OUTCOME", "LEARN", "MEMORY_UPDATE", "COMPLETE"} \subseteq AgentState
  BY DEF AgentState
<1>1. finish(r) = [d EXCEPT !.pc = "done"]
  BY DEF finish
<1>2. Same(r, a) /\ Counts(r, a) /\ a.state = transition(r.state, "OBSERVE_OUTCOME")
  BY <1>0, ToFacts
<1> HIDE DEF a
<1>3. Same(r, b) /\ Counts(r, b) /\ b.state = transition(a.state, "LEARN")
  BY <1>0, <1>2, ToFacts DEF Same, Counts
<1> HIDE DEF b
<1>4. Same(r, c) /\ Counts(r, c) /\ c.state = transition(b.state, "MEMORY_UPDATE")
  BY <1>0, <1>3, ToFacts DEF Same, Counts
<1> HIDE DEF c
<1>5. Same(r, d) /\ Counts(r, d) /\ d.state = transition(c.state, "COMPLETE")
  BY <1>0, <1>4, ToFacts DEF Same, Counts
<1> HIDE DEF d
<1>6. d.state = IF r.state = "EXECUTE" THEN "COMPLETE" ELSE r.state
  BY <1>2, <1>3, <1>4, <1>5, LearningTransitions
<1>7. d \in MissionRecord /\ "done" \in Waiting \cup Ended
  BY <1>5 DEF Same, Ended
<1> QED
  BY <1>1, <1>5, <1>6, <1>7, PcFacts DEF Same, Counts

\* The states a diagnosis leads to.
LEMMA ProposeFacts ==
  ASSUME NEW r \in MissionRecord, r.state = "DIAGNOSE"
  PROVE  /\ Same(r, propose(r)) /\ Counts(r, propose(r)) /\ propose(r).pc = r.pc
         /\ propose(r).state = IF r.kind = "linear" THEN "WAIT_AUTHORITY" ELSE "PLAN"
<1> DEFINE a == To(r, "HYPOTHESIZE")
           b == To(a, "PLAN")
           c == To(b, "VALIDATE_PLAN")
           d == To(c, "PROPOSE")
<1>0. {"HYPOTHESIZE", "PLAN", "VALIDATE_PLAN", "PROPOSE", "WAIT_AUTHORITY"} \subseteq AgentState
  BY DEF AgentState
<1>1. propose(r) = IF r.kind = "loop" THEN To(b, "WAIT_AUTHORITY") ELSE To(d, "WAIT_AUTHORITY")
  BY DEF propose
<1>2. Same(r, a) /\ Counts(r, a) /\ a.state = transition(r.state, "HYPOTHESIZE") /\ a.pc = r.pc
  BY <1>0, ToFacts
<1> HIDE DEF a
<1>3. Same(r, b) /\ Counts(r, b) /\ b.state = transition(a.state, "PLAN") /\ b.pc = r.pc
  BY <1>0, <1>2, ToFacts DEF Same, Counts
<1> HIDE DEF b
<1>4. Same(r, c) /\ Counts(r, c) /\ c.state = transition(b.state, "VALIDATE_PLAN") /\ c.pc = r.pc
  BY <1>0, <1>3, ToFacts DEF Same, Counts
<1> HIDE DEF c
<1>5. Same(r, d) /\ Counts(r, d) /\ d.state = transition(c.state, "PROPOSE") /\ d.pc = r.pc
  BY <1>0, <1>4, ToFacts DEF Same, Counts
<1> HIDE DEF d
<1>9. b.state = "PLAN" /\ d.state = "PROPOSE"
  BY <1>2, <1>3, <1>4, <1>5, Transitions
<1>6. r.kind \in {"linear", "loop"}
  BY DEF MissionRecord
<1>7. CASE r.kind = "loop"
  <2> DEFINE e == To(b, "WAIT_AUTHORITY")
  <2>0. b \in MissionRecord /\ "WAIT_AUTHORITY" \in AgentState
    BY <1>0, <1>3 DEF Same
  <2>4. Same(b, e) /\ Counts(b, e) /\ e.pc = b.pc
        /\ e.state = transition(b.state, "WAIT_AUTHORITY")
    BY <2>0, ToFacts
  <2>1. e.state = transition("PLAN", "WAIT_AUTHORITY")
    BY <1>9, <2>4
  <2>2. propose(r) = e
    BY <1>1, <1>7
  <2>3. e.state = "PLAN"
    BY <2>1, Transitions
  <2> HIDE DEF e
  <2> QED
    BY <1>3, <1>7, <2>2, <2>3, <2>4 DEF Same, Counts
<1>8. CASE r.kind = "linear"
  <2> DEFINE e == To(d, "WAIT_AUTHORITY")
  <2>0. d \in MissionRecord /\ "WAIT_AUTHORITY" \in AgentState
    BY <1>0, <1>5 DEF Same
  <2>4. Same(d, e) /\ Counts(d, e) /\ e.pc = d.pc
        /\ e.state = transition(d.state, "WAIT_AUTHORITY")
    BY <2>0, ToFacts
  <2>1. e.state = transition("PROPOSE", "WAIT_AUTHORITY")
    BY <1>9, <2>4
  <2>2. propose(r) = e
    BY <1>1, <1>8
  <2>3. e.state = "WAIT_AUTHORITY"
    BY <2>1, Transitions
  <2> HIDE DEF e
  <2> QED
    BY <1>5, <1>8, <2>2, <2>3, <2>4 DEF Same, Counts
<1> QED
  BY <1>6, <1>7, <1>8

\* A mission begins, up to its first await or to the kill switch.
LEMMA NewFacts ==
  ASSUME NEW kind \in {"linear", "loop"}, NEW o \in MOpp, NEW by \in Pool \cup {"route"}
  PROVE  /\ New(kind, o, by) \in MissionRecord /\ New(kind, o, by).state = "IDLE"
         /\ New(kind, o, by).iter = 0 /\ New(kind, o, by).tools = 0
         /\ New(kind, o, by).pc = "perceiving" /\ New(kind, o, by).opp = o
         /\ New(kind, o, by).kind = kind
BY DEF New, MissionRecord, Waiting, AgentState

Fresh(r, o) ==
  /\ r \in MissionRecord /\ r.opp = o /\ r.iter = 0 /\ r.tools = 0
  /\ StateFits(r) /\ r.pc \in {"perceiving", "aborted"} /\ r.state # "COMPLETE"

LEMMA BeginFacts ==
  ASSUME NEW o \in MOpp, NEW by \in Pool \cup {"route"}
  PROVE  Fresh(executeRecoveryMission(o, by), o) /\ Fresh(executeAutonomousMission(o), o)
<1>0. {"TRIGGERED", "OBSERVE", "INVESTIGATE"} \subseteq AgentState
  BY DEF AgentState
<1>1. ASSUME NEW kind \in {"linear", "loop"}, NEW who \in Pool \cup {"route"}
      PROVE  LET r == To(New(kind, o, who), "TRIGGERED") IN
             /\ r \in MissionRecord /\ r.opp = o /\ r.kind = kind /\ r.iter = 0 /\ r.tools = 0
             /\ r.state = "TRIGGERED" /\ r.pc = "perceiving"
  BY <1>0, NewFacts, ToFacts, Transitions DEF Same, Counts
<1>2. Fresh(executeRecoveryMission(o, by), o)
  <2> DEFINE r == To(New("linear", o, by), "TRIGGERED")
             a == To(r, "OBSERVE")
  <2>1. /\ r \in MissionRecord /\ r.opp = o /\ r.kind = "linear" /\ r.iter = 0 /\ r.tools = 0
        /\ r.state = "TRIGGERED" /\ r.pc = "perceiving"
    BY <1>1
  <2>2. executeRecoveryMission(o, by) = IF kill THEN abort(r) ELSE To(a, "INVESTIGATE")
    BY DEF executeRecoveryMission
  <2> HIDE DEF r
  <2>3. Same(r, a) /\ Counts(r, a) /\ a.state = "OBSERVE" /\ a.pc = "perceiving"
    BY <1>0, <2>1, ToFacts, Transitions
  <2> HIDE DEF a
  <2>4. CASE kill
    BY <2>1, <2>2, <2>4, AbortFacts DEF Fresh, Same, Counts, StateFits
  <2>5. CASE ~kill
    BY <1>0, <2>1, <2>2, <2>3, <2>5, ToFacts, Transitions DEF Fresh, Same, Counts, StateFits
  <2> QED
    BY <2>4, <2>5
<1>3. Fresh(executeAutonomousMission(o), o)
  <2> DEFINE r == To(New("loop", o, "route"), "TRIGGERED")
  <2>1. /\ r \in MissionRecord /\ r.opp = o /\ r.kind = "loop" /\ r.iter = 0 /\ r.tools = 0
        /\ r.state = "TRIGGERED" /\ r.pc = "perceiving"
    BY <1>1
  <2>2. executeAutonomousMission(o) = IF kill THEN abort(r) ELSE To(r, "OBSERVE")
    BY DEF executeAutonomousMission
  <2> HIDE DEF r
  <2>3. CASE kill
    BY <2>1, <2>2, <2>3, AbortFacts DEF Fresh, Same, Counts, StateFits
  <2>4. CASE ~kill
    BY <1>0, <2>1, <2>2, <2>4, ToFacts, Transitions DEF Fresh, Same, Counts, StateFits
  <2> QED
    BY <2>3, <2>4
<1> QED
  BY <1>2, <1>3

-----------------------------------------------------------------------------
(* The missions: each record fits, and so does its row.                    *)

RunRow == {"running", "completed", "aborted"}
Over == {"done", "aborted"}

Recorded(r, row, won) ==
  /\ r \in MissionRecord /\ StateFits(r) /\ BudgetFits(r)
  /\ r.state = "COMPLETE" => r.opp \in won
  /\ row \in RunRow
  /\ r.pc \in Over => row = RunOf(r)
  /\ r.pc \notin Over => row # "completed"

RecordsInv ==
  /\ mission \in Seq(MissionRecord) /\ run \in Seq(RunRow) /\ Len(run) = Len(mission)
  /\ Len(mission) <= MaxMissions
  /\ \A m \in 1..Len(mission) : Recorded(mission[m], run[m], claimed)

WorldInv ==
  /\ kill \in BOOLEAN /\ switches \in 0..MaxSwitches
  /\ oppStatus \in [MOpp -> Status]
  /\ linked \subseteq MOpp /\ paid \subseteq linked /\ claimed \subseteq MOpp

\* The coordinator sees of a mission what it is about, and how it went.
Onward == Len(mission') = Len(mission) /\ \A m \in Begun : mission'[m].opp = mission[m].opp
DispatchIsGated(m) ==
  mission[m].pc = "thinking" /\ mission'[m].pc \in {"executing", "drafting"} => ~kill

LEMMA BegunFacts ==
  ASSUME RecordsInv
  PROVE  /\ Len(mission) \in Nat /\ Begun = 1..Len(mission)
         /\ DOMAIN mission = 1..Len(mission) /\ DOMAIN run = 1..Len(mission)
         /\ \A m \in Begun : mission[m] \in MissionRecord /\ run[m] \in RunRow
BY LenProperties DEF RecordsInv, Begun, Recorded

\* A step of a mission that waited for something.
LEMMA MissionMoves ==
  ASSUME RecordsInv, NEW m \in Begun, NEW r \in MissionRecord, Becomes(m, r),
         StateFits(r), BudgetFits(r), r.opp = mission[m].opp, mission[m].pc \in Waiting,
         claimed \subseteq claimed', r.state = "COMPLETE" => r.opp \in claimed'
  PROVE  RecordsInv' /\ Onward /\ mission'[m] = r
         /\ \A k \in Begun \ {m} : mission'[k] = mission[k]
<1>1. /\ Len(mission) \in Nat /\ Begun = 1..Len(mission)
      /\ DOMAIN mission = 1..Len(mission) /\ DOMAIN run = 1..Len(mission)
      /\ \A k \in Begun : Recorded(mission[k], run[k], claimed)
      /\ mission \in Seq(MissionRecord) /\ run \in Seq(RunRow)
  BY BegunFacts DEF RecordsInv
<1> DEFINE row == IF r.pc \in Over THEN RunOf(r) ELSE run[m]
<1>2. mission' = [mission EXCEPT ![m] = r] /\ run' = [run EXCEPT ![m] = row]
  BY <1>1 DEF Becomes, Over
<1>3. Recorded(r, row, claimed') /\ row \in RunRow
  <2>1. Recorded(mission[m], run[m], claimed) /\ mission[m].pc \notin Over
    BY <1>1 DEF Waiting, Over
  <2>2. r.pc \in Over => RunOf(r) \in RunRow
    BY DEF Over, RunOf, RunRow
  <2> QED
    BY <2>1, <2>2 DEF Recorded
<1> HIDE DEF row
<1>4. /\ mission' \in Seq(MissionRecord) /\ Len(mission') = Len(mission)
      /\ run' \in Seq(RunRow) /\ Len(run') = Len(mission)
  BY <1>1, <1>2, <1>3, ExceptSeq DEF RecordsInv
<1>5. /\ mission'[m] = r /\ run'[m] = row
      /\ \A k \in Begun \ {m} : mission'[k] = mission[k] /\ run'[k] = run[k]
  BY <1>1, <1>2
<1>6. \A k \in Begun : Recorded(mission'[k], run'[k], claimed')
  BY <1>1, <1>3, <1>5 DEF Recorded
<1> QED
  BY <1>1, <1>4, <1>5, <1>6 DEF RecordsInv, Onward

\* Records of missions do not look at anything but themselves and the claims.
LEMMA RecordsStay ==
  ASSUME RecordsInv, UNCHANGED <<mission, run, claimed>>
  PROVE  RecordsInv' /\ Onward
BY DEF RecordsInv, Onward

\* One mission more.
LEMMA MissionBegins ==
  ASSUME RecordsInv, NEW o \in MOpp, NEW r, Fresh(r, o), Begin(r), claimed' = claimed
  PROVE  /\ RecordsInv' /\ Len(mission') = Len(mission) + 1
         /\ mission'[Len(mission) + 1].opp = o
         /\ \A m \in Begun : mission'[m] = mission[m]
<1>1. /\ Len(mission) \in Nat /\ Begun = 1..Len(mission) /\ Len(run) = Len(mission)
      /\ \A k \in Begun : Recorded(mission[k], run[k], claimed)
      /\ mission \in Seq(MissionRecord) /\ run \in Seq(RunRow)
  BY BegunFacts DEF RecordsInv
<1>2. /\ mission' = Append(mission, r) /\ run' = Append(run, RunOf(r))
      /\ Len(mission) < MaxMissions
  BY DEF Begin
<1>3. r \in MissionRecord /\ RunOf(r) \in RunRow /\ r.opp = o
  BY DEF Fresh, RunOf, RunRow
<1>4. Recorded(r, RunOf(r), claimed)
  <2>1. BudgetFits(r)
    BY MissionAssumption DEF Fresh, BudgetFits, Within
  <2>2. r.pc \notin Over => RunOf(r) # "completed"
    BY DEF Fresh, Over, RunOf
  <2> QED
    BY <1>3, <2>1, <2>2 DEF Recorded, Fresh
<1>5. /\ mission' \in Seq(MissionRecord) /\ Len(mission') = Len(mission) + 1
      /\ mission'[Len(mission) + 1] = r
      /\ \A k \in 1..Len(mission) : mission'[k] = mission[k]
  BY <1>1, <1>2, <1>3, AppendProperties
<1>6. /\ run' \in Seq(RunRow) /\ Len(run') = Len(mission) + 1
      /\ run'[Len(mission) + 1] = RunOf(r)
      /\ \A k \in 1..Len(mission) : run'[k] = run[k]
  BY <1>1, <1>2, <1>3, AppendProperties
<1>7. \A k \in 1..(Len(mission) + 1) : Recorded(mission'[k], run'[k], claimed')
  <2>1. \A k \in 1..(Len(mission) + 1) : k \in 1..Len(mission) \/ k = Len(mission) + 1
    BY <1>1
  <2> QED
    BY <1>1, <1>4, <1>5, <1>6, <2>1
<1>8. Len(mission) + 1 <= MaxMissions
  BY <1>1, <1>2, MissionAssumption
<1> QED
  BY <1>1, <1>3, <1>5, <1>6, <1>7, <1>8 DEF RecordsInv

\* A status that is written through updateStatus is one of those there are, and so is
\* what a market run leaves.
LEMMA StatusFacts ==
  /\ \A from, to \in Status : updateStatus(from, to) \in Status
  /\ \A v \in Verdict : suggestedStatus[v] \in Status
  /\ {"executing", "recovered", "blocked", "abstained", "allocated", "deferred"} \subseteq Status
  /\ "pending" \in Status
BY DEF updateStatus, suggestedStatus, Status, Verdict

LEMMA MarketTypes ==
  ASSUME oppStatus \in [MOpp -> Status], NEW s \in Market
  PROVE  s \in [MOpp -> Status]
<1>1. PICK d \in [MOpp -> {"allocated", "deferred", "abstained"}] :
        s = [o \in MOpp |-> IF oppStatus[o] \in Candidates
                            THEN updateStatus(oppStatus[o], d[o]) ELSE oppStatus[o]]
  BY DEF Market
<1>2. \A o \in MOpp : d[o] \in Status
  BY StatusFacts
<1> QED
  BY <1>1, <1>2, StatusFacts

\* What a step of a mission has to show.
StepIsSound(m) ==
  /\ RecordsInv' /\ WorldInv' /\ Onward /\ UNCHANGED batch
  /\ \A k \in Begun : DispatchIsGated(k)

\* It is enough to look at the mission that moves.
LEMMA StepIsSoundIf ==
  ASSUME RecordsInv, WorldInv', NEW m \in Begun, NEW r \in MissionRecord, Becomes(m, r),
         StateFits(r), BudgetFits(r), r.opp = mission[m].opp, mission[m].pc \in Waiting,
         claimed \subseteq claimed', r.state = "COMPLETE" => r.opp \in claimed',
         UNCHANGED batch,
         mission[m].pc = "thinking" /\ r.pc \in {"executing", "drafting"} => ~kill
  PROVE  StepIsSound(m)
<1>1. /\ RecordsInv' /\ Onward /\ mission'[m] = r
      /\ \A k \in Begun \ {m} : mission'[k] = mission[k]
  BY MissionMoves
<1>2. \A k \in Begun : DispatchIsGated(k)
  BY <1>1 DEF DispatchIsGated
<1> QED
  BY <1>1, <1>2 DEF StepIsSound

\* What is known of a mission that takes a step.
LEMMA MissionFacts ==
  ASSUME RecordsInv, NEW m \in Begun
  PROVE  /\ mission[m] \in MissionRecord /\ StateFits(mission[m]) /\ BudgetFits(mission[m])
         /\ mission[m].kind \in {"linear", "loop"} /\ mission[m].opp \in MOpp
         /\ mission[m].pc # "tool" => Within(mission[m])
BY BegunFacts DEF RecordsInv, Recorded, BudgetFits, MissionRecord

LEMMA PerceivedSound ==
  ASSUME RecordsInv, WorldInv, NEW m \in Begun, perceived(m)
  PROVE  StepIsSound(m)
<1> DEFINE r == mission[m]
<1>1. /\ r \in MissionRecord /\ StateFits(r) /\ Within(r) /\ r.pc = "perceiving"
      /\ r.kind \in {"linear", "loop"}
      /\ UNCHANGED <<kill, switches, world, batch>>
  BY MissionFacts DEF perceived
<1>2. WorldInv' /\ UNCHANGED batch /\ claimed' = claimed
  BY <1>1 DEF WorldInv, world
<1>3. CASE r.kind = "linear" /\ Becomes(m, [To(r, "DIAGNOSE") EXCEPT !.pc = "thinking"])
  <2> DEFINE t == To(r, "DIAGNOSE")
             n == [t EXCEPT !.pc = "thinking"]
  <2>1. Same(r, t) /\ Counts(r, t) /\ t.state = transition(r.state, "DIAGNOSE")
    BY <1>1, ToFacts DEF AgentState
  <2>2. t.state = "DIAGNOSE"
    BY <1>1, <1>3, <2>1, Transitions DEF StateFits
  <2>3. t \in MissionRecord /\ "thinking" \in Waiting \cup Ended
    BY <2>1 DEF Same, Waiting
  <2> HIDE DEF t
  <2>4. Same(t, n) /\ Counts(t, n) /\ n.state = t.state /\ n.pc = "thinking"
    BY <2>3, PcFacts
  <2>5. Becomes(m, n)
    BY <1>3 DEF t
  <2> HIDE DEF n, r
  <2>6. /\ n \in MissionRecord /\ StateFits(n) /\ BudgetFits(n) /\ n.opp = r.opp
        /\ n.state # "COMPLETE"
    BY <1>1, <2>1, <2>2, <2>4 DEF Same, Counts, StateFits, BudgetFits, Within
  <2> QED
    BY <1>1, <1>2, <2>4, <2>5, <2>6, StepIsSoundIf DEF r, Waiting
<1>4. CASE r.kind = "linear" /\ Becomes(m, thrown(r))
  <2> DEFINE n == [r EXCEPT !.pc = "thrown"]
  <2>1. Same(r, n) /\ Counts(r, n) /\ n.state = r.state /\ n.pc = "thrown"
    BY <1>1, PcFacts DEF Ended
  <2>2. Becomes(m, n)
    BY <1>4 DEF thrown
  <2> HIDE DEF n, r
  <2>3. /\ n \in MissionRecord /\ StateFits(n) /\ BudgetFits(n) /\ n.opp = r.opp
        /\ n.state # "COMPLETE"
    BY <1>1, <1>4, <2>1 DEF Same, Counts, StateFits, BudgetFits, Within
  <2> QED
    BY <1>1, <1>2, <2>1, <2>2, <2>3, StepIsSoundIf DEF r, Waiting
<1>5. CASE r.kind = "loop" /\ \E c \in cycle(To(r, "INVESTIGATE")) : Becomes(m, c)
  <2> DEFINE t == To(r, "INVESTIGATE")
  <2>1. Same(r, t) /\ Counts(r, t) /\ t.state = transition(r.state, "INVESTIGATE")
    BY <1>1, ToFacts DEF AgentState
  <2>2. t.state = "INVESTIGATE" /\ t \in MissionRecord
    BY <1>1, <1>5, <2>1, Transitions DEF StateFits, Same
  <2>3. PICK n \in cycle(t) : Becomes(m, n)
    BY <1>5
  <2> HIDE DEF t, r
  <2>4. /\ Same(t, n) /\ Counts(t, n) /\ StateFits(n) /\ n.pc \in {"thinking", "aborted"}
        /\ n.state # "COMPLETE"
    BY <2>2, CycleFacts
  <2>5. n \in MissionRecord /\ BudgetFits(n) /\ n.opp = r.opp
    BY <1>1, <2>1, <2>4 DEF Same, Counts, BudgetFits, Within
  <2> QED
    BY <1>1, <1>2, <2>3, <2>4, <2>5, StepIsSoundIf DEF r, Waiting
<1> QED
  BY <1>3, <1>4, <1>5 DEF perceived

\* A cycle begins after a tool call, made or refused.
LEMMA CyclesOn ==
  ASSUME RecordsInv, WorldInv, NEW m \in Begun, mission[m].pc \in {"thinking", "tool"},
         UNCHANGED <<kill, switches, world, batch>>, NEW t \in MissionRecord,
         t.opp = mission[m].opp, t.state = "DIAGNOSE", Within(t),
         \E c \in cycle(t) : Becomes(m, c)
  PROVE  StepIsSound(m)
<1>1. WorldInv' /\ UNCHANGED batch /\ claimed' = claimed
  BY DEF WorldInv, world
<1>2. PICK n \in cycle(t) : Becomes(m, n)
  OBVIOUS
<1>3. /\ Same(t, n) /\ Counts(t, n) /\ StateFits(n) /\ n.pc \in {"thinking", "aborted"}
      /\ n.state # "COMPLETE"
  BY CycleFacts
<1>4. n \in MissionRecord /\ BudgetFits(n) /\ n.opp = mission[m].opp
  BY <1>3 DEF Same, Counts, BudgetFits, Within
<1> QED
  BY <1>1, <1>2, <1>3, <1>4, StepIsSoundIf DEF Waiting

LEMMA ToolStepsSound ==
  ASSUME RecordsInv, WorldInv, NEW m \in Begun, executeInvestigationTool(m) \/ toolReturned(m)
  PROVE  StepIsSound(m)
<1>0. /\ mission[m] \in MissionRecord /\ StateFits(mission[m]) /\ BudgetFits(mission[m])
      /\ maxIterations \in Nat
  BY MissionFacts, MissionAssumption
<1>1. CASE toolReturned(m)
  <2> DEFINE t == [mission[m] EXCEPT !.iter = @ + 1]
  <2>1. /\ t \in MissionRecord /\ t.opp = mission[m].opp /\ t.state = mission[m].state
        /\ t.iter = mission[m].iter + 1 /\ t.tools = mission[m].tools
        /\ mission[m].iter \in Nat /\ mission[m].tools \in Nat
    BY <1>0 DEF MissionRecord
  <2>2. mission[m].pc = "tool" /\ UNCHANGED <<kill, switches, world, batch>>
        /\ \E c \in cycle(t) : Becomes(m, c)
    BY <1>1 DEF toolReturned
  <2> HIDE DEF t
  <2>3. t.state = "DIAGNOSE"
    BY <1>0, <2>1, <2>2 DEF StateFits
  <2>5. Within(t)
    <3>1. mission[m].iter < maxIterations /\ mission[m].tools <= 2 * mission[m].iter + 2
      BY <1>0, <2>2 DEF BudgetFits
    <3> QED
      BY <1>0, <2>1, <3>1 DEF Within
  <2> QED
    BY <2>1, <2>2, <2>3, <2>5, CyclesOn
<1>2. CASE executeInvestigationTool(m)
  <2> DEFINE o == To(mission[m], "OBSERVE")
             r == [o EXCEPT !.tools = @ + 1]
  <2>1. /\ mission[m].pc = "thinking" /\ mission[m].iter < maxIterations - 1
        /\ UNCHANGED <<kill, switches, world, batch>>
        /\ \/ \E c \in cycle([r EXCEPT !.iter = @ + 1]) : Becomes(m, c)
           \/ Becomes(m, [r EXCEPT !.tools = @ + 1, !.pc = "tool"])
    BY <1>2 DEF executeInvestigationTool, mayInvestigate
  <2>2. Same(mission[m], o) /\ Counts(mission[m], o)
        /\ o.state = transition(mission[m].state, "OBSERVE")
    BY <1>0, ToFacts DEF AgentState
  <2>3. o.state = "DIAGNOSE" /\ o \in MissionRecord /\ o.opp = mission[m].opp
    BY <1>0, <2>1, <2>2, Transitions DEF StateFits, Same
  <2>4. /\ mission[m].iter \in Nat /\ mission[m].tools \in Nat
        /\ mission[m].iter < maxIterations /\ mission[m].tools <= 2 * mission[m].iter
        /\ o.iter = mission[m].iter /\ o.tools = mission[m].tools
    BY <1>0, <2>1, <2>2 DEF MissionRecord, Counts, BudgetFits, Within
  <2> HIDE DEF o
  <2>5. /\ r \in MissionRecord /\ r.opp = mission[m].opp /\ r.state = "DIAGNOSE"
        /\ r.iter = mission[m].iter /\ r.tools = mission[m].tools + 1
    BY <2>3, <2>4 DEF MissionRecord
  <2> HIDE DEF r
  <2>6. CASE \E c \in cycle([r EXCEPT !.iter = @ + 1]) : Becomes(m, c)
    <3> DEFINE t == [r EXCEPT !.iter = @ + 1]
    <3>1. /\ t \in MissionRecord /\ t.opp = mission[m].opp /\ t.state = "DIAGNOSE"
          /\ t.iter = mission[m].iter + 1 /\ t.tools = mission[m].tools + 1
      BY <2>4, <2>5 DEF MissionRecord
    <3>2. \E c \in cycle(t) : Becomes(m, c)
      BY <2>6
    <3> HIDE DEF t
    <3>3. Within(t)
      BY <1>0, <2>4, <3>1 DEF Within
    <3> QED
      BY <2>1, <3>1, <3>2, <3>3, CyclesOn
  <2>7. CASE Becomes(m, [r EXCEPT !.tools = @ + 1, !.pc = "tool"])
    <3> DEFINE n == [r EXCEPT !.tools = @ + 1, !.pc = "tool"]
    <3>1. /\ n \in MissionRecord /\ n.opp = mission[m].opp /\ n.state = "DIAGNOSE"
          /\ n.iter = mission[m].iter /\ n.tools = mission[m].tools + 2 /\ n.pc = "tool"
      <4> DEFINE t == r.tools + 1
      <4>1. "tool" \in Waiting \cup Ended
        BY DEF Waiting
      <4>2. t \in Nat /\ t = mission[m].tools + 2 /\ n = [r EXCEPT !.tools = t, !.pc = "tool"]
        BY <2>4, <2>5
      <4> HIDE DEF t, n
      <4> QED
        BY <2>5, <4>1, <4>2 DEF MissionRecord
    <3>2. Becomes(m, n)
      BY <2>7
    <3> HIDE DEF n
    <3>3. StateFits(n) /\ BudgetFits(n)
      BY <1>0, <2>4, <3>1 DEF StateFits, BudgetFits
    <3>4. WorldInv' /\ UNCHANGED batch /\ claimed' = claimed
      BY <2>1 DEF WorldInv, world
    <3> QED
      BY <2>1, <3>1, <3>2, <3>3, <3>4, StepIsSoundIf DEF Waiting
  <2> QED
    BY <2>1, <2>6, <2>7
<1> QED
  BY <1>1, <1>2

\* Score, market and authority: only an authorized opportunity is dispatched, and with
\* the kill switch on the authority authorizes none.
LEMMA DecideSound ==
  ASSUME RecordsInv, WorldInv, NEW m \in Begun, decide(m)
  PROVE  StepIsSound(m)
<1> DEFINE p == propose(mission[m])
           x == To(p, "EXECUTE")
           o == p.opp
<1>0. /\ mission[m] \in MissionRecord /\ StateFits(mission[m]) /\ BudgetFits(mission[m])
      /\ mission[m].kind \in {"linear", "loop"} /\ mission[m].opp \in MOpp
  BY MissionFacts
<1>1. /\ p.pc = "thinking" /\ UNCHANGED <<kill, switches, linked, paid, claimed, batch>>
  BY DEF decide
<1>2. mission[m].pc = "thinking" /\ mission[m].state = "DIAGNOSE"
  <2>1. \A r : propose(r).pc = r.pc \/ ~(r \in MissionRecord /\ r.state = "DIAGNOSE")
    BY ProposeFacts
  <2>2. propose(mission[m]).pc = mission[m].pc
    BY DEF propose, To
  <2> QED
    BY <1>0, <1>1, <2>2 DEF StateFits
<1>3. /\ Same(mission[m], p) /\ Counts(mission[m], p)
      /\ p.state = IF mission[m].kind = "linear" THEN "WAIT_AUTHORITY" ELSE "PLAN"
  BY <1>0, <1>2, ProposeFacts
<1>4. PICK s \in Market, v \in Verdict :
        /\ v \in Verdicts(allocation(o, s))
        /\ LET gated == updateStatus(s[o], suggestedStatus[v]) IN
           \/ /\ v = "AUTHORIZED" /\ oppStatus' = [s EXCEPT ![o] = updateStatus(gated, "executing")]
              /\ Becomes(m, [x EXCEPT !.pc = "drafting"])
           \/ /\ v = "AUTHORIZED" /\ oppStatus' = [s EXCEPT ![o] = gated]
              /\ Becomes(m, [x EXCEPT !.pc = "executing"])
           \/ /\ v # "AUTHORIZED" /\ oppStatus' = [s EXCEPT ![o] = refused(gated, v)]
              /\ Becomes(m, finish(p))
  BY DEF decide
<1> HIDE DEF p
<1>5. p \in MissionRecord /\ o = mission[m].opp /\ o \in MOpp
  BY <1>0, <1>3 DEF Same
<1>6. WorldInv'
  <2> DEFINE gated == updateStatus(s[o], suggestedStatus[v])
  <2>1. s \in [MOpp -> Status]
    BY MarketTypes DEF WorldInv
  <2>2. gated \in Status
    BY <1>5, <2>1, StatusFacts
  <2> HIDE DEF gated
  <2>3. updateStatus(gated, "executing") \in Status /\ refused(gated, v) \in Status
    BY <2>2, StatusFacts DEF refused
  <2>4. \E t \in Status : oppStatus' = [s EXCEPT ![o] = t]
    BY <1>4, <2>2, <2>3 DEF gated
  <2>5. oppStatus' \in [MOpp -> Status]
    BY <2>1, <2>4
  <2> QED
    BY <1>1, <2>5 DEF WorldInv
<1>7. UNCHANGED batch /\ claimed' = claimed
  BY <1>1
<1>8. mission[m].iter = p.iter /\ mission[m].tools = p.tools /\ Within(p)
  BY <1>0, <1>2, <1>3 DEF Counts, BudgetFits, Within
<1>9. CASE v = "AUTHORIZED"
  <2>1. ~kill
    BY <1>4, <1>9 DEF Verdicts
  <2>2. /\ Same(p, x) /\ Counts(p, x)
        /\ x.state = IF mission[m].kind = "linear" THEN "EXECUTE" ELSE "PLAN"
    <3>1. Same(p, x) /\ Counts(p, x) /\ x.state = transition(p.state, "EXECUTE")
      BY <1>5, ToFacts DEF AgentState
    <3> QED
      BY <1>3, <3>1, Transitions
  <2>3. PICK c \in {"drafting", "executing"} : Becomes(m, [x EXCEPT !.pc = c])
    BY <1>4, <1>9
  <2> DEFINE n == [x EXCEPT !.pc = c]
  <2> HIDE DEF x
  <2>4. Same(x, n) /\ Counts(x, n) /\ n.state = x.state /\ n.pc = c
    <3>1. x \in MissionRecord /\ c \in Waiting \cup Ended
      BY <2>2 DEF Same, Waiting
    <3> QED
      BY <3>1, PcFacts
  <2>5. Becomes(m, n)
    BY <2>3
  <2> HIDE DEF n
  <2>6. /\ n \in MissionRecord /\ StateFits(n) /\ BudgetFits(n) /\ n.opp = mission[m].opp
        /\ n.state # "COMPLETE"
    <3>1. n \in MissionRecord /\ n.opp = mission[m].opp /\ n.kind = mission[m].kind
      BY <1>3, <2>2, <2>4 DEF Same
    <3>2. StateFits(n)
      BY <2>2, <2>3, <2>4, <3>1 DEF StateFits
    <3>3. BudgetFits(n)
      BY <1>8, <2>2, <2>3, <2>4 DEF Counts, BudgetFits, Within
    <3> QED
      BY <2>2, <2>4, <3>1, <3>2, <3>3
  <2> QED
    BY <1>2, <1>6, <1>7, <2>1, <2>5, <2>6, StepIsSoundIf DEF Waiting
<1>10. CASE v # "AUTHORIZED"
  <2> DEFINE n == finish(p)
  <2>1. Becomes(m, n)
    BY <1>4, <1>10
  <2>2. Same(p, n) /\ Counts(p, n) /\ n.pc = "done" /\ n.state = p.state
    BY <1>3, <1>5, FinishFacts
  <2> HIDE DEF n
  <2>3. /\ n \in MissionRecord /\ StateFits(n) /\ BudgetFits(n) /\ n.opp = mission[m].opp
        /\ n.state # "COMPLETE"
    BY <1>3, <1>8, <2>2 DEF Same, Counts, StateFits, BudgetFits, Within
  <2> QED
    BY <1>2, <1>6, <1>7, <2>1, <2>2, <2>3, StepIsSoundIf DEF Waiting
<1> QED
  BY <1>9, <1>10

\* A mission that executed ends: it claims what it did, and only then is it COMPLETE.
LEMMA FinishedSound ==
  ASSUME RecordsInv, WorldInv, NEW m \in Begun, mission[m].pc \in {"executing", "drafting"},
         Becomes(m, finish(mission[m])), evaluateOutcome(mission[m].opp),
         UNCHANGED <<kill, switches, oppStatus, linked, paid, batch>>
  PROVE  StepIsSound(m)
<1> DEFINE r == mission[m]
           n == finish(r)
<1>0. /\ r \in MissionRecord /\ StateFits(r) /\ Within(r) /\ r.opp \in MOpp
      /\ r.kind \in {"linear", "loop"}
  BY MissionFacts
<1>1. r.state = IF r.kind = "linear" THEN "EXECUTE" ELSE "PLAN"
  BY <1>0 DEF StateFits
<1>2. Same(r, n) /\ Counts(r, n) /\ n.pc = "done" /\ n.state \in {"COMPLETE", "PLAN"}
  BY <1>0, <1>1, FinishFacts
<1>3. Becomes(m, n)
  OBVIOUS
<1> HIDE DEF n
<1>4. /\ claimed \subseteq claimed' /\ r.opp \in claimed' /\ WorldInv' /\ UNCHANGED batch
  BY <1>0 DEF evaluateOutcome, WorldInv
<1> HIDE DEF r
<1>5. n \in MissionRecord /\ StateFits(n) /\ BudgetFits(n) /\ n.opp = r.opp
  BY <1>0, <1>2 DEF Same, Counts, StateFits, BudgetFits, Within
<1> QED
  BY <1>2, <1>3, <1>4, <1>5, StepIsSoundIf DEF r, Waiting

\* A mission dies of an exception where it is.
LEMMA ThrownSound ==
  ASSUME RecordsInv, WorldInv, NEW m \in Begun, mission[m].pc \in {"executing", "drafting"},
         Becomes(m, thrown(mission[m])),
         UNCHANGED <<kill, switches, oppStatus, linked, paid, claimed, batch>>
  PROVE  StepIsSound(m)
<1> DEFINE r == mission[m]
           n == [r EXCEPT !.pc = "thrown"]
<1>0. /\ r \in MissionRecord /\ StateFits(r) /\ Within(r) /\ r.kind \in {"linear", "loop"}
  BY MissionFacts
<1>1. Same(r, n) /\ Counts(r, n) /\ n.state = r.state /\ n.pc = "thrown"
  BY <1>0, PcFacts DEF Ended
<1>2. Becomes(m, n)
  BY DEF thrown
<1>3. WorldInv' /\ UNCHANGED batch /\ claimed' = claimed
  BY DEF WorldInv
<1> HIDE DEF n
<1>4. r.pc \in {"executing", "drafting"}
  OBVIOUS
<1> HIDE DEF r
<1>5. /\ n \in MissionRecord /\ StateFits(n) /\ BudgetFits(n) /\ n.opp = r.opp
      /\ n.state # "COMPLETE"
  BY <1>0, <1>1, <1>4 DEF Same, Counts, StateFits, BudgetFits, Within
<1> QED
  BY <1>1, <1>2, <1>3, <1>5, StepIsSoundIf DEF r, Waiting

\* executeOpportunity settles: a link, a failure that is claimed as a recovery, an exception.
LEMMA ExecutedSound ==
  ASSUME RecordsInv, WorldInv, NEW m \in Begun, executed(m)
  PROVE  StepIsSound(m)
<1> DEFINE r == mission[m]
<1>0. /\ r \in MissionRecord /\ StateFits(r) /\ Within(r) /\ r.pc = "executing"
      /\ r.kind \in {"linear", "loop"} /\ r.opp \in MOpp
      /\ UNCHANGED <<kill, switches, paid, batch>>
  BY MissionFacts DEF executed
<1>1. CASE /\ linked' = linked \cup {r.opp}
           /\ oppStatus' = [oppStatus EXCEPT ![r.opp] = updateStatus(@, "executing")]
           /\ Becomes(m, [r EXCEPT !.pc = "drafting"]) /\ UNCHANGED claimed
  <2> DEFINE n == [r EXCEPT !.pc = "drafting"]
  <2>1. Same(r, n) /\ Counts(r, n) /\ n.state = r.state /\ n.pc = "drafting"
    BY <1>0, PcFacts DEF Waiting
  <2>2. Becomes(m, n)
    BY <1>1
  <2>3. WorldInv'
    <3>1. updateStatus(oppStatus[r.opp], "executing") \in Status
      BY <1>0, StatusFacts DEF WorldInv
    <3> QED
      BY <1>0, <1>1, <3>1 DEF WorldInv
  <2> HIDE DEF n, r
  <2>4. /\ n \in MissionRecord /\ StateFits(n) /\ BudgetFits(n) /\ n.opp = r.opp
        /\ n.state # "COMPLETE"
    BY <1>0, <2>1 DEF Same, Counts, StateFits, BudgetFits, Within
  <2> QED
    BY <1>0, <1>1, <2>1, <2>2, <2>3, <2>4, StepIsSoundIf DEF r, Waiting
<1>2. CASE Becomes(m, finish(r)) /\ evaluateOutcome(r.opp) /\ UNCHANGED <<linked, oppStatus>>
  BY <1>0, <1>2, FinishedSound
<1>3. CASE Becomes(m, thrown(r)) /\ UNCHANGED <<linked, oppStatus, claimed>>
  BY <1>0, <1>3, ThrownSound
<1> QED
  BY <1>1, <1>2, <1>3 DEF executed

\* The outreach draft is written, or fails.
LEMMA DraftedSound ==
  ASSUME RecordsInv, WorldInv, NEW m \in Begun, drafted(m)
  PROVE  StepIsSound(m)
<1>0. /\ mission[m].pc = "drafting"
      /\ UNCHANGED <<kill, switches, oppStatus, linked, paid, batch>>
      /\ \/ Becomes(m, finish(mission[m])) /\ evaluateOutcome(mission[m].opp)
         \/ Becomes(m, thrown(mission[m])) /\ UNCHANGED claimed
  BY DEF drafted
<1> QED
  BY <1>0, FinishedSound, ThrownSound

LEMMA MissionStepSound ==
  ASSUME RecordsInv, WorldInv, NEW m \in Begun, MissionStep(m)
  PROVE  StepIsSound(m)
BY PerceivedSound, ToolStepsSound, DecideSound, ExecutedSound, DraftedSound DEF MissionStep

-----------------------------------------------------------------------------
(* How often something is in a sequence.                                   *)

\* The places of a sequence that hold one of the elements asked for.
Places(s, D) == {i \in DOMAIN s : s[i] \in D}
Count(s, D) == Cardinality(Places(s, D))

\* A sequence has finitely many places.
LEMMA PlacesAreFinite ==
  ASSUME NEW S, NEW s \in Seq(S), NEW D
  PROVE  IsFiniteSet(Places(s, D)) /\ Count(s, D) \in Nat
<1>1. Len(s) \in Nat /\ DOMAIN s = 1..Len(s)
  BY LenProperties
<1>2. 1 \in Int /\ Len(s) \in Int
  BY <1>1
<1>3. IsFiniteSet(DOMAIN s) /\ Places(s, D) \in SUBSET (DOMAIN s)
  BY <1>1, <1>2, FS_Interval DEF Places
<1> QED
  BY <1>3, FS_Subset, FS_CardinalityType DEF Count

\* As many numbers, each moved on by n.
LEMMA ShiftedCount ==
  ASSUME NEW T, IsFiniteSet(T), T \subseteq Int, NEW n \in Int
  PROVE  LET U == {n + j : j \in T} IN IsFiniteSet(U) /\ Cardinality(U) = Cardinality(T)
<1> DEFINE U == {n + j : j \in T}
           f == [j \in T |-> n + j]
<1>1. f \in Bijection(T, U)
  BY DEF Bijection, Injection, Surjection, IsInjective
<1> QED
  BY <1>1, FS_Bijection DEF ExistsBijection

\* One sequence after another holds what both hold.
LEMMA ConcatCounts ==
  ASSUME NEW S, NEW s \in Seq(S), NEW t \in Seq(S), NEW D
  PROVE  Count(s \o t, D) = Count(s, D) + Count(t, D)
<1> DEFINE P == Places(s, D)
           U == {Len(s) + j : j \in Places(t, D)}
<1>1. /\ Len(s) \in Nat /\ DOMAIN s = 1..Len(s) /\ Len(t) \in Nat /\ DOMAIN t = 1..Len(t)
      /\ DOMAIN (s \o t) = 1..(Len(s) + Len(t))
      /\ \A i \in 1..(Len(s) + Len(t)) : (s \o t)[i] = IF i <= Len(s) THEN s[i] ELSE t[i - Len(s)]
  BY LenProperties, ConcatProperties
<1>2. Places(s \o t, D) = P \cup U
  <2>1. ASSUME NEW i \in Places(s \o t, D) PROVE i \in P \cup U
    <3>1. CASE i <= Len(s)
      BY <1>1, <3>1 DEF Places
    <3>2. CASE i > Len(s)
      <4>1. i - Len(s) \in Places(t, D) /\ i = Len(s) + (i - Len(s))
        BY <1>1, <3>2 DEF Places
      <4> QED
        BY <4>1
    <3> QED
      BY <1>1, <3>1, <3>2 DEF Places
  <2>2. P \subseteq Places(s \o t, D)
    BY <1>1 DEF Places
  <2>3. ASSUME NEW j \in Places(t, D) PROVE Len(s) + j \in Places(s \o t, D)
    BY <1>1 DEF Places
  <2> QED
    BY <2>1, <2>2, <2>3
<1>8. P \subseteq 1..Len(s) /\ Places(t, D) \subseteq 1..Len(t)
  BY <1>1 DEF Places
<1>3. P \cap U = {}
  <2>1. \A i \in 1..Len(s), j \in 1..Len(t) : i # Len(s) + j
    BY <1>1
  <2> QED
    BY <1>8, <2>1
<1>4. /\ IsFiniteSet(P) /\ IsFiniteSet(Places(t, D))
      /\ Count(s, D) \in Nat /\ Count(t, D) \in Nat
  BY PlacesAreFinite
<1>9. Places(t, D) \subseteq Int
  BY <1>1, <1>8
<1>5. IsFiniteSet(U) /\ Cardinality(U) = Count(t, D)
  <2>1. Len(s) \in Int
    BY <1>1
  <2> HIDE DEF U
  <2>2. U = {Len(s) + j : j \in Places(t, D)}
    BY DEF U
  <2>3. IsFiniteSet(U) /\ Cardinality(U) = Cardinality(Places(t, D))
    BY <1>4, <1>9, <2>1, <2>2, ShiftedCount
  <2> QED
    BY <2>3 DEF Count
<1> HIDE DEF U
<1>6. Cardinality(P \cup U) = Cardinality(P) + Cardinality(U) - Cardinality(P \cap U)
  BY <1>4, <1>5, FS_Union
<1>7. Cardinality(P \cap U) = 0
  BY <1>3, FS_EmptySet
<1> QED
  BY <1>2, <1>4, <1>5, <1>6, <1>7 DEF Count

One(e, D) == IF e \in D THEN 1 ELSE 0

\* A sequence of one.
LEMMA SingleCount ==
  ASSUME NEW e, NEW D PROVE Count(<<e>>, D) = One(e, D)
<1>1. DOMAIN <<e>> = {1} /\ <<e>>[1] = e
  OBVIOUS
<1>2. Places(<<e>>, D) = IF e \in D THEN {1} ELSE {}
  BY <1>1 DEF Places
<1>3. Cardinality({1}) = 1 /\ Cardinality({}) = 0
  BY FS_EmptySet, FS_Singleton
<1> QED
  BY <1>2, <1>3 DEF Count, One

\* An element more at the end, or less at the front.
LEMMA AppendCounts ==
  ASSUME NEW S, NEW s \in Seq(S), NEW e \in S, NEW D
  PROVE  Count(Append(s, e), D) = Count(s, D) + One(e, D)
<1>1. Append(s, e) = s \o <<e>>
  BY AppendIsConcat
<1>2. <<e>> \in Seq(S)
  OBVIOUS
<1>3. \A t \in Seq(S) : Count(s \o t, D) = Count(s, D) + Count(t, D)
  BY ConcatCounts
<1>4. Count(s \o <<e>>, D) = Count(s, D) + Count(<<e>>, D)
  BY <1>2, <1>3, Zenon
<1> QED
  BY <1>1, <1>4, SingleCount, Zenon

LEMMA TailCounts ==
  ASSUME NEW S, NEW s \in Seq(S), s # <<>>, NEW D
  PROVE  Count(s, D) = One(Head(s), D) + Count(Tail(s), D)
<1>1. Head(s) \in S /\ Tail(s) \in Seq(S) /\ <<Head(s)>> \in Seq(S)
  BY HeadTailProperties
<1>2. s = <<Head(s)>> \o Tail(s)
  BY HeadTailProperties, ConcatProperties
<1>3. \A u, t \in Seq(S) : Count(u \o t, D) = Count(u, D) + Count(t, D)
  BY ConcatCounts
<1>4. Count(<<Head(s)>> \o Tail(s), D) = Count(<<Head(s)>>, D) + Count(Tail(s), D)
  BY <1>1, <1>3, Zenon
<1> QED
  BY <1>2, <1>4, SingleCount, Zenon

-----------------------------------------------------------------------------
(* The coordinator: its locks, and what becomes of a batch.                *)

ResultRow == [opp : MOpp, status : {"completed", "aborted", "failed"}]
About(o) == {row \in ResultRow : row.opp = o}
Racing == {w \in Pool : at[w][1] = "racing"}
Held(w) == mission[at[w][2]].opp

BatchTypes ==
  /\ submitted \in Batches /\ queue \in Seq(MOpp) /\ results \in Seq(ResultRow)
  /\ activeLocks \subseteq MOpp
  /\ at \in [Pool -> {"idle", "next", "racing", "returned"} \X (0..MaxMissions)]

\* A worker that races has a mission begun, no two have the same opportunity, and the
\* locks are theirs.
LocksInv ==
  /\ \A w \in Racing : at[w][2] \in Begun
  /\ \A v, w \in Racing : Held(v) = Held(w) => v = w
  /\ activeLocks = {Held(w) : w \in Racing}

\* Every id of the batch is in the results, raced for, or in the queue, as often as it was
\* submitted; nothing is in the queue once a worker returned.
Balanced(o) ==
  Count(results, About(o)) + One(o, activeLocks) + Count(queue, {o}) = Count(submitted, {o})
AccountsInv ==
  /\ (\E w \in Pool : at[w][1] = "idle") => results = <<>> /\ \A w \in Pool : at[w][1] = "idle"
  /\ (\E w \in Pool : at[w][1] = "returned") => queue = <<>>
  /\ \A o \in MOpp : Balanced(o)

BatchInv == BatchTypes /\ LocksInv /\ AccountsInv

Numbers(o) ==
  /\ Count(results, About(o)) \in Nat /\ Count(queue, {o}) \in Nat
  /\ Count(submitted, {o}) \in Nat /\ One(o, activeLocks) \in {0, 1}

LEMMA CountsAreNumbers ==
  ASSUME BatchTypes, NEW o \in MOpp
  PROVE  Numbers(o)
<1>1. submitted \in Seq(MOpp)
  BY MissionAssumption DEF BatchTypes
<1>2. One(o, activeLocks) \in {0, 1}
  BY DEF One
<1> QED
  BY <1>1, <1>2, PlacesAreFinite DEF BatchTypes, Numbers

LEMMA NothingCounts == \A D : Count(<<>>, D) = 0
<1>1. \A D : Places(<<>>, D) = {}
  BY DEF Places
<1> QED
  BY <1>1, FS_EmptySet DEF Count

\* One result more is one more for its opportunity alone.
LEMMA ResultCounts ==
  ASSUME results \in Seq(ResultRow), NEW o \in MOpp, NEW st \in {"completed", "aborted", "failed"}
  PROVE  /\ Append(results, Result(o, st)) \in Seq(ResultRow)
         /\ \A p \in MOpp : Count(Append(results, Result(o, st)), About(p))
                             = Count(results, About(p)) + IF p = o THEN 1 ELSE 0
<1> DEFINE row == Result(o, st)
<1>1. row \in ResultRow /\ row.opp = o
  BY DEF Result, ResultRow
<1> HIDE DEF row
<1>2. \A p \in MOpp : One(row, About(p)) = IF p = o THEN 1 ELSE 0
  BY <1>1 DEF One, About
<1>3. \A D : Count(Append(results, row), D) = Count(results, D) + One(row, D)
  BY <1>1, AppendCounts
<1>4. Append(results, row) \in Seq(ResultRow)
  BY <1>1, AppendProperties
<1>5. ASSUME NEW p \in MOpp
      PROVE  Count(Append(results, row), About(p)) = Count(results, About(p)) + IF p = o THEN 1 ELSE 0
  <2>1. Count(Append(results, row), About(p)) = Count(results, About(p)) + One(row, About(p))
    BY <1>3, Zenon
  <2> QED
    BY <1>2, <2>1
<1> QED
  BY <1>4, <1>5 DEF row

\* The rest of the queue is reported as aborted, each as often as it waited.
LEMMA AbortedCounts ==
  ASSUME NEW q \in Seq(MOpp)
  PROVE  /\ AbortedAll(q) \in Seq(ResultRow)
         /\ \A o \in MOpp : Count(AbortedAll(q), About(o)) = Count(q, {o})
<1>1. Len(q) \in Nat /\ DOMAIN q = 1..Len(q) /\ \A i \in 1..Len(q) : q[i] \in MOpp
  BY LenProperties, ElementOfSeq
<1>2. \A o \in MOpp : Result(o, "aborted") \in ResultRow /\ Result(o, "aborted").opp = o
  BY DEF Result, ResultRow
<1>3. /\ DOMAIN AbortedAll(q) = 1..Len(q)
      /\ \A i \in 1..Len(q) : AbortedAll(q)[i] = Result(q[i], "aborted")
  BY <1>1 DEF AbortedAll
<1>4. AbortedAll(q) \in [1..Len(q) -> ResultRow]
  BY <1>1, <1>2 DEF AbortedAll
<1>5. AbortedAll(q) \in Seq(ResultRow)
  BY <1>1, <1>4, SeqDef
<1>6. ASSUME NEW o \in MOpp PROVE Places(AbortedAll(q), About(o)) = Places(q, {o})
  BY <1>1, <1>2, <1>3 DEF Places, About
<1> QED
  BY <1>5, <1>6 DEF Count

Grows ==
  /\ Len(mission) \in Nat /\ Len(mission') \in Nat /\ Len(mission) <= Len(mission')
  /\ \A m \in Begun : mission'[m].opp = mission[m].opp

\* The coordinator does not see what goes on in the missions.
LEMMA BatchStays ==
  ASSUME BatchInv, UNCHANGED batch, Grows
  PROVE  BatchInv'
<1>1. UNCHANGED <<submitted, queue, results, activeLocks, at>>
  BY DEF batch
<1>2. BatchTypes' /\ AccountsInv'
  BY <1>1 DEF BatchInv, BatchTypes, AccountsInv, Balanced
<1>3. Racing' = Racing /\ \A w \in Racing : at[w][2] \in Begun
  BY <1>1 DEF Racing, BatchInv, LocksInv
<1>4. \A w \in Racing : Held(w)' = Held(w)
  BY <1>1, <1>3 DEF Held, Grows
<1>5. Begun \subseteq Begun'
  BY DEF Begun, Grows
<1>6. LocksInv'
  BY <1>1, <1>3, <1>4, <1>5 DEF BatchInv, LocksInv
<1> QED
  BY <1>2, <1>6 DEF BatchInv

LEMMA ExecuteBatchSound ==
  ASSUME BatchInv, executeBatch
  PROVE  BatchInv'
<1>1. /\ \A w \in Pool : at[w][1] = "idle"
      /\ UNCHANGED <<mission, submitted, activeLocks>>
      /\ results = <<>> /\ Racing = {} /\ activeLocks = {} /\ queue \in Seq(MOpp)
      /\ \E p \in {"next", "returned"} : at' = [w \in Pool |-> <<p, 0>>]
  BY MissionAssumption DEF executeBatch, BatchInv, BatchTypes, LocksInv, AccountsInv, Racing
<1>2. Racing' = {} /\ at' \in [Pool -> {"idle", "next", "racing", "returned"} \X (0..MaxMissions)]
  BY <1>1, MissionAssumption DEF Racing
<1>3. LocksInv'
  BY <1>1, <1>2 DEF LocksInv
<1>4. \A o \in MOpp : 0 + Count(queue, {o}) = Count(submitted, {o})
  <2>1. \A o \in MOpp : Count(results, About(o)) + One(o, activeLocks) + Count(queue, {o})
                          = Count(submitted, {o})
    BY DEF BatchInv, AccountsInv, Balanced
  <2>2. \A o \in MOpp : Count(results, About(o)) = 0 /\ One(o, activeLocks) = 0
    BY <1>1, NothingCounts DEF One
  <2> QED
    BY <2>1, <2>2
<1>5. CASE kill
  <2>1. results' = AbortedAll(queue) /\ queue' = <<>> /\ at' = [w \in Pool |-> <<"returned", 0>>]
    BY <1>5 DEF executeBatch
  <2>2. BatchTypes'
    BY <1>1, <1>2, <2>1, AbortedCounts DEF BatchInv, BatchTypes
  <2>3. \A o \in MOpp : /\ Count(results', About(o)) = Count(queue, {o})
                        /\ Count(queue', {o}) = 0 /\ One(o, activeLocks') = 0
    BY <1>1, <2>1, AbortedCounts, NothingCounts DEF One
  <2>4. \A o \in MOpp : Count(queue, {o}) \in Nat
    BY <1>1, PlacesAreFinite
  <2>5. ASSUME NEW o \in MOpp
        PROVE  Count(results', About(o)) + One(o, activeLocks') + Count(queue', {o})
                 = Count(submitted, {o})
    <3>1. /\ Count(results', About(o)) = Count(queue, {o}) /\ Count(queue', {o}) = 0
          /\ One(o, activeLocks') = 0 /\ Count(queue, {o}) = Count(submitted, {o})
          /\ Count(queue, {o}) \in Nat
      BY <1>4, <2>3, <2>4
    <3> QED
      BY <3>1
  <2>6. \A w \in Pool : at'[w][1] # "idle"
    BY <2>1
  <2>7. AccountsInv'
    BY <1>1, <2>1, <2>5, <2>6 DEF AccountsInv, Balanced
  <2> QED
    BY <1>3, <2>2, <2>7 DEF BatchInv
<1>6. CASE ~kill
  <2>1. UNCHANGED <<results, queue>> /\ at' = [w \in Pool |-> <<"next", 0>>]
    BY <1>6 DEF executeBatch
  <2>2. BatchTypes'
    BY <1>1, <1>2, <2>1 DEF BatchInv, BatchTypes
  <2>3. AccountsInv'
    BY <1>1, <2>1 DEF BatchInv, AccountsInv, Balanced
  <2> QED
    BY <1>3, <2>2, <2>3 DEF BatchInv
<1> QED
  BY <1>5, <1>6

\* A worker that did not race and does not race: the locks are as they were.
LEMMA OtherWorkers ==
  ASSUME BatchInv, NEW w \in Pool, at[w][1] # "racing", NEW p \in {"next", "returned"},
         at' = [at EXCEPT ![w] = <<p, 0>>] \/ at' = at, UNCHANGED <<mission, activeLocks>>
  PROVE  /\ LocksInv'
         /\ at' \in [Pool -> {"idle", "next", "racing", "returned"} \X (0..MaxMissions)]
<1>1. at \in [Pool -> {"idle", "next", "racing", "returned"} \X (0..MaxMissions)]
  BY DEF BatchInv, BatchTypes
<1>2. at' \in [Pool -> {"idle", "next", "racing", "returned"} \X (0..MaxMissions)]
  BY <1>1, MissionAssumption
<1>3. Racing' = Racing /\ \A v \in Racing : at'[v] = at[v]
  BY <1>1 DEF Racing
<1>4. \A v \in Racing : Held(v)' = Held(v)
  BY <1>3 DEF Held
<1>5. LocksInv'
  BY <1>3, <1>4 DEF BatchInv, LocksInv, Begun
<1> QED
  BY <1>2, <1>5

\* One turn of a worker's loop.
LEMMA RunWorkerSound ==
  ASSUME RecordsInv, BatchInv, claimed' = claimed, NEW w \in Pool, runWorker(w)
  PROVE  RecordsInv' /\ BatchInv' /\ \A m \in Begun : mission'[m] = mission[m]
<1>0. /\ at[w][1] = "next" /\ submitted' = submitted /\ queue \in Seq(MOpp)
      /\ results \in Seq(ResultRow) /\ activeLocks \subseteq MOpp
      /\ at \in [Pool -> {"idle", "next", "racing", "returned"} \X (0..MaxMissions)]
      /\ \A v \in Pool : at[v][1] # "idle"
  BY DEF runWorker, BatchInv, BatchTypes, AccountsInv
<1>1. \A o \in MOpp : Numbers(o) /\ Balanced(o)
  BY CountsAreNumbers DEF BatchInv, AccountsInv
<1>2. CASE /\ results' = results \o AbortedAll(queue) /\ queue' = <<>>
           /\ at' = [at EXCEPT ![w] = <<"returned", 0>>]
           /\ UNCHANGED <<activeLocks, mission, run>>
  <2>1. LocksInv' /\ at' \in [Pool -> {"idle", "next", "racing", "returned"} \X (0..MaxMissions)]
    BY <1>0, <1>2, OtherWorkers
  <2>2. AbortedAll(queue) \in Seq(ResultRow)
    BY <1>0, AbortedCounts
  <2>3. results' \in Seq(ResultRow)
    BY <1>0, <1>2, <2>2, ConcatProperties
  <2>4. \A D : Count(results', D) = Count(results, D) + Count(AbortedAll(queue), D)
    BY <1>0, <1>2, <2>2, ConcatCounts
  <2>5. \A o \in MOpp : /\ Count(results', About(o)) = Count(results, About(o)) + Count(queue, {o})
                        /\ Count(queue', {o}) = 0
    BY <1>0, <1>2, <2>4, AbortedCounts, NothingCounts
  <2>6. ASSUME NEW o \in MOpp
        PROVE  Count(results', About(o)) + One(o, activeLocks') + Count(queue', {o})
                 = Count(submitted', {o})
    <3>1. Numbers(o) /\ Balanced(o)
      BY <1>1
    <3>2. /\ Count(results', About(o)) = Count(results, About(o)) + Count(queue, {o})
          /\ Count(queue', {o}) = 0
      BY <2>5
    <3>3. One(o, activeLocks') = One(o, activeLocks) /\ submitted' = submitted
      BY <1>0, <1>2
    <3> QED
      BY <3>1, <3>2, <3>3 DEF Numbers, Balanced
  <2>7. \A v \in Pool : at'[v][1] # "idle"
    BY <1>0, <1>2
  <2>8. BatchTypes' /\ AccountsInv'
    BY <1>0, <1>2, <2>1, <2>3, <2>6, <2>7 DEF BatchInv, BatchTypes, AccountsInv, Balanced
  <2>9. RecordsInv'
    BY <1>2, RecordsStay
  <2> QED
    BY <1>2, <2>1, <2>8, <2>9 DEF BatchInv
<1>3. CASE queue # <<>> /\ ~kill /\ queue' = Tail(queue)
  <2> DEFINE h == Head(queue)
  <2>1. h \in MOpp /\ queue' \in Seq(MOpp)
    BY <1>0, <1>3, HeadTailProperties
  <2>2. \A D : Count(queue, D) = One(h, D) + Count(queue', D)
    BY <1>0, <1>3, TailCounts
  <2>3. \A v \in Pool : at[v][1] # "returned"
    BY <1>3 DEF BatchInv, AccountsInv
  <2>4. \/ /\ h \in activeLocks /\ results' = Append(results, Result(h, "aborted"))
           /\ UNCHANGED <<activeLocks, at, mission, run>>
        \/ /\ h \notin activeLocks /\ Begin(executeRecoveryMission(h, w))
           /\ activeLocks' = activeLocks \cup {h}
           /\ at' = [at EXCEPT ![w] = <<"racing", Len(mission) + 1>>] /\ UNCHANGED results
    BY <1>3 DEF runWorker
  <2> HIDE DEF h
  <2>5. \A o \in MOpp : /\ Count(queue', {o}) \in Nat
                        /\ Count(queue, {o}) = Count(queue', {o}) + IF o = h THEN 1 ELSE 0
    <3>1. \A o \in MOpp : One(h, {o}) = IF o = h THEN 1 ELSE 0
      BY DEF One
    <3>2. \A o \in MOpp : Count(queue', {o}) \in Nat
      BY <2>1, PlacesAreFinite
    <3>3. ASSUME NEW o \in MOpp
          PROVE  Count(queue, {o}) = Count(queue', {o}) + IF o = h THEN 1 ELSE 0
      <4>1. Count(queue, {o}) = One(h, {o}) + Count(queue', {o})
        BY <2>2, Zenon
      <4>2. One(h, {o}) = (IF o = h THEN 1 ELSE 0) /\ Count(queue', {o}) \in Nat
        BY <3>1, <3>2
      <4> QED
        BY <4>1, <4>2
    <3> QED
      BY <3>2, <3>3
  <2>6. CASE /\ h \in activeLocks /\ results' = Append(results, Result(h, "aborted"))
             /\ UNCHANGED <<activeLocks, at, mission, run>>
    <3>1. LocksInv' /\ at' = at
      BY <1>0, <2>6, OtherWorkers
    <3>2. /\ results' \in Seq(ResultRow)
          /\ \A o \in MOpp : Count(results', About(o))
                              = Count(results, About(o)) + IF o = h THEN 1 ELSE 0
      BY <1>0, <2>1, <2>6, ResultCounts
    <3>3. ASSUME NEW o \in MOpp
          PROVE  Count(results', About(o)) + One(o, activeLocks') + Count(queue', {o})
                   = Count(submitted', {o})
      <4>1. Numbers(o) /\ Balanced(o)
        BY <1>1
      <4>2. /\ Count(queue', {o}) \in Nat
            /\ Count(queue, {o}) = Count(queue', {o}) + IF o = h THEN 1 ELSE 0
            /\ Count(results', About(o)) = Count(results, About(o)) + IF o = h THEN 1 ELSE 0
        BY <2>5, <3>2
      <4>3. One(o, activeLocks') = One(o, activeLocks) /\ submitted' = submitted
        BY <1>0, <2>6
      <4> QED
        BY <4>1, <4>2, <4>3 DEF Numbers, Balanced
    <3>4. BatchTypes' /\ AccountsInv'
      BY <1>0, <2>1, <2>3, <2>6, <3>2, <3>3 DEF BatchInv, BatchTypes, AccountsInv, Balanced
    <3>5. RecordsInv'
      BY <2>6, RecordsStay
    <3> QED
      BY <2>6, <3>1, <3>4, <3>5 DEF BatchInv
  <2>7. CASE /\ h \notin activeLocks /\ Begin(executeRecoveryMission(h, w))
             /\ activeLocks' = activeLocks \cup {h}
             /\ at' = [at EXCEPT ![w] = <<"racing", Len(mission) + 1>>] /\ UNCHANGED results
    <3> DEFINE n == Len(mission) + 1
    <3>1. Fresh(executeRecoveryMission(h, w), h)
      BY <2>1, BeginFacts
    <3>2. /\ RecordsInv' /\ Len(mission') = n /\ mission'[n].opp = h
          /\ \A m \in Begun : mission'[m] = mission[m]
      BY <2>1, <2>7, <3>1, MissionBegins
    <3>3. /\ Len(mission) \in Nat /\ n \in 0..MaxMissions /\ n \in Begun' /\ Begun \subseteq Begun'
          /\ n \notin Begun
      BY <2>7, <3>2, BegunFacts, MissionAssumption DEF Begin, Begun
    <3> HIDE DEF n
    <3>4. at' = [at EXCEPT ![w] = <<"racing", n>>]
      BY <2>7 DEF n
    <3>5. at' \in [Pool -> {"idle", "next", "racing", "returned"} \X (0..MaxMissions)]
      BY <1>0, <3>3, <3>4
    <3>6. /\ Racing' = Racing \cup {w} /\ w \notin Racing
          /\ at'[w][2] = n /\ at'[w][1] = "racing" /\ \A v \in Pool \ {w} : at'[v] = at[v]
      BY <1>0, <3>4 DEF Racing
    <3>7. Held(w)' = h /\ \A v \in Racing : Held(v)' = Held(v) /\ at'[v][2] \in Begun
      BY <3>2, <3>6 DEF Held, BatchInv, LocksInv, Racing
    <3>8. LocksInv'
      <4>1. \A v \in Racing : Held(v) \in activeLocks /\ Held(v) # h
        BY <2>7 DEF BatchInv, LocksInv
      <4>2. \A v \in Racing' : at'[v][2] \in Begun'
        BY <3>3, <3>6, <3>7
      <4>3. \A v, u \in Racing' : Held(v)' = Held(u)' => v = u
        BY <3>6, <3>7, <4>1 DEF BatchInv, LocksInv
      <4>4. activeLocks' = {Held(v)' : v \in Racing'}
        BY <2>7, <3>6, <3>7 DEF BatchInv, LocksInv
      <4> QED
        BY <4>2, <4>3, <4>4 DEF LocksInv
    <3>9. \A o \in MOpp : One(o, activeLocks') = One(o, activeLocks) + IF o = h THEN 1 ELSE 0
      BY <2>7 DEF One
    <3>10. ASSUME NEW o \in MOpp
           PROVE  Count(results', About(o)) + One(o, activeLocks') + Count(queue', {o})
                    = Count(submitted', {o})
      <4>1. Numbers(o) /\ Balanced(o)
        BY <1>1
      <4>2. /\ Count(queue', {o}) \in Nat
            /\ Count(queue, {o}) = Count(queue', {o}) + IF o = h THEN 1 ELSE 0
            /\ One(o, activeLocks') = One(o, activeLocks) + IF o = h THEN 1 ELSE 0
        BY <2>5, <3>9
      <4>3. Count(results', About(o)) = Count(results, About(o)) /\ submitted' = submitted
        BY <1>0, <2>7
      <4> QED
        BY <4>1, <4>2, <4>3 DEF Numbers, Balanced
    <3>11. \A v \in Pool : at'[v][1] # "idle" /\ at'[v][1] # "returned"
      BY <1>0, <2>3, <3>6
    <3>12. BatchTypes' /\ AccountsInv'
      BY <1>0, <2>1, <2>7, <3>5, <3>10, <3>11 DEF BatchInv, BatchTypes, AccountsInv, Balanced
    <3> QED
      BY <3>2, <3>8, <3>12 DEF BatchInv
  <2> QED
    BY <2>4, <2>6, <2>7
<1> QED
  BY <1>2, <1>3 DEF runWorker

\* The race with the timeout is over: one lock less, one result more.
LEMMA RaceSettlesSound ==
  ASSUME RecordsInv, BatchInv, NEW w \in Pool, raceSettles(w)
  PROVE  BatchInv'
<1> DEFINE h == Held(w)
<1>1. /\ at[w][1] = "racing" /\ UNCHANGED <<mission, submitted, queue>>
      /\ activeLocks' = activeLocks \ {h} /\ at' = [at EXCEPT ![w] = <<"next", 0>>]
      /\ \E st \in {"completed", "aborted", "failed"} : results' = Append(results, Result(h, st))
  BY DEF raceSettles, Held
<1>2. /\ queue \in Seq(MOpp) /\ results \in Seq(ResultRow) /\ activeLocks \subseteq MOpp
      /\ at \in [Pool -> {"idle", "next", "racing", "returned"} \X (0..MaxMissions)]
      /\ \A v \in Pool : at[v][1] # "idle"
      /\ w \in Racing /\ h \in activeLocks
  BY <1>1 DEF BatchInv, BatchTypes, AccountsInv, LocksInv, Racing
<1>3. \A o \in MOpp : Numbers(o) /\ Balanced(o)
  BY CountsAreNumbers DEF BatchInv, AccountsInv
<1>4. /\ at' \in [Pool -> {"idle", "next", "racing", "returned"} \X (0..MaxMissions)]
      /\ Racing' = Racing \ {w} /\ \A v \in Racing' : at'[v] = at[v]
      /\ \A v \in Pool : at'[v][1] # "idle" /\ (at'[v][1] = "returned" => at[v][1] = "returned")
  BY <1>1, <1>2, MissionAssumption DEF Racing
<1>5. \A v \in Racing' : Held(v)' = Held(v)
  BY <1>1, <1>4 DEF Held
<1> HIDE DEF h
<1>6. LocksInv'
  <2>1. \A v \in Racing' : v \in Racing /\ Held(v) # h
    BY <1>2, <1>4 DEF BatchInv, LocksInv, h
  <2>2. activeLocks' = {Held(v)' : v \in Racing'}
    BY <1>1, <1>4, <1>5, <2>1 DEF BatchInv, LocksInv, h
  <2>3. Begun' = Begun
    BY <1>1 DEF Begun
  <2> QED
    BY <1>4, <1>5, <2>1, <2>2, <2>3 DEF BatchInv, LocksInv
<1>7. h \in MOpp
  BY <1>2
<1>8. /\ results' \in Seq(ResultRow)
      /\ \A o \in MOpp : Count(results', About(o)) = Count(results, About(o)) + IF o = h THEN 1 ELSE 0
  BY <1>1, <1>2, <1>7, ResultCounts
<1>9. \A o \in MOpp : One(o, activeLocks) = One(o, activeLocks') + IF o = h THEN 1 ELSE 0
  BY <1>1, <1>2 DEF One
<1>10. ASSUME NEW o \in MOpp
       PROVE  Count(results', About(o)) + One(o, activeLocks') + Count(queue', {o})
                = Count(submitted', {o})
  <2>1. Numbers(o) /\ Balanced(o)
    BY <1>3
  <2>2. /\ Count(results', About(o)) = Count(results, About(o)) + IF o = h THEN 1 ELSE 0
        /\ One(o, activeLocks) = One(o, activeLocks') + IF o = h THEN 1 ELSE 0
    BY <1>8, <1>9
  <2>3. One(o, activeLocks') \in {0, 1}
    BY DEF One
  <2>4. Count(queue', {o}) = Count(queue, {o}) /\ submitted' = submitted
    BY <1>1
  <2> QED
    BY <2>1, <2>2, <2>3, <2>4 DEF Numbers, Balanced
<1>11. BatchTypes' /\ AccountsInv'
  BY <1>1, <1>2, <1>4, <1>8, <1>10 DEF BatchInv, BatchTypes, AccountsInv, Balanced
<1> QED
  BY <1>6, <1>11 DEF BatchInv

-----------------------------------------------------------------------------
(* All steps of the missions and of the coordinator.                       *)

MissionsInv == WorldInv /\ RecordsInv /\ BatchInv

LEMMA MissionsInit == Init => MissionsInv
<1> SUFFICES ASSUME Init PROVE MissionsInv
  OBVIOUS
<1>1. submitted \in Seq(MOpp)
  BY MissionAssumption DEF Init
<1>2. WorldInv
  <2>1. MaxSwitches \in Nat /\ 0 \in 0..MaxSwitches
    BY MissionAssumption
  <2>2. oppStatus \in [MOpp -> Status]
    BY StatusFacts DEF Init
  <2> QED
    BY <2>1, <2>2 DEF Init, WorldInv
<1>3. RecordsInv
  BY MissionAssumption, EmptySeq DEF Init, RecordsInv
<1>4. Racing = {}
  BY DEF Init, Racing
<1>5. \A o \in MOpp : Balanced(o)
  <2>1. \A o \in MOpp : /\ Count(results, About(o)) = 0 /\ One(o, activeLocks) = 0
                        /\ Count(queue, {o}) = Count(submitted, {o})
                        /\ Count(submitted, {o}) \in Nat
    BY <1>1, NothingCounts, PlacesAreFinite DEF Init, One
  <2> QED
    BY <2>1 DEF Balanced
<1>6. BatchTypes
  BY <1>1, MissionAssumption, EmptySeq DEF Init, BatchTypes
<1>7. LocksInv /\ AccountsInv
  BY <1>4, <1>5 DEF Init, LocksInv, AccountsInv
<1> QED
  BY <1>2, <1>3, <1>6, <1>7 DEF MissionsInv, BatchInv

\* A mission is begun by a route: the coordinator is where it was.
LEMMA StartMissionSound ==
  ASSUME MissionsInv, startMission
  PROVE  MissionsInv' /\ \A m \in Begun : mission'[m] = mission[m]
<1>1. PICK o \in MOpp : \/ Begin(executeRecoveryMission(o, "route"))
                       \/ Begin(executeAutonomousMission(o))
  BY DEF startMission
<1>2. UNCHANGED <<kill, switches, world, batch>>
  BY DEF startMission
<1>3. PICK r : Begin(r) /\ Fresh(r, o)
  BY <1>1, BeginFacts
<1>4. claimed' = claimed /\ WorldInv'
  BY <1>2 DEF world, WorldInv, MissionsInv
<1>5. /\ RecordsInv' /\ Len(mission') = Len(mission) + 1
      /\ \A m \in Begun : mission'[m] = mission[m]
  BY <1>3, <1>4, MissionBegins DEF MissionsInv
<1>6. Grows
  BY <1>5, BegunFacts DEF Grows, MissionsInv
<1> QED
  BY <1>2, <1>4, <1>5, <1>6, BatchStays DEF MissionsInv

\* What happens around the missions leaves them, and the coordinator, as they are.
LEMMA AroundSound ==
  ASSUME MissionsInv, WorldInv', UNCHANGED <<claimed, mission, run>>, UNCHANGED batch
  PROVE  MissionsInv' /\ \A m \in Begun : mission'[m] = mission[m]
<1>1. RecordsInv' /\ Onward
  BY RecordsStay DEF MissionsInv
<1>2. Grows
  BY BegunFacts DEF Grows, MissionsInv
<1> QED
  BY <1>1, <1>2, BatchStays DEF MissionsInv

\* The stale sweep writes only over rows that are running.
LEMMA SweepStaleSound ==
  ASSUME MissionsInv, sweepStaleMissions
  PROVE  MissionsInv' /\ \A m \in Begun : mission'[m] = mission[m]
<1>1. PICK stale \in SUBSET {m \in Begun : run[m] = "running"} :
        run' = [m \in Begun |-> IF m \in stale THEN "aborted" ELSE run[m]]
  BY DEF sweepStaleMissions
<1>2. UNCHANGED <<kill, switches, world, mission, batch>>
  BY DEF sweepStaleMissions
<1>3. /\ Len(mission) \in Nat /\ Begun = 1..Len(mission)
      /\ \A m \in Begun : run[m] \in RunRow /\ Recorded(mission[m], run[m], claimed)
  BY BegunFacts DEF MissionsInv, RecordsInv
<1>4. run' \in [1..Len(mission) -> RunRow]
  BY <1>1, <1>3 DEF RunRow
<1>5. run' \in Seq(RunRow) /\ Len(run') = Len(mission)
  BY <1>3, <1>4, SeqDef
<1>6. \A m \in Begun : Recorded(mission[m], run'[m], claimed)
  <2>1. ASSUME NEW m \in Begun, m \in stale PROVE Recorded(mission[m], "aborted", claimed)
    <3>1. run[m] = "running" /\ Recorded(mission[m], run[m], claimed)
      BY <1>3, <2>1
    <3>2. mission[m].pc \in Over => RunOf(mission[m]) # "running"
      BY DEF Over, RunOf
    <3> QED
      BY <3>1, <3>2 DEF Recorded, RunRow
  <2> QED
    BY <1>1, <1>3, <2>1
<1>7. RecordsInv'
  BY <1>2, <1>3, <1>5, <1>6 DEF MissionsInv, RecordsInv, world
<1>8. WorldInv' /\ Grows
  BY <1>2, <1>3 DEF MissionsInv, WorldInv, world, Grows
<1> QED
  BY <1>2, <1>7, <1>8, BatchStays DEF MissionsInv

LEMMA MissionsStep ==
  MissionsInv /\ [Next]_vars => MissionsInv' /\ \A m \in Begun : DispatchIsGated(m)
<1> SUFFICES ASSUME MissionsInv, [Next]_vars
             PROVE  MissionsInv' /\ \A m \in Begun : DispatchIsGated(m)
  OBVIOUS
<1>0. \A m : mission'[m] = mission[m] => DispatchIsGated(m)
  BY DEF DispatchIsGated
<1>1. ASSUME NEW m \in Begun, MissionStep(m)
      PROVE  MissionsInv' /\ \A k \in Begun : DispatchIsGated(k)
  <2>1. StepIsSound(m)
    BY <1>1, MissionStepSound DEF MissionsInv
  <2>2. Grows
    BY <2>1, BegunFacts DEF StepIsSound, Onward, Grows, MissionsInv
  <2> QED
    BY <2>1, <2>2, BatchStays DEF StepIsSound, MissionsInv
<1>2. CASE startMission
  BY <1>0, <1>2, StartMissionSound
<1>3. CASE executeBatch
  <2>1. UNCHANGED <<kill, switches, world, mission, run>>
    BY <1>3 DEF executeBatch
  <2>2. WorldInv' /\ RecordsInv' /\ \A m \in Begun : mission'[m] = mission[m]
    BY <2>1, RecordsStay DEF MissionsInv, WorldInv, world
  <2> QED
    BY <1>0, <1>3, <2>2, ExecuteBatchSound DEF MissionsInv
<1>4. CASE setKillSwitch
  <2>1. WorldInv'
    BY <1>4, MissionAssumption DEF setKillSwitch, MissionsInv, WorldInv, world
  <2> QED
    BY <1>0, <1>4, <2>1, AroundSound DEF setKillSwitch, world
<1>5. CASE sweepStaleMissions
  BY <1>0, <1>5, SweepStaleSound
<1>6. CASE executePortfolioSweep
  <2>1. WorldInv'
    BY <1>6, MarketTypes DEF executePortfolioSweep, MissionsInv, WorldInv
  <2> QED
    BY <1>0, <1>6, <2>1, AroundSound DEF executePortfolioSweep
<1>7. ASSUME NEW o \in MOpp, reconcile(o)
      PROVE  MissionsInv' /\ \A m \in Begun : DispatchIsGated(m)
  <2>1. WorldInv'
    BY <1>7, StatusFacts DEF reconcile, MissionsInv, WorldInv
  <2> QED
    BY <1>0, <1>7, <2>1, AroundSound DEF reconcile
<1>8. ASSUME NEW w \in Pool, runWorker(w)
      PROVE  MissionsInv' /\ \A m \in Begun : DispatchIsGated(m)
  <2>1. WorldInv' /\ claimed' = claimed
    BY <1>8 DEF runWorker, MissionsInv, WorldInv, world
  <2> QED
    BY <1>0, <1>8, <2>1, RunWorkerSound DEF MissionsInv
<1>9. ASSUME NEW w \in Pool, raceSettles(w)
      PROVE  MissionsInv' /\ \A m \in Begun : DispatchIsGated(m)
  <2>1. UNCHANGED <<kill, switches, world, mission, run>>
    BY <1>9 DEF raceSettles
  <2>2. WorldInv' /\ RecordsInv' /\ \A m \in Begun : mission'[m] = mission[m]
    BY <2>1, RecordsStay DEF MissionsInv, WorldInv, world
  <2> QED
    BY <1>0, <1>9, <2>2, RaceSettlesSound DEF MissionsInv
<1>10. CASE UNCHANGED vars
  <2>1. WorldInv'
    BY <1>10 DEF vars, world, MissionsInv, WorldInv
  <2> QED
    BY <1>0, <1>10, <2>1, AroundSound DEF vars, world
<1> QED
  BY <1>1, <1>2, <1>3, <1>4, <1>5, <1>6, <1>7, <1>8, <1>9, <1>10 DEF Next

\* The locks are as many as the workers that race.
LEMMA LocksAreExact == MissionsInv => RacersHoldTheLocks
<1> SUFFICES ASSUME MissionsInv PROVE RacersHoldTheLocks
  OBVIOUS
<1> DEFINE f == [w \in Racing |-> Held(w)]
<1>1. activeLocks = {Held(w) : w \in Racing} /\ \A v, w \in Racing : Held(v) = Held(w) => v = w
  BY DEF MissionsInv, BatchInv, LocksInv
<1>2. f \in Bijection(Racing, activeLocks)
  BY <1>1 DEF Bijection, Injection, Surjection, IsInjective
<1>3. IsFiniteSet(Racing)
  <2>1. Racing \in SUBSET Pool /\ IsFiniteSet(Pool)
    BY MissionAssumption DEF Racing
  <2> QED
    BY <2>1, FS_Subset
<1>4. Cardinality(activeLocks) = Cardinality(Racing)
  BY <1>2, <1>3, FS_Bijection DEF ExistsBijection
<1> QED
  BY <1>1, <1>4 DEF RacersHoldTheLocks, Racing, Held

\* Once all have returned nothing is raced for and nothing waits.
LEMMA BatchIsAccounted == MissionsInv => BatchAccounts
<1> SUFFICES ASSUME MissionsInv, \A w \in Pool : at[w][1] = "returned", NEW o \in MOpp
             PROVE  Cardinality({i \in DOMAIN results : results[i].opp = o})
                      = Cardinality({i \in DOMAIN submitted : submitted[i] = o})
  BY DEF BatchAccounts
<1>1. queue = <<>> /\ Racing = {} /\ activeLocks = {}
  BY MissionAssumption DEF MissionsInv, BatchInv, AccountsInv, LocksInv, Racing
<1>2. Numbers(o) /\ Balanced(o)
  BY CountsAreNumbers DEF MissionsInv, BatchInv, AccountsInv
<1>3. Count(queue, {o}) = 0 /\ One(o, activeLocks) = 0
  BY <1>1, NothingCounts DEF One
<1>4. Count(results, About(o)) = Count(submitted, {o})
  BY <1>2, <1>3 DEF Numbers, Balanced
<1>5. results \in Seq(ResultRow) /\ \A i \in DOMAIN results : results[i] \in ResultRow
  BY LenProperties, ElementOfSeq DEF MissionsInv, BatchInv, BatchTypes
<1>6. Places(results, About(o)) = {i \in DOMAIN results : results[i].opp = o}
  BY <1>5 DEF Places, About
<1>7. Places(submitted, {o}) = {i \in DOMAIN submitted : submitted[i] = o}
  BY DEF Places
<1> QED
  BY <1>4, <1>6, <1>7 DEF Count

LEMMA RecordsAreTrue == MissionsInv => MissionRecords
<1> SUFFICES ASSUME MissionsInv, NEW m \in Begun
             PROVE  LET r == mission[m]
                    IN  /\ r.pc = "aborted" <=> r.state = "ABORTED"
                        /\ r.state = "COMPLETE" => r.pc = "done" /\ r.opp \in claimed
                        /\ r.pc \in {"done", "aborted"} => run[m] = RunOf(r)
                        /\ r.pc \notin {"done", "aborted"} => run[m] # "completed"
  BY DEF MissionRecords
<1> DEFINE r == mission[m]
<1>1. Recorded(r, run[m], claimed)
  BY DEF MissionsInv, RecordsInv, Begun
<1> HIDE DEF r
<1>2. r.kind \in {"linear", "loop"} /\ r.pc \in Waiting \cup Ended
  BY <1>1 DEF Recorded, MissionRecord
<1>3. /\ r.pc = "aborted" <=> r.state = "ABORTED"
      /\ r.state = "COMPLETE" => r.pc = "done"
  BY <1>1, <1>2 DEF Recorded, StateFits, Waiting, Ended
<1> QED
  BY <1>1, <1>3 DEF Recorded, Over, r

LEMMA MissionsTyped == MissionsInv => TypeOK
<1> SUFFICES ASSUME MissionsInv PROVE TypeOK
  OBVIOUS
<1>1. ASSUME NEW m \in Begun
      PROVE  /\ mission[m].kind \in {"linear", "loop"} /\ mission[m].opp \in MOpp
             /\ mission[m].pc \in Waiting \cup Ended /\ mission[m].state \in AgentState
             /\ mission[m].iter \in 0..maxIterations /\ mission[m].tools \in 0..(2 * maxIterations)
             /\ mission[m].by \in Pool \cup {"route"}
             /\ run[m] \in {"running", "completed", "aborted"}
  <2>1. mission[m] \in MissionRecord /\ BudgetFits(mission[m]) /\ run[m] \in RunRow
    BY DEF MissionsInv, RecordsInv, Recorded, Begun
  <2>2. /\ mission[m].kind \in {"linear", "loop"} /\ mission[m].opp \in MOpp
        /\ mission[m].pc \in Waiting \cup Ended /\ mission[m].state \in AgentState
        /\ mission[m].iter \in Nat /\ mission[m].tools \in Nat
        /\ mission[m].by \in Pool \cup {"route"}
    BY <2>1 DEF MissionRecord
  <2>3. mission[m].iter <= maxIterations /\ mission[m].tools <= 2 * maxIterations
    <3>1. maxIterations \in Nat
      BY MissionAssumption
    <3> QED
      BY <2>1, <2>2, <3>1 DEF BudgetFits, Within
  <2>4. maxIterations \in Nat
    BY MissionAssumption
  <2> QED
    BY <2>1, <2>2, <2>3, <2>4 DEF RunRow
<1> QED
  BY <1>1 DEF TypeOK, MissionsInv, WorldInv, RecordsInv, BatchInv, BatchTypes

-----------------------------------------------------------------------------
(* The agent layer: the parts share nothing, so each keeps its own.        *)

AgentsInv == MissionsInv /\ GateInv /\ RouterInv /\ HITL!TypeOK

LEMMA AgentsStart == AgentsInit => AgentsInv
BY MissionsInit, GateInit, RouterInit, ReviewsInit DEF AgentsInit, AgentsInv

LEMMA AgentsStep == AgentsInv /\ [AgentsNext]_all => AgentsInv'
<1> SUFFICES ASSUME AgentsInv, [AgentsNext]_all PROVE AgentsInv'
  OBVIOUS
<1>1. [Next]_vars /\ [Gate!Next]_gateVars /\ [LLM!Next]_llmVars /\ [HITL!Next]_hitlVars
  BY DEF AgentsNext, all
<1> QED
  BY <1>1, MissionsStep, GateStep, RouterStep, ReviewsStep DEF AgentsInv

LEMMA AgentsKeep == AgentsSpec => []AgentsInv
<1>1. AgentsInit => AgentsInv
  BY AgentsStart
<1>2. AgentsInv /\ [AgentsNext]_all => AgentsInv'
  BY AgentsStep
<1> QED
  BY <1>1, <1>2, PTL DEF AgentsSpec

\* Whatever races with a mission's timeout, its records are consistent, the locks are
\* those of the workers that race, and every id of a batch has one result.
THEOREM MissionsAreAccountedFor == AgentsSpec => []MissionsAccounted
<1>1. AgentsInv => MissionsAccounted
  BY LocksAreExact, BatchIsAccounted, RecordsAreTrue, MissionsTyped, RouterTypes
     DEF AgentsInv, MissionsAccounted, GateInv
<1> QED
  BY <1>1, AgentsKeep, PTL

\* No handler of a tool runs more often than the window allows, whenever it was asked
\* for, and a model is skipped only while it has been failing.
THEOREM CallersAreKeptBack == AgentsSpec => []CallersAreHeldBack
<1>1. AgentsInv => CallersAreHeldBack
  BY GateHolds, RouterTypes DEF AgentsInv, CallersAreHeldBack
<1> QED
  BY <1>1, AgentsKeep, PTL

\* The kill switch is read again by the authority: what a mission read when it began
\* does not matter.
THEOREM NoDispatchWhenKilled == AgentsSpec => KillStopsDispatch
<1> DEFINE Step == \A m \in Begun : DispatchIsGated(m)
<1>1. AgentsInv /\ [AgentsNext]_all => [Step]_vars
  <2> SUFFICES ASSUME AgentsInv, [AgentsNext]_all PROVE [Step]_vars
    OBVIOUS
  <2>1. [Next]_vars
    BY DEF AgentsNext, all
  <2> QED
    BY <2>1, MissionsStep DEF AgentsInv
<1>2. KillStopsDispatch <=> [][Step]_vars
  BY DEF KillStopsDispatch, DispatchIsGated
<1> HIDE DEF Step
<1>3. AgentsSpec => [][AgentsNext]_all
  BY DEF AgentsSpec
<1> QED
  BY <1>1, <1>2, <1>3, AgentsKeep, PTL

\* A tool that failed twice running stays refused for the run, whatever calls were in
\* flight and whoever asks.
THEOREM FailedToolsStayBlocked == AgentsSpec => FailingToolStaysBlocked
<1> DEFINE Step == \A t \in Tool : Gate!FailedInARow(toolCallHistory, t)
                                   => Gate!FailedInARow(toolCallHistory', t)
<1>1. AgentsInv /\ [AgentsNext]_all => [Step]_Gate!vars
  <2> SUFFICES ASSUME AgentsInv, [AgentsNext]_all PROVE [Step]_Gate!vars
    OBVIOUS
  <2>1. [Gate!Next]_gateVars
    BY DEF AgentsNext, all
  <2> QED
    BY <2>1, GateStep DEF AgentsInv
<1>2. FailingToolStaysBlocked <=> [][Step]_Gate!vars
  BY DEF FailingToolStaysBlocked, Gate!FailingToolStaysBlocked
<1> HIDE DEF Step
<1>3. AgentsSpec => [][AgentsNext]_all
  BY DEF AgentsSpec
<1> QED
  BY <1>1, <1>2, <1>3, AgentsKeep, PTL

\* A request for review that was decided stays decided until the process dies, and none
\* times out before its time.
THEOREM DecisionsAreFinal == AgentsSpec => DecisionStands
<1> DEFINE Step ==
      \A i \in ReviewId :
        /\ review[i].status \in HITL!Resolution => review'[i] \in {review[i], HITL!None}
        /\ review[i].status = "PENDING" /\ review'[i].status = "TIMED_OUT"
             => review[i].timeout_at <= today
<1>1. AgentsInv /\ [AgentsNext]_all => [Step]_HITL!vars
  <2> SUFFICES ASSUME AgentsInv, [AgentsNext]_all PROVE [Step]_HITL!vars
    OBVIOUS
  <2>1. HITL!Next \/ UNCHANGED hitlVars
    BY DEF AgentsNext, all
  <2>2. CASE HITL!Next
    BY <2>2, ReviewsStand DEF AgentsInv
  <2>3. CASE UNCHANGED hitlVars
    BY <2>3 DEF hitlVars, HITL!vars
  <2> QED
    BY <2>1, <2>2, <2>3
<1>2. DecisionStands <=> [][Step]_HITL!vars
  BY DEF DecisionStands, HITL!DecisionStands
<1> HIDE DEF Step
<1>3. AgentsSpec => [][AgentsNext]_all
  BY DEF AgentsSpec
<1> QED
  BY <1>1, <1>2, <1>3, AgentsKeep, PTL
=============================================================================
