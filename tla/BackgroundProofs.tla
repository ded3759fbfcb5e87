--------------------------- MODULE BackgroundProofs ---------------------------
(***************************************************************************)
(* What runs by itself is sound for every instance: the daemon's loop for  *)
(* every bound on pending pushes, in one process and with a job queue; the *)
(* sweeps for every set of opportunities and of activities; and the        *)
(* webhooks' delivery queue for every set of payments and deliveries,      *)
(* whatever events the deliveries carry, however many requests are under   *)
(* way and however many tries a delivery gets.                             *)
(***************************************************************************)
EXTENDS MCBackground, TLAPS

-----------------------------------------------------------------------------
(* The daemon.                                                             *)

\* A fresh daemon: no timer, no sweep.
LEMMA DaemonInitInv == Init => DaemonInv
BY DaemonAssumption
   DEF Init, DaemonInv, TypeOK, NoOrphanTimer, SleepingWillWake, SweepIsKnown, isSweeping,
       SweepResumes, SweptWhileStopped, StoppedIsQuiet, Alive, DaemonState

\* scheduleNext leaves at most one timer armed, the one this.timer names, and
\* arms one unless the daemon is stopped or idle.
LEMMA ScheduleFacts ==
  ASSUME NEW st \in DaemonState, NEW n \in 0..1, NEW t \in {"null", "fired", "armed"},
         n > 0 <=> t = "armed", scheduleNext(st, n, t)
  PROVE  /\ armed' \in 0..1 /\ timer' \in {"null", "fired", "armed"}
         /\ (armed' > 0 <=> timer' = "armed")
         /\ st \in {"STOPPED", "IDLE"} => state' = st /\ armed' = n
         /\ st \notin {"STOPPED", "IDLE"} => state' = "SLEEPING" /\ armed' = 1
BY DEF scheduleNext, Cleared, DaemonState

\* The operators' calls: start, stop, a new configuration, shutdown.
LEMMA OperatorStepsInv ==
  ASSUME DaemonInv, start \/ stop \/ updateConfig \/ waitForDrain \/ exit
  PROVE  DaemonInv'
<1> USE DaemonAssumption
<1>1. CASE start
  <2>1. CASE state \in {"SWEEPING", "SLEEPING"}
    BY <1>1, <2>1 DEF start, DaemonInv, TypeOK, NoOrphanTimer, SleepingWillWake,
       SweepIsKnown, isSweeping, SweepResumes, SweptWhileStopped, StoppedIsQuiet, Alive, timers, sweep
  <2>2. CASE state \notin {"SWEEPING", "SLEEPING"}
    <3>1. state' = "SLEEPING" /\ armed' = 1 /\ timer' = "armed"
      BY <1>1, <2>2, ScheduleFacts DEF start, scheduleNext, Cleared, DaemonInv, TypeOK, NoOrphanTimer
    <3> QED
      BY <1>1, <2>2, <3>1 DEF start, DaemonInv, TypeOK, NoOrphanTimer, SleepingWillWake,
         SweepIsKnown, isSweeping, SweepResumes, SweptWhileStopped, StoppedIsQuiet, Alive, sweep, DaemonState
  <2> QED BY <2>1, <2>2
<1>2. CASE stop \/ waitForDrain
  <2>1. armed' = 0 /\ timer' = "null"
    BY <1>2 DEF stop, waitForDrain, Stopped, Cleared, DaemonInv, TypeOK, NoOrphanTimer
  <2> QED
    BY <1>2, <2>1 DEF stop, waitForDrain, Stopped, DaemonInv, TypeOK, NoOrphanTimer,
       SleepingWillWake, SweepIsKnown, isSweeping, SweepResumes, SweptWhileStopped, StoppedIsQuiet,
       Alive, sweep, DaemonState
<1>3. CASE updateConfig
  <2>1. state' = "SLEEPING" /\ armed' = 1 /\ timer' = "armed"
    BY <1>3 DEF updateConfig, scheduleNext, Cleared, DaemonInv, TypeOK, NoOrphanTimer
  <2> QED
    BY <1>3, <2>1 DEF updateConfig, DaemonInv, TypeOK, NoOrphanTimer, SleepingWillWake,
       SweepIsKnown, isSweeping, SweepResumes, SweptWhileStopped, StoppedIsQuiet, Alive, sweep, DaemonState
<1>4. CASE exit
  BY <1>4 DEF exit, DaemonInv, TypeOK, NoOrphanTimer, SleepingWillWake, SweepIsKnown, isSweeping,
     SweepResumes, SweptWhileStopped, StoppedIsQuiet, Alive, DaemonState
<1> QED BY <1>1, <1>2, <1>3, <1>4

\* A sweep from its beginning to its end.
LEMMA SweepStepsInv ==
  ASSUME DaemonInv, sweepOnce \/ sweepOn \/ finishSweep
  PROVE  DaemonInv'
<1> USE DaemonAssumption
<1>1. CASE sweepOnce
  BY <1>1 DEF sweepOnce, BeginSweep, DaemonInv, TypeOK, NoOrphanTimer, SleepingWillWake,
     SweepIsKnown, isSweeping, SweepResumes, SweptWhileStopped, StoppedIsQuiet, Alive, timers, DaemonState
<1>2. CASE sweepOn
  BY <1>2 DEF sweepOn, DaemonInv, TypeOK, NoOrphanTimer, SleepingWillWake, SweepIsKnown, isSweeping,
     SweepResumes, SweptWhileStopped, StoppedIsQuiet, Alive, timers
<1>3. CASE finishSweep /\ owner = "timer"
  <2>1. /\ armed' \in 0..1 /\ timer' \in {"null", "fired", "armed"}
        /\ (armed' > 0 <=> timer' = "armed")
        /\ previousState \in {"STOPPED", "IDLE"} => state' = previousState /\ armed' = armed
        /\ previousState \notin {"STOPPED", "IDLE"} => state' = "SLEEPING" /\ armed' = 1
    BY <1>3, ScheduleFacts DEF finishSweep, DaemonInv, TypeOK, NoOrphanTimer, DaemonState
  <2> QED
    BY <1>3, <2>1 DEF finishSweep, DaemonInv, TypeOK, NoOrphanTimer, SleepingWillWake,
       SweepIsKnown, isSweeping, SweepResumes, SweptWhileStopped, StoppedIsQuiet, Alive, DaemonState
<1>4. CASE finishSweep /\ owner # "timer"
  BY <1>4 DEF finishSweep, DaemonInv, TypeOK, NoOrphanTimer, SleepingWillWake,
     SweepIsKnown, isSweeping, SweepResumes, SweptWhileStopped, StoppedIsQuiet, Alive, timers, DaemonState
<1> QED BY <1>1, <1>2, <1>3, <1>4

\* The timer's callbacks.
LEMMA TimerStepsInv ==
  ASSUME DaemonInv, fire \/ pushed
  PROVE  DaemonInv'
<1> USE DaemonAssumption
<1>1. CASE fire
  <2>0. TimerAfterFiring = {"fired"} /\ armed = 1
    BY <1>1 DEF fire, TimerAfterFiring, DaemonInv, TypeOK, NoOrphanTimer
  <2>1. CASE distributed
    BY <1>1, <2>0, <2>1 DEF fire, DaemonInv, TypeOK, NoOrphanTimer, SleepingWillWake,
       SweepIsKnown, isSweeping, SweepResumes, SweptWhileStopped, StoppedIsQuiet, Alive, sweep
  <2>2. CASE ~distributed /\ ~isSweeping
    BY <1>1, <2>0, <2>2 DEF fire, BeginSweep, DaemonInv, TypeOK, NoOrphanTimer,
       SleepingWillWake, SweepIsKnown, isSweeping, SweepResumes, SweptWhileStopped, StoppedIsQuiet,
       Alive, DaemonState
  <2>3. CASE ~distributed /\ isSweeping
    <3>1. scheduleNext(state, 0, "fired") /\ UNCHANGED <<sweep, pushing, distributed, process, request, cutShort>>
      BY <1>1, <2>0, <2>3 DEF fire
    <3>2. /\ armed' \in 0..1 /\ timer' \in {"null", "fired", "armed"}
          /\ (armed' > 0 <=> timer' = "armed")
          /\ state \in {"STOPPED", "IDLE"} => state' = state /\ armed' = 0
          /\ state \notin {"STOPPED", "IDLE"} => state' = "SLEEPING" /\ armed' = 1
      BY <3>1, ScheduleFacts DEF DaemonInv, TypeOK
    <3> QED
      BY <2>3, <2>0, <3>1, <3>2 DEF DaemonInv, TypeOK, NoOrphanTimer, SleepingWillWake,
         SweepIsKnown, isSweeping, SweepResumes, SweptWhileStopped, StoppedIsQuiet, Alive, sweep, DaemonState
  <2> QED BY <2>1, <2>2, <2>3
<1>2. CASE pushed
  <2>1. distributed
    BY <1>2 DEF pushed, DaemonInv, TypeOK
  <2>2. /\ armed' \in 0..1 /\ timer' \in {"null", "fired", "armed"}
        /\ (armed' > 0 <=> timer' = "armed")
        /\ state \in {"STOPPED", "IDLE"} => state' = state /\ armed' = armed
        /\ state \notin {"STOPPED", "IDLE"} => state' = "SLEEPING" /\ armed' = 1
    BY <1>2, ScheduleFacts DEF pushed, DaemonInv, TypeOK, NoOrphanTimer
  <2> QED
    BY <1>2, <2>1, <2>2 DEF pushed, DaemonInv, TypeOK, NoOrphanTimer, SleepingWillWake,
       SweepIsKnown, isSweeping, SweepResumes, SweptWhileStopped, StoppedIsQuiet, Alive, sweep, DaemonState
<1> QED BY <1>1, <1>2

LEMMA DaemonStepsInv == DaemonInv /\ [Next]_vars => DaemonInv'
<1> SUFFICES ASSUME DaemonInv, [Next]_vars PROVE DaemonInv'
  OBVIOUS
<1>1. CASE UNCHANGED vars
  BY <1>1 DEF vars, timers, sweep, DaemonInv, TypeOK, NoOrphanTimer, SleepingWillWake,
     SweepIsKnown, isSweeping, SweepResumes, SweptWhileStopped, StoppedIsQuiet, Alive
<1>2. CASE Next
  BY <1>2, OperatorStepsInv, SweepStepsInv, TimerStepsInv DEF Next
<1> QED BY <1>1, <1>2

\* However starts, stops, manual sweeps, reconfigurations and timers interleave,
\* no timer escapes stop, a sleeping daemon that was not cut short wakes up, and
\* in one process a stopped one that was not cut short stays quiet.
THEOREM DaemonSafety ==
  Spec => [](TypeOK /\ NoOrphanTimer /\ SleepingWillWake /\ StoppedIsQuiet)
<1>1. DaemonInv => TypeOK /\ NoOrphanTimer /\ SleepingWillWake /\ StoppedIsQuiet
  BY DEF DaemonInv
<1> QED BY DaemonInitInv, DaemonStepsInv, <1>1, PTL DEF Spec

-----------------------------------------------------------------------------
(* The webhooks' delivery queue.                                           *)

\* It is inductive as it stands: whoever awaits a reconciliation is given
\* nothing else before that is over, or its process dies.
QueueInv == Webhooks!TypeOK /\ Webhooks!ProcessingIsInHand

\* A reconciliation never makes a payment pending, and leaves its status one of
\* those there are.
LEMMA ReconciledFacts ==
  ASSUME NEW snap \in Webhooks!OppStatus, NEW payload \in {"fetch", "paid", "closed"},
         NEW s \in Webhooks!Reconciled(snap, payload)
  PROVE  s \in Webhooks!OppStatus /\ s # "pending"
BY DEF Webhooks!Reconciled, Webhooks!OppStatus

\* What awaits a reconciliation, and what waits for the validation of a webhook.
LEMMA JobFacts ==
  ASSUME Webhooks!TypeOK, NEW x \in Webhooks!Actor
  PROVE  /\ job[x].at = "reconcile" => job[x] \in Webhooks!Reconciling
         /\ job[x].at = "validate" => job[x] \in Webhooks!Validating
         /\ job[x] = Webhooks!Idle => job[x].at = "idle"
BY DEF Webhooks!TypeOK, Webhooks!Idle, Webhooks!Validating, Webhooks!Reconciling

LEMMA QueueInit == Webhooks!Init => QueueInv
<1> SUFFICES ASSUME Webhooks!Init PROVE QueueInv
  OBVIOUS
<1>1. opp \in [Payment -> Webhooks!OppStatus] /\ evt \in [Payment -> Webhooks!Event \cup {Webhooks!None}]
  BY DEF Webhooks!Init, Webhooks!OppStatus
<1>2. row \in [Delivery -> [status : Webhooks!RowStatus, attempts : Nat, due : BOOLEAN]]
  BY DEF Webhooks!Init, Webhooks!RowStatus
<1>3. batch \in [Webhooks!Engine -> SUBSET Webhooks!Copy]
  BY DEF Webhooks!Init
<1>4. job \in [Webhooks!Actor -> {Webhooks!Idle} \cup Webhooks!Validating \cup Webhooks!Reconciling]
  BY SMTT(30) DEF Webhooks!Init
<1>5. ops \in 0..MaxOps
  BY InboundAssumption DEF Webhooks!Init
<1>7. crashed \in BOOLEAN
  BY DEF Webhooks!Init
<1>6. Webhooks!ProcessingIsInHand
  BY DEF Webhooks!Init, Webhooks!ProcessingIsInHand, Webhooks!None
<1> QED
  BY <1>1, <1>2, <1>3, <1>4, <1>5, <1>6, <1>7 DEF QueueInv, Webhooks!TypeOK

\* Rows that keep their status, or lose the one of a row being processed, stay in
\* hand while nobody lets go of a reconciliation.
Held(jobs) ==
  \A d \in Delivery : (\E x \in Webhooks!Actor : job[x].at = "reconcile" /\ job[x].d = d)
    => \E x \in Webhooks!Actor : jobs[x].at = "reconcile" /\ jobs[x].d = d

LEMMA StaysHeld ==
  ASSUME QueueInv, Held(job'), crashed' = crashed,
         \A d \in Delivery : row'[d].status = "PROCESSING" =>
           \/ row[d].status = "PROCESSING"
           \/ \E x \in Webhooks!Actor : job'[x].at = "reconcile" /\ job'[x].d = d
  PROVE  Webhooks!ProcessingIsInHand'
BY DEF QueueInv, Webhooks!ProcessingIsInHand, Held

\* A new job for somebody who did not await a reconciliation.
LEMMA HandsOver ==
  ASSUME Webhooks!TypeOK, NEW x \in Webhooks!Actor, job[x].at # "reconcile", NEW j,
         job' = [job EXCEPT ![x] = j]
  PROVE  Held(job')
BY DEF Held, Webhooks!TypeOK

\* A copy of a delivery is processed by somebody who is idle.
LEMMA ProcessDeliveryInv ==
  ASSUME QueueInv, NEW x \in Webhooks!Actor, NEW d \in Delivery, NEW n \in Nat,
         job[x] = Webhooks!Idle, Webhooks!processDelivery(x, d, n), crashed' = crashed
  PROVE  /\ opp' \in [Payment -> Webhooks!OppStatus]
         /\ evt' \in [Payment -> Webhooks!Event \cup {Webhooks!None}]
         /\ row' \in [Delivery -> [status : Webhooks!RowStatus, attempts : Nat, due : BOOLEAN]]
         /\ job' \in [Webhooks!Actor -> {Webhooks!Idle} \cup Webhooks!Validating
                                          \cup Webhooks!Reconciling]
         /\ Webhooks!ProcessingIsInHand'
<1>0. payOf[d] \in Payment /\ eventOf[d] \in Webhooks!Event /\ job[x].at = "idle"
  BY InboundAssumption, JobFacts DEF QueueInv, Webhooks!Event
<1>1. opp' \in [Payment -> Webhooks!OppStatus]
      /\ evt' \in [Payment -> Webhooks!Event \cup {Webhooks!None}]
  BY <1>0 DEF QueueInv, Webhooks!TypeOK, Webhooks!processDelivery, Webhooks!insertOpportunity,
     Webhooks!OppStatus
<1>2. row' \in [Delivery -> [status : Webhooks!RowStatus, attempts : Nat, due : BOOLEAN]]
  <2>1. \E st \in Webhooks!RowStatus, due \in BOOLEAN :
          row' = [row EXCEPT ![d] = [status |-> st, attempts |-> n, due |-> due]]
    BY DEF Webhooks!processDelivery, Webhooks!failed, Webhooks!updateWebhookDeliveryStatus,
       Webhooks!RowStatus
  <2> QED
    BY <2>1 DEF QueueInv, Webhooks!TypeOK
<1>3. \/ UNCHANGED job /\ row'[d].status # "PROCESSING"
      \/ job' = [job EXCEPT ![x] = [at |-> "reconcile", pay |-> payOf[d], snap |-> opp[payOf[d]],
                                    payload |-> "fetch", d |-> d, n |-> n]]
  BY DEF QueueInv, Webhooks!TypeOK, Webhooks!processDelivery, Webhooks!failed,
     Webhooks!updateWebhookDeliveryStatus, Webhooks!BeginReconcile
<1>4. \A c \in Delivery \ {d} : row'[c] = row[c]
  BY DEF QueueInv, Webhooks!TypeOK, Webhooks!processDelivery, Webhooks!failed,
     Webhooks!updateWebhookDeliveryStatus
<1>5. job' \in [Webhooks!Actor -> {Webhooks!Idle} \cup Webhooks!Validating
                                    \cup Webhooks!Reconciling]
  BY <1>0, <1>3 DEF QueueInv, Webhooks!TypeOK, Webhooks!Reconciling
<1>6. Held(job')
  BY <1>0, <1>3, HandsOver DEF QueueInv, Held
<1>7. row'[d].status = "PROCESSING" =>
        \E y \in Webhooks!Actor : job'[y].at = "reconcile" /\ job'[y].d = d
  BY <1>3 DEF QueueInv, Webhooks!TypeOK
<1>8. Webhooks!ProcessingIsInHand'
  BY <1>4, <1>6, <1>7, StaysHeld
<1> QED
  BY <1>1, <1>2, <1>5, <1>8

\* A new job for a request that was idle or waited for a validation.
LEMMA RequestInvolved ==
  ASSUME QueueInv, NEW h \in Request, job[h].at # "reconcile", NEW j,
         j \in {Webhooks!Idle} \cup Webhooks!Validating \cup Webhooks!Reconciling,
         job' = [job EXCEPT ![h] = j], UNCHANGED <<row, batch, ops, crashed>>,
         opp' \in [Payment -> Webhooks!OppStatus],
         evt' \in [Payment -> Webhooks!Event \cup {Webhooks!None}]
  PROVE  QueueInv'
<1>1. h \in Webhooks!Actor
  BY DEF Webhooks!Actor
<1>2. job' \in [Webhooks!Actor -> {Webhooks!Idle} \cup Webhooks!Validating
                                    \cup Webhooks!Reconciling]
  BY <1>1 DEF QueueInv, Webhooks!TypeOK
<1>3. Held(job')
  BY <1>1, HandsOver DEF QueueInv
<1>4. Webhooks!ProcessingIsInHand'
  BY <1>3, StaysHeld
<1> QED
  BY <1>2, <1>4 DEF QueueInv, Webhooks!TypeOK

LEMMA IngestTypes ==
  ASSUME QueueInv, NEW p \in Payment, Webhooks!ingestFailed(p)
  PROVE  /\ opp' \in [Payment -> Webhooks!OppStatus]
         /\ evt' \in [Payment -> Webhooks!Event \cup {Webhooks!None}]
BY DEF QueueInv, Webhooks!TypeOK, Webhooks!ingestFailed, Webhooks!insertOpportunity,
   Webhooks!OppStatus, Webhooks!Event

\* The steps of a request.
LEMMA RequestStepsInv ==
  ASSUME QueueInv, NEW h \in Request,
         \/ Webhooks!receiveWebhook(h) \/ Webhooks!validateWebhookRejects(h)
         \/ Webhooks!handleRazorpayWebhook(h) \/ Webhooks!handleSimulatedWebhook(h)
         \/ Webhooks!postFailedEvent(h) \/ Webhooks!postPaidEvent(h)
  PROVE  QueueInv'
<1>0. h \in Webhooks!Actor /\ (job[h] = Webhooks!Idle => job[h].at = "idle")
  BY JobFacts DEF Webhooks!Actor, QueueInv
<1>1. opp \in [Payment -> Webhooks!OppStatus]
      /\ evt \in [Payment -> Webhooks!Event \cup {Webhooks!None}]
  BY DEF QueueInv, Webhooks!TypeOK
<1>2. CASE Webhooks!receiveWebhook(h)
  <2>1. PICK v \in Webhooks!Validating : job' = [job EXCEPT ![h] = v]
    BY <1>2 DEF Webhooks!receiveWebhook
  <2> QED
    BY <1>0, <1>1, <1>2, <2>1, RequestInvolved DEF Webhooks!receiveWebhook, Webhooks!rows
<1>3. CASE Webhooks!validateWebhookRejects(h)
  BY <1>1, <1>3, RequestInvolved DEF Webhooks!validateWebhookRejects, Webhooks!rows
<1>4. CASE Webhooks!handleRazorpayWebhook(h) \/ Webhooks!handleSimulatedWebhook(h)
  <2>1. /\ job[h].at = "validate" /\ UNCHANGED <<row, batch, ops, crashed>>
        /\ Webhooks!handlePaymentFailed(h) \/ Webhooks!handlePaymentLink(h)
    BY <1>4 DEF Webhooks!handleRazorpayWebhook, Webhooks!handleSimulatedWebhook, Webhooks!rows
  <2>2. job[h] \in Webhooks!Validating /\ job[h].pay \in Payment
        /\ job[h].event \in {"failed", "paid", "closed"}
    BY <1>0, <2>1, JobFacts DEF QueueInv, Webhooks!Validating
  <2>3. CASE Webhooks!handlePaymentFailed(h)
    BY <1>1, <2>1, <2>2, <2>3, IngestTypes, RequestInvolved DEF Webhooks!handlePaymentFailed
  <2>4. CASE Webhooks!handlePaymentLink(h)
    <3>1. CASE job' = [job EXCEPT ![h] = Webhooks!Idle]
      BY <1>1, <2>1, <2>4, <3>1, RequestInvolved DEF Webhooks!handlePaymentLink
    <3>2. CASE Webhooks!BeginReconcile(h, job[h].pay, job[h].event, 0, 0)
      <4> DEFINE j == [at |-> "reconcile", pay |-> job[h].pay, snap |-> opp[job[h].pay],
                       payload |-> job[h].event, d |-> 0, n |-> 0]
      <4>1. j \in Webhooks!Reconciling
        BY <1>1, <2>2, <2>4 DEF Webhooks!Reconciling, Webhooks!handlePaymentLink
      <4>2. job' = [job EXCEPT ![h] = j]
        BY <3>2 DEF Webhooks!BeginReconcile
      <4> HIDE DEF j
      <4> QED
        BY <1>1, <2>1, <2>4, <4>1, <4>2, RequestInvolved DEF Webhooks!handlePaymentLink
    <3> QED
      BY <2>4, <3>1, <3>2 DEF Webhooks!handlePaymentLink
  <2> QED
    BY <2>1, <2>3, <2>4
<1>5. CASE Webhooks!postFailedEvent(h)
  <2>1. PICK p \in Payment : Webhooks!ingestFailed(p)
    BY <1>5 DEF Webhooks!postFailedEvent
  <2>2. job' = [job EXCEPT ![h] = job[h]] /\ job[h] = Webhooks!Idle
    BY <1>0, <1>5 DEF Webhooks!postFailedEvent, QueueInv, Webhooks!TypeOK
  <2> QED
    BY <1>0, <1>5, <2>1, <2>2, IngestTypes, RequestInvolved
       DEF Webhooks!postFailedEvent, Webhooks!rows
<1>6. CASE Webhooks!postPaidEvent(h)
  <2>1. PICK p \in Payment : Webhooks!BeginReconcile(h, p, "fetch", 0, 0)
    BY <1>6 DEF Webhooks!postPaidEvent
  <2> DEFINE j == [at |-> "reconcile", pay |-> p, snap |-> opp[p], payload |-> "fetch",
                   d |-> 0, n |-> 0]
  <2>2. j \in Webhooks!Reconciling
    BY <1>1 DEF Webhooks!Reconciling
  <2>3. job' = [job EXCEPT ![h] = j]
    BY <2>1 DEF Webhooks!BeginReconcile
  <2> HIDE DEF j
  <2> QED
    BY <1>0, <1>1, <1>6, <2>2, <2>3, RequestInvolved DEF Webhooks!postPaidEvent, Webhooks!rows
<1> QED
  BY <1>2, <1>3, <1>4, <1>5, <1>6

\* The end of a reconciliation: it lets go of one delivery, and says what became
\* of that one.
LEMMA FinishInv ==
  ASSUME QueueInv, NEW x \in Webhooks!Actor, Webhooks!finish(x)
  PROVE  QueueInv' /\ ~\E p \in Payment : Webhooks!Reopened(p)
<1> DEFINE j == job[x]
<1>1. /\ j.at = "reconcile" /\ j.pay \in Payment /\ j.snap \in Webhooks!OppStatus
      /\ j.payload \in {"fetch", "paid", "closed"} /\ j.d \in Delivery \cup {0} /\ j.n \in Nat
  BY JobFacts DEF Webhooks!finish, QueueInv, Webhooks!Reconciling
<1>2. job' = [job EXCEPT ![x] = Webhooks!Idle] /\ UNCHANGED <<evt, batch, ops, crashed>>
  BY DEF Webhooks!finish
<1>3. \/ UNCHANGED opp
      \/ \E s \in Webhooks!Reconciled(j.snap, j.payload) : opp' = [opp EXCEPT ![j.pay] = s]
  BY DEF Webhooks!finish
<1>4. IF j.d = 0 THEN UNCHANGED row
      ELSE \E st \in Webhooks!RowStatus \ {"PROCESSING"}, due \in BOOLEAN :
             row' = [row EXCEPT ![j.d] = [status |-> st, attempts |-> j.n, due |-> due]]
  <2>1. \/ j.d = 0 /\ UNCHANGED row
        \/ j.d # 0 /\ (\/ Webhooks!updateWebhookDeliveryStatus(j.d, "DELIVERED", j.n, TRUE)
                       \/ Webhooks!failed(j.d, j.n))
    BY DEF Webhooks!finish
  <2> HIDE DEF j
  <2> QED
    BY <2>1 DEF Webhooks!failed, Webhooks!updateWebhookDeliveryStatus, Webhooks!RowStatus
<1> HIDE DEF j
<1>5. opp' \in [Payment -> Webhooks!OppStatus] /\ ~\E p \in Payment : Webhooks!Reopened(p)
  BY <1>1, <1>3, ReconciledFacts DEF QueueInv, Webhooks!TypeOK, Webhooks!Reopened
<1>6. /\ row' \in [Delivery -> [status : Webhooks!RowStatus, attempts : Nat, due : BOOLEAN]]
      /\ \A d \in Delivery : IF d = j.d THEN row'[d].status # "PROCESSING"
                                         ELSE row'[d] = row[d]
  <2>0. /\ row \in [Delivery -> [status : Webhooks!RowStatus, attempts : Nat, due : BOOLEAN]]
        /\ 0 \notin Delivery
    BY InboundAssumption DEF QueueInv, Webhooks!TypeOK
  <2>1. CASE j.d = 0
    BY <1>4, <2>0, <2>1
  <2>2. CASE j.d # 0
    <3>1. PICK st \in Webhooks!RowStatus \ {"PROCESSING"}, due \in BOOLEAN :
            row' = [row EXCEPT ![j.d] = [status |-> st, attempts |-> j.n, due |-> due]]
      BY <1>4, <2>2
    <3> QED
      BY <1>1, <2>0, <3>1
  <2> QED
    BY <2>1, <2>2
<1>7. job' \in [Webhooks!Actor -> {Webhooks!Idle} \cup Webhooks!Validating
                                    \cup Webhooks!Reconciling]
  BY <1>2 DEF QueueInv, Webhooks!TypeOK
<1>8. Webhooks!ProcessingIsInHand'
  <2> SUFFICES ASSUME NEW d \in Delivery, row'[d].status = "PROCESSING", ~crashed
               PROVE  \E y \in Webhooks!Actor : job'[y].at = "reconcile" /\ job'[y].d = d
    BY <1>2 DEF Webhooks!ProcessingIsInHand
  <2>1. d # j.d /\ row[d].status = "PROCESSING"
    BY <1>6
  <2>2. PICK y \in Webhooks!Actor : job[y].at = "reconcile" /\ job[y].d = d
    BY <2>1 DEF QueueInv, Webhooks!ProcessingIsInHand
  <2>3. y # x
    BY <2>1, <2>2 DEF j
  <2> QED
    BY <1>2, <2>2, <2>3 DEF QueueInv, Webhooks!TypeOK
<1> QED
  BY <1>2, <1>5, <1>6, <1>7, <1>8 DEF QueueInv, Webhooks!TypeOK


\* Copies are copies of rows that are there.
LEMMA CopiesTypes ==
  ASSUME NEW r, \A d \in Delivery : r[d].attempts \in Nat
  PROVE  Webhooks!Copies(r) \subseteq Webhooks!Copy
BY DEF Webhooks!Copies, Webhooks!Due, Webhooks!Copy

\* Rows that change while nobody's work does, and none of them becomes PROCESSING.
LEMMA RowsChange ==
  ASSUME QueueInv, UNCHANGED <<opp, evt, job, crashed>>, ops' \in 0..MaxOps,
         row' \in [Delivery -> [status : Webhooks!RowStatus, attempts : Nat, due : BOOLEAN]],
         batch' \in [Webhooks!Engine -> SUBSET Webhooks!Copy],
         \A d \in Delivery : row'[d].status = "PROCESSING" => row[d].status = "PROCESSING"
  PROVE  QueueInv'
<1>1. Webhooks!ProcessingIsInHand'
  BY StaysHeld DEF Held
<1> QED
  BY <1>1 DEF QueueInv, Webhooks!TypeOK

LEMMA RowStepsInv ==
  ASSUME QueueInv,
         \/ Webhooks!enqueue \/ Webhooks!processDueRetries
         \/ Webhooks!requeueDeadLetterWebhooks \/ Webhooks!retryDue
  PROVE  QueueInv'
<1>1. /\ row \in [Delivery -> [status : Webhooks!RowStatus, attempts : Nat, due : BOOLEAN]]
      /\ batch \in [Webhooks!Engine -> SUBSET Webhooks!Copy] /\ ops \in 0..MaxOps
  BY DEF QueueInv, Webhooks!TypeOK
<1>2. CASE Webhooks!enqueue
  <2>1. PICK d \in Delivery : row' = [row EXCEPT ![d].status = "PENDING"]
    BY <1>2 DEF Webhooks!enqueue
  <2>2. row' \in [Delivery -> [status : Webhooks!RowStatus, attempts : Nat, due : BOOLEAN]]
    BY <1>1, <2>1 DEF Webhooks!RowStatus
  <2>3. \A c \in Delivery : row'[c].status = "PROCESSING" => row[c].status = "PROCESSING"
    BY <1>1, <2>1
  <2> QED
    BY <1>1, <1>2, <2>2, <2>3, RowsChange DEF Webhooks!enqueue
<1>3. CASE Webhooks!processDueRetries
  <2>1. Webhooks!Copies(row) \subseteq Webhooks!Copy
    BY <1>1, CopiesTypes
  <2>2. batch' \in [Webhooks!Engine -> SUBSET Webhooks!Copy]
    BY <1>1, <1>3, <2>1 DEF Webhooks!processDueRetries
  <2> QED
    BY <1>1, <1>3, <2>2, RowsChange DEF Webhooks!processDueRetries
<1>4. CASE Webhooks!requeueDeadLetterWebhooks
  <2>1. row' = [d \in Delivery |->
                 IF row[d].status \in {"DEAD_LETTER", "FAILED"}
                 THEN [status |-> "PENDING", attempts |-> 0, due |-> TRUE] ELSE row[d]]
    BY <1>4 DEF Webhooks!requeueDeadLetterWebhooks
  <2>2. \A d \in Delivery :
          /\ row'[d] \in [status : Webhooks!RowStatus, attempts : Nat, due : BOOLEAN]
          /\ row'[d].status = "PROCESSING" => row[d].status = "PROCESSING"
    BY <1>1, <2>1 DEF Webhooks!RowStatus
  <2>3. row' \in [Delivery -> [status : Webhooks!RowStatus, attempts : Nat, due : BOOLEAN]]
    BY <2>1, <2>2
  <2>4. ASSUME NEW r, r = row' PROVE Webhooks!Copies(r) \subseteq Webhooks!Copy
    BY <2>3, <2>4, CopiesTypes
  <2>5. batch' \in [Webhooks!Engine -> SUBSET Webhooks!Copy]
    BY <1>1, <1>4, <2>4 DEF Webhooks!requeueDeadLetterWebhooks
  <2>6. ops' \in 0..MaxOps
    BY <1>1, <1>4, InboundAssumption DEF Webhooks!requeueDeadLetterWebhooks
  <2> QED
    BY <1>4, <2>2, <2>3, <2>5, <2>6, RowsChange DEF Webhooks!requeueDeadLetterWebhooks
<1>5. CASE Webhooks!retryDue
  <2>1. PICK d \in Delivery : row' = [row EXCEPT ![d].due = TRUE]
    BY <1>5 DEF Webhooks!retryDue
  <2>2. row' \in [Delivery -> [status : Webhooks!RowStatus, attempts : Nat, due : BOOLEAN]]
    BY <1>1, <2>1
  <2>3. \A c \in Delivery : row'[c].status = "PROCESSING" => row[c].status = "PROCESSING"
    BY <1>1, <2>1
  <2> QED
    BY <1>1, <1>5, <2>2, <2>3, RowsChange DEF Webhooks!retryDue
<1> QED
  BY <1>2, <1>3, <1>4, <1>5

\* An engine comes to its next copy; an operator replays a delivery.
LEMMA EngineStepsInv ==
  ASSUME QueueInv, NEW x \in Webhooks!Actor,
         \/ x = Webhooks!Replay /\ Webhooks!replayWebhook
         \/ x \in Webhooks!Engine /\ Webhooks!processNext(x)
  PROVE  /\ QueueInv' /\ job[x] = Webhooks!Idle
         /\ \E d \in Delivery, n \in Nat : Webhooks!processDelivery(x, d, n)
<1>1. /\ batch \in [Webhooks!Engine -> SUBSET Webhooks!Copy] /\ ops \in 0..MaxOps
      /\ crashed \in BOOLEAN /\ \A d \in Delivery : row[d].attempts \in Nat
  BY DEF QueueInv, Webhooks!TypeOK
<1>2. job[x] = Webhooks!Idle /\ crashed' = crashed
  BY DEF Webhooks!replayWebhook, Webhooks!processNext
<1>3. batch' \in [Webhooks!Engine -> SUBSET Webhooks!Copy] /\ ops' \in 0..MaxOps
  <2>1. CASE x = Webhooks!Replay /\ Webhooks!replayWebhook
    BY <1>1, <2>1, InboundAssumption DEF Webhooks!replayWebhook
  <2>2. CASE x \in Webhooks!Engine /\ Webhooks!processNext(x)
    BY <1>1, <2>2 DEF Webhooks!processNext
  <2> QED
    BY <2>1, <2>2
<1>4. PICK d \in Delivery, n \in Nat : Webhooks!processDelivery(x, d, n)
  <2>1. CASE x = Webhooks!Replay /\ Webhooks!replayWebhook
    <3>1. PICK d \in Delivery : Webhooks!processDelivery(x, d, row[d].attempts + 1)
      BY <2>1 DEF Webhooks!replayWebhook
    <3>2. row[d].attempts + 1 \in Nat
      BY <1>1
    <3> QED
      BY <3>1, <3>2
  <2>2. CASE x \in Webhooks!Engine /\ Webhooks!processNext(x)
    <3>1. PICK c \in batch[x] : Webhooks!processDelivery(x, c.d, c.attempts + 1)
      BY <2>2 DEF Webhooks!processNext
    <3>2. c.d \in Delivery /\ c.attempts + 1 \in Nat
      BY <1>1, <2>2, <3>1 DEF Webhooks!Copy
    <3> QED
      BY <3>1, <3>2
  <2> QED
    BY <2>1, <2>2
<1>5. /\ opp' \in [Payment -> Webhooks!OppStatus]
      /\ evt' \in [Payment -> Webhooks!Event \cup {Webhooks!None}]
      /\ row' \in [Delivery -> [status : Webhooks!RowStatus, attempts : Nat, due : BOOLEAN]]
      /\ job' \in [Webhooks!Actor -> {Webhooks!Idle} \cup Webhooks!Validating
                                       \cup Webhooks!Reconciling]
      /\ Webhooks!ProcessingIsInHand'
  BY <1>2, <1>4, ProcessDeliveryInv
<1> QED
  BY <1>1, <1>2, <1>3, <1>4, <1>5 DEF QueueInv, Webhooks!TypeOK

\* A process dies: from then on a delivery may be left behind.
LEMMA CrashInv ==
  ASSUME QueueInv, NEW e \in Webhooks!Engine, Webhooks!crash(e)
  PROVE  QueueInv'
<1>1. job' \in [Webhooks!Actor -> {Webhooks!Idle} \cup Webhooks!Validating
                                    \cup Webhooks!Reconciling]
  BY DEF QueueInv, Webhooks!TypeOK, Webhooks!crash
<1>2. batch' \in [Webhooks!Engine -> SUBSET Webhooks!Copy]
  BY DEF QueueInv, Webhooks!TypeOK, Webhooks!crash
<1>3. ops' \in 0..MaxOps
  BY InboundAssumption DEF QueueInv, Webhooks!TypeOK, Webhooks!crash
<1>4. crashed' = TRUE /\ UNCHANGED <<opp, evt, row>>
  BY DEF Webhooks!crash
<1> QED
  BY <1>1, <1>2, <1>3, <1>4 DEF QueueInv, Webhooks!TypeOK, Webhooks!ProcessingIsInHand

LEMMA QueueStepsInv == QueueInv /\ [Webhooks!Next]_inboundVars => QueueInv'
<1> SUFFICES ASSUME QueueInv, [Webhooks!Next]_inboundVars PROVE QueueInv'
  OBVIOUS
<1>1. CASE UNCHANGED inboundVars
  BY <1>1 DEF inboundVars, QueueInv, Webhooks!TypeOK, Webhooks!ProcessingIsInHand
<1>2. ASSUME NEW h \in Request,
             \/ Webhooks!receiveWebhook(h) \/ Webhooks!validateWebhookRejects(h)
             \/ Webhooks!handleRazorpayWebhook(h) \/ Webhooks!handleSimulatedWebhook(h)
             \/ Webhooks!postFailedEvent(h) \/ Webhooks!postPaidEvent(h)
      PROVE  QueueInv'
  BY <1>2, RequestStepsInv
<1>3. ASSUME \/ Webhooks!enqueue \/ Webhooks!processDueRetries
             \/ Webhooks!requeueDeadLetterWebhooks \/ Webhooks!retryDue
      PROVE  QueueInv'
  BY <1>3, RowStepsInv
<1>4. ASSUME NEW e \in Webhooks!Engine, Webhooks!processNext(e) PROVE QueueInv'
  BY <1>4, EngineStepsInv DEF Webhooks!Actor
<1>5. CASE Webhooks!replayWebhook
  BY <1>5, EngineStepsInv DEF Webhooks!Actor
<1>6. ASSUME NEW e \in Webhooks!Engine, Webhooks!crash(e) PROVE QueueInv'
  BY <1>6, CrashInv
<1>7. ASSUME NEW x \in Webhooks!Actor, Webhooks!finish(x) PROVE QueueInv'
  BY <1>7, FinishInv
<1> QED
  BY <1>1, <1>2, <1>3, <1>4, <1>5, <1>6, <1>7 DEF Webhooks!Next

\* Only the insert of a queued delivery overwrites the status of a payment that was
\* ingested: everybody else looks the payment up first, and a reconciliation makes none
\* pending.
LEMMA QueueStepsReopen ==
  ASSUME QueueInv, Webhooks!Next, NEW p \in Payment, Webhooks!Reopened(p)
  PROVE  \E d \in Delivery : /\ payOf[d] = p /\ kindOf[d] = "failed"
                             /\ row'[d].status = "DELIVERED" /\ evt[p] # eventOf[d]
<1>0. /\ opp \in [Payment -> Webhooks!OppStatus] /\ opp[p] # opp'[p]
      /\ row \in [Delivery -> [status : Webhooks!RowStatus, attempts : Nat, due : BOOLEAN]]
      /\ opp[p] # Webhooks!None /\ opp'[p] = "pending"
  BY DEF QueueInv, Webhooks!TypeOK, Webhooks!Reopened
<1>1. ASSUME NEW q \in Payment, Webhooks!ingestFailed(q) PROVE FALSE
  BY <1>0, <1>1 DEF Webhooks!ingestFailed, Webhooks!insertOpportunity
<1>2. ASSUME NEW h \in Request,
             \/ Webhooks!receiveWebhook(h) \/ Webhooks!validateWebhookRejects(h)
             \/ Webhooks!handleRazorpayWebhook(h) \/ Webhooks!handleSimulatedWebhook(h)
             \/ Webhooks!postFailedEvent(h) \/ Webhooks!postPaidEvent(h)
      PROVE  FALSE
  <2>1. \/ UNCHANGED opp
        \/ Webhooks!ingestFailed(job[h].pay) /\ job[h].at = "validate"
        \/ \E q \in Payment : Webhooks!ingestFailed(q)
    BY <1>2 DEF Webhooks!receiveWebhook, Webhooks!validateWebhookRejects,
       Webhooks!handleRazorpayWebhook, Webhooks!handleSimulatedWebhook,
       Webhooks!handlePaymentFailed, Webhooks!handlePaymentLink, Webhooks!postFailedEvent,
       Webhooks!postPaidEvent
  <2>2. job[h].at = "validate" => job[h].pay \in Payment
    BY JobFacts DEF QueueInv, Webhooks!Actor, Webhooks!Validating
  <2> QED
    BY <1>0, <1>1, <2>1, <2>2
<1>3. ASSUME NEW x \in Webhooks!Actor, NEW d \in Delivery, NEW n \in Nat,
             Webhooks!processDelivery(x, d, n)
      PROVE  \E c \in Delivery : /\ payOf[c] = p /\ kindOf[c] = "failed"
                                 /\ row'[c].status = "DELIVERED" /\ evt[p] # eventOf[c]
  <2>1. /\ kindOf[d] = "failed" /\ ~Webhooks!known(payOf[d], eventOf[d])
        /\ opp' = [opp EXCEPT ![payOf[d]] = "pending"]
        /\ Webhooks!updateWebhookDeliveryStatus(d, "DELIVERED", n, TRUE)
    BY <1>0, <1>3 DEF Webhooks!processDelivery, Webhooks!insertOpportunity
  <2>2. payOf[d] = p
    BY <1>0, <2>1
  <2>3. evt[p] # eventOf[d]
    BY <1>0, <2>1, <2>2 DEF Webhooks!known
  <2>4. row'[d].status = "DELIVERED"
    BY <1>0, <2>1 DEF Webhooks!updateWebhookDeliveryStatus
  <2> QED
    BY <2>1, <2>2, <2>3, <2>4
<1>4. ASSUME \/ Webhooks!enqueue \/ Webhooks!processDueRetries
             \/ Webhooks!requeueDeadLetterWebhooks \/ Webhooks!retryDue
             \/ \E e \in Webhooks!Engine : Webhooks!crash(e)
      PROVE  FALSE
  BY <1>0, <1>4 DEF Webhooks!enqueue, Webhooks!processDueRetries,
     Webhooks!requeueDeadLetterWebhooks, Webhooks!retryDue, Webhooks!crash
<1>5. ASSUME NEW x \in Webhooks!Actor,
             \/ x = Webhooks!Replay /\ Webhooks!replayWebhook
             \/ x \in Webhooks!Engine /\ Webhooks!processNext(x)
      PROVE  \E d \in Delivery, n \in Nat : Webhooks!processDelivery(x, d, n)
  BY <1>5, EngineStepsInv
<1>6. ASSUME NEW x \in Webhooks!Actor, Webhooks!finish(x) PROVE FALSE
  BY <1>6, FinishInv
<1>7. Webhooks!Engine \subseteq Webhooks!Actor /\ Webhooks!Replay \in Webhooks!Actor
  BY DEF Webhooks!Actor
<1> QED
  BY <1>2, <1>3, <1>4, <1>5, <1>6, <1>7 DEF Webhooks!Next

-----------------------------------------------------------------------------
(* The sweeps: the instance that is checked is one of those the pipeline's *)
(* proofs are about.                                                       *)

Proved == INSTANCE RecoveryPipelineProofs

LEMMA SweepsAssumed == Proved!PipelineAssumption
BY SweepsAssumption
   DEF Pipeline!RetryCap, Proved!RetryCap, IsFiniteSet, Proved!IsFiniteSet

\* Market and gate compute the same in both.
LEMMA SameMarket ==
  /\ \A st : Pipeline!Accepted(st) = Proved!Accepted(st)
  /\ \A auth : Pipeline!Targets(auth) = Proved!Targets(auth)
  /\ \A st, A : Pipeline!MarketStatus(st, A) = Proved!MarketStatus(st, A)
  /\ \A st, dec, A : Pipeline!MarketDecision(st, dec, A) = Proved!MarketDecision(st, dec, A)
<1>1. \A S : Pipeline!Cardinality(S) = Proved!Cardinality(S)
  BY DEF Pipeline!Cardinality, Proved!Cardinality, Pipeline!IsFiniteSet, Proved!IsFiniteSet
<1> QED
  BY <1>1 DEF Pipeline!Accepted, Proved!Accepted, Pipeline!Ranked, Proved!Ranked,
     Pipeline!Candidates, Proved!Candidates, Pipeline!Targets, Proved!Targets,
     Pipeline!MarketStatus, Proved!MarketStatus, Pipeline!updateStatus, Proved!updateStatus,
     Pipeline!invalidTransitions, Proved!invalidTransitions, Pipeline!Status, Proved!Status,
     Pipeline!MarketDecision, Proved!MarketDecision

LEMMA SameGate ==
  /\ \A st, dec : Pipeline!GateStatus(st, dec) = Proved!GateStatus(st, dec)
  /\ \A st, dec : Pipeline!Authorized(st, dec) = Proved!Authorized(st, dec)
BY DEF Pipeline!GateStatus, Proved!GateStatus, Pipeline!Gated, Proved!Gated,
   Pipeline!Evaluated, Proved!Evaluated, Pipeline!updateStatus, Proved!updateStatus,
   Pipeline!invalidTransitions, Proved!invalidTransitions, Pipeline!Status, Proved!Status,
   Pipeline!suggestedStatus, Proved!suggestedStatus, Pipeline!Verdict, Proved!Verdict,
   Pipeline!VerdictOf, Proved!VerdictOf, Pipeline!RuleVerdict, Proved!RuleVerdict,
   Pipeline!RetryCap, Proved!RetryCap, Pipeline!Authorized, Proved!Authorized

\* A batch starts with the same targets.
LEMMA SameBatch ==
  ASSUME NEW w, NEW st, NEW dec, Pipeline!StartBatch(w, st, dec)
  PROVE  Proved!StartBatch(w, st, dec)
<1>1. PICK A \in Pipeline!Accepted(st) :
        LET st2 == Pipeline!MarketStatus(st, A)
            dec2 == Pipeline!MarketDecision(st, dec, A)
        IN  \E T \in Pipeline!Targets(Pipeline!Authorized(st2, dec2)) :
              /\ status' = Pipeline!GateStatus(st2, dec2)
              /\ decision' = dec2
              /\ todo' = [todo EXCEPT ![w] = T]
              /\ pc' = [pc EXCEPT ![w] = IF T = {} THEN "idle" ELSE "next"]
              /\ mode' = [mode EXCEPT ![w] = "batch"]
  BY DEF Pipeline!StartBatch
<1> DEFINE st2 == Proved!MarketStatus(st, A)
           dec2 == Proved!MarketDecision(st, dec, A)
<1>2. A \in Proved!Accepted(st) /\ Pipeline!MarketStatus(st, A) = st2
      /\ Pipeline!MarketDecision(st, dec, A) = dec2
  BY <1>1, SameMarket
<1>3. /\ Pipeline!Targets(Pipeline!Authorized(st2, dec2))
           = Proved!Targets(Proved!Authorized(st2, dec2))
      /\ Pipeline!GateStatus(st2, dec2) = Proved!GateStatus(st2, dec2)
  BY SameMarket, SameGate
<1> QED
  BY <1>1, <1>2, <1>3 DEF Proved!StartBatch

\* What a worker does.
LEMMA SameWorker == ASSUME NEW w, Pipeline!WorkerStep(w) PROVE Proved!WorkerStep(w)
<1> USE DEF Pipeline!db, Proved!db, Pipeline!worker, Proved!worker, Pipeline!recon,
            Proved!recon, Pipeline!provider, Proved!provider, Pipeline!updateStatus,
            Proved!updateStatus, Pipeline!invalidTransitions, Proved!invalidTransitions,
            Pipeline!Status, Proved!Status, Pipeline!Goto, Proved!Goto, Pipeline!AnyOpp,
            Proved!AnyOpp, Pipeline!NoLink, Proved!NoLink
<1>1. ASSUME NEW o, Pipeline!executeOpportunity(w, o) PROVE Proved!executeOpportunity(w, o)
  BY <1>1 DEF Pipeline!executeOpportunity, Proved!executeOpportunity, Pipeline!Evaluated,
     Proved!Evaluated, Pipeline!suggestedStatus, Proved!suggestedStatus, Pipeline!Verdict,
     Proved!Verdict, Pipeline!VerdictOf, Proved!VerdictOf, Pipeline!RuleVerdict,
     Proved!RuleVerdict, Pipeline!RetryCap, Proved!RetryCap
<1>2. ASSUME Pipeline!getClient(w) PROVE Proved!getClient(w)
  BY <1>2 DEF Pipeline!getClient, Proved!getClient
<1>3. ASSUME Pipeline!paymentLinkCreate(w) PROVE Proved!paymentLinkCreate(w)
  BY <1>3 DEF Pipeline!paymentLinkCreate, Proved!paymentLinkCreate
<1>4. ASSUME Pipeline!callFails(w) PROVE Proved!callFails(w)
  BY <1>4 DEF Pipeline!callFails, Proved!callFails
<1>5. ASSUME Pipeline!callTimesOut(w) PROVE Proved!callTimesOut(w)
  BY <1>5 DEF Pipeline!callTimesOut, Proved!callTimesOut
<1>6. ASSUME Pipeline!responseLost(w) PROVE Proved!responseLost(w)
  BY <1>6 DEF Pipeline!responseLost, Proved!responseLost
<1>7. ASSUME Pipeline!recordLink(w) PROVE Proved!recordLink(w)
  BY <1>7 DEF Pipeline!recordLink, Proved!recordLink
<1>8. ASSUME Pipeline!referenceExists(w) PROVE Proved!referenceExists(w)
  BY <1>8 DEF Pipeline!referenceExists, Proved!referenceExists
<1>9. ASSUME Pipeline!adoptLink(w) PROVE Proved!adoptLink(w)
  BY <1>9 DEF Pipeline!adoptLink, Proved!adoptLink
<1>10. ASSUME Pipeline!executionFailed(w) PROVE Proved!executionFailed(w)
  BY <1>10 DEF Pipeline!executionFailed, Proved!executionFailed, Pipeline!RecordFailure,
     Proved!RecordFailure
<1>11. ASSUME Pipeline!finish(w) PROVE Proved!finish(w)
  BY <1>11 DEF Pipeline!finish, Proved!finish, Pipeline!RecordFailure, Proved!RecordFailure
<1> QED
  BY <1>1, <1>2, <1>3, <1>4, <1>5, <1>6, <1>7, <1>8, <1>9, <1>10, <1>11
     DEF Pipeline!WorkerStep, Proved!WorkerStep

\* What a reconciliation does.
LEMMA SameRecon ==
  ASSUME NEW r,
         \/ \E o \in Opp : Pipeline!reconcile(r, o) \/ Pipeline!webhook(r, o)
         \/ Pipeline!fetch(r) \/ Pipeline!reconcileFails(r) \/ Pipeline!commit(r)
  PROVE  \/ \E o \in Opp : Proved!reconcile(r, o) \/ Proved!webhook(r, o)
         \/ Proved!fetch(r) \/ Proved!reconcileFails(r) \/ Proved!commit(r)
<1> USE DEF Pipeline!db, Proved!db, Pipeline!worker, Proved!worker, Pipeline!recon,
            Proved!recon, Pipeline!provider, Proved!provider, Pipeline!updateStatus,
            Proved!updateStatus, Pipeline!invalidTransitions, Proved!invalidTransitions,
            Pipeline!Status, Proved!Status, Pipeline!Goto, Proved!Goto, Pipeline!AnyOpp,
            Proved!AnyOpp, Pipeline!NoLink, Proved!NoLink
<1>1. ASSUME NEW o, Pipeline!reconcile(r, o) PROVE Proved!reconcile(r, o)
  BY <1>1 DEF Pipeline!reconcile, Proved!reconcile, Pipeline!Snapshot, Proved!Snapshot
<1>2. ASSUME NEW o, Pipeline!webhook(r, o) PROVE Proved!webhook(r, o)
  BY <1>2 DEF Pipeline!webhook, Proved!webhook, Pipeline!Snapshot, Proved!Snapshot
<1>3. ASSUME Pipeline!fetch(r) PROVE Proved!fetch(r)
  BY <1>3 DEF Pipeline!fetch, Proved!fetch, Pipeline!ReconDone, Proved!ReconDone
<1>4. ASSUME Pipeline!reconcileFails(r) PROVE Proved!reconcileFails(r)
  BY <1>4 DEF Pipeline!reconcileFails, Proved!reconcileFails, Pipeline!ReconDone,
     Proved!ReconDone
<1>5. ASSUME Pipeline!commit(r) PROVE Proved!commit(r)
  BY <1>5 DEF Pipeline!commit, Proved!commit, Pipeline!targetOpportunityStatus,
     Proved!targetOpportunityStatus, Pipeline!mapRazorpayStatusToCanonicalState,
     Proved!mapRazorpayStatusToCanonicalState, Pipeline!isRecovered, Proved!isRecovered,
     Pipeline!targetExecStatus, Proved!targetExecStatus, Pipeline!ReconDone,
     Proved!ReconDone
<1> QED
  BY <1>1, <1>2, <1>3, <1>4, <1>5

\* Every step of the one is a step of the other.
LEMMA SameSteps == ASSUME Pipeline!Next PROVE Proved!Next
<1> USE DEF Pipeline!db, Proved!db, Pipeline!worker, Proved!worker, Pipeline!recon,
            Proved!recon, Pipeline!provider, Proved!provider, Pipeline!updateStatus,
            Proved!updateStatus, Pipeline!invalidTransitions, Proved!invalidTransitions,
            Pipeline!Status, Proved!Status, Pipeline!Goto, Proved!Goto, Pipeline!AnyOpp,
            Proved!AnyOpp, Pipeline!NoLink, Proved!NoLink
<1>1. ASSUME NEW o, Pipeline!scoreOpportunity(o) PROVE Proved!scoreOpportunity(o)
  BY <1>1 DEF Pipeline!scoreOpportunity, Proved!scoreOpportunity
<1>2. ASSUME NEW o, Pipeline!evaluateOpportunity(o) PROVE Proved!evaluateOpportunity(o)
  BY <1>2 DEF Pipeline!evaluateOpportunity, Proved!evaluateOpportunity, Pipeline!Evaluated,
     Proved!Evaluated, Pipeline!suggestedStatus, Proved!suggestedStatus, Pipeline!Verdict,
     Proved!Verdict, Pipeline!VerdictOf, Proved!VerdictOf, Pipeline!RuleVerdict,
     Proved!RuleVerdict, Pipeline!RetryCap, Proved!RetryCap
<1>3. ASSUME NEW o, Pipeline!lateCreate(o) PROVE Proved!lateCreate(o)
  BY <1>3 DEF Pipeline!lateCreate, Proved!lateCreate
<1>4. ASSUME NEW o, Pipeline!pay(o) PROVE Proved!pay(o)
  BY <1>4 DEF Pipeline!pay, Proved!pay
<1>5. ASSUME NEW o, Pipeline!lapse(o) PROVE Proved!lapse(o)
  BY <1>5 DEF Pipeline!lapse, Proved!lapse
<1>6. ASSUME Pipeline!runMarketAllocation PROVE Proved!runMarketAllocation
  BY <1>6, SameMarket DEF Pipeline!runMarketAllocation, Proved!runMarketAllocation
<1>7. ASSUME Pipeline!runAuthorityPipeline PROVE Proved!runAuthorityPipeline
  BY <1>7, SameMarket, SameGate DEF Pipeline!runAuthorityPipeline,
     Proved!runAuthorityPipeline
<1>8. ASSUME Pipeline!setKillSwitch PROVE Proved!setKillSwitch
  BY <1>8 DEF Pipeline!setKillSwitch, Proved!setKillSwitch
<1>9. ASSUME Pipeline!restart PROVE Proved!restart
  BY <1>9 DEF Pipeline!restart, Proved!restart
<1>10. ASSUME NEW w, Pipeline!executeAuthorizedBatch(w) PROVE Proved!executeAuthorizedBatch(w)
  BY <1>10, SameMarket, SameBatch DEF Pipeline!executeAuthorizedBatch,
     Proved!executeAuthorizedBatch
<1>11. ASSUME NEW w, Pipeline!sweepOnce(w) PROVE Proved!sweepOnce(w)
  BY <1>11, SameMarket, SameBatch DEF Pipeline!sweepOnce, Proved!sweepOnce
<1>12. ASSUME NEW w, NEW o, Pipeline!executeRoute(w, o) PROVE Proved!executeRoute(w, o)
  BY <1>12 DEF Pipeline!executeRoute, Proved!executeRoute
<1>13. ASSUME NEW w, NEW o, Pipeline!replayPendingRetries(w, o)
       PROVE  Proved!replayPendingRetries(w, o)
  BY <1>13 DEF Pipeline!replayPendingRetries, Proved!replayPendingRetries
<1>14. CASE \E o \in Opp : \/ Pipeline!scoreOpportunity(o) \/ Pipeline!evaluateOpportunity(o)
                           \/ Pipeline!lateCreate(o) \/ Pipeline!pay(o) \/ Pipeline!lapse(o)
  BY <1>14, <1>1, <1>2, <1>3, <1>4, <1>5 DEF Proved!Next
<1>15. CASE \E w \in Worker :
             \/ Pipeline!executeAuthorizedBatch(w) \/ Pipeline!sweepOnce(w)
             \/ \E o \in Opp : Pipeline!executeRoute(w, o) \/ Pipeline!replayPendingRetries(w, o)
             \/ Pipeline!WorkerStep(w)
  BY <1>15, <1>10, <1>11, <1>12, <1>13, SameWorker DEF Proved!Next
<1>16. CASE \E r \in Recon :
             \/ \E o \in Opp : Pipeline!reconcile(r, o) \/ Pipeline!webhook(r, o)
             \/ Pipeline!fetch(r) \/ Pipeline!reconcileFails(r) \/ Pipeline!commit(r)
  BY <1>16, SameRecon DEF Proved!Next
<1> QED
  BY <1>6, <1>7, <1>8, <1>9, <1>14, <1>15, <1>16 DEF Pipeline!Next, Proved!Next

\* Hence the pipeline's inductive invariant holds of the sweeps.
SweepsInv == Proved!PipelineInv

LEMMA SweepsInit == Pipeline!Init => SweepsInv
<1>1. Pipeline!Init => Proved!Init
  BY DEF Pipeline!Init, Proved!Init, Pipeline!NoLink, Proved!NoLink, Pipeline!AnyOpp, Proved!AnyOpp
<1> QED
  BY <1>1, SweepsAssumed, Proved!InitInv DEF SweepsInv

LEMMA SweepsStep ==
  ASSUME SweepsInv, Pipeline!Next \/ UNCHANGED pipelineVars PROVE SweepsInv'
<1>1. UNCHANGED pipelineVars => UNCHANGED Proved!vars
  BY DEF pipelineVars, Proved!vars, Proved!db, Proved!worker, Proved!recon, Proved!provider
<1> QED
  BY <1>1, SameSteps, SweepsAssumed, Proved!NextInv DEF SweepsInv

LEMMA SweepsSafe == SweepsInv => ForbiddenGetNoLink
BY DEF SweepsInv, Proved!PipelineInv, ForbiddenGetNoLink, Pipeline!LinkOnlyIfPermitted,
   Proved!LinkOnlyIfPermitted, Pipeline!Permitted, Proved!Permitted, Pipeline!NoLink,
   Proved!NoLink, Pipeline!RetryCap, Proved!RetryCap

-----------------------------------------------------------------------------
(* All parts, as they are checked: whichever runs, the others stay put.    *)

BackInv == DaemonInv /\ SweepsInv /\ QueueInv

LEMMA BackInvHolds == BackSpec => []BackInv
<1>1. BackInit => BackInv
  BY DaemonInitInv, SweepsInit, QueueInit DEF BackInit, BackInv
<1>2. BackInv /\ [BackNext]_<<part, vars, pipelineVars, inboundVars>> => BackInv'
  BY DaemonStepsInv, SweepsStep, QueueStepsInv DEF BackInv, BackNext
<1> QED
  BY <1>1, <1>2, PTL DEF BackSpec

\* While opportunities compete for capacity, whichever sweeps, routes, replays,
\* reconciliations and restarts overlap, a link exists at the provider only for one that
\* no rule forbids, however long ago its call was authorized.
THEOREM ForbiddenAreNeverLinked == BackSpec => []ForbiddenGetNoLink
<1>1. BackInv => ForbiddenGetNoLink
  BY SweepsSafe DEF BackInv
<1> QED
  BY BackInvHolds, <1>1, PTL

\* However the worker, replays and retry-all take the same delivery at the same time, and
\* whatever becomes of each of them, a delivery shown as PROCESSING is in somebody's hands
\* unless a process died.
THEOREM DeliveriesStayInHand == BackSpec => []DeliveriesInHand
<1>1. BackInv => DeliveriesInHand
  BY DEF BackInv, DaemonInv, QueueInv, DeliveriesInHand
<1> QED
  BY BackInvHolds, <1>1, PTL

\* However repeated webhooks, events of shops and replays interleave with reconciliations,
\* a payment that was ingested becomes pending again only with a queued delivery under an
\* event id that its row does not hold.
THEOREM OnlyAnotherDeliveryReopens == BackSpec => ReopenedOnlyByAnotherDelivery
<1> DEFINE Step ==
      \A p \in Payment : Webhooks!Reopened(p) =>
        \E d \in Delivery : /\ payOf[d] = p /\ kindOf[d] = "failed"
                            /\ row'[d].status = "DELIVERED" /\ evt[p] # eventOf[d]
<1>1. BackInv /\ [BackNext]_<<part, vars, pipelineVars, inboundVars>> => [Step]_Webhooks!vars
  <2> SUFFICES ASSUME BackInv, [BackNext]_<<part, vars, pipelineVars, inboundVars>>,
                      ~UNCHANGED inboundVars
               PROVE  Step
    BY DEF Webhooks!vars, Webhooks!rows, inboundVars
  <2>1. Webhooks!Next
    BY DEF BackNext
  <2> QED
    BY <2>1, QueueStepsReopen DEF BackInv
<1>2. ReopenedOnlyByAnotherDelivery <=> [][Step]_Webhooks!vars
  BY DEF ReopenedOnlyByAnotherDelivery, Webhooks!ReopenedOnlyByAnotherDelivery
<1> HIDE DEF Step
<1> QED
  BY BackInvHolds, <1>1, <1>2, PTL DEF BackSpec

=============================================================================
