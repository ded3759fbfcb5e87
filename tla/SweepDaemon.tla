----------------------------- MODULE SweepDaemon -----------------------------
(***************************************************************************)
(* The loop of the autonomous daemon: a timer that sweeps and re-arms      *)
(* itself, and operators who start, stop, reconfigure and sweep by hand    *)
(* while a sweep is under way.  What a sweep does to the opportunities is  *)
(* RecoveryPipeline's; here only the awaits it passes count.               *)
(*                                                                         *)
(* The code between two awaits is one step.  A sweep's end and the finally *)
(* of the timer callback that awaited it follow each other without letting *)
(* anybody else in.                                                        *)
(***************************************************************************)
EXTENDS Integers

CONSTANT MaxPush \* queue pushes under way at once

ASSUME DaemonAssumption == MaxPush \in Nat \ {0}

VARIABLES
  state,         \* the daemon's state, as its status route shows it
  awaiting,      \* what the sweep under way is waiting for, if there is one
  previousState, \* of the sweep under way
  owner,         \* who awaits the sweep under way: the timer or a caller
  pushing,       \* timer callbacks that await their push to the job queue
  armed,         \* timers that will fire
  timer,         \* this.timer: null, a timer that has fired, one that will
  distributed,   \* DISTRIBUTED_WORKERS: the timer queues a job, it does not sweep
  process,       \* up, or draining once waitForDrain has been called
  request,       \* the last of start and stop
  cutShort       \* whether stop was called during a sweep of this process

timers == <<armed, timer>>
sweep == <<awaiting, previousState, owner>>
vars == <<state, sweep, pushing, timers, distributed, process, request, cutShort>>

isSweeping == awaiting # "none"

DaemonState == {"IDLE", "SWEEPING", "SLEEPING", "STOPPED"}

TypeOK ==
  /\ state \in DaemonState
  /\ awaiting \in {"none", "execution", "poll", "alerts"}
  /\ previousState \in DaemonState \ {"SWEEPING"}
  /\ owner \in {"none", "timer", "caller"}
  /\ pushing \in 0..MaxPush
  /\ armed \in 0..1
  /\ timer \in {"null", "fired", "armed"}
  /\ distributed \in BOOLEAN
  /\ process \in {"up", "draining"}
  /\ request \in {"none", "start", "stop"}
  /\ cutShort \in {"no", "yes"}

Init ==
  /\ state = "IDLE"
  /\ awaiting = "none" /\ previousState = "IDLE" /\ owner = "none"
  /\ pushing = 0
  /\ armed = 0 /\ timer = "null"
  /\ distributed \in BOOLEAN
  /\ process = "up" /\ request = "none" /\ cutShort = "no"

-----------------------------------------------------------------------------

\* Armed timers left after clearTimeout(t), with n armed before.
Cleared(n, t) == IF t = "armed" THEN n - 1 ELSE n

\* From state st, with n timers armed and t in this.timer.  The callers that
\* check for STOPPED themselves check what is checked here again.
scheduleNext(st, n, t) ==
  IF st \in {"STOPPED", "IDLE"}
  THEN state' = st /\ armed' = n /\ timer' = t
  ELSE state' = "SLEEPING" /\ armed' = Cleared(n, t) + 1 /\ timer' = "armed"

start ==
  /\ request' = "start"
  /\ IF state \in {"SWEEPING", "SLEEPING"}
     THEN UNCHANGED <<state, timers>>
     ELSE scheduleNext("SLEEPING", armed, timer)
  /\ UNCHANGED <<sweep, pushing, distributed, process, cutShort>>

Stopped ==
  /\ armed' = Cleared(armed, timer) /\ timer' = "null"
  /\ state' = "STOPPED"
  /\ request' = "stop"
  /\ cutShort' = IF isSweeping THEN "yes" ELSE cutShort

stop ==
  /\ Stopped
  /\ UNCHANGED <<sweep, pushing, distributed, process>>

\* New values apply to the next timer, which a sleeping daemon arms at once.
updateConfig ==
  /\ state = "SLEEPING"
  /\ scheduleNext(state, armed, timer)
  /\ UNCHANGED <<sweep, pushing, distributed, process, request, cutShort>>

\* Up to the first await.  With the kill switch on, or nothing to act upon, that
\* is the one in the finally block.
BeginSweep(who) ==
  /\ previousState' = state
  /\ awaiting' \in {"execution", "alerts"}
  /\ owner' = who
  /\ state' = "SWEEPING"

\* The sweep route and triggerInstantSweep.
sweepOnce ==
  /\ ~isSweeping
  /\ BeginSweep("caller")
  /\ UNCHANGED <<pushing, timers, distributed, process, request, cutShort>>

\* The batch is executed and the poll begins; or either is over, or throws.
sweepOn ==
  /\ \/ awaiting = "execution" /\ awaiting' \in {"poll", "alerts"}
     \/ awaiting = "poll" /\ awaiting' = "alerts"
  /\ UNCHANGED <<state, previousState, owner, pushing, timers,
                 distributed, process, request, cutShort>>

\* Mutant: the callback does not arm the next timer.
finishWithoutTimer ==
  /\ awaiting = "alerts"
  /\ awaiting' = "none" /\ previousState' = "IDLE" /\ owner' = "none"
  /\ state' = previousState
  /\ UNCHANGED <<timers, pushing, distributed, process, request, cutShort>>

\* The sweep is over, whatever became of it.  The state it began in is
\* restored; the timer callback that awaited it arms the next timer.
finishSweep ==
  /\ awaiting = "alerts"
  /\ awaiting' = "none" /\ previousState' = "IDLE" /\ owner' = "none"
  /\ IF owner = "timer" THEN scheduleNext(previousState, armed, timer)
     ELSE state' = previousState /\ UNCHANGED timers
  /\ UNCHANGED <<pushing, distributed, process, request, cutShort>>

\* this.timer after some timer fired: still armed only if that was another one.
TimerAfterFiring ==
  IF timer # "armed" THEN {timer}
  ELSE {"fired"} \cup (IF armed > 1 THEN {"armed"} ELSE {})

\* A timer fires: it queues a job, or sweeps, or finds a sweep under way and
\* only arms itself again.
fire ==
  /\ armed > 0
  /\ \E t \in TimerAfterFiring :
       \/ /\ distributed /\ pushing < MaxPush
          /\ pushing' = pushing + 1
          /\ armed' = armed - 1 /\ timer' = t
          /\ UNCHANGED <<state, sweep>>
       \/ /\ ~distributed /\ ~isSweeping
          /\ BeginSweep("timer")
          /\ armed' = armed - 1 /\ timer' = t
          /\ UNCHANGED pushing
       \/ /\ ~distributed /\ isSweeping
          /\ scheduleNext(state, armed - 1, t)
          /\ UNCHANGED <<sweep, pushing>>
  /\ UNCHANGED <<distributed, process, request, cutShort>>

\* The job is queued, or the queue refused it.
pushed ==
  /\ pushing > 0
  /\ pushing' = pushing - 1
  /\ scheduleNext(state, armed, timer)
  /\ UNCHANGED <<sweep, distributed, process, request, cutShort>>

\* Shutdown: stop, wait for the sweep under way or for 30 s, then exit; the
\* next process begins afresh.
waitForDrain ==
  /\ process = "up" /\ process' = "draining"
  /\ Stopped
  /\ UNCHANGED <<sweep, pushing, distributed>>

exit ==
  /\ process = "draining" /\ process' = "up"
  /\ distributed' \in BOOLEAN
  /\ state' = "IDLE"
  /\ awaiting' = "none" /\ previousState' = "IDLE" /\ owner' = "none"
  /\ pushing' = 0
  /\ armed' = 0 /\ timer' = "null"
  /\ request' = "none" /\ cutShort' = "no"

Next ==
  \/ start \/ stop \/ updateConfig \/ sweepOnce
  \/ sweepOn \/ finishSweep \/ fire \/ pushed \/ waitForDrain \/ exit

Spec == Init /\ [][Next]_vars

-----------------------------------------------------------------------------
(* Properties.                                                             *)

\* The loop goes on by itself: a timer is armed, or a callback that will arm
\* one is under way.
Alive == armed > 0 \/ pushing > 0 \/ owner = "timer"

\* Starts, stops, reconfigurations and callbacks in any order leave no timer
\* behind that stop could not cancel.
NoOrphanTimer == armed > 0 => timer = "armed"

\* A daemon that sweeps in its own process and is shown as stopped sweeps no
\* more by itself, unless it was stopped in the middle of a sweep: manual sweeps
\* of a stopped daemon and starts that come to nothing arm no timer.
StoppedIsQuiet ==
  ~distributed /\ state = "STOPPED" /\ cutShort = "no" => armed = 0

\* A daemon shown as sleeping will wake up, unless somebody stopped it in the
\* middle of a sweep: manual sweeps, late timers and reconfigurations do not
\* break the loop.
SleepingWillWake == state = "SLEEPING" /\ cutShort = "no" => Alive

\* Why: a sweep under way is known for what it is, only a stop that cuts it
\* short can change what its end restores, and a stopped daemon swept by hand
\* has no timer.
SweepIsKnown ==
  /\ isSweeping <=> owner # "none"
  /\ state = "SWEEPING" => isSweeping
  /\ isSweeping /\ cutShort = "no" => state \in {"SWEEPING", "SLEEPING"}
SweepResumes ==
  isSweeping /\ cutShort = "no" /\ previousState = "SLEEPING" => Alive
SweptWhileStopped ==
  ~distributed /\ isSweeping /\ cutShort = "no" /\ previousState = "STOPPED"
    => state = "SWEEPING" /\ armed = 0

DaemonInv ==
  /\ TypeOK /\ NoOrphanTimer /\ (timer = "armed" => armed > 0) /\ SleepingWillWake
  /\ StoppedIsQuiet
  /\ SweepIsKnown /\ SweepResumes /\ SweptWhileStopped
  /\ ~distributed => pushing = 0
=============================================================================
