------------------------------ MODULE JobQueue ------------------------------
(***************************************************************************)
(* The distributed job queue: the server pushes jobs onto Redis lists,     *)
(* workers pop and run them and push again those that failed.  A process   *)
(* that has lost Redis falls back to queues in its own memory.             *)
(*                                                                         *)
(* A push and a pop await Redis; what happens to the connection meanwhile  *)
(* decides what the caller gets to know.                                   *)
(***************************************************************************)
EXTENDS Integers, Sequences, SequencesExt

CONSTANTS
  Job,         \* job ids
  Worker,      \* worker processes
  typeOf,      \* a job's type, numbered in the order workers list the types
  maxAttempts,
  MaxFaults    \* disconnections, crashes and shutdowns

Process == {"server"} \cup Worker
None == [job |-> "none"]

VARIABLES
  redis,     \* the lists: copies of jobs in the order they were pushed
  mem,       \* a process's memoryQueues
  connected, \* its isRedisConnected
  storing,   \* the copy a process's push is waiting to have stored
  at,        \* a worker: popping, running, backing (push of a retry), closed
  cur,       \* the job it runs
  runs,      \* how often a job was begun
  ended,     \* done, exhausted, or open
  faults

connection == <<connected, faults>>
vars == <<redis, mem, connected, storing, at, cur, runs, ended, faults>>

Copy == [job : Job, attempts : Nat]

TypeOK ==
  /\ redis \in Seq(Copy) /\ mem \in [Process -> Seq(Copy)]
  /\ connected \in [Process -> BOOLEAN]
  /\ storing \in [Process -> Copy \cup {None}]
  /\ at \in [Worker -> {"popping", "running", "backing", "closed"}]
  /\ cur \in [Worker -> Copy \cup {None}]
  /\ runs \in [Job -> Nat]
  /\ ended \in [Job -> {"new", "open", "done", "exhausted"}]
  /\ faults \in 0..MaxFaults

Init ==
  /\ redis = <<>> /\ mem = [p \in Process |-> <<>>]
  /\ connected = [p \in Process |-> TRUE]
  /\ storing = [p \in Process |-> None]
  /\ at = [w \in Worker |-> "popping"] /\ cur = [w \in Worker |-> None]
  /\ runs = [j \in Job |-> 0] /\ ended = [j \in Job |-> "new"]
  /\ faults = 0

-----------------------------------------------------------------------------

\* Up to the await of lpush, or into memory at once.
beginPush(p, c) ==
  IF connected[p]
  THEN storing' = [storing EXCEPT ![p] = c] /\ UNCHANGED mem
  ELSE mem' = [mem EXCEPT ![p] = Append(@, c)] /\ UNCHANGED storing

\* The server's own pushes: the daemon's timer in distributed mode and others.
push ==
  /\ storing["server"] = None
  /\ \E j \in Job :
       /\ ended[j] = "new"
       /\ ended' = [ended EXCEPT ![j] = "open"]
       /\ beginPush("server", [job |-> j, attempts |-> 0])
  /\ UNCHANGED <<redis, at, cur, runs, connection>>

\* A worker whose retry is stored goes on popping.
Resume(p) == at' = [w \in Worker |-> IF w = p /\ at[w] = "backing" THEN "popping" ELSE at[w]]

\* Mutant: the fallback is taken although Redis is there.
pushedToMemory(p) ==
  /\ storing[p] # None /\ connected[p]
  /\ mem' = [mem EXCEPT ![p] = Append(@, storing[p])]
  /\ storing' = [storing EXCEPT ![p] = None]
  /\ Resume(p)
  /\ UNCHANGED <<redis, cur, runs, ended, connection>>

pushed(p) ==
  /\ storing[p] # None /\ connected[p]
  /\ redis' = Append(redis, storing[p])
  /\ storing' = [storing EXCEPT ![p] = None]
  /\ Resume(p)
  /\ UNCHANGED <<mem, cur, runs, ended, connection>>

\* lpush throws: the job goes into memory, whether or not Redis has stored it.
pushFails(p) ==
  /\ storing[p] # None /\ ~connected[p]
  /\ mem' = [mem EXCEPT ![p] = Append(@, storing[p])]
  /\ redis' \in {redis, Append(redis, storing[p])}
  /\ storing' = [storing EXCEPT ![p] = None]
  /\ Resume(p)
  /\ UNCHANGED <<cur, runs, ended, connection>>

\* The oldest copy of the first type that has one.
First(q) ==
  LET best == CHOOSE i \in DOMAIN q : \A k \in DOMAIN q :
                \/ typeOf[q[i].job] < typeOf[q[k].job]
                \/ typeOf[q[i].job] = typeOf[q[k].job] /\ i <= k
  IN  best

Run(w, c) ==
  /\ at' = [at EXCEPT ![w] = "running"] /\ cur' = [cur EXCEPT ![w] = c]
  /\ runs' = [runs EXCEPT ![c.job] = @ + 1]

\* brpop answers.  While Redis is there, memory is not looked at.
pop(w) ==
  /\ at[w] = "popping" /\ connected[w] /\ redis # <<>>
  /\ LET i == First(redis) IN Run(w, redis[i]) /\ redis' = RemoveAt(redis, i)
  /\ UNCHANGED <<mem, storing, ended, connection>>

popMemory(w) ==
  /\ at[w] = "popping" /\ ~connected[w] /\ mem[w] # <<>>
  /\ LET i == First(mem[w])
     IN  Run(w, mem[w][i]) /\ mem' = [mem EXCEPT ![w] = RemoveAt(@, i)]
  /\ UNCHANGED <<redis, storing, ended, connection>>

-----------------------------------------------------------------------------

succeed(w) ==
  /\ at[w] = "running"
  /\ ended' = [ended EXCEPT ![cur[w].job] = "done"]
  /\ at' = [at EXCEPT ![w] = "popping"] /\ cur' = [cur EXCEPT ![w] = None]
  /\ UNCHANGED <<redis, mem, storing, runs, connection>>

\* Mutant: the last attempt is counted one too late.
exhaustedOnceMore(c) == c.attempts >= maxAttempts
exhausted(c) == c.attempts + 1 >= maxAttempts

\* Mutant: the job is not pushed again.
retryForgotten(w) ==
  /\ at[w] = "running"
  /\ cur' = [cur EXCEPT ![w] = None]
  /\ at' = [at EXCEPT ![w] = "popping"]
  /\ ended' = [ended EXCEPT ![cur[w].job] = IF exhausted(cur[w]) THEN "exhausted" ELSE @]
  /\ UNCHANGED <<redis, mem, storing, runs, connection>>

\* The job threw: retry pushes it again or gives it up.
retry(w) ==
  /\ at[w] = "running"
  /\ cur' = [cur EXCEPT ![w] = None]
  /\ LET c == cur[w]
     IN  IF exhausted(c)
         THEN /\ ended' = [ended EXCEPT ![c.job] = IF @ = "done" THEN @ ELSE "exhausted"]
              /\ at' = [at EXCEPT ![w] = "popping"]
              /\ UNCHANGED <<mem, storing>>
         ELSE /\ beginPush(w, [c EXCEPT !.attempts = @ + 1])
              /\ at' = [at EXCEPT ![w] = IF connected[w] THEN "backing" ELSE "popping"]
              /\ UNCHANGED ended
  /\ UNCHANGED <<redis, runs, connection>>

-----------------------------------------------------------------------------
(* What goes wrong.                                                        *)

\* The connection breaks; a brpop that was served just before loses its job.
disconnect(p) ==
  /\ connected[p] /\ faults < MaxFaults /\ faults' = faults + 1
  /\ connected' = [connected EXCEPT ![p] = FALSE]
  /\ \/ UNCHANGED redis
     \/ p \in Worker /\ at[p] = "popping" /\ redis # <<>>
        /\ redis' = RemoveAt(redis, First(redis))
  /\ UNCHANGED <<mem, storing, at, cur, runs, ended>>

connect(p) ==
  /\ ~connected[p] /\ connected' = [connected EXCEPT ![p] = TRUE]
  /\ UNCHANGED <<redis, mem, storing, at, cur, runs, ended, faults>>

\* Shutdown waits for a job that runs, or for 30 s, and closes the queue; a pop
\* under way may still be answered, and the process exits with the job.
stop(w) ==
  /\ at[w] # "closed" /\ faults < MaxFaults /\ faults' = faults + 1
  /\ at' = [at EXCEPT ![w] = "closed"] /\ cur' = [cur EXCEPT ![w] = None]
  /\ storing' = [storing EXCEPT ![w] = None] /\ mem' = [mem EXCEPT ![w] = <<>>]
  /\ \/ UNCHANGED redis
     \/ at[w] = "popping" /\ connected[w] /\ redis # <<>>
        /\ redis' = RemoveAt(redis, First(redis))
  /\ UNCHANGED <<runs, ended, connected>>

start(w) ==
  /\ at[w] = "closed" /\ at' = [at EXCEPT ![w] = "popping"]
  /\ connected' = [connected EXCEPT ![w] = TRUE]
  /\ UNCHANGED <<redis, mem, storing, cur, runs, ended, faults>>

Next ==
  \/ push
  \/ \E p \in Process : pushed(p) \/ pushFails(p) \/ disconnect(p) \/ connect(p)
  \/ \E w \in Worker :
       pop(w) \/ popMemory(w) \/ succeed(w) \/ retry(w) \/ stop(w) \/ start(w)

Spec == Init /\ [][Next]_vars

\* Redis answers or the connection breaks, jobs end, workers go on popping.
Fairness ==
  /\ \A p \in Process : WF_vars(pushed(p) \/ pushFails(p))
  /\ \A w \in Worker :
       WF_vars(pop(w)) /\ WF_vars(popMemory(w)) /\ WF_vars(succeed(w) \/ retry(w))
FairSpec == Spec /\ Fairness

-----------------------------------------------------------------------------
(* Properties.                                                             *)

Holds(q, j) == \E i \in DOMAIN q : q[i].job = j
Somewhere(j) ==
  \/ Holds(redis, j) \/ \E p \in Process : Holds(mem[p], j) \/ storing[p].job = j
  \/ \E w \in Worker : cur[w].job = j

\* A job that was pushed is stored, under way or ended: neither a failed push
\* nor a failed run loses it.  A broken connection or a worker that stops may.
JobAccounted ==
  \A j \in Job : ended[j] = "open" /\ faults = 0 => Somewhere(j)

\* A job is begun at most maxAttempts times, however many workers there are and
\* whatever fails; Redis trouble may double a job, and no more than that: each
\* fault costs one more round of attempts at most.
RunsBounded == \A j \in Job : runs[j] <= maxAttempts * (1 + faults)

\* Unless the connection breaks or a worker stops, every job that is pushed is
\* done or exhausted in the end.
JobEnds ==
  \A j \in Job : ended[j] = "open" ~> (ended[j] \in {"done", "exhausted"} \/ faults > 0)
=============================================================================
