------------------------------ MODULE TraceStream ------------------------------
(***************************************************************************)
(* The stream of agent traces: events are kept in a bounded buffer and     *)
(* handed to the listeners of their run and of all runs; a new listener is *)
(* first sent what the buffer holds.  Events are told apart by their       *)
(* number; a stream is opened once and its run stays what it was.          *)
(***************************************************************************)
EXTENDS Integers, Sequences, FiniteSets

CONSTANTS
  Watcher,      \* trace streams opened over time
  TraceRun,     \* agent runs that are traced
  MaxTraced,    \* bound on trace events
  BufferSize,   \* MAX_BUFFER_SIZE
  ReplayLast    \* events replayed to a watcher of all runs

VARIABLES
  traced,         \* the run of every event so far (history)
  recentEvents,   \* the trace buffer: the numbers of the events it holds
  watch           \* trace streams and the events they were sent

vars == <<recentEvents, traced, watch>>

All == "ALL"
Events == DOMAIN traced
Of(e, r) == r \in {traced[e], All}

TypeOK ==
  /\ traced \in Seq(TraceRun) /\ Len(traced) <= MaxTraced
  /\ recentEvents \in Seq(Events) /\ Len(recentEvents) <= BufferSize
  /\ watch \in [Watcher -> [st : {"unused", "open", "closed"}, run : TraceRun \cup {All},
                           got : Seq(Events)]]

\* Buffered, then handed to the listeners of the run and of all runs.
broadcast(r) ==
  LET e == Len(traced) + 1 IN
  /\ Len(traced) < MaxTraced /\ traced' = Append(traced, r)
  /\ recentEvents' = LET b == Append(recentEvents, e) IN
                     IF Len(b) > BufferSize THEN Tail(b) ELSE b
  /\ watch' = [w \in Watcher |->
       IF watch[w].st = "open" /\ watch[w].run \in {r, All}
         THEN [watch[w] EXCEPT !.got = Append(@, e)] ELSE watch[w]]

\* Mutant: the oldest events of the buffer instead of the latest.
replayedFirst(r) ==
  {recentEvents[i] : i \in {j \in DOMAIN recentEvents :
     IF r = All THEN j <= ReplayLast ELSE Of(recentEvents[j], r)}}

\* What a new listener is sent: the events of its run, or the latest of all.
replayed(r) ==
  {recentEvents[i] : i \in {j \in DOMAIN recentEvents :
     IF r = All THEN j > Len(recentEvents) - ReplayLast ELSE Of(recentEvents[j], r)}}

\* The members of E in the order of the buffer, which is that of their numbers.
InOrder(E) ==
  {s \in [1..Cardinality(E) -> E] :
     /\ \A i, j \in DOMAIN s : i < j => s[i] < s[j]
     /\ \A e \in E : \E i \in DOMAIN s : s[i] = e}

\* Replay and listening begin in one turn.
subscribe(w, r) ==
  /\ watch[w].st = "unused"
  /\ \E got \in InOrder(replayed(r)) :
       watch' = [watch EXCEPT ![w] = [st |-> "open", run |-> r, got |-> got]]
  /\ UNCHANGED <<recentEvents, traced>>

unsubscribe(w) ==
  /\ watch[w].st = "open" /\ watch' = [watch EXCEPT ![w].st = "closed"]
  /\ UNCHANGED <<recentEvents, traced>>

-----------------------------------------------------------------------------
Init ==
  /\ recentEvents = <<>> /\ traced = <<>>
  /\ watch = [w \in Watcher |-> [st |-> "unused", run |-> All, got |-> <<>>]]

Next ==
  \/ \E r \in TraceRun : broadcast(r)
  \/ \E w \in Watcher : unsubscribe(w) \/ \E r \in TraceRun \cup {All} : subscribe(w, r)

Spec == Init /\ [][Next]_vars

-----------------------------------------------------------------------------
Sent(w) == {watch[w].got[i] : i \in DOMAIN watch[w].got}

\* A trace stream shows its run in order, without a gap, a repetition or a foreign event:
\* from the first event it was sent every one of its run has reached it, and so have
\* those the buffer still holds (of all runs, the latest ReplayLast), replay and
\* listening included (trace_stream.ts 40-96).
TraceHasNoGap ==
  \A w \in Watcher : watch[w].st = "open" =>
    LET got == watch[w].got
        r == watch[w].run IN
    /\ \A i, j \in DOMAIN got : i < j => got[i] < got[j]
    /\ \A e \in Sent(w) : Of(e, r)
    /\ \A e \in Sent(w), n \in Events : e < n /\ Of(n, r) => n \in Sent(w)
    /\ \A i \in DOMAIN recentEvents :
         Of(recentEvents[i], r) /\ (r = All => i > Len(recentEvents) - ReplayLast)
           => recentEvents[i] \in Sent(w)
====
