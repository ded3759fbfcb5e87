----------------------------- MODULE AgentMemory -----------------------------
(***************************************************************************)
(* What the agents remember: working memory of a mission, episodes of      *)
(* finished missions and semantic rules, all rows of one table, and the    *)
(* in-process index of episodes and rules for similarity search.  A query  *)
(* has a cutoff in time: a mission that is replayed at an earlier moment   *)
(* must recall what it recalled then (the temporal memory firewall).  An   *)
(* answer is a set of positions: the rows themselves say in which order it *)
(* lists them.                                                             *)
(***************************************************************************)
EXTENDS Naturals, Sequences, FiniteSets

CONSTANTS
  Topic,         \* failure types, semantic keys, and what a text is about
  MaxMemories,   \* bound on rows
  MaxClock,      \* bound on time
  FetchLimit,    \* rows the query for episodes fetches (50)
  RecallLimit,   \* episodes (10) or rules (20) a query returns
  TopK           \* memories a search returns (5)

VARIABLES
  memories,   \* the rows of agent_memories, in the order they were inserted
  documents,  \* the positions of those the index of this process holds
  clock

memoryVars == <<memories, documents, clock>>

MemoryType == {"working", "episodic", "semantic"}
Item == [type : MemoryType, topic : Topic, at : 0..MaxClock]

Rows == DOMAIN memories

TypeOK ==
  /\ memories \in Seq(Item) /\ Len(memories) <= MaxMemories
  /\ documents \subseteq Rows
  /\ clock \in 0..MaxClock

\* Latest first; rows of one instant in the order they were inserted.
Newer(m, n) ==
  \/ memories[m].at > memories[n].at
  \/ memories[m].at = memories[n].at /\ m < n

\* The first rows of an answer that lists S latest first, and is cut to limit.
latest(S, limit) == {n \in S : Cardinality({m \in S : Newer(m, n)}) < limit}

-----------------------------------------------------------------------------
(* Queries.                                                                *)

filterMemories(S, cutoff) == {n \in S : memories[n].at <= cutoff}
Stored(type, topic) == {n \in Rows : memories[n].type = type /\ memories[n].topic = topic}

\* Mutant: the cutoff is left to the firewall, after the limit.
getLatestEpisodes(topic, cutoff) == latest(Stored("episodic", topic), FetchLimit)

getEpisodicMemories(topic, cutoff) ==
  latest({n \in Stored("episodic", topic) : memories[n].at <= cutoff}, FetchLimit)

queryEpisodicMemories(topic, cutoff) ==
  latest(filterMemories(getEpisodicMemories(topic, cutoff), cutoff), RecallLimit)

getSemanticMemories(topic, cutoff) ==
  {n \in Stored("semantic", topic) : memories[n].at <= cutoff}

querySemanticMemories(topic, cutoff) ==
  latest(filterMemories(getSemanticMemories(topic, cutoff), cutoff), RecallLimit)

\* Texts of one topic are more alike than others, and all are alike enough.
cosineSimilarity(a, b) == IF a = b THEN 2 ELSE 1

\* The best matches first, the earliest indexed first among equals.
Closer(m, n, topic) ==
  LET alike(i) == cosineSimilarity(memories[i].topic, topic) IN
  alike(m) > alike(n) \/ (alike(m) = alike(n) /\ m < n)
closest(S, topic, limit) == {n \in S : Cardinality({m \in S : Closer(m, n, topic)}) < limit}

searchSimilar(topic, limit) == closest(documents, topic, limit)

\* Twice as many as are wanted are looked at, whatever their time.
searchSimilarMemories(topic, cutoff) ==
  closest(filterMemories(searchSimilar(topic, TopK * 2), cutoff), topic, TopK)

-----------------------------------------------------------------------------
(* Writes.                                                                 *)

insertAgentMemory(type, topic) ==
  /\ Len(memories) < MaxMemories
  /\ memories' = Append(memories, [type |-> type, topic |-> topic, at |-> clock])

addWorkingMemory(topic) ==
  insertAgentMemory("working", topic) /\ UNCHANGED <<documents, clock>>

addDocument == documents' = documents \cup {Len(memories) + 1}

recordEpisode(topic) ==
  insertAgentMemory("episodic", topic) /\ addDocument /\ UNCHANGED clock

recordSemanticMemory(topic) ==
  insertAgentMemory("semantic", topic) /\ addDocument /\ UNCHANGED clock

\* The index is not rebuilt from the table.
restart ==
  /\ documents' = {} /\ documents # {} /\ UNCHANGED <<memories, clock>>

tick ==
  /\ clock < MaxClock /\ clock' = clock + 1
  /\ UNCHANGED <<memories, documents>>

Init == memories = <<>> /\ documents = {} /\ clock = 0

Next ==
  \/ tick \/ restart
  \/ \E topic \in Topic :
       addWorkingMemory(topic) \/ recordEpisode(topic) \/ recordSemanticMemory(topic)

Spec == Init /\ [][Next]_memoryVars

-----------------------------------------------------------------------------
\* The past is settled: what the queries for episodes and for rules return for a moment
\* that has passed stays the same, however many memories are stored later; a search may
\* lose memories to later ones that match better, and finds none it did not find before
\* (memory.ts 102-116, 151-193; temporal_firewall.ts 4-14).
RecallIsSettled ==
  [][\A topic \in Topic, cutoff \in 0..MaxClock : cutoff < clock =>
       /\ queryEpisodicMemories(topic, cutoff)' = queryEpisodicMemories(topic, cutoff)
       /\ querySemanticMemories(topic, cutoff)' = querySemanticMemories(topic, cutoff)
       /\ searchSimilarMemories(topic, cutoff)' \subseteq
            searchSimilarMemories(topic, cutoff)]_memoryVars
====
