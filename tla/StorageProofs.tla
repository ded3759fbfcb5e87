---------------------------- MODULE StorageProofs ----------------------------
(***************************************************************************)
(* What is stored, for any transactions, instances, jobs, workers and      *)
(* bounds: the adapter's invariant and that both engines implement         *)
(* AtomicStore; the history of the migrations; the jobs of the queue.      *)
(***************************************************************************)
EXTENDS MCStorage, FiniteSetTheorems, SequenceTheorems, WellFoundedInduction, TLAPS

(* The SQL adapter.                                                        *)

\* The effects of different activities are different statements.
LEMMA EffectsAreOwn ==
  ASSUME NEW a \in Activity, NEW b \in Activity, a # b
  PROVE  Effect(a) \cap Effect(b) = {}
BY DEF Effect

\* At most one transaction is open on the shared connection.
LEMMA OpenAlone ==
  ASSUME AdapterInv, SQLite, NEW t \in Open PROVE Open = {t}
BY DEF AdapterInv, Turns

\* A transaction that commits makes its own effect durable, all of it, and with
\* SQLite that of the statements that joined it.
LEMMA HeldIsWhole ==
  ASSUME AdapterInv, NEW t \in Tx, at[t] = "open", pending[t] = Statements
  PROVE  Held(t) = Effect(t) \cup (UNION {Effect(a) : a \in joined})
<1>1. Executed(t) = Effect(t)
  BY DEF Executed, Effect
<1>2. CASE SQLite
  <2>1. Open = {t}
    BY <1>2, OpenAlone DEF Open
  <2>2. UNION {Executed(u) : u \in Open} = Executed(t)
    BY <2>1
  <2> QED
    BY <1>1, <1>2, <2>2 DEF Held
<1>3. CASE ~SQLite
  <2>1. joined = {}
    BY <1>3 DEF AdapterInv, Turns
  <2> QED
    BY <1>1, <1>3, <2>1 DEF Held
<1> QED
  BY <1>2, <1>3

-----------------------------------------------------------------------------
(* The invariant.                                                          *)

LEMMA AdapterInit == Init => AdapterInv
<1> SUFFICES ASSUME Init PROVE AdapterInv
  OBVIOUS
<1>1. TypeOK
  BY SqlAdapterAssumption DEF Init, TypeOK, Activity
<1>2. Turns
  BY DEF Init, Turns, Open
<1>3. NothingEarly /\ AcknowledgedIsKept
  BY DEF Init, NothingEarly, AcknowledgedIsKept, Activity
<1> QED
  BY <1>1, <1>2, <1>3 DEF AdapterInv

\* Asking for a turn, getting it, giving up for want of a client, and executing a
\* statement that is not durable yet.
LEMMA QueueingInv ==
  ASSUME AdapterInv, NEW t \in Tx,
         withTransaction(t) \/ begin(t) \/ connectTimesOut(t) \/ txExecute(t)
  PROVE  AdapterInv'
<1> USE SqlAdapterAssumption DEF AdapterInv
<1>1. TypeOK'
  <2>1. CASE withTransaction(t)
    BY <2>1 DEF withTransaction, TypeOK, Activity
  <2>2. CASE begin(t)
    BY <2>2 DEF begin, TypeOK, Activity
  <2>3. CASE connectTimesOut(t)
    BY <2>3 DEF connectTimesOut, Tell, TypeOK, Activity
  <2>4. CASE txExecute(t)
    BY <2>4 DEF txExecute, TypeOK, Activity
  <2> QED
    BY <2>1, <2>2, <2>3, <2>4
<1>2. Turns'
  <2>1. CASE withTransaction(t)
    <3>1. Open' = Open
      BY <2>1 DEF withTransaction, Open, TypeOK
    <3>2. chain # <<>> => chain' # <<>> /\ Head(chain') = Head(chain)
      <4>1. chain \in Seq(Tx) /\ chain' \in {chain, Append(chain, t)}
        BY <2>1 DEF withTransaction, TypeOK
      <4>2. Append(chain, t) # <<>>
        BY <4>1, AppendProperties
      <4>3. chain # <<>> => Head(Append(chain, t)) = Head(chain)
        BY <4>1, HeadTailAppend
      <4> QED
        BY <4>1, <4>2, <4>3
    <3> QED
      BY <2>1, <3>1, <3>2 DEF withTransaction, Turns, SQLite
  <2>2. CASE begin(t)
    <3>1. Open' = Open \cup {t} /\ t \notin Open
      BY <2>2 DEF begin, mayBegin, Open, TypeOK
    <3>2. SQLite => Open = {} /\ chain # <<>> /\ Head(chain) = t
      BY <2>2, <3>1 DEF begin, mayBegin, Turns
    <3> QED
      BY <2>2, <3>1, <3>2 DEF begin, Turns, SQLite
  <2>3. CASE connectTimesOut(t)
    BY <2>3 DEF connectTimesOut, Turns, SQLite
  <2>4. CASE txExecute(t)
    BY <2>4 DEF txExecute, Turns, SQLite, Open
  <2> QED
    BY <2>1, <2>2, <2>3, <2>4
<1>3. NothingEarly'
  <2>1. CASE withTransaction(t) \/ begin(t) \/ txExecute(t)
    BY <2>1 DEF withTransaction, begin, mayBegin, txExecute, NothingEarly, TypeOK, Effect
  <2>2. CASE connectTimesOut(t)
    BY <2>2 DEF connectTimesOut, Tell, NothingEarly, TypeOK, Effect, Single, Activity
  <2> QED
    BY <2>1, <2>2
<1>4. AcknowledgedIsKept'
  BY DEF withTransaction, begin, txExecute, connectTimesOut, Tell, AcknowledgedIsKept, Effect,
         Single, Activity, TypeOK
<1> QED
  BY <1>1, <1>2, <1>3, <1>4

\* The end of a transaction.
LEMMA EndInv ==
  ASSUME AdapterInv, NEW t \in Tx, commit(t) \/ rollback(t) \/ commitReplyLost(t)
  PROVE  AdapterInv'
<1> USE SqlAdapterAssumption DEF AdapterInv
<1>1. /\ at[t] = "open" /\ at' = [at EXCEPT ![t] = "done"]
      /\ engine' = engine /\ pending' = pending /\ joined' \in {{}, joined}
      /\ answer' \in [Activity -> {"none", "resolved", "rejected"}]
      /\ \A b \in Activity \ {t} : answer'[b] = answer[b]
      /\ answer'[t] \in {"resolved", "rejected"}
  BY DEF commit, rollback, commitReplyLost, Tell, TypeOK, Activity
<1>2. /\ \/ committed' = committed \cup Effect(t) \cup (UNION {Effect(a) : a \in joined})
         \/ committed' = committed /\ answer'[t] = "rejected"
      /\ committed \subseteq committed'
  BY HeldIsWhole DEF commit, rollback, commitReplyLost, Tell, TypeOK, Activity
<1>3. joined' = {}
  BY <1>1 DEF commit, rollback, commitReplyLost, Turns
<1>4. t \in Open /\ Open' = Open \ {t}
  BY <1>1 DEF Open, TypeOK
<1>5. chain' \in Seq(Tx) /\ (SQLite => Open' = {})
  <2>1. SQLite => chain # <<>> /\ Open = {t}
    BY <1>4, OpenAlone DEF Turns
  <2>2. chain' \in {chain, Tail(chain)} /\ (~SQLite => chain' = chain)
    BY DEF commit, rollback, commitReplyLost, release
  <2>3. chain # <<>> => Tail(chain) \in Seq(Tx)
    BY DEF TypeOK
  <2> QED
    BY <1>4, <2>1, <2>2, <2>3 DEF TypeOK
<1>6. TypeOK'
  <2>1. committed' \subseteq UNION {Effect(a) : a \in Activity}
    BY <1>2 DEF TypeOK, Activity, Single
  <2>2. undone' \subseteq Activity
    BY DEF commit, rollback, commitReplyLost, TypeOK, Activity, Single
  <2>3. (UNION {Effect(a) : a \in Activity})' = UNION {Effect(a) : a \in Activity}
    BY DEF Effect, Activity, Single
  <2> QED
    BY <1>1, <1>3, <1>5, <2>1, <2>2, <2>3 DEF TypeOK, Activity, Single
<1>7. Turns'
  BY <1>1, <1>3, <1>5 DEF Turns, SQLite
<1>8. NothingEarly'
  <2>1. ASSUME NEW u \in Tx, u # t, Effect(u) \cap committed = {}
        PROVE  Effect(u) \cap committed' = {}
    <3>1. \A a \in joined \cup {t} : a \in Activity /\ a # u
      BY <2>1 DEF TypeOK, Activity, Single
    <3>2. \A a \in joined \cup {t} : Effect(u) \cap Effect(a) = {}
      BY <3>1, EffectsAreOwn DEF Activity
    <3> QED
      BY <1>2, <2>1, <3>2
  <2>2. ASSUME NEW a \in Single, answer[a] # "resolved"
        PROVE  Effect(a) \cap committed' = {}
    <3>1. a \notin joined /\ Effect(a) \cap committed = {}
      BY <2>2 DEF NothingEarly
    <3>2. \A b \in joined \cup {t} : Effect(a) \cap Effect(b) = {}
      BY <3>1, EffectsAreOwn DEF TypeOK, Activity, Single
    <3> QED
      BY <1>2, <3>1, <3>2
  <2>3. answer'[t] = "resolved" => Effect(t) \subseteq committed'
    BY <1>2
  <2>4. \A a \in Single : a \in Activity /\ a # t
    BY DEF Activity, Single
  <2>5. \A a \in Activity : Effect(a)' = Effect(a)
    BY DEF Effect
  <2>6. ASSUME NEW u \in Tx
        PROVE  /\ at'[u] # "done" => answer'[u] = "none" /\ Effect(u) \cap committed' = {}
               /\ answer'[u] = "resolved" => Effect(u) \subseteq committed'
    <3>1. CASE u = t
      BY <1>1, <2>3, <3>1 DEF TypeOK
    <3>2. CASE u # t
      <4>1. at'[u] = at[u] /\ answer'[u] = answer[u]
        BY <1>1, <3>2 DEF TypeOK, Activity
      <4> QED
        BY <1>2, <2>1, <3>2, <4>1 DEF NothingEarly
    <3> QED
      BY <3>1, <3>2
  <2>7. \A a \in Single : answer'[a] # "resolved" => Effect(a) \cap committed' = {}
    BY <1>1, <2>2, <2>4
  <2> QED
    BY <1>3, <2>6, <2>7 DEF NothingEarly, Effect
<1>9. AcknowledgedIsKept'
  <2>1. \A a \in joined : Effect(a) \subseteq committed' \/ a \in undone'
    BY HeldIsWhole DEF commit, rollback, commitReplyLost, Turns
  <2>2. undone \subseteq undone'
    BY DEF commit, rollback, commitReplyLost
  <2>3. \A a \in Single : a \in Activity /\ a # t
    BY DEF Activity, Single
  <2> QED
    BY <1>1, <1>2, <2>1, <2>2, <2>3 DEF AcknowledgedIsKept, Effect
<1> QED
  BY <1>6, <1>7, <1>8, <1>9

\* Statements outside transactions.
LEMMA StatementInv ==
  ASSUME AdapterInv, NEW a \in Single,
         \/ a \in Solo /\ execute(a)
         \/ a \in Direct /\ directWrite(a)
  PROVE  AdapterInv'
<1> USE SqlAdapterAssumption DEF AdapterInv
<1>1. /\ answer[a] = "none" /\ answer' \in [Activity -> {"none", "resolved", "rejected"}]
      /\ answer'[a] \in {"resolved", "rejected"}
      /\ \A b \in Activity \ {a} : answer'[b] = answer[b]
      /\ UNCHANGED <<engine, pending, chain, at, undone>>
  BY DEF execute, directWrite, Tell, TypeOK, Activity, Single
<1>2. \/ answer'[a] = "resolved" /\ committed' = committed \cup Effect(a) /\ joined' = joined
      \/ /\ answer'[a] = "resolved" /\ committed' = committed /\ joined' = joined \cup {a}
         /\ SQLite /\ Open # {}
      \/ answer'[a] = "rejected" /\ committed' = committed /\ joined' = joined
  BY DEF execute, directWrite, Tell, TypeOK, Activity, Single
<1>3. a \notin joined /\ Effect(a) \cap committed = {}
  BY <1>1 DEF NothingEarly
<1>4. \A b \in Activity : Effect(b)' = Effect(b)
  BY DEF Effect
<1>5. TypeOK'
  <2>1. committed' \subseteq UNION {Effect(b) : b \in Activity}
    BY <1>2 DEF TypeOK, Activity
  <2>2. (UNION {Effect(b) : b \in Activity})' = UNION {Effect(b) : b \in Activity}
    BY DEF Effect, Activity, Single
  <2> QED
    BY <1>1, <1>2, <2>1, <2>2 DEF TypeOK
<1>6. Turns'
  BY <1>1, <1>2 DEF Turns, SQLite, Open
<1>7. \A b \in Activity : b # a => Effect(b) \cap Effect(a) = {}
  BY EffectsAreOwn DEF Activity
<1>8. NothingEarly'
  <2>1. ASSUME NEW u \in Tx
        PROVE  /\ at'[u] # "done" => answer'[u] = "none" /\ Effect(u) \cap committed' = {}
               /\ answer'[u] = "resolved" => Effect(u) \subseteq committed'
    <3>1. u # a /\ answer'[u] = answer[u] /\ at'[u] = at[u]
      BY <1>1 DEF Activity, Single
    <3>2. Effect(u) \cap committed = {} => Effect(u) \cap committed' = {}
      BY <1>2, <1>7, <3>1 DEF Activity
    <3> QED
      BY <1>2, <3>1, <3>2 DEF NothingEarly
  <2>2. ASSUME NEW b \in Single, answer'[b] # "resolved"
        PROVE  b \notin joined' /\ Effect(b) \cap committed' = {}
    <3>1. CASE b = a
      BY <1>2, <1>3, <2>2, <3>1
    <3>2. CASE b # a
      BY <1>1, <1>2, <1>7, <2>2, <3>2 DEF NothingEarly, Activity
    <3> QED
      BY <3>1, <3>2
  <2>3. ASSUME NEW b \in joined'
        PROVE  Effect(b) \cap committed' = {} /\ answer'[b] # "rejected"
    <3>1. CASE b = a
      BY <1>2, <1>3, <2>3, <3>1
    <3>2. CASE b # a
      <4>1. b \in joined /\ b \in Activity
        BY <1>2, <2>3, <3>2 DEF TypeOK, Activity
      <4>2. Effect(b) \cap committed = {} /\ answer[b] # "rejected"
        BY <4>1 DEF NothingEarly
      <4> QED
        BY <1>1, <1>2, <1>7, <3>2, <4>1, <4>2
    <3> QED
      BY <3>1, <3>2
  <2> QED
    BY <2>1, <2>2, <2>3 DEF NothingEarly, Effect
<1>9. AcknowledgedIsKept'
  <2>1. ASSUME NEW b \in Single, answer'[b] = "resolved"
        PROVE  Effect(b) \subseteq committed' \/ b \in joined' \/ b \in undone'
    <3>1. CASE b = a
      BY <1>2, <2>1, <3>1
    <3>2. CASE b # a
      BY <1>1, <1>2, <2>1, <3>2 DEF AcknowledgedIsKept, Activity
    <3> QED
      BY <3>1, <3>2
  <2> QED
    BY <2>1 DEF AcknowledgedIsKept, Effect
<1> QED
  BY <1>5, <1>6, <1>8, <1>9

\* The process dies.
LEMMA CloseInv == ASSUME AdapterInv, close PROVE AdapterInv'
<1> USE SqlAdapterAssumption DEF AdapterInv
<1>1. /\ \A t \in Tx : at'[t] = IF at[t] = "new" THEN "new" ELSE "done"
      /\ joined' = {} /\ chain' = <<>> /\ UNCHANGED <<engine, committed, pending, answer>>
      /\ undone' = undone \cup joined \cup Open
  BY DEF close
<1>2. Open' = {}
  BY <1>1 DEF Open
<1>3. TypeOK'
  BY DEF close, TypeOK, Activity, Single, Open, Effect
<1>4. Turns'
  BY <1>1, <1>2 DEF Turns
<1>5. NothingEarly'
  BY <1>1 DEF NothingEarly, Effect, TypeOK
<1>6. AcknowledgedIsKept'
  BY <1>1 DEF AcknowledgedIsKept, Effect
<1> QED
  BY <1>3, <1>4, <1>5, <1>6

LEMMA AdapterStep == AdapterInv /\ [Next]_vars => AdapterInv'
<1> SUFFICES ASSUME AdapterInv, [Next]_vars PROVE AdapterInv'
  OBVIOUS
<1>1. ASSUME NEW t \in Tx,
             \/ withTransaction(t) \/ begin(t) \/ connectTimesOut(t) \/ txExecute(t)
             \/ commit(t) \/ rollback(t) \/ commitReplyLost(t)
      PROVE  AdapterInv'
  BY <1>1, QueueingInv, EndInv
<1>2. ASSUME NEW a \in Solo, execute(a) PROVE AdapterInv'
  BY <1>2, StatementInv DEF Single
<1>3. ASSUME NEW a \in Direct, directWrite(a) PROVE AdapterInv'
  BY <1>3, StatementInv DEF Single
<1>4. CASE close
  BY <1>4, CloseInv
<1>5. CASE UNCHANGED vars
  BY <1>5 DEF vars, AdapterInv, TypeOK, Turns, NothingEarly, AcknowledgedIsKept, SQLite, Open,
              Effect, Activity, Single
<1> QED
  BY <1>1, <1>2, <1>3, <1>4, <1>5 DEF Next

\* DatabaseAdapter: transactions take turns on the shared connection, nothing is
\* durable before its caller is told, and what was acknowledged is durable, held in
\* the open transaction, or was taken back with it.
THEOREM AdapterInvariant == Spec => []AdapterInv
<1>1. Init => AdapterInv
  BY AdapterInit
<1> QED
  BY <1>1, AdapterStep, PTL DEF Spec

-----------------------------------------------------------------------------
(* The refinement.                                                         *)

\* AtomicStore's notions are the adapter's.
LEMMA SameWords ==
  /\ Atomic!Activity = Activity
  /\ \A a \in Activity : Atomic!Effect(a) = Effect(a)
BY DEF Atomic!Activity, Activity, Atomic!Effect, Effect

\* A step of the adapter in which the activities of S become durable, and in which
\* the caller of c, if any, is told, is a step of AtomicStore.
LEMMA AtomicTake ==
  ASSUME NEW S \in SUBSET Activity,
         \A a \in S : Effect(a) \cap committed = {},
         \A a \in S : answer[a] # "rejected" /\ (a \in Tx => answer[a] = "none"),
         committed' = committed \cup UNION {Effect(a) : a \in S},
         NEW c \in Activity, NEW r \in {"resolved", "rejected"},
         answer[c] = "none", answer' = [answer EXCEPT ![c] = r],
         c \in Tx /\ r = "resolved" => Effect(c) \subseteq committed'
  PROVE  Atomic!Next
<1>1. Atomic!Take(S)
  <2>1. \A a \in S : Atomic!Effect(a) = Effect(a)
    BY SameWords
  <2>2. \A a \in S : Atomic!Effect(a) \cap committed = {}
    BY <2>1
  <2>3. committed' = committed \cup UNION {Atomic!Effect(a) : a \in S}
    BY <2>1
  <2> QED
    BY <2>2, <2>3 DEF Atomic!Take
<1>2. Atomic!Tell(c, r)
  BY SameWords DEF Atomic!Tell
<1> QED
  BY <1>1, <1>2, SameWords DEF Atomic!Next

\* The caller of c is told, and nothing becomes durable.
LEMMA AtomicTell ==
  ASSUME committed' = committed,
         NEW c \in Activity, NEW r \in {"resolved", "rejected"},
         answer[c] = "none", answer' = [answer EXCEPT ![c] = r],
         c \in Tx => r = "rejected"
  PROVE  Atomic!Next
<1>1. Atomic!Tell(c, r)
  BY DEF Atomic!Tell
<1> QED
  BY <1>1, SameWords DEF Atomic!Next

LEMMA AtomicStep == AdapterInv /\ [Next]_vars => [Atomic!Next]_(Atomic!vars)
<1> SUFFICES ASSUME AdapterInv, [Next]_vars PROVE [Atomic!Next]_(Atomic!vars)
  OBVIOUS
<1>1. ASSUME NEW t \in Tx, withTransaction(t) \/ begin(t) \/ txExecute(t)
      PROVE  UNCHANGED <<committed, answer>>
  BY <1>1 DEF withTransaction, begin, txExecute
<1>2. ASSUME NEW t \in Tx, commit(t) PROVE Atomic!Next
  <2> DEFINE S == {t} \cup joined
  <2>1. S \in SUBSET Activity
    BY DEF AdapterInv, TypeOK, Activity
  <2>2. answer[t] = "none" /\ Effect(t) \cap committed = {}
    BY <1>2 DEF commit, AdapterInv, NothingEarly
  <2>3. \A a \in joined : answer[a] # "rejected" /\ Effect(a) \cap committed = {} /\ a \notin Tx
    BY SqlAdapterAssumption DEF AdapterInv, NothingEarly, TypeOK, Single
  <2>4. committed' = committed \cup UNION {Effect(a) : a \in S}
    BY <1>2, HeldIsWhole DEF commit
  <2>5. Effect(t) \subseteq committed' /\ answer' = [answer EXCEPT ![t] = "resolved"]
    BY <1>2, <2>4 DEF commit, Tell
  <2> HIDE DEF S
  <2>6. \A a \in S : Effect(a) \cap committed = {}
    BY <2>2, <2>3 DEF S
  <2>7. \A a \in S : answer[a] # "rejected" /\ (a \in Tx => answer[a] = "none")
    BY <2>2, <2>3 DEF S
  <2>8. t \in Activity
    BY DEF Activity
  <2> QED
    BY <2>1, <2>2, <2>4, <2>5, <2>6, <2>7, <2>8, AtomicTake
<1>3. ASSUME NEW t \in Tx, commitReplyLost(t) PROVE Atomic!Next
  <2>1. answer[t] = "none" /\ Effect(t) \cap committed = {}
    BY <1>3 DEF commitReplyLost, AdapterInv, NothingEarly
  <2>2. joined = {}
    BY <1>3 DEF commitReplyLost, AdapterInv, Turns
  <2>3. Held(t) = Effect(t)
    BY <1>3, <2>2, HeldIsWhole DEF commitReplyLost
  <2>4. committed' = committed \cup UNION {Effect(a) : a \in {t}}
    BY <1>3, <2>3 DEF commitReplyLost
  <2>5. answer' = [answer EXCEPT ![t] = "rejected"]
    BY <1>3 DEF commitReplyLost, Tell
  <2>6. t \in Activity /\ {t} \in SUBSET Activity
    BY DEF Activity
  <2> QED
    BY <2>1, <2>4, <2>5, <2>6, AtomicTake
<1>4. ASSUME NEW t \in Tx, rollback(t) \/ connectTimesOut(t) PROVE Atomic!Next
  <2>1. committed' = committed /\ answer' = [answer EXCEPT ![t] = "rejected"]
    BY <1>4 DEF rollback, connectTimesOut, Tell
  <2>2. answer[t] = "none"
    BY <1>4 DEF rollback, connectTimesOut, AdapterInv, NothingEarly
  <2> QED
    BY <2>1, <2>2, AtomicTell DEF Activity
<1>5. ASSUME NEW a \in Single,
             \/ a \in Solo /\ execute(a)
             \/ a \in Direct /\ directWrite(a)
      PROVE  Atomic!Next
  <2>1. answer[a] = "none" /\ a \in Activity /\ a \notin Tx
    BY <1>5, SqlAdapterAssumption DEF execute, directWrite, Activity, Single
  <2>2. Effect(a) \cap committed = {}
    BY <2>1 DEF AdapterInv, NothingEarly
  <2>3. \/ committed' = committed
        \/ committed' = committed \cup UNION {Effect(b) : b \in {a}}
    BY <1>5 DEF execute, directWrite
  <2>4. PICK r \in {"resolved", "rejected"} : answer' = [answer EXCEPT ![a] = r]
    BY <1>5 DEF execute, directWrite, Tell
  <2>5. CASE committed' = committed
    BY <2>1, <2>4, <2>5, AtomicTell
  <2>6. CASE committed' = committed \cup UNION {Effect(b) : b \in {a}}
    <3>1. {a} \in SUBSET Activity
      BY <2>1
    <3> QED
      BY <2>1, <2>2, <2>4, <2>6, <3>1, AtomicTake
  <2> QED
    BY <2>3, <2>5, <2>6
<1>6. CASE close \/ UNCHANGED vars
  BY <1>6 DEF close, vars, Atomic!vars
<1> QED
  BY <1>1, <1>2, <1>3, <1>4, <1>5, <1>6 DEF Next, Single, Atomic!vars

\* withTransaction and execute: whatever joins a transaction between its BEGIN and its
\* COMMIT, and wherever the process dies, callers see the promise of AtomicStore kept.
THEOREM AdapterIsAtomic == Spec => TransactionsAreAtomic
<1>1. Init => Atomic!Init
  BY SameWords DEF Init, Atomic!Init
<1> QED
  BY <1>1, AtomicStep, AdapterInvariant, PTL DEF Spec, TransactionsAreAtomic, Atomic!Spec

-----------------------------------------------------------------------------
(* The history of the migrations.                                          *)

\* The runner of an instance has everything before its next migration behind it; a
\* rollback is alone, and takes the newest back first.
GoesUp(i, k) ==
  LET todo == instance[i].todo IN
  instance[i].at = "up" =>
    /\ Len(todo) <= 5 /\ 5 - Len(todo) <= k
    /\ \A n \in 1..Len(todo) : todo[n] = 5 - Len(todo) + n
GoesDown(i, k) ==
  LET todo == instance[i].todo IN
  instance[i].at = "down" =>
    /\ Len(todo) <= k /\ \A n \in 1..Len(todo) : todo[n] = k - n + 1
    /\ \A j \in Instance \ {i} : instance[j].at = "stopped"

RecordedUpTo(k) ==
  /\ recorded = 1..k
  /\ \A m \in 1..k : Migration!up[m] \subseteq schema
  /\ \A i \in Instance : GoesUp(i, k) /\ GoesDown(i, k)

Runner == [at : {"stopped", "up", "down", "done", "failed"}, todo : Seq(1..5)]
MigrationTypes ==
  /\ dialect \in {"SQLite", "PostgreSQL"} /\ schema \subseteq Migration!Objects
  /\ instance \in [Instance -> Runner]
  /\ \A i \in Instance : Len(instance[i].todo) <= 5
  /\ stops \in 0..MaxStops
MigrationInv == MigrationTypes /\ \E k \in 0..5 : RecordedUpTo(k)

\* What a migration makes, and what taking it back leaves of the earlier ones.
LEMMA MadeFacts ==
  /\ \A m \in 1..5 : Migration!up[m] \subseteq Migration!Objects
  /\ \A k \in 1..5 : \A m \in 1..(k - 1) : Migration!up[m] \cap Migration!down[k] = {}
  /\ Migration!Migration = 1..5 /\ Migration!initDatabase \subseteq Migration!Objects
<1>1. ASSUME NEW m \in 1..5
      PROVE  Migration!up[m] =
               CASE m = 1 -> {"core"} [] m = 2 -> {"agent"} [] m = 3 -> {"indexes"}
                 [] m = 4 -> {"tenancy", "scoped"} [] m = 5 -> {"saas"}
  <2>1. m = 1 \/ m = 2 \/ m = 3 \/ m = 4 \/ m = 5
    OBVIOUS
  <2> QED
    BY <2>1 DEF Migration!up, Migration!coreFinancialSchema, Migration!agentSchema,
       Migration!indexesAndPerformance, Migration!tenancyAndAuth, Migration!tenantScoping
<1>2. ASSUME NEW k \in 1..5
      PROVE  Migration!down[k] =
               CASE k = 1 -> {"core", "indexes", "scoped"} [] k = 2 -> {"agent", "indexes"}
                 [] k = 3 -> {"indexes"} [] k = 4 -> {"tenancy", "saas"} [] k = 5 -> {}
  <2>1. k = 1 \/ k = 2 \/ k = 3 \/ k = 4 \/ k = 5
    OBVIOUS
  <2> QED
    BY <2>1 DEF Migration!down
<1>3. ASSUME NEW k \in 1..5, NEW m \in 1..(k - 1)
      PROVE  Migration!up[m] \cap Migration!down[k] = {}
  <2>1. m \in 1..5 /\ m < k
    OBVIOUS
  <2>2. m = 1 \/ m = 2 \/ m = 3 \/ m = 4
    BY <2>1
  <2>3. k = 2 \/ k = 3 \/ k = 4 \/ k = 5
    BY <2>1
  <2> QED
    BY <1>1, <1>2, <2>1, <2>2, <2>3
<1>4. ASSUME NEW m \in 1..5 PROVE Migration!up[m] \subseteq Migration!Objects
  <2>1. m = 1 \/ m = 2 \/ m = 3 \/ m = 4 \/ m = 5
    OBVIOUS
  <2> QED
    BY <1>1, <2>1 DEF Migration!Objects
<1>5. Migration!Migration = 1..5 /\ Migration!initDatabase \subseteq Migration!Objects
  BY DEF Migration!Migration, Migration!initDatabase, Migration!createCore,
     Migration!createAgent, Migration!createServices, Migration!Objects
<1> QED
  BY <1>3, <1>4, <1>5

LEMMA MigrationCardinality == \A S : Migration!Cardinality(S) = Cardinality(S)
BY DEF Migration!Cardinality, Cardinality, Migration!IsFiniteSet, IsFiniteSet

\* What is pending is the rest of the migrations, in ascending order.
LEMMA PendingFacts ==
  ASSUME NEW k \in 0..5
  PROVE  LET todo == Migration!pending(1..k) IN
         todo \in Seq(1..5) /\ Len(todo) = 5 - k /\ \A n \in 1..(5 - k) : todo[n] = k + n
<1> DEFINE S == Migration!Migration \ (1..k)
           Ascends(s) == \A i, j \in 1..(5 - k) : i < j => s[i] < s[j]
           todo == Migration!pending(1..k)
<1>1. S = (k + 1)..5
  BY MadeFacts
<1>2. Cardinality(S) = 5 - k
  <2>1. Cardinality((k + 1)..5) = IF k + 1 > 5 THEN 0 ELSE 5 - (k + 1) + 1
    BY FS_Interval
  <2>2. Cardinality((k + 1)..5) = 5 - k
    BY <2>1
  <2> HIDE DEF S
  <2> QED
    BY <1>1, <2>2
<1>3. todo = CHOOSE s \in [1..(5 - k) -> S] : Ascends(s)
  BY <1>2, MigrationCardinality DEF Migration!pending
<1>4. \E s \in [1..(5 - k) -> S] : Ascends(s)
  <2> DEFINE s == [n \in 1..(5 - k) |-> k + n]
  <2>1. s \in [1..(5 - k) -> S] /\ Ascends(s)
    BY <1>1
  <2> QED
    BY <2>1
<1>5. todo \in [1..(5 - k) -> S] /\ Ascends(todo)
  <2> HIDE DEF Ascends, S
  <2> QED
    BY <1>3, <1>4
<1>6. todo \in Seq(1..5) /\ Len(todo) = 5 - k
  <2> DEFINE n == 5 - k
  <2>1. n \in Nat /\ S \subseteq 1..5
    BY <1>1
  <2> HIDE DEF n, S, todo
  <2>2. todo \in [1..n -> S]
    BY <1>5 DEF n
  <2>3. todo \in [1..n -> 1..5]
    BY <2>1, <2>2
  <2>4. todo \in Seq(1..5) /\ Len(todo) = n
    BY <2>1, <2>3
  <2> QED
    BY <2>4 DEF n
<1> HIDE DEF todo
<1>7. \A n \in 1..(5 - k) : todo[n] \in (k + 1)..5
  BY <1>1, <1>5
<1>8. \A n \in 1..(5 - k) : todo[n] = k + n
  <2>1. k = 0 \/ k = 1 \/ k = 2 \/ k = 3 \/ k = 4 \/ k = 5
    OBVIOUS
  <2>2. CASE k = 0
    <3>1. /\ todo[1] \in 1..5 /\ todo[2] \in 1..5 /\ todo[3] \in 1..5 /\ todo[4] \in 1..5
          /\ todo[5] \in 1..5
      BY <1>7, <2>2
    <3>2. todo[1] < todo[2] /\ todo[2] < todo[3] /\ todo[3] < todo[4] /\ todo[4] < todo[5]
      BY <1>5, <2>2
    <3> QED
      BY <2>2, <3>1, <3>2
  <2>3. CASE k = 1
    <3>1. todo[1] \in 2..5 /\ todo[2] \in 2..5 /\ todo[3] \in 2..5 /\ todo[4] \in 2..5
      BY <1>7, <2>3
    <3>2. todo[1] < todo[2] /\ todo[2] < todo[3] /\ todo[3] < todo[4]
      BY <1>5, <2>3
    <3> QED
      BY <2>3, <3>1, <3>2
  <2>4. CASE k = 2
    <3>1. todo[1] \in 3..5 /\ todo[2] \in 3..5 /\ todo[3] \in 3..5
      BY <1>7, <2>4
    <3>2. todo[1] < todo[2] /\ todo[2] < todo[3]
      BY <1>5, <2>4
    <3> QED
      BY <2>4, <3>1, <3>2
  <2>5. CASE k = 3
    <3>1. todo[1] \in 4..5 /\ todo[2] \in 4..5
      BY <1>7, <2>5
    <3>2. todo[1] < todo[2]
      BY <1>5, <2>5
    <3> QED
      BY <2>5, <3>1, <3>2
  <2>6. CASE k = 4
    BY <1>7, <2>6
  <2>7. CASE k = 5
    BY <2>7
  <2> QED
    BY <2>1, <2>2, <2>3, <2>4, <2>5, <2>6, <2>7
<1> QED
  BY <1>6, <1>8 DEF todo

\* A rollback takes the newest recorded migrations back, the newest first.
Newest(known, n) == CHOOSE m \in known : Migration!Cardinality({x \in known : x > m}) = n - 1

LEMMA RollbackFacts ==
  ASSUME NEW k \in 0..5, NEW n \in 1..k PROVE Newest(1..k, n) = k - n + 1
<1>1. \A m \in 1..k : Migration!Cardinality({x \in 1..k : x > m}) = k - m
  <2> SUFFICES ASSUME NEW m \in 1..k
               PROVE  Migration!Cardinality({x \in 1..k : x > m}) = k - m
    OBVIOUS
  <2>1. {x \in 1..k : x > m} = (m + 1)..k
    OBVIOUS
  <2>2. Cardinality((m + 1)..k) = IF m + 1 > k THEN 0 ELSE k - (m + 1) + 1
    BY FS_Interval
  <2> QED
    BY <2>1, <2>2, MigrationCardinality
<1> DEFINE Last(m) == Migration!Cardinality({x \in 1..k : x > m}) = n - 1
<1>2. \A m \in 1..k : Last(m) <=> m = k - n + 1
  BY <1>1
<1>3. k - n + 1 \in 1..k
  OBVIOUS
<1> HIDE DEF Last
<1>4. (CHOOSE m \in 1..k : Last(m)) = k - n + 1
  <2>1. \E m \in 1..k : Last(m)
    BY <1>2, <1>3
  <2>2. LET m == CHOOSE m \in 1..k : Last(m) IN m \in 1..k /\ Last(m)
    BY <2>1
  <2> QED
    BY <1>2, <2>2
<1> QED
  BY <1>4 DEF Last, Newest

\* Every step of a runner gives one instance a new record.
LEMMA RunnerStep ==
  ASSUME MigrationTypes, NEW i \in Instance, NEW r \in Runner, Len(r.todo) <= 5,
         instance' = [instance EXCEPT ![i] = r],
         dialect' = dialect, schema' \subseteq Migration!Objects, stops' \in 0..MaxStops
  PROVE  /\ MigrationTypes'
         /\ instance'[i] = r /\ \A j \in Instance \ {i} : instance'[j] = instance[j]
<1>1. instance'[i] = r /\ \A j \in Instance \ {i} : instance'[j] = instance[j]
  BY DEF MigrationTypes
<1>2. instance' \in [Instance -> Runner]
  BY DEF MigrationTypes
<1>3. \A j \in Instance : Len(instance'[j].todo) <= 5
  BY <1>1 DEF MigrationTypes
<1> QED
  BY <1>1, <1>2, <1>3 DEF MigrationTypes

LEMMA EmptyTodo == <<>> \in Seq(1..5) /\ Len(<<>>) = 0
OBVIOUS

LEMMA FirstTodo ==
  ASSUME NEW todo \in Seq(1..5), todo # <<>>
  PROVE  /\ Len(todo) \in Nat \ {0} /\ Head(todo) = todo[1] /\ Head(todo) \in 1..5
         /\ Tail(todo) \in Seq(1..5) /\ Len(Tail(todo)) = Len(todo) - 1
         /\ \A n \in 1..(Len(todo) - 1) : Tail(todo)[n] = todo[n + 1]
<1>1. Len(todo) \in Nat \ {0}
  BY EmptySeq
<1> QED
  BY <1>1, HeadTailProperties

\* The step that takes a migration off the list of its runner.
LEMMA TodoStep ==
  ASSUME MigrationTypes, NEW i \in Instance, instance[i].todo # <<>>,
         instance' = [instance EXCEPT ![i].todo = Tail(@)],
         dialect' = dialect, schema' \subseteq Migration!Objects, stops' = stops
  PROVE  /\ MigrationTypes'
         /\ instance'[i].at = instance[i].at /\ instance'[i].todo = Tail(instance[i].todo)
         /\ \A j \in Instance \ {i} : instance'[j] = instance[j]
<1> DEFINE r == [instance[i] EXCEPT !.todo = Tail(@)]
<1>1. instance[i] \in Runner /\ Len(instance[i].todo) <= 5 /\ instance[i].todo \in Seq(1..5)
  BY DEF MigrationTypes, Runner
<1>2. Tail(instance[i].todo) \in Seq(1..5) /\ Len(Tail(instance[i].todo)) <= 5
  BY <1>1, FirstTodo
<1>3. /\ r \in Runner /\ r.at = instance[i].at /\ r.todo = Tail(instance[i].todo)
      /\ Len(r.todo) <= 5
  BY <1>1, <1>2 DEF Runner
<1>4. instance' = [instance EXCEPT ![i] = r]
  BY DEF MigrationTypes
<1>5. stops' \in 0..MaxStops
  BY DEF MigrationTypes
<1> HIDE DEF r
<1> QED
  BY <1>3, <1>4, <1>5, RunnerStep

LEMMA MigrationInit == Migration!Init => MigrationInv
<1> SUFFICES ASSUME Migration!Init PROVE MigrationTypes /\ RecordedUpTo(0)
  BY DEF MigrationInv
<1>1. \A i \in Instance : instance[i] = [at |-> "stopped", todo |-> <<>>]
  BY DEF Migration!Init, Migration!Idle
<1>2. instance \in [Instance -> Runner]
  BY EmptyTodo DEF Migration!Init, Migration!Idle, Runner
<1>3. \A i \in Instance : Len(instance[i].todo) <= 5
  BY <1>1, EmptyTodo
<1>4. ASSUME NEW i \in Instance PROVE GoesUp(i, 0) /\ GoesDown(i, 0)
  <2>1. instance[i].at = "stopped"
    BY <1>1
  <2> QED
    BY <2>1 DEF GoesUp, GoesDown
<1>5. recorded = 1..0
  BY DEF Migration!Init
<1> QED
  BY <1>2, <1>3, <1>4, <1>5, MigrationAssumption DEF Migration!Init, MigrationTypes, RecordedUpTo

\* A start: the rest of the migrations is still to apply.
LEMMA StartsUp ==
  ASSUME MigrationTypes, NEW k \in 0..5, RecordedUpTo(k), NEW i \in Instance,
         Migration!migrateUp(i)
  PROVE  MigrationTypes' /\ RecordedUpTo(k)'
<1> DEFINE todo == Migration!pending(1..k)
           r == [at |-> "up", todo |-> todo]
<1>1. todo \in Seq(1..5) /\ Len(todo) = 5 - k /\ \A n \in 1..(5 - k) : todo[n] = k + n
  BY PendingFacts
<1>2. recorded = 1..k /\ recorded' = recorded
  BY DEF RecordedUpTo, Migration!migrateUp
<1>3. instance' = [instance EXCEPT ![i] = r]
  BY <1>2 DEF Migration!migrateUp, Migration!toApply, Migration!getAppliedMigrations
<1> HIDE DEF todo
<1>4. r \in Runner /\ r.at = "up" /\ r.todo = todo /\ Len(r.todo) <= 5
  BY <1>1 DEF Runner
<1>5. /\ dialect' = dialect /\ stops' \in 0..MaxStops /\ schema \subseteq schema'
      /\ schema' \subseteq Migration!Objects
  BY MadeFacts DEF MigrationTypes, Migration!migrateUp
<1> HIDE DEF r
<1>6. /\ MigrationTypes'
      /\ instance'[i] = r /\ \A j \in Instance \ {i} : instance'[j] = instance[j]
  BY <1>3, <1>4, <1>5, RunnerStep
<1>7. ASSUME NEW j \in Instance PROVE GoesUp(j, k)' /\ GoesDown(j, k)'
  <2>1. CASE j = i
    <3>1. Len(todo) <= 5 /\ 5 - Len(todo) <= k
      BY <1>1
    <3>2. \A n \in 1..Len(todo) : todo[n] = 5 - Len(todo) + n
      BY <1>1
    <3>3. instance'[j].at = "up" /\ instance'[j].todo = todo
      BY <1>4, <1>6, <2>1
    <3> QED
      BY <3>1, <3>2, <3>3 DEF GoesUp, GoesDown
  <2>2. CASE j # i
    <3>1. instance'[j] = instance[j] /\ instance[j].at # "down"
      BY <1>6, <2>2 DEF Migration!migrateUp
    <3>2. GoesUp(j, k)
      BY DEF RecordedUpTo
    <3> QED
      BY <3>1, <3>2 DEF GoesUp, GoesDown
  <2> QED
    BY <2>1, <2>2
<1> QED
  BY <1>2, <1>5, <1>6, <1>7 DEF RecordedUpTo

\* A start that gives up, ends or is killed leaves the history alone.
LEMMA StepsAside ==
  ASSUME MigrationTypes, NEW k \in 0..5, RecordedUpTo(k), NEW i \in Instance,
         Migration!applyFails(i) \/ Migration!finish(i) \/ Migration!stop(i)
  PROVE  MigrationTypes' /\ RecordedUpTo(k)'
<1>1. PICK w \in {"stopped", "done", "failed"} :
        instance' = [instance EXCEPT ![i] = [at |-> w, todo |-> <<>>]]
  BY DEF Migration!applyFails, Migration!rejects, Migration!finish, Migration!stop,
     Migration!Idle
<1> DEFINE r == [at |-> w, todo |-> <<>>]
<1>2. r \in Runner /\ r.at = w /\ Len(r.todo) <= 5
  BY EmptyTodo DEF Runner
<1>3. w = "stopped" \/ instance[i].at = "up"
  BY <1>2, <1>1 DEF Migration!applyFails, Migration!rejects, Migration!finish, Migration!stop,
     Migration!Idle, MigrationTypes
<1>4. /\ dialect' = dialect /\ schema' = schema /\ recorded' = recorded /\ stops' \in 0..MaxStops
      /\ schema' \subseteq Migration!Objects
  BY MigrationAssumption DEF MigrationTypes, Migration!applyFails, Migration!finish,
     Migration!stop
<1>5. instance' = [instance EXCEPT ![i] = r]
  BY <1>1
<1> HIDE DEF r
<1>6. /\ MigrationTypes'
      /\ instance'[i] = r /\ \A j \in Instance \ {i} : instance'[j] = instance[j]
  BY <1>2, <1>4, <1>5, RunnerStep
<1>7. ASSUME NEW j \in Instance PROVE GoesUp(j, k)' /\ GoesDown(j, k)'
  <2>1. CASE j = i
    BY <1>2, <1>6, <2>1 DEF GoesUp, GoesDown
  <2>2. CASE j # i
    <3>1. instance'[j] = instance[j] /\ GoesUp(j, k) /\ GoesDown(j, k)
      BY <1>6, <2>2 DEF RecordedUpTo
    <3>2. \A l \in Instance \ {j} : GoesDown(j, k) /\ instance[j].at = "down" =>
            instance'[l].at = "stopped"
      BY <1>2, <1>3, <1>6, <2>2 DEF GoesDown
    <3> QED
      BY <3>1, <3>2 DEF GoesUp, GoesDown
  <2> QED
    BY <2>1, <2>2
<1> QED
  BY <1>4, <1>6, <1>7 DEF RecordedUpTo

\* A runner applies a migration that is not recorded: it is the one after the last.
LEMMA AppliesTheNext ==
  ASSUME MigrationTypes, NEW k \in 0..5, RecordedUpTo(k), NEW i \in Instance,
         Migration!applyNext(i)
  PROVE  k < 5 /\ MigrationTypes' /\ RecordedUpTo(k + 1)'
<1> DEFINE todo == instance[i].todo
<1>1. instance[i].at = "up" /\ todo # <<>> /\ todo \in Seq(1..5) /\ Len(todo) <= 5
  BY DEF Migration!applyNext, MigrationTypes, Runner
<1> HIDE DEF todo
<1>2. /\ Len(todo) \in Nat \ {0} /\ Head(todo) = todo[1] /\ Len(Tail(todo)) = Len(todo) - 1
      /\ Tail(todo) \in Seq(1..5)
      /\ \A n \in 1..(Len(todo) - 1) : Tail(todo)[n] = todo[n + 1]
  BY <1>1, FirstTodo
<1>3. 5 - Len(todo) <= k /\ \A n \in 1..Len(todo) : todo[n] = 5 - Len(todo) + n
  BY <1>1 DEF RecordedUpTo, GoesUp, todo
<1>4. Head(todo) \notin 1..k
  BY DEF Migration!applyNext, RecordedUpTo, todo
<1>5. Head(todo) = 5 - Len(todo) + 1
  BY <1>2, <1>3
<1>6. Head(todo) = k + 1 /\ k < 5
  BY <1>1, <1>2, <1>3, <1>4, <1>5
<1>7. /\ dialect' = dialect /\ stops' = stops /\ recorded' = 1..k \cup {k + 1}
      /\ schema' = schema \cup Migration!up[k + 1]
      /\ instance' = [instance EXCEPT ![i].todo = Tail(@)]
  BY <1>6 DEF Migration!applyNext, RecordedUpTo, todo
<1>8. schema' \subseteq Migration!Objects
  BY <1>6, <1>7, MadeFacts DEF MigrationTypes
<1>9. /\ MigrationTypes'
      /\ instance'[i].at = "up" /\ instance'[i].todo = Tail(todo)
      /\ \A j \in Instance \ {i} : instance'[j] = instance[j]
  BY <1>1, <1>7, <1>8, TodoStep DEF todo
<1>10. recorded' = 1..(k + 1)
  BY <1>7
<1>11. \A m \in 1..(k + 1) : Migration!up[m] \subseteq schema'
  <2> SUFFICES ASSUME NEW m \in 1..(k + 1) PROVE Migration!up[m] \subseteq schema'
    OBVIOUS
  <2>1. CASE m = k + 1
    BY <1>7, <2>1
  <2>2. CASE m \in 1..k
    BY <1>7, <2>2 DEF RecordedUpTo
  <2> QED
    BY <2>1, <2>2
<1>12. ASSUME NEW j \in Instance PROVE GoesUp(j, k + 1)'
  <2>1. CASE j = i
    <3>1. Len(Tail(todo)) <= 5 /\ 5 - Len(Tail(todo)) <= k + 1
      BY <1>1, <1>2, <1>3
    <3>2. \A n \in 1..Len(Tail(todo)) : Tail(todo)[n] = 5 - Len(Tail(todo)) + n
      <4> SUFFICES ASSUME NEW n \in 1..Len(Tail(todo))
                   PROVE  Tail(todo)[n] = 5 - Len(Tail(todo)) + n
        OBVIOUS
      <4>1. n \in 1..(Len(todo) - 1) /\ n + 1 \in 1..Len(todo)
        BY <1>2
      <4> QED
        BY <1>2, <1>3, <4>1
    <3> QED
      BY <1>9, <2>1, <3>1, <3>2 DEF GoesUp
  <2>2. CASE j # i
    <3>1. instance'[j] = instance[j] /\ GoesUp(j, k)
      BY <1>9, <2>2 DEF RecordedUpTo
    <3>2. Len(instance[j].todo) \in Nat
      <4>1. instance[j].todo \in Seq(1..5)
        BY DEF MigrationTypes, Runner
      <4> QED
        BY <4>1, LenProperties
    <3>3. 5 - Len(instance[j].todo) <= k => 5 - Len(instance[j].todo) <= k + 1
      <4>1. \A x \in Nat : 5 - x <= k => 5 - x <= k + 1
        OBVIOUS
      <4> QED
        BY <3>2, <4>1
    <3>4. CASE instance[j].at # "up"
      BY <3>1, <3>4 DEF GoesUp
    <3>5. CASE instance[j].at = "up"
      <4> DEFINE l == instance[j].todo
      <4>1. /\ Len(l) <= 5 /\ 5 - Len(l) <= k + 1
            /\ \A n \in 1..Len(l) : l[n] = 5 - Len(l) + n
        BY <3>1, <3>3, <3>5 DEF GoesUp
      <4>2. instance'[j].todo = l
        BY <3>1
      <4> HIDE DEF l
      <4> QED
        BY <4>1, <4>2 DEF GoesUp
    <3> QED
      BY <3>4, <3>5
  <2> QED
    BY <2>1, <2>2
<1>13. ASSUME NEW j \in Instance PROVE instance'[j].at # "down"
  BY <1>1, <1>9 DEF RecordedUpTo, GoesDown
<1> QED
  BY <1>6, <1>9, <1>10, <1>11, <1>12, <1>13 DEF RecordedUpTo, GoesDown

\* A rollback begins with the newest migration, and alone.
LEMMA StartsDown ==
  ASSUME MigrationTypes, NEW k \in 0..5, RecordedUpTo(k), NEW i \in Instance,
         NEW steps \in Migration!Migration, Migration!migrateDown(i, steps)
  PROVE  MigrationTypes' /\ RecordedUpTo(k)'
<1>1. recorded = 1..k /\ recorded' = recorded /\ steps \in 1..5
  BY MadeFacts DEF RecordedUpTo, Migration!migrateDown
<1>2. steps <= k
  <2>1. Cardinality(1..k) = IF 1 > k THEN 0 ELSE k - 1 + 1
    BY FS_Interval
  <2>2. Migration!Cardinality(recorded) = k
    BY <1>1, <2>1, MigrationCardinality
  <2> QED
    BY <2>2 DEF Migration!migrateDown
<1> DEFINE todo == [n \in 1..steps |-> k - n + 1]
           r == [at |-> "down", todo |-> todo]
<1>3. \A n \in 1..steps : Newest(recorded, n) = k - n + 1
  <2> SUFFICES ASSUME NEW n \in 1..steps PROVE Newest(recorded, n) = k - n + 1
    OBVIOUS
  <2>1. n \in 1..k
    BY <1>1, <1>2
  <2> QED
    BY <1>1, <2>1, RollbackFacts
<1>4. instance' = [instance EXCEPT ![i] = r]
  <2>1. instance' = [instance EXCEPT ![i] =
                      [at |-> "down", todo |-> [n \in 1..steps |-> Newest(recorded, n)]]]
    BY DEF Migration!migrateDown, Newest
  <2>2. [n \in 1..steps |-> Newest(recorded, n)] = todo
    BY <1>3
  <2> QED
    BY <2>1, <2>2
<1>5. todo \in Seq(1..5) /\ Len(todo) = steps /\ \A n \in 1..steps : todo[n] = k - n + 1
  BY <1>1, <1>2
<1> HIDE DEF todo
<1>6. r \in Runner /\ r.at = "down" /\ r.todo = todo /\ Len(r.todo) <= 5
  BY <1>1, <1>5 DEF Runner
<1>7. /\ dialect' = dialect /\ stops' \in 0..MaxStops /\ schema' = schema
      /\ schema' \subseteq Migration!Objects
  BY DEF MigrationTypes, Migration!migrateDown
<1> HIDE DEF r
<1>8. /\ MigrationTypes'
      /\ instance'[i] = r /\ \A j \in Instance \ {i} : instance'[j] = instance[j]
  BY <1>4, <1>6, <1>7, RunnerStep
<1>9. \A j \in Instance : instance[j].at = "stopped"
  BY DEF Migration!migrateDown
<1>10. ASSUME NEW j \in Instance PROVE GoesUp(j, k)' /\ GoesDown(j, k)'
  BY <1>2, <1>5, <1>6, <1>8, <1>9 DEF GoesUp, GoesDown
<1> QED
  BY <1>1, <1>7, <1>8, <1>10 DEF RecordedUpTo

\* What a rollback takes back is the last one recorded.
LEMMA UndoesTheLast ==
  ASSUME MigrationTypes, NEW k \in 0..5, RecordedUpTo(k), NEW i \in Instance,
         Migration!undoNext(i)
  PROVE  k > 0 /\ MigrationTypes' /\ RecordedUpTo(k - 1)'
<1> DEFINE todo == instance[i].todo
<1>1. instance[i].at = "down" /\ todo # <<>> /\ todo \in Seq(1..5)
  BY DEF Migration!undoNext, MigrationTypes, Runner
<1> HIDE DEF todo
<1>2. /\ Len(todo) \in Nat \ {0} /\ Head(todo) = todo[1] /\ Len(Tail(todo)) = Len(todo) - 1
      /\ \A n \in 1..(Len(todo) - 1) : Tail(todo)[n] = todo[n + 1]
  BY <1>1, FirstTodo
<1>3. /\ Len(todo) <= k /\ \A n \in 1..Len(todo) : todo[n] = k - n + 1
      /\ \A j \in Instance \ {i} : instance[j].at = "stopped"
  BY <1>1 DEF RecordedUpTo, GoesDown, todo
<1>4. Head(todo) = k /\ k > 0
  BY <1>2, <1>3
<1>5. /\ dialect' = dialect /\ stops' = stops /\ recorded' = 1..k \ {k}
      /\ schema' = schema \ Migration!down[k]
      /\ instance' = [instance EXCEPT ![i].todo = Tail(@)]
  BY <1>4 DEF Migration!undoNext, RecordedUpTo, todo
<1>6. /\ MigrationTypes'
      /\ instance'[i].at = "down" /\ instance'[i].todo = Tail(todo)
      /\ \A j \in Instance \ {i} : instance'[j] = instance[j]
  <2>1. schema' \subseteq Migration!Objects
    BY <1>5 DEF MigrationTypes
  <2> QED
    BY <1>1, <1>5, <2>1, TodoStep DEF todo
<1>7. recorded' = 1..(k - 1)
  BY <1>5
<1>8. \A m \in 1..(k - 1) : Migration!up[m] \subseteq schema'
  <2> SUFFICES ASSUME NEW m \in 1..(k - 1) PROVE Migration!up[m] \subseteq schema'
    OBVIOUS
  <2>1. Migration!up[m] \subseteq schema
    BY DEF RecordedUpTo
  <2>2. Migration!up[m] \cap Migration!down[k] = {}
    BY <1>4, MadeFacts
  <2> QED
    BY <1>5, <2>1, <2>2
<1>9. ASSUME NEW j \in Instance PROVE GoesUp(j, k - 1)' /\ GoesDown(j, k - 1)'
  <2>1. CASE j = i
    <3>1. Len(Tail(todo)) <= k - 1
      BY <1>2, <1>3
    <3>2. \A n \in 1..Len(Tail(todo)) : Tail(todo)[n] = (k - 1) - n + 1
      <4> SUFFICES ASSUME NEW n \in 1..Len(Tail(todo))
                   PROVE  Tail(todo)[n] = (k - 1) - n + 1
        OBVIOUS
      <4>1. n \in 1..(Len(todo) - 1) /\ n + 1 \in 1..Len(todo)
        BY <1>2
      <4> QED
        BY <1>2, <1>3, <4>1
    <3> QED
      BY <1>3, <1>6, <2>1, <3>1, <3>2 DEF GoesUp, GoesDown
  <2>2. CASE j # i
    BY <1>3, <1>6, <2>2 DEF GoesUp, GoesDown
  <2> QED
    BY <2>1, <2>2
<1> QED
  BY <1>4, <1>6, <1>7, <1>8, <1>9 DEF RecordedUpTo

LEMMA MigrationStep == MigrationInv /\ Migration!Next => MigrationInv'
<1> SUFFICES ASSUME MigrationTypes, NEW k \in 0..5, RecordedUpTo(k), Migration!Next
             PROVE  MigrationInv'
  BY DEF MigrationInv
<1> PICK i \in Instance :
      \/ Migration!migrateUp(i) \/ Migration!applyNext(i) \/ Migration!applyFails(i)
      \/ Migration!undoNext(i) \/ Migration!finish(i) \/ Migration!stop(i)
      \/ \E steps \in Migration!Migration : Migration!migrateDown(i, steps)
  BY DEF Migration!Next
<1>1. (\E l \in 0..5 : MigrationTypes' /\ RecordedUpTo(l)') => MigrationInv'
  BY DEF MigrationInv
<1>2. CASE Migration!applyNext(i)
  <2>1. k < 5 /\ MigrationTypes' /\ RecordedUpTo(k + 1)'
    BY <1>2, AppliesTheNext
  <2>2. k + 1 \in 0..5
    BY <2>1
  <2> QED
    BY <1>1, <2>1, <2>2
<1>3. CASE Migration!undoNext(i)
  <2>1. k > 0 /\ MigrationTypes' /\ RecordedUpTo(k - 1)'
    BY <1>3, UndoesTheLast
  <2>2. k - 1 \in 0..5
    BY <2>1
  <2> QED
    BY <1>1, <2>1, <2>2
<1>4. CASE Migration!migrateUp(i)
  BY <1>1, <1>4, StartsUp
<1>5. CASE Migration!applyFails(i) \/ Migration!finish(i) \/ Migration!stop(i)
  BY <1>1, <1>5, StepsAside
<1>6. CASE \E steps \in Migration!Migration : Migration!migrateDown(i, steps)
  BY <1>1, <1>6, StartsDown
<1> QED
  BY <1>2, <1>3, <1>4, <1>5, <1>6

LEMMA MigrationFacts == MigrationInv => HistoryIsTrue
<1> SUFFICES ASSUME MigrationTypes, NEW k \in 0..5, RecordedUpTo(k) PROVE HistoryIsTrue
  BY DEF MigrationInv
<1>1. recorded = 1..k /\ recorded \subseteq Migration!Migration
  BY MadeFacts DEF RecordedUpTo
<1>2. ASSUME NEW i \in Instance
      PROVE  instance[i] \in [at : {"stopped", "up", "down", "done", "failed"},
                              todo : UNION {[1..n -> Migration!Migration] : n \in 0..5}]
  <2>1. instance[i] \in Runner /\ Len(instance[i].todo) <= 5
    BY DEF MigrationTypes
  <2>2. instance[i].todo \in Seq(1..5)
    BY <2>1 DEF Runner
  <2> DEFINE n == Len(instance[i].todo)
  <2>3. n \in 0..5
    <3>1. n \in Nat
      BY <2>2, LenProperties
    <3>2. n <= 5
      BY <2>1
    <3> HIDE DEF n
    <3> QED
      BY <3>1, <3>2
  <2>5. instance[i].todo \in [1..n -> Migration!Migration]
    BY <2>2, MadeFacts
  <2> HIDE DEF n
  <2>4. instance[i].todo \in UNION {[1..l -> Migration!Migration] : l \in 0..5}
    BY <2>3, <2>5
  <2> QED
    BY <2>1, <2>4 DEF Runner
<1>3. Migration!TypeOK
  BY <1>1, <1>2 DEF MigrationTypes, Migration!TypeOK
<1>4. Migration!HistoryIsTrue
  BY <1>1 DEF RecordedUpTo, Migration!HistoryIsTrue
<1> QED
  BY <1>3, <1>4 DEF HistoryIsTrue

\* MigrationRunner: however many instances race through the migrations, wherever they
\* stop, and whatever is rolled back by hand, schema_migrations holds the first so many
\* migrations, and what each of them made is there.
THEOREM HistoryIsKept == StorageSpec => []HistoryIsTrue
<1>1. StorageInit => MigrationInv
  BY MigrationInit DEF StorageInit
<1>2. MigrationInv /\ [StorageNext]_all => MigrationInv'
  <2> SUFFICES ASSUME MigrationInv, [StorageNext]_all PROVE MigrationInv'
    OBVIOUS
  <2>1. CASE part = "migrations" /\ Migration!Next
    BY <2>1, MigrationStep
  <2>2. CASE UNCHANGED migrationVars
    <3>1. MigrationTypes'
      BY <2>2 DEF migrationVars, MigrationInv, MigrationTypes
    <3>2. PICK k \in 0..5 : RecordedUpTo(k)
      BY DEF MigrationInv
    <3>3. \A i \in Instance : GoesUp(i, k)' /\ GoesDown(i, k)'
      BY <2>2, <3>2 DEF migrationVars, RecordedUpTo, GoesUp, GoesDown
    <3>4. RecordedUpTo(k)'
      BY <2>2, <3>2, <3>3 DEF migrationVars, RecordedUpTo
    <3> QED
      BY <3>1, <3>4 DEF MigrationInv
  <2> QED
    BY <2>1, <2>2 DEF StorageNext, all
<1> QED
  BY <1>1, <1>2, MigrationFacts, PTL DEF StorageSpec

-----------------------------------------------------------------------------
(* The jobs.  What a job may still be begun for is counted in tokens: one  *)
(* for every copy that waits or runs, which says how many attempts of its  *)
(* line are made.  A push that Redis trouble may double has two.           *)

\* Redis holds a first copy whenever it holds one.
LEMMA SmallestNumber ==
  ASSUME NEW T \in SUBSET Nat, T # {} PROVE \E x \in T : \A y \in T : x <= y
<1> DEFINE R == {ss \in Nat \X Nat : ss[1] < ss[2]}
<1>1. PICK x \in T : \A y \in T : ~ (<<y, x>> \in R)
  <2>1. IsWellFoundedOn(R, Nat)
    BY NatLessThanWellFounded DEF OpToRel
  <2> HIDE DEF R
  <2> QED
    BY <2>1, WFMin
<1>2. \A y \in T : ~ (y < x)
  BY <1>1
<1> QED
  BY <1>2

Live == [job : Job, attempts : 0..(maxAttempts - 1)]

LEMMA FirstIsThere ==
  ASSUME NEW q \in Seq(Live), q # <<>> PROVE Jobs!First(q) \in 1..Len(q)
<1> DEFINE Kinds == {typeOf[q[i].job] : i \in 1..Len(q)}
           Best(i) == \A k \in 1..Len(q) :
                        \/ typeOf[q[i].job] < typeOf[q[k].job]
                        \/ typeOf[q[i].job] = typeOf[q[k].job] /\ i <= k
<1>1. Len(q) \in Nat \ {0} /\ DOMAIN q = 1..Len(q)
  BY EmptySeq, LenProperties
<1>2. \A i \in 1..Len(q) : typeOf[q[i].job] \in Nat
  <2> SUFFICES ASSUME NEW i \in 1..Len(q) PROVE typeOf[q[i].job] \in Nat
    OBVIOUS
  <2>1. q[i] \in Live
    BY ElementOfSeq
  <2>2. q[i].job \in Job
    BY <2>1 DEF Live
  <2> QED
    BY <2>2, JobsAssumption
<1>3. Kinds \in SUBSET Nat /\ typeOf[q[1].job] \in Kinds
  BY <1>1, <1>2
<1>4. PICK b \in Kinds : \A c \in Kinds : b <= c
  BY <1>3, SmallestNumber
<1> DEFINE Firsts == {i \in 1..Len(q) : typeOf[q[i].job] = b}
<1>5. Firsts \in SUBSET Nat /\ Firsts # {}
  BY <1>1, <1>4
<1>6. PICK i \in Firsts : \A k \in Firsts : i <= k
  BY <1>5, SmallestNumber
<1>7. Best(i)
  <2> SUFFICES ASSUME NEW k \in 1..Len(q)
               PROVE  \/ typeOf[q[i].job] < typeOf[q[k].job]
                      \/ typeOf[q[i].job] = typeOf[q[k].job] /\ i <= k
    OBVIOUS
  <2>1. typeOf[q[k].job] \in Kinds /\ typeOf[q[i].job] = b
    BY <1>6
  <2>2. b \in Nat /\ typeOf[q[k].job] \in Nat /\ b <= typeOf[q[k].job]
    BY <1>3, <1>4, <2>1
  <2>3. typeOf[q[k].job] = b => i <= k
    BY <1>6
  <2> QED
    BY <2>1, <2>2, <2>3
<1>8. Jobs!First(q) = CHOOSE l \in 1..Len(q) : Best(l)
  BY <1>1 DEF Jobs!First
<1>9. i \in 1..Len(q)
  BY <1>6
<1> HIDE DEF Best
<1> QED
  BY <1>7, <1>8, <1>9

LEMMA RemoveFacts ==
  ASSUME NEW q \in Seq(Live), NEW i \in 1..Len(q)
  PROVE  LET r == Jobs!RemoveAt(q, i) IN
         /\ r \in Seq(Live) /\ Len(r) = Len(q) - 1 /\ Len(q) \in Nat
         /\ \A n \in 1..(Len(q) - 1) : r[n] = IF n < i THEN q[n] ELSE q[n + 1]
<1> DEFINE s == SubSeq(q, 1, i - 1)
           t == SubSeq(q, i + 1, Len(q))
<1>1. Len(q) \in Nat /\ i \in Int /\ i - 1 \in Int /\ i + 1 \in Int /\ 1 <= i /\ i <= Len(q)
  BY LenProperties
<1>2. \A n \in 1..Len(q) : q[n] \in Live
  BY ElementOfSeq
<1>3. s \in Seq(Live) /\ Len(s) = i - 1 /\ \A n \in 1..(i - 1) : s[n] = q[n]
  <2>1. \A n \in 1..(i - 1) : q[n] \in Live
    BY <1>1, <1>2
  <2>2. /\ s \in Seq(Live) /\ Len(s) = IF 1 <= i - 1 THEN i - 1 - 1 + 1 ELSE 0
        /\ \A n \in 1..(i - 1 - 1 + 1) : s[n] = q[1 + n - 1]
    BY <1>1, <2>1, SubSeqProperties
  <2> HIDE DEF s
  <2> QED
    BY <1>1, <2>2
<1>4. /\ t \in Seq(Live) /\ Len(t) = Len(q) - i
      /\ \A n \in 1..(Len(q) - i) : t[n] = q[i + n]
  <2>1. \A n \in (i + 1)..Len(q) : q[n] \in Live
    BY <1>1, <1>2
  <2>2. /\ t \in Seq(Live)
        /\ Len(t) = IF i + 1 <= Len(q) THEN Len(q) - (i + 1) + 1 ELSE 0
        /\ \A n \in 1..(Len(q) - (i + 1) + 1) : t[n] = q[(i + 1) + n - 1]
    BY <1>1, <2>1, SubSeqProperties
  <2> HIDE DEF t
  <2>3. Len(t) = Len(q) - i
    BY <1>1, <2>2
  <2>4. ASSUME NEW n \in 1..(Len(q) - i) PROVE t[n] = q[i + n]
    <3>1. n \in 1..(Len(q) - (i + 1) + 1) /\ (i + 1) + n - 1 = i + n
      BY <1>1
    <3> QED
      BY <2>2, <3>1
  <2> QED
    BY <2>2, <2>3, <2>4
<1>5. Jobs!RemoveAt(q, i) = s \o t
  BY DEF Jobs!RemoveAt
<1> HIDE DEF s, t
<1>6. /\ s \o t \in Seq(Live) /\ Len(s \o t) = Len(s) + Len(t)
      /\ \A n \in 1..(Len(s) + Len(t)) :
           (s \o t)[n] = IF n <= Len(s) THEN s[n] ELSE t[n - Len(s)]
  BY <1>3, <1>4, ConcatProperties
<1>7. ASSUME NEW n \in 1..(Len(q) - 1)
      PROVE  (s \o t)[n] = IF n < i THEN q[n] ELSE q[n + 1]
  <2>1. n \in 1..(Len(s) + Len(t))
    BY <1>1, <1>3, <1>4
  <2>2. CASE n < i
    BY <1>1, <1>3, <1>6, <2>1, <2>2
  <2>3. CASE ~(n < i)
    <3>1. n - (i - 1) \in 1..(Len(q) - i) /\ i + (n - (i - 1)) = n + 1 /\ ~(n <= i - 1)
      BY <1>1, <2>3
    <3>2. (s \o t)[n] = t[n - (i - 1)]
      BY <1>3, <1>6, <2>1, <3>1
    <3> QED
      BY <1>4, <2>3, <3>1, <3>2
  <2> QED
    BY <2>2, <2>3
<1> QED
  BY <1>1, <1>3, <1>4, <1>5, <1>6, <1>7

\* The budget of a job begun k times after f faults: its tokens S belong to different
\* lines of attempts, of which there are 1 + f, and the runs R that were made of a
\* token's line come before the attempt it is at.
Run == 0..(maxAttempts - 1)
Budget(S, k, f) ==
  \E L \in [S -> 0..f], R \in SUBSET ((0..f) \X Run) :
    /\ Cardinality(R) = k
    /\ \A s \in S : \A b \in Run : b >= s.from => <<L[s], b>> \notin R
    /\ \A s, t \in S : s # t => L[s] # L[t]

\* No more runs than lines have attempts.
LEMMA BudgetBound ==
  ASSUME NEW S, NEW k, NEW f \in Nat, Budget(S, k, f)
  PROVE  k \in Nat /\ k <= maxAttempts * (1 + f)
<1> PICK R \in SUBSET ((0..f) \X Run) : Cardinality(R) = k
  BY DEF Budget
<1>1. IsFiniteSet(0..f) /\ Cardinality(0..f) = 1 + f
  <2>1. IsFiniteSet(0..f) /\ Cardinality(0..f) = IF 0 > f THEN 0 ELSE f - 0 + 1
    BY FS_Interval
  <2> QED
    BY <2>1
<1>2. IsFiniteSet(Run) /\ Cardinality(Run) = maxAttempts
  <2> DEFINE m == maxAttempts - 1
  <2>1. m \in Int /\ ~(0 > m) /\ m - 0 + 1 = maxAttempts
    BY JobsAssumption
  <2>2. IsFiniteSet(0..m) /\ Cardinality(0..m) = IF 0 > m THEN 0 ELSE m - 0 + 1
    BY <2>1, FS_Interval
  <2> QED
    BY <2>1, <2>2 DEF Run
<1>3. /\ IsFiniteSet((0..f) \X Run)
      /\ Cardinality((0..f) \X Run) = Cardinality(0..f) * Cardinality(Run)
  BY <1>1, <1>2, FS_Product
<1>4. IsFiniteSet(R) /\ Cardinality(R) <= Cardinality((0..f) \X Run)
  BY <1>3, FS_Subset
<1>5. Cardinality(R) \in Nat
  BY <1>4, FS_CardinalityType
<1>6. (1 + f) * maxAttempts = maxAttempts * (1 + f)
  BY JobsAssumption
<1> QED
  BY <1>1, <1>2, <1>3, <1>4, <1>5, <1>6

\* Tokens change places, or go; the attempts they are at do not go back.
LEMMA BudgetMoves ==
  ASSUME NEW S, NEW T, NEW k, NEW f \in Nat, Budget(S, k, f),
         NEW g \in [T -> S], \A s, t \in T : g[s] = g[t] => s = t,
         \A t \in T : t.from \in Nat /\ g[t].from \in Nat /\ g[t].from <= t.from
  PROVE  Budget(T, k, f)
<1> PICK L \in [S -> 0..f], R \in SUBSET ((0..f) \X Run) :
      /\ Cardinality(R) = k
      /\ \A s \in S : \A b \in Run : b >= s.from => <<L[s], b>> \notin R
      /\ \A s, t \in S : s # t => L[s] # L[t]
  BY DEF Budget
<1> DEFINE M == [t \in T |-> L[g[t]]]
<1>1. M \in [T -> 0..f]
  OBVIOUS
<1>2. ASSUME NEW t \in T, NEW b \in Run, b >= t.from PROVE <<M[t], b>> \notin R
  <2>1. b >= g[t].from
    BY <1>2 DEF Run
  <2> QED
    BY <2>1
<1>3. \A s, t \in T : s # t => M[s] # M[t]
  OBVIOUS
<1> HIDE DEF M
<1> QED
  BY <1>1, <1>2, <1>3 DEF Budget

LEMMA BudgetFewer ==
  ASSUME NEW S, NEW T, T \subseteq S, NEW k, NEW f \in Nat, Budget(S, k, f),
         \A s \in S : s.from \in Nat
  PROVE  Budget(T, k, f)
<1> DEFINE g == [t \in T |-> t]
<1>1. /\ g \in [T -> S] /\ \A s, t \in T : g[s] = g[t] => s = t
      /\ \A t \in T : t.from \in Nat /\ g[t].from \in Nat /\ g[t].from <= t.from
  OBVIOUS
<1> HIDE DEF g
<1> QED
  BY <1>1, BudgetMoves

\* A run: a copy that waits at its attempt is begun.
LEMMA BudgetRuns ==
  ASSUME NEW S, NEW T, NEW k \in Nat, NEW f \in Nat, Budget(S, k, f),
         NEW g \in [T -> S], \A s, t \in T : g[s] = g[t] => s = t,
         NEW u \in T, g[u].from \in Run, u.from = g[u].from + 1,
         \A t \in T : t.from \in Nat /\ g[t].from \in Nat /\ g[t].from <= t.from
  PROVE  Budget(T, k + 1, f)
<1> PICK L \in [S -> 0..f], R \in SUBSET ((0..f) \X Run) :
      /\ Cardinality(R) = k
      /\ \A s \in S : \A b \in Run : b >= s.from => <<L[s], b>> \notin R
      /\ \A s, t \in S : s # t => L[s] # L[t]
  BY DEF Budget
<1> DEFINE M == [t \in T |-> L[g[t]]]
           r == <<L[g[u]], g[u].from>>
           Q == R \cup {r}
<1>1. M \in [T -> 0..f] /\ r \in (0..f) \X Run
  OBVIOUS
<1>2. r \notin R
  BY DEF Run
<1>3. IsFiniteSet(R)
  <2>1. IsFiniteSet(0..f) /\ IsFiniteSet(Run)
    BY FS_Interval, JobsAssumption DEF Run
  <2> QED
    BY <2>1, FS_Product, FS_Subset
<1>4. Cardinality(Q) = k + 1
  BY <1>2, <1>3, FS_AddElement
<1>5. ASSUME NEW t \in T, NEW b \in Run, b >= t.from PROVE <<M[t], b>> \notin Q
  <2>1. b >= g[t].from
    BY <1>5 DEF Run
  <2>2. <<M[t], b>> \notin R
    BY <2>1
  <2>3. <<M[t], b>> # r
    <3>1. CASE t = u
      BY <1>5, <3>1 DEF Run
    <3>2. CASE t # u
      BY <3>2
    <3> QED
      BY <3>1, <3>2
  <2> QED
    BY <2>2, <2>3
<1>6. \A s, t \in T : s # t => M[s] # M[t]
  OBVIOUS
<1>7. Q \in SUBSET ((0..f) \X Run)
  BY <1>1
<1> HIDE DEF M, Q
<1> QED
  BY <1>1, <1>4, <1>5, <1>6, <1>7 DEF Budget

\* A fault may open a line for one more token.
LEMMA BudgetDoubles ==
  ASSUME NEW S, NEW T, NEW d, T \subseteq S \cup {d}, NEW k, NEW f \in Nat, Budget(S, k, f),
         \A s \in S : s.from \in Nat
  PROVE  Budget(T, k, f + 1)
<1> PICK L \in [S -> 0..f], R \in SUBSET ((0..f) \X Run) :
      /\ Cardinality(R) = k
      /\ \A s \in S : \A b \in Run : b >= s.from => <<L[s], b>> \notin R
      /\ \A s, t \in S : s # t => L[s] # L[t]
  BY DEF Budget
<1> DEFINE M == [t \in T |-> IF t \in S THEN L[t] ELSE f + 1]
<1>1. M \in [T -> 0..(f + 1)]
  OBVIOUS
<1>2. R \in SUBSET ((0..(f + 1)) \X Run)
  OBVIOUS
<1>3. ASSUME NEW t \in T, NEW b \in Run, b >= t.from PROVE <<M[t], b>> \notin R
  <2>1. CASE t \in S
    BY <1>3, <2>1
  <2>2. CASE t \notin S
    <3>1. M[t] = f + 1 /\ f + 1 \notin 0..f
      BY <2>2
    <3> QED
      BY <3>1
  <2> QED
    BY <2>1, <2>2
<1>4. ASSUME NEW s \in T, NEW t \in T, s # t PROVE M[s] # M[t]
  <2>1. \A x \in S : L[x] \in 0..f /\ L[x] # f + 1
    OBVIOUS
  <2> QED
    BY <1>4, <2>1
<1> HIDE DEF M
<1> QED
  BY <1>1, <1>2, <1>3, <1>4 DEF Budget

\* A job that is new has made no run, and its first push has the first line.
LEMMA BudgetBegins ==
  ASSUME NEW T, NEW d, T \subseteq {d}, NEW f \in Nat
  PROVE  Budget(T, 0, f)
<1> DEFINE M == [t \in T |-> 0]
<1>1. M \in [T -> 0..f] /\ \A s, t \in T : s # t => M[s] # M[t]
  OBVIOUS
<1>2. {} \in SUBSET ((0..f) \X Run) /\ Cardinality({}) = 0
  BY FS_EmptySet
<1> HIDE DEF M
<1> QED
  BY <1>1, <1>2 DEF Budget

\* The tokens of a job: where its copies are, and the attempt each of them is at.
Token == [at : {"redis", "mem", "storing", "double", "cur"}, of : Jobs!Process,
          n : Nat, from : Nat]
RedisToken(t, j) ==
  /\ t.at = "redis" /\ t.of = "server" /\ t.n \in 1..Len(redis)
  /\ redis[t.n].job = j /\ redis[t.n].attempts = t.from
MemToken(t, j) ==
  /\ t.at = "mem" /\ t.n \in 1..Len(mem[t.of])
  /\ mem[t.of][t.n].job = j /\ mem[t.of][t.n].attempts = t.from
PushToken(t, j) ==
  /\ t.at \in {"storing", "double"} /\ t.n = 0 /\ (t.at = "double" => ~connected[t.of])
  /\ storing[t.of].job = j /\ storing[t.of].attempts = t.from
CurToken(t, j) ==
  /\ t.at = "cur" /\ t.n = 0 /\ t.of \in Worker
  /\ cur[t.of].job = j /\ cur[t.of].attempts + 1 = t.from
Tokens(j) ==
  {t \in Token : RedisToken(t, j) \/ MemToken(t, j) \/ PushToken(t, j) \/ CurToken(t, j)}

JobsTypes ==
  /\ redis \in Seq(Live) /\ mem \in [Jobs!Process -> Seq(Live)]
  /\ connected \in [Jobs!Process -> BOOLEAN]
  /\ storing \in [Jobs!Process -> Live \cup {Jobs!None}]
  /\ worker \in [Worker -> {"popping", "running", "backing", "closed"}]
  /\ cur \in [Worker -> Live \cup {Jobs!None}]
  /\ runs \in [Job -> Nat]
  /\ ended \in [Job -> {"new", "open", "done", "exhausted"}]
  /\ faults \in 0..MaxFaults
WorkersFit ==
  \A w \in Worker : /\ worker[w] = "running" <=> cur[w] # Jobs!None
                    /\ worker[w] # "backing" => storing[w] = Jobs!None
Budgeted ==
  \A j \in Job : /\ Budget(Tokens(j), runs[j], faults)
                 /\ ended[j] = "new" => Tokens(j) = {} /\ runs[j] = 0
JobsInv == JobsTypes /\ WorkersFit /\ Budgeted /\ Jobs!JobAccounted

LEMMA LiveFacts ==
  /\ Jobs!None \notin Live /\ \A j \in Job : Jobs!None.job # j
  /\ \A c \in Live : c.job \in Job /\ c.attempts \in Run /\ c \in Jobs!Copy /\ c # Jobs!None
  /\ Run \subseteq Nat /\ 0 \in Run
  /\ \A j \in Job : \A a \in Run : [job |-> j, attempts |-> a] \in Live
<1>1. \A j \in Job : Jobs!None.job # j
  BY JobsAssumption DEF Jobs!None
<1>2. \A c \in Live : c.job \in Job /\ c.attempts \in Run /\ c \in Jobs!Copy
  BY DEF Live, Run, Jobs!Copy
<1>3. \A c \in Live : c # Jobs!None
  BY <1>1, <1>2
<1>4. Run \subseteq Nat /\ 0 \in Run
  BY JobsAssumption DEF Run
<1> QED
  BY <1>1, <1>2, <1>3, <1>4 DEF Live, Run

LEMMA TokenTypes == \A j : \A t \in Tokens(j) : t \in Token /\ t.from \in Nat /\ t.of \in Jobs!Process
BY DEF Tokens, Token

LEMMA TokenTypesNext ==
  \A j : \A t \in Tokens(j)' : t \in Token /\ t.from \in Nat /\ t.of \in Jobs!Process
BY DEF Tokens, Token

\* The tokens of T are those of S, elsewhere or further on, or fewer.
Carries(S, T) ==
  \E g \in [T -> S] : /\ \A s, t \in T : g[s] = g[t] => s = t
                      /\ \A t \in T : g[t].from <= t.from

LEMMA CarriedBudget ==
  ASSUME NEW S, NEW T, Carries(S, T), \A s \in S \cup T : s.from \in Nat,
         NEW k, NEW f \in Nat
  PROVE  (Budget(S, k, f) => Budget(T, k, f)) /\ (S = {} => T = {})
<1> PICK g \in [T -> S] : /\ \A s, t \in T : g[s] = g[t] => s = t
                          /\ \A t \in T : g[t].from <= t.from
  BY DEF Carries
<1>1. \A t \in T : t.from \in Nat /\ g[t].from \in Nat /\ g[t].from <= t.from
  OBVIOUS
<1>2. Budget(S, k, f) => Budget(T, k, f)
  BY <1>1, BudgetMoves
<1>3. S = {} => T = {}
  OBVIOUS
<1> QED
  BY <1>2, <1>3

\* A list that grows, and one that shrinks by its first copy.
LEMMA Grows ==
  ASSUME NEW q \in Seq(Live), NEW c \in Live
  PROVE  LET r == Append(q, c) IN
         /\ r \in Seq(Live) /\ Len(r) = Len(q) + 1 /\ Len(q) \in Nat
         /\ \A n \in 1..Len(r) : \/ n \in 1..Len(q) /\ r[n] = q[n]
                                 \/ n = Len(q) + 1 /\ r[n] = c
         /\ \A n \in 1..Len(q) : n \in 1..Len(r) /\ r[n] = q[n]
         /\ Len(r) \in 1..Len(r) /\ r[Len(r)] = c
<1> DEFINE r == Append(q, c)
<1>1. /\ r \in Seq(Live) /\ Len(r) = Len(q) + 1 /\ Len(q) \in Nat
      /\ \A n \in 1..Len(q) : r[n] = q[n]
      /\ r[Len(q) + 1] = c
  BY AppendProperties, LenProperties
<1> HIDE DEF r
<1> QED
  BY <1>1 DEF r

LEMMA Shrinks ==
  ASSUME NEW q \in Seq(Live), q # <<>>
  PROVE  LET i == Jobs!First(q)
             r == Jobs!RemoveAt(q, i)
         IN /\ i \in 1..Len(q) /\ i \in Nat /\ q[i] \in Live
            /\ r \in Seq(Live)
            /\ \A n \in 1..Len(r) : IF n < i THEN n \in 1..Len(q) /\ r[n] = q[n]
                                    ELSE n + 1 \in 1..Len(q) /\ r[n] = q[n + 1]
            /\ \A n \in 1..Len(q) \ {i} : \E m \in 1..Len(r) : r[m] = q[n]
<1> DEFINE i == Jobs!First(q)
           r == Jobs!RemoveAt(q, i)
<1>1. i \in 1..Len(q)
  BY FirstIsThere
<1> HIDE DEF i
<1>2. /\ r \in Seq(Live) /\ Len(r) = Len(q) - 1 /\ Len(q) \in Nat
      /\ \A n \in 1..(Len(q) - 1) : r[n] = IF n < i THEN q[n] ELSE q[n + 1]
  BY <1>1, RemoveFacts
<1> HIDE DEF r
<1>3. q[i] \in Live
  BY <1>1, ElementOfSeq
<1>4. ASSUME NEW n \in 1..Len(r)
      PROVE  IF n < i THEN n \in 1..Len(q) /\ r[n] = q[n]
             ELSE n + 1 \in 1..Len(q) /\ r[n] = q[n + 1]
  BY <1>1, <1>2
<1>5. ASSUME NEW n \in 1..Len(q) \ {i} PROVE \E m \in 1..Len(r) : r[m] = q[n]
  <2>1. CASE n < i
    <3>1. n \in 1..(Len(q) - 1)
      BY <1>1, <1>2, <2>1
    <3> QED
      BY <1>2, <2>1, <3>1
  <2>2. CASE ~(n < i)
    <3>1. n - 1 \in 1..(Len(q) - 1) /\ ~(n - 1 < i) /\ (n - 1) + 1 = n
      BY <1>1, <1>2, <2>2
    <3> QED
      BY <1>2, <3>1
  <2> QED
    BY <2>1, <2>2
<1> QED
  BY <1>1, <1>2, <1>3, <1>4, <1>5 DEF i, r

LEMMA SameToken ==
  ASSUME NEW s \in Token, NEW t \in Token,
         s.at = t.at, s.of = t.of, s.n = t.n, s.from = t.from
  PROVE  s = t
BY DEF Token

\* Where the tokens come from that a list has after it lost its copy at i, when all
\* others but x, which was at y, are where they were.
ShiftAt(a, p, i, t) ==
  IF t.at = a /\ t.of = p /\ ~(t.n < i) THEN [t EXCEPT !.n = t.n + 1] ELSE t

LEMMA ShiftFacts ==
  ASSUME NEW a, NEW p, NEW i \in Nat, NEW t \in Token
  PROVE  LET s == ShiftAt(a, p, i, t) IN
         /\ s \in Token /\ s.at = t.at /\ s.of = t.of /\ s.from = t.from
         /\ s.n = IF t.at = a /\ t.of = p /\ ~(t.n < i) THEN t.n + 1 ELSE t.n
BY DEF ShiftAt, Token

LEMMA ShiftInjective ==
  ASSUME NEW a, NEW p, NEW i \in Nat, NEW s \in Token, NEW t \in Token,
         ShiftAt(a, p, i, s) = ShiftAt(a, p, i, t)
  PROVE  s = t
<1>1. s.at = t.at /\ s.of = t.of /\ s.from = t.from
  BY ShiftFacts
<1>2. s.n \in Nat /\ t.n \in Nat
  BY DEF Token
<1>3. (IF s.at = a /\ s.of = p /\ ~(s.n < i) THEN s.n + 1 ELSE s.n)
        = (IF t.at = a /\ t.of = p /\ ~(t.n < i) THEN t.n + 1 ELSE t.n)
  BY ShiftFacts
<1>4. s.n = t.n
  BY <1>1, <1>2, <1>3
<1> QED
  BY <1>1, <1>4, SameToken

Origin(a, p, i, x, y, T) == [t \in T |-> IF t = x THEN y ELSE ShiftAt(a, p, i, t)]

Closed(S, T, a, p, i, x, y) ==
  /\ T \subseteq Token /\ i \in Nat
  /\ \A t \in T \ {x} : ShiftAt(a, p, i, t) \in S \ {y}
  /\ x \in T => y \in S /\ y.from <= x.from

LEMMA OriginFacts ==
  ASSUME NEW S, NEW T, NEW a, NEW p, NEW i, NEW x, NEW y, Closed(S, T, a, p, i, x, y)
  PROVE  LET g == Origin(a, p, i, x, y, T) IN
         /\ g \in [T -> S] /\ \A s, t \in T : g[s] = g[t] => s = t
         /\ \A t \in T : g[t].from <= t.from
         /\ x \in T => g[x] = y
<1> DEFINE g == Origin(a, p, i, x, y, T)
<1> USE DEF Closed
<1>1. g \in [T -> S]
  BY DEF Origin
<1>2. \A t \in T : t = x => g[t] = y
  BY DEF Origin
<1>3. \A t \in T \ {x} : g[t] = ShiftAt(a, p, i, t)
  BY DEF Origin
<1> HIDE DEF g
<1>4. ASSUME NEW s \in T, NEW t \in T, g[s] = g[t] PROVE s = t
  <2>1. CASE s = x /\ t = x
    BY <2>1
  <2>2. CASE (s = x) # (t = x)
    BY <1>2, <1>3, <1>4, <2>2
  <2>3. CASE s # x /\ t # x
    <3>1. ShiftAt(a, p, i, s) = ShiftAt(a, p, i, t) /\ s \in Token /\ t \in Token
      BY <1>3, <1>4, <2>3
    <3> QED
      BY <3>1, ShiftInjective
  <2> QED
    BY <2>1, <2>2, <2>3
<1>5. ASSUME NEW t \in T PROVE g[t].from <= t.from
  <2>1. CASE t = x
    BY <1>2, <2>1
  <2>2. CASE t # x
    <3>1. t.from \in Nat /\ g[t].from = t.from
      BY <1>3, <2>2, ShiftFacts DEF Token
    <3> QED
      BY <3>1
  <2> QED
    BY <2>1, <2>2
<1> QED
  BY <1>1, <1>2, <1>4, <1>5 DEF g

\* One token comes from elsewhere, and nothing moves up.
LEMMA OneComes ==
  ASSUME NEW S, NEW T, T \subseteq Token, NEW x, NEW y,
         T \ {x} \subseteq S \ {y}, x \in T => y \in S /\ y.from <= x.from
  PROVE  Carries(S, T)
<1> DEFINE g == [t \in T |-> IF t = x THEN y ELSE t]
<1>1. g \in [T -> S] /\ \A s, t \in T : g[s] = g[t] => s = t
  OBVIOUS
<1>2. \A t \in T : g[t].from <= t.from
  BY DEF Token
<1> HIDE DEF g
<1> QED
  BY <1>1, <1>2 DEF Carries

\* Nothing comes.
LEMMA NoneComes ==
  ASSUME NEW S, NEW T, T \subseteq Token, T \subseteq S PROVE Carries(S, T)
<1> DEFINE g == [t \in T |-> t]
<1>1. g \in [T -> S] /\ \A s, t \in T : g[s] = g[t] => s = t
  OBVIOUS
<1>2. \A t \in T : g[t].from <= t.from
  BY DEF Token
<1> HIDE DEF g
<1> QED
  BY <1>1, <1>2 DEF Carries

\* Two tokens come from elsewhere.
LEMMA TwoCome ==
  ASSUME NEW S, NEW T, T \subseteq Token, NEW x, NEW y, NEW v, NEW z, x # v, y # z,
         T \ {x, v} \subseteq S \ {y, z},
         x \in T => y \in S /\ y.from <= x.from,
         v \in T => z \in S /\ z.from <= v.from
  PROVE  Carries(S, T)
<1> DEFINE g == [t \in T |-> IF t = x THEN y ELSE IF t = v THEN z ELSE t]
<1>1. g \in [T -> S] /\ \A s, t \in T : g[s] = g[t] => s = t
  OBVIOUS
<1>2. \A t \in T : g[t].from <= t.from
  BY DEF Token
<1> HIDE DEF g
<1> QED
  BY <1>1, <1>2 DEF Carries

\* A list of Redis or of a worker's memory that lost its first copy.
LEMMA RedisShrinks ==
  ASSUME JobsTypes, redis # <<>>, redis' = Jobs!RemoveAt(redis, Jobs!First(redis)),
         NEW j, NEW t \in Token, RedisToken(t, j)'
  PROVE  LET s == ShiftAt("redis", "server", Jobs!First(redis), t) IN
         RedisToken(s, j) /\ s.n # Jobs!First(redis)
<1> DEFINE i == Jobs!First(redis)
           s == ShiftAt("redis", "server", i, t)
<1>1. /\ i \in Nat
      /\ \A n \in 1..Len(redis') : IF n < i THEN n \in 1..Len(redis) /\ redis'[n] = redis[n]
                                   ELSE n + 1 \in 1..Len(redis) /\ redis'[n] = redis[n + 1]
  BY Shrinks DEF JobsTypes
<1> HIDE DEF i
<1>2. /\ t.at = "redis" /\ t.of = "server" /\ t.n \in 1..Len(redis')
      /\ redis'[t.n].job = j /\ redis'[t.n].attempts = t.from
  BY DEF RedisToken
<1>3. /\ s.at = "redis" /\ s.of = "server" /\ s.from = t.from
      /\ s.n = IF ~(t.n < i) THEN t.n + 1 ELSE t.n
  BY <1>1, <1>2, ShiftFacts
<1> HIDE DEF s
<1>4. s.n \in 1..Len(redis) /\ redis[s.n] = redis'[t.n] /\ s.n # i
  <2>1. t.n \in Nat
    BY DEF Token
  <2>2. CASE t.n < i
    BY <1>1, <1>2, <1>3, <2>1, <2>2
  <2>3. CASE ~(t.n < i)
    BY <1>1, <1>2, <1>3, <2>1, <2>3
  <2> QED
    BY <2>2, <2>3
<1> QED
  BY <1>2, <1>3, <1>4 DEF RedisToken, s, i

LEMMA MemShrinks ==
  ASSUME JobsTypes, NEW w \in Jobs!Process, mem[w] # <<>>,
         mem' = [mem EXCEPT ![w] = Jobs!RemoveAt(@, Jobs!First(mem[w]))],
         NEW j, NEW t \in Token, MemToken(t, j)'
  PROVE  LET s == ShiftAt("mem", w, Jobs!First(mem[w]), t) IN
         MemToken(s, j) /\ (s.of = w => s.n # Jobs!First(mem[w]))
<1> DEFINE i == Jobs!First(mem[w])
           s == ShiftAt("mem", w, i, t)
<1>1. t.of \in Jobs!Process /\ t.n \in Nat
  BY DEF Token
<1>2. /\ t.at = "mem" /\ t.n \in 1..Len(mem'[t.of])
      /\ mem'[t.of][t.n].job = j /\ mem'[t.of][t.n].attempts = t.from
  BY DEF MemToken
<1>3. /\ i \in Nat /\ mem'[w] = Jobs!RemoveAt(mem[w], i)
      /\ \A n \in 1..Len(mem'[w]) : IF n < i THEN n \in 1..Len(mem[w]) /\ mem'[w][n] = mem[w][n]
                                    ELSE n + 1 \in 1..Len(mem[w]) /\ mem'[w][n] = mem[w][n + 1]
  <2> DEFINE q == mem[w]
             r == Jobs!RemoveAt(q, i)
  <2>1. q \in Seq(Live) /\ mem'[w] = r
    BY DEF JobsTypes
  <2>2. /\ i \in Nat
        /\ \A n \in 1..Len(r) : IF n < i THEN n \in 1..Len(q) /\ r[n] = q[n]
                                ELSE n + 1 \in 1..Len(q) /\ r[n] = q[n + 1]
    BY <2>1, Shrinks
  <2> HIDE DEF i
  <2> QED
    BY <2>1, <2>2
<1>4. t.of # w => mem'[t.of] = mem[t.of]
  BY <1>1 DEF JobsTypes
<1> HIDE DEF i
<1>5. /\ s.at = "mem" /\ s.of = t.of /\ s.from = t.from
      /\ s.n = IF t.of = w /\ ~(t.n < i) THEN t.n + 1 ELSE t.n
  BY <1>2, <1>3, ShiftFacts
<1> HIDE DEF s
<1>6. s.n \in 1..Len(mem[t.of]) /\ mem[t.of][s.n] = mem'[t.of][t.n] /\ (t.of = w => s.n # i)
  <2>1. CASE t.of # w
    BY <1>2, <1>4, <1>5, <2>1
  <2>2. CASE t.of = w /\ t.n < i
    BY <1>1, <1>2, <1>3, <1>5, <2>2
  <2>3. CASE t.of = w /\ ~(t.n < i)
    <3>1. t.n \in 1..Len(mem'[w]) /\ s.n = t.n + 1
      BY <1>2, <1>5, <2>3
    <3>2. t.n + 1 \in 1..Len(mem[w]) /\ mem'[w][t.n] = mem[w][t.n + 1]
      BY <1>3, <2>3, <3>1
    <3>3. t.n + 1 # i
      BY <1>1, <1>3, <2>3
    <3> QED
      BY <2>3, <3>1, <3>2, <3>3
  <2> QED
    BY <2>1, <2>2, <2>3
<1> QED
  BY <1>2, <1>5, <1>6 DEF MemToken, s, i

\* Lists that grow by a copy.
LEMMA RedisGrows ==
  ASSUME JobsTypes, NEW c \in Live, redis' = Append(redis, c),
         NEW j, NEW t \in Token, RedisToken(t, j)'
  PROVE  \/ RedisToken(t, j)
         \/ /\ t = [at |-> "redis", of |-> "server", n |-> Len(redis) + 1, from |-> c.attempts]
            /\ c.job = j
<1>1. /\ Len(redis) \in Nat
      /\ \A n \in 1..Len(redis') : \/ n \in 1..Len(redis) /\ redis'[n] = redis[n]
                                   \/ n = Len(redis) + 1 /\ redis'[n] = c
  BY Grows DEF JobsTypes
<1>2. /\ t.at = "redis" /\ t.of = "server" /\ t.n \in 1..Len(redis')
      /\ redis'[t.n].job = j /\ redis'[t.n].attempts = t.from
  BY DEF RedisToken
<1>3. CASE t.n \in 1..Len(redis) /\ redis'[t.n] = redis[t.n]
  BY <1>2, <1>3 DEF RedisToken
<1>4. CASE t.n = Len(redis) + 1 /\ redis'[t.n] = c
  <2>1. t = [at |-> "redis", of |-> "server", n |-> Len(redis) + 1, from |-> c.attempts]
    BY <1>2, <1>4 DEF Token
  <2> QED
    BY <1>2, <1>4, <2>1
<1> QED
  BY <1>1, <1>2, <1>3, <1>4

LEMMA MemGrows ==
  ASSUME JobsTypes, NEW p \in Jobs!Process, NEW c \in Live,
         mem' = [mem EXCEPT ![p] = Append(@, c)],
         NEW j, NEW t \in Token, MemToken(t, j)'
  PROVE  \/ MemToken(t, j)
         \/ /\ t = [at |-> "mem", of |-> p, n |-> Len(mem[p]) + 1, from |-> c.attempts]
            /\ c.job = j
<1>1. mem[p] \in Seq(Live) /\ mem'[p] = Append(mem[p], c) /\ t.of \in Jobs!Process
  BY DEF JobsTypes, Token
<1>2. /\ t.at = "mem" /\ t.n \in 1..Len(mem'[t.of])
      /\ mem'[t.of][t.n].job = j /\ mem'[t.of][t.n].attempts = t.from
  BY DEF MemToken
<1>3. CASE t.of # p
  <2>1. mem'[t.of] = mem[t.of]
    BY <1>1, <1>3 DEF JobsTypes
  <2> QED
    BY <1>2, <2>1 DEF MemToken
<1>4. CASE t.of = p
  <2>1. \/ t.n \in 1..Len(mem[p]) /\ mem'[p][t.n] = mem[p][t.n]
        \/ t.n = Len(mem[p]) + 1 /\ mem'[p][t.n] = c
    BY <1>1, <1>2, <1>4, Grows
  <2>2. CASE t.n \in 1..Len(mem[p]) /\ mem'[p][t.n] = mem[p][t.n]
    BY <1>2, <1>4, <2>2 DEF MemToken
  <2>3. CASE t.n = Len(mem[p]) + 1 /\ mem'[p][t.n] = c
    <3>1. t = [at |-> "mem", of |-> p, n |-> Len(mem[p]) + 1, from |-> c.attempts]
      BY <1>2, <1>4, <2>3 DEF Token
    <3> QED
      BY <1>2, <1>4, <2>3, <3>1
  <2> QED
    BY <2>1, <2>2, <2>3
<1> QED
  BY <1>3, <1>4

\* A push that is stored, and one that fails and may be stored as well.
LEMMA PushedTokens ==
  ASSUME JobsTypes, NEW p \in Jobs!Process, Jobs!pushed(p), NEW j \in Job
  PROVE  Carries(Tokens(j), Tokens(j)')
<1> DEFINE c == storing[p]
           x == [at |-> "redis", of |-> "server", n |-> Len(redis) + 1, from |-> c.attempts]
           y == [at |-> "storing", of |-> p, n |-> 0, from |-> c.attempts]
<1>1. /\ c \in Live /\ redis' = Append(redis, c) /\ storing' = [storing EXCEPT ![p] = Jobs!None]
      /\ mem' = mem /\ cur' = cur /\ connected' = connected
  BY DEF Jobs!pushed, Jobs!connection, JobsTypes
<1>2. c.attempts \in Nat /\ y \in Token
  BY <1>1, LiveFacts DEF Token
<1> HIDE DEF c
<1>3. ASSUME NEW t \in Token, RedisToken(t, j)' PROVE RedisToken(t, j) \/ (t = x /\ c.job = j)
  BY <1>1, <1>3, RedisGrows
<1>4. ASSUME NEW t \in Token, PushToken(t, j)' PROVE PushToken(t, j) /\ t.of # p
  <2>1. t.of \in Jobs!Process
    BY DEF Token
  <2>2. t.of # p
    BY <1>1, <1>4, <2>1, LiveFacts DEF PushToken, JobsTypes
  <2> QED
    BY <1>1, <1>4, <2>1, <2>2 DEF PushToken, JobsTypes
<1>5. \A t \in Token : /\ MemToken(t, j)' => MemToken(t, j)
                       /\ CurToken(t, j)' => CurToken(t, j)
  BY <1>1 DEF MemToken, CurToken
<1>6. Tokens(j)' \ {x} \subseteq Tokens(j) \ {y}
  <2> SUFFICES ASSUME NEW t \in Tokens(j)', t # x PROVE t \in Tokens(j) /\ t # y
    OBVIOUS
  <2>1. t \in Token /\ (RedisToken(t, j)' \/ MemToken(t, j)' \/ PushToken(t, j)' \/ CurToken(t, j)')
    BY DEF Tokens
  <2>2. t \in Tokens(j)
    BY <1>3, <1>4, <1>5, <2>1 DEF Tokens
  <2>3. t # y
    BY <1>3, <1>4, <1>5, <2>1 DEF RedisToken, MemToken, CurToken
  <2> QED
    BY <2>2, <2>3
<1>7. x \in Tokens(j)' => y \in Tokens(j) /\ y.from <= x.from
  <2> SUFFICES ASSUME x \in Tokens(j)' PROVE y \in Tokens(j) /\ y.from <= x.from
    OBVIOUS
  <2>1. c.job = j
    <3> SUFFICES ASSUME NEW t \in Tokens(j)', t = x PROVE c.job = j
      OBVIOUS
    <3>1. t \in Token /\ RedisToken(t, j)'
      BY DEF Tokens, MemToken, PushToken, CurToken
    <3>2. ~RedisToken(t, j)
      <4>1. Len(redis) \in Nat
        BY LenProperties DEF JobsTypes
      <4> QED
        BY <4>1 DEF RedisToken
    <3> QED
      BY <1>3, <3>1, <3>2
  <2>2. PushToken(y, j)
    BY <2>1 DEF PushToken, c
  <2> QED
    BY <1>2, <2>2 DEF Tokens
<1> HIDE DEF x, y
<1> QED
  BY <1>6, <1>7, OneComes, TokenTypesNext

LEMMA PushFailsTokens ==
  ASSUME JobsTypes, NEW p \in Jobs!Process, Jobs!pushFails(p), NEW j \in Job
  PROVE  Carries(Tokens(j), Tokens(j)')
<1> DEFINE c == storing[p]
           x == [at |-> "mem", of |-> p, n |-> Len(mem[p]) + 1, from |-> c.attempts]
           y == [at |-> "storing", of |-> p, n |-> 0, from |-> c.attempts]
           v == [at |-> "redis", of |-> "server", n |-> Len(redis) + 1, from |-> c.attempts]
           z == [at |-> "double", of |-> p, n |-> 0, from |-> c.attempts]
<1>1. /\ c \in Live /\ storing' = [storing EXCEPT ![p] = Jobs!None] /\ ~connected[p]
      /\ mem' = [mem EXCEPT ![p] = Append(@, c)]
      /\ redis' = redis \/ redis' = Append(redis, c)
      /\ cur' = cur /\ connected' = connected
  BY DEF Jobs!pushFails, Jobs!connection, JobsTypes
<1>2. c.attempts \in Nat /\ y \in Token /\ z \in Token
  BY <1>1, LiveFacts DEF Token
<1> HIDE DEF c
<1>3. ASSUME NEW t \in Token, RedisToken(t, j)' PROVE RedisToken(t, j) \/ (t = v /\ c.job = j)
  <2>1. CASE redis' = redis
    BY <1>3, <2>1 DEF RedisToken
  <2>2. CASE redis' = Append(redis, c)
    BY <1>1, <1>3, <2>2, RedisGrows
  <2> QED
    BY <1>1, <2>1, <2>2
<1>4. ASSUME NEW t \in Token, MemToken(t, j)' PROVE MemToken(t, j) \/ (t = x /\ c.job = j)
  BY <1>1, <1>4, MemGrows
<1>5. ASSUME NEW t \in Token, PushToken(t, j)' PROVE PushToken(t, j) /\ t.of # p
  <2>1. t.of \in Jobs!Process
    BY DEF Token
  <2>2. t.of # p
    BY <1>1, <1>5, <2>1, LiveFacts DEF PushToken, JobsTypes
  <2> QED
    BY <1>1, <1>5, <2>1, <2>2 DEF PushToken, JobsTypes
<1>6. \A t \in Token : CurToken(t, j)' => CurToken(t, j)
  BY <1>1 DEF CurToken
<1>7. Tokens(j)' \ {x, v} \subseteq Tokens(j) \ {y, z}
  <2> SUFFICES ASSUME NEW t \in Tokens(j)', t # x, t # v
               PROVE  t \in Tokens(j) /\ t # y /\ t # z
    OBVIOUS
  <2>1. t \in Token /\ (RedisToken(t, j)' \/ MemToken(t, j)' \/ PushToken(t, j)' \/ CurToken(t, j)')
    BY DEF Tokens
  <2>2. t \in Tokens(j)
    BY <1>3, <1>4, <1>5, <1>6, <2>1 DEF Tokens
  <2>3. t # y /\ t # z
    BY <1>3, <1>4, <1>5, <1>6, <2>1 DEF RedisToken, MemToken, CurToken
  <2> QED
    BY <2>2, <2>3
<1>8. c.job = j => y \in Tokens(j) /\ z \in Tokens(j)
  BY <1>1, <1>2 DEF Tokens, PushToken, c
<1>9. x \in Tokens(j)' => c.job = j
  <2> SUFFICES ASSUME NEW t \in Tokens(j)', t = x PROVE c.job = j
    OBVIOUS
  <2>1. t \in Token /\ MemToken(t, j)'
    BY DEF Tokens, RedisToken, PushToken, CurToken
  <2>2. ~MemToken(t, j)
    <3>1. Len(mem[p]) \in Nat
      BY LenProperties DEF JobsTypes
    <3> QED
      BY <3>1 DEF MemToken
  <2> QED
    BY <1>4, <2>1, <2>2
<1>10. v \in Tokens(j)' => c.job = j
  <2> SUFFICES ASSUME NEW t \in Tokens(j)', t = v PROVE c.job = j
    OBVIOUS
  <2>1. t \in Token /\ RedisToken(t, j)'
    BY DEF Tokens, MemToken, PushToken, CurToken
  <2>2. ~RedisToken(t, j)
    <3>1. Len(redis) \in Nat
      BY LenProperties DEF JobsTypes
    <3> QED
      BY <3>1 DEF RedisToken
  <2> QED
    BY <1>3, <2>1, <2>2
<1>11. x # v /\ y # z /\ y.from <= x.from /\ z.from <= v.from
  BY <1>2
<1> HIDE DEF x, y, v, z
<1> QED
  BY <1>7, <1>8, <1>9, <1>10, <1>11, TwoCome, TokenTypesNext

\* A copy is begun: its token goes on, and those of the other copies stay behind it.
LEMMA RunTokens ==
  ASSUME NEW S, NEW T, NEW a, NEW p, NEW i, NEW x, NEW y, \A s \in S : s.from \in Nat,
         Closed(S, T, a, p, i, x, y), y.from \in Run, x.from = y.from + 1
  PROVE  /\ Carries(S, T)
         /\ x \in T => /\ S # {}
                       /\ \A k \in Nat, f \in Nat : Budget(S, k, f) => Budget(T, k + 1, f)
<1> DEFINE g == Origin(a, p, i, x, y, T)
<1>2. /\ g \in [T -> S] /\ \A s, t \in T : g[s] = g[t] => s = t
      /\ \A t \in T : g[t].from <= t.from
      /\ x \in T => g[x] = y
  BY OriginFacts
<1> HIDE DEF g
<1>3. \A t \in T : t.from \in Nat /\ g[t].from \in Nat /\ g[t].from <= t.from
  BY <1>2 DEF Token, Closed
<1>4. ASSUME x \in T, NEW k \in Nat, NEW f \in Nat, Budget(S, k, f) PROVE Budget(T, k + 1, f)
  <2>1. g[x].from \in Run /\ x.from = g[x].from + 1
    BY <1>2, <1>4
  <2> QED
    BY <1>2, <1>3, <1>4, <2>1, BudgetRuns
<1> QED
  BY <1>2, <1>4 DEF Carries

LEMMA PopTokens ==
  ASSUME JobsTypes, WorkersFit, NEW w \in Worker, Jobs!pop(w), NEW j \in Job
  PROVE  LET c == redis[Jobs!First(redis)] IN
         /\ c \in Live /\ runs' = [runs EXCEPT ![c.job] = @ + 1]
         /\ Carries(Tokens(j), Tokens(j)')
         /\ c.job = j => /\ Tokens(j) # {}
                         /\ \A k \in Nat, f \in Nat :
                              Budget(Tokens(j), k, f) => Budget(Tokens(j)', k + 1, f)
<1> DEFINE i == Jobs!First(redis)
           c == redis[i]
           x == [at |-> "cur", of |-> w, n |-> 0, from |-> c.attempts + 1]
           y == [at |-> "redis", of |-> "server", n |-> i, from |-> c.attempts]
           Back(t) == ShiftAt("redis", "server", i, t)
<1>1. /\ redis # <<>> /\ redis' = Jobs!RemoveAt(redis, i) /\ cur' = [cur EXCEPT ![w] = c]
      /\ runs' = [runs EXCEPT ![c.job] = @ + 1] /\ worker[w] = "popping"
      /\ mem' = mem /\ storing' = storing /\ connected' = connected
  BY DEF Jobs!pop, Jobs!Run, Jobs!connection
<1>2. i \in 1..Len(redis) /\ i \in Nat /\ c \in Live
  BY <1>1, Shrinks DEF JobsTypes
<1>3. ASSUME NEW t \in Token, RedisToken(t, j)' PROVE RedisToken(Back(t), j) /\ Back(t).n # i
  BY <1>1, <1>3, RedisShrinks
<1> HIDE DEF i
<1>4. c.attempts \in Run /\ c.attempts \in Nat /\ y \in Token /\ x \in Token
  <2>1. "server" \in Jobs!Process /\ w \in Jobs!Process
    BY DEF Jobs!Process
  <2>2. c.attempts \in Run /\ c.attempts \in Nat
    BY <1>2, LiveFacts
  <2> HIDE DEF c
  <2> QED
    BY <1>2, <2>1, <2>2 DEF Token
<1> HIDE DEF c
<1>5. ASSUME NEW t \in Token, CurToken(t, j)' PROVE CurToken(t, j) \/ (t = x /\ c.job = j)
  <2>1. CASE t.of = w
    <3>1. cur'[w] = c
      BY <1>1 DEF JobsTypes
    <3> QED
      BY <1>5, <2>1, <3>1 DEF CurToken, Token
  <2>2. CASE t.of # w
    BY <1>1, <1>5, <2>2 DEF CurToken, JobsTypes
  <2> QED
    BY <2>1, <2>2
<1>6. \A t \in Token : /\ MemToken(t, j)' => MemToken(t, j)
                       /\ PushToken(t, j)' => PushToken(t, j)
  BY <1>1 DEF MemToken, PushToken
<1>7. \A t \in Tokens(j)' \ {x} : Back(t) \in Tokens(j) \ {y}
  <2> SUFFICES ASSUME NEW t \in Tokens(j)', t # x PROVE Back(t) \in Tokens(j) /\ Back(t) # y
    OBVIOUS
  <2>1. t \in Token /\ (RedisToken(t, j)' \/ MemToken(t, j)' \/ PushToken(t, j)' \/ CurToken(t, j)')
    BY DEF Tokens
  <2>2. Back(t) \in Token /\ (t.at # "redis" => Back(t) = t)
    BY <1>2, <2>1, ShiftFacts DEF ShiftAt
  <2>3. CASE RedisToken(t, j)'
    BY <1>3, <2>1, <2>2, <2>3 DEF Tokens
  <2>4. CASE MemToken(t, j)' \/ PushToken(t, j)' \/ CurToken(t, j)'
    <3>1. t.at # "redis"
      BY <2>4 DEF MemToken, PushToken, CurToken
    <3>2. t \in Tokens(j)
      BY <1>5, <1>6, <2>1, <2>4 DEF Tokens
    <3> QED
      BY <2>2, <3>1, <3>2
  <2> QED
    BY <2>1, <2>3, <2>4
<1>8. x \in Tokens(j)' => c.job = j
  <2> SUFFICES ASSUME NEW t \in Tokens(j)', t = x PROVE c.job = j
    OBVIOUS
  <2>1. t \in Token /\ CurToken(t, j)'
    BY DEF Tokens, RedisToken, MemToken, PushToken
  <2>2. cur[w] = Jobs!None
    BY <1>1 DEF WorkersFit
  <2>3. ~CurToken(t, j)
    BY <2>2, LiveFacts DEF CurToken
  <2> QED
    BY <1>5, <2>1, <2>3
<1>9. c.job = j => y \in Tokens(j) /\ x \in Tokens(j)'
  <2> SUFFICES ASSUME c.job = j PROVE y \in Tokens(j) /\ x \in Tokens(j)'
    OBVIOUS
  <2>1. RedisToken(y, j)
    BY <1>2 DEF RedisToken, c
  <2>2. ASSUME NEW t, t = x PROVE t \in Tokens(j)'
    <3>1. CurToken(t, j)'
      BY <1>1, <2>2 DEF CurToken, JobsTypes
    <3> QED
      BY <1>4, <2>2, <3>1 DEF Tokens
  <2> QED
    BY <1>4, <2>1, <2>2 DEF Tokens
<1>10. y.from \in Run /\ x.from = y.from + 1 /\ y.from <= x.from
  BY <1>4
<1> HIDE DEF x, y
<1>11. Closed(Tokens(j), Tokens(j)', "redis", "server", i, x, y)
  BY <1>2, <1>7, <1>8, <1>9, <1>10, TokenTypesNext DEF Closed
<1> HIDE DEF Back
<1>12. /\ Carries(Tokens(j), Tokens(j)')
       /\ x \in Tokens(j)' =>
            /\ Tokens(j) # {}
            /\ \A k \in Nat, f \in Nat : Budget(Tokens(j), k, f) => Budget(Tokens(j)', k + 1, f)
  BY <1>10, <1>11, RunTokens, TokenTypes
<1> QED
  BY <1>1, <1>2, <1>9, <1>12 DEF c, i

LEMMA PopMemoryTokens ==
  ASSUME JobsTypes, WorkersFit, NEW w \in Worker, Jobs!popMemory(w), NEW j \in Job
  PROVE  LET c == mem[w][Jobs!First(mem[w])] IN
         /\ c \in Live /\ runs' = [runs EXCEPT ![c.job] = @ + 1]
         /\ Carries(Tokens(j), Tokens(j)')
         /\ c.job = j => /\ Tokens(j) # {}
                         /\ \A k \in Nat, f \in Nat :
                              Budget(Tokens(j), k, f) => Budget(Tokens(j)', k + 1, f)
<1> DEFINE i == Jobs!First(mem[w])
           c == mem[w][i]
           x == [at |-> "cur", of |-> w, n |-> 0, from |-> c.attempts + 1]
           y == [at |-> "mem", of |-> w, n |-> i, from |-> c.attempts]
           Back(t) == ShiftAt("mem", w, i, t)
<1>1. /\ mem[w] # <<>> /\ mem' = [mem EXCEPT ![w] = Jobs!RemoveAt(@, i)]
      /\ cur' = [cur EXCEPT ![w] = c]
      /\ runs' = [runs EXCEPT ![c.job] = @ + 1] /\ worker[w] = "popping"
      /\ redis' = redis /\ storing' = storing /\ connected' = connected
  BY DEF Jobs!popMemory, Jobs!Run, Jobs!connection
<1>2. i \in 1..Len(mem[w]) /\ i \in Nat /\ c \in Live /\ w \in Jobs!Process
  <2>1. w \in Jobs!Process
    BY DEF Jobs!Process
  <2>2. mem[w] \in Seq(Live)
    BY <2>1 DEF JobsTypes
  <2> QED
    BY <1>1, <2>1, <2>2, Shrinks
<1>3. ASSUME NEW t \in Token, MemToken(t, j)'
      PROVE  MemToken(Back(t), j) /\ (Back(t).of = w => Back(t).n # i)
  BY <1>1, <1>2, <1>3, MemShrinks
<1> HIDE DEF i
<1>4. c.attempts \in Run /\ c.attempts \in Nat /\ y \in Token /\ x \in Token
  <2>1. c.attempts \in Run /\ c.attempts \in Nat
    BY <1>2, LiveFacts
  <2> HIDE DEF c
  <2> QED
    BY <1>2, <2>1 DEF Token
<1> HIDE DEF c
<1>5. ASSUME NEW t \in Token, CurToken(t, j)' PROVE CurToken(t, j) \/ (t = x /\ c.job = j)
  <2>1. CASE t.of = w
    <3>1. cur'[w] = c
      BY <1>1 DEF JobsTypes
    <3> QED
      BY <1>5, <2>1, <3>1 DEF CurToken, Token
  <2>2. CASE t.of # w
    BY <1>1, <1>5, <2>2 DEF CurToken, JobsTypes
  <2> QED
    BY <2>1, <2>2
<1>6. \A t \in Token : /\ RedisToken(t, j)' => RedisToken(t, j)
                       /\ PushToken(t, j)' => PushToken(t, j)
  BY <1>1 DEF RedisToken, PushToken
<1>7. \A t \in Tokens(j)' \ {x} : Back(t) \in Tokens(j) \ {y}
  <2> SUFFICES ASSUME NEW t \in Tokens(j)', t # x PROVE Back(t) \in Tokens(j) /\ Back(t) # y
    OBVIOUS
  <2>1. t \in Token /\ (RedisToken(t, j)' \/ MemToken(t, j)' \/ PushToken(t, j)' \/ CurToken(t, j)')
    BY DEF Tokens
  <2>2. Back(t) \in Token /\ (t.at # "mem" => Back(t) = t)
    BY <1>2, <2>1, ShiftFacts DEF ShiftAt
  <2>3. CASE MemToken(t, j)'
    BY <1>3, <2>1, <2>2, <2>3 DEF Tokens
  <2>4. CASE RedisToken(t, j)' \/ PushToken(t, j)' \/ CurToken(t, j)'
    <3>1. t.at # "mem"
      BY <2>4 DEF RedisToken, PushToken, CurToken
    <3>2. t \in Tokens(j)
      BY <1>5, <1>6, <2>1, <2>4 DEF Tokens
    <3> QED
      BY <2>2, <3>1, <3>2
  <2> QED
    BY <2>1, <2>3, <2>4
<1>8. x \in Tokens(j)' => c.job = j
  <2> SUFFICES ASSUME NEW t \in Tokens(j)', t = x PROVE c.job = j
    OBVIOUS
  <2>1. t \in Token /\ CurToken(t, j)'
    BY DEF Tokens, RedisToken, MemToken, PushToken
  <2>2. cur[w] = Jobs!None
    BY <1>1 DEF WorkersFit
  <2>3. ~CurToken(t, j)
    BY <2>2, LiveFacts DEF CurToken
  <2> QED
    BY <1>5, <2>1, <2>3
<1>9. c.job = j => y \in Tokens(j) /\ x \in Tokens(j)'
  <2> SUFFICES ASSUME c.job = j PROVE y \in Tokens(j) /\ x \in Tokens(j)'
    OBVIOUS
  <2>1. MemToken(y, j)
    BY <1>2 DEF MemToken, c
  <2>2. ASSUME NEW t, t = x PROVE t \in Tokens(j)'
    <3>1. CurToken(t, j)'
      BY <1>1, <2>2 DEF CurToken, JobsTypes
    <3> QED
      BY <1>4, <2>2, <3>1 DEF Tokens
  <2> QED
    BY <1>4, <2>1, <2>2 DEF Tokens
<1>10. y.from \in Run /\ x.from = y.from + 1 /\ y.from <= x.from
  BY <1>4
<1> HIDE DEF x, y
<1>11. Closed(Tokens(j), Tokens(j)', "mem", w, i, x, y)
  BY <1>2, <1>7, <1>8, <1>9, <1>10, TokenTypesNext DEF Closed
<1> HIDE DEF Back
<1>12. /\ Carries(Tokens(j), Tokens(j)')
       /\ x \in Tokens(j)' =>
            /\ Tokens(j) # {}
            /\ \A k \in Nat, f \in Nat : Budget(Tokens(j), k, f) => Budget(Tokens(j)', k + 1, f)
  BY <1>10, <1>11, RunTokens, TokenTypes
<1> QED
  BY <1>1, <1>2, <1>9, <1>12 DEF c, i

\* A run that ends, in either way.
LEMMA RunEndsTokens ==
  ASSUME JobsTypes, WorkersFit, NEW w \in Worker, Jobs!succeed(w) \/ Jobs!retry(w), NEW j \in Job
  PROVE  Carries(Tokens(j), Tokens(j)')
<1> DEFINE c == cur[w]
           d == [c EXCEPT !.attempts = @ + 1]
           y == [at |-> "cur", of |-> w, n |-> 0, from |-> c.attempts + 1]
           u == [at |-> "storing", of |-> w, n |-> 0, from |-> c.attempts + 1]
           v == [at |-> "mem", of |-> w, n |-> Len(mem[w]) + 1, from |-> c.attempts + 1]
<1>1. /\ worker[w] = "running" /\ c \in Live /\ cur' = [cur EXCEPT ![w] = Jobs!None]
      /\ redis' = redis /\ connected' = connected
  BY DEF Jobs!succeed, Jobs!retry, Jobs!connection, JobsTypes, WorkersFit
<1>2. w \in Jobs!Process /\ storing[w] = Jobs!None
  BY <1>1 DEF Jobs!Process, WorkersFit
<1>3. \/ mem' = mem /\ storing' = storing
      \/ ~Jobs!exhausted(c) /\ Jobs!beginPush(w, d)
  BY DEF Jobs!succeed, Jobs!retry
<1>4. c.attempts \in Nat /\ y \in Token
  <2>1. c.attempts \in Nat
    BY <1>1, LiveFacts
  <2> HIDE DEF c
  <2> QED
    BY <1>2, <2>1 DEF Token
<1>5. ~Jobs!exhausted(c) => d \in Live
  <2>1. ~Jobs!exhausted(c) => c.attempts + 1 < maxAttempts
    BY <1>4, JobsAssumption DEF Jobs!exhausted
  <2> HIDE DEF c
  <2> QED
    BY <1>1, <1>4, <2>1, JobsAssumption DEF Live
<1>6. d.job = c.job /\ d.attempts = c.attempts + 1
  BY <1>1 DEF Live
<1> HIDE DEF d
<1>7. \A t \in Token : RedisToken(t, j)' => RedisToken(t, j)
  BY <1>1 DEF RedisToken
<1>8. ASSUME NEW t \in Token, CurToken(t, j)' PROVE CurToken(t, j) /\ t # y
  <2>1. t.of # w
    BY <1>1, <1>8, LiveFacts DEF CurToken, JobsTypes
  <2> QED
    BY <1>1, <1>8, <2>1 DEF CurToken, JobsTypes
<1>9. c.job = j => y \in Tokens(j)
  BY <1>4 DEF Tokens, CurToken, c
<1> HIDE DEF c
<1>10. CASE mem' = mem /\ storing' = storing
  <2>1. \A t \in Token : /\ MemToken(t, j)' => MemToken(t, j)
                         /\ PushToken(t, j)' => PushToken(t, j)
    BY <1>1, <1>10 DEF MemToken, PushToken
  <2>2. Tokens(j)' \subseteq Tokens(j)
    BY <1>7, <1>8, <2>1 DEF Tokens
  <2> QED
    BY <2>2, NoneComes, TokenTypesNext
<1>11. CASE ~Jobs!exhausted(c) /\ connected[w] /\ storing' = [storing EXCEPT ![w] = d] /\ mem' = mem
  <2>1. ASSUME NEW t \in Token, PushToken(t, j)' PROVE PushToken(t, j) \/ (t = u /\ c.job = j)
    <3>1. t.of \in Jobs!Process
      BY DEF Token
    <3>2. CASE t.of = w
      <4>1. storing'[w] = d /\ connected'[w]
        BY <1>1, <1>2, <1>11 DEF JobsTypes
      <4>2. t.at = "storing" /\ t.n = 0 /\ d.job = j /\ d.attempts = t.from
        BY <2>1, <3>2, <4>1 DEF PushToken
      <4>3. t = u
        BY <1>6, <3>2, <4>2 DEF Token
      <4> QED
        BY <1>6, <4>2, <4>3
    <3>3. CASE t.of # w
      BY <1>1, <1>11, <2>1, <3>1, <3>3 DEF PushToken, JobsTypes
    <3> QED
      BY <3>2, <3>3
  <2>2. \A t \in Token : MemToken(t, j)' => MemToken(t, j)
    BY <1>11 DEF MemToken
  <2>3. Tokens(j)' \ {u} \subseteq Tokens(j) \ {y}
    <3> SUFFICES ASSUME NEW t \in Tokens(j)', t # u PROVE t \in Tokens(j) /\ t # y
      OBVIOUS
    <3>1. t \in Token /\ (RedisToken(t, j)' \/ MemToken(t, j)' \/ PushToken(t, j)' \/ CurToken(t, j)')
      BY DEF Tokens
    <3>2. t \in Tokens(j)
      BY <1>7, <1>8, <2>1, <2>2, <3>1 DEF Tokens
    <3>3. t # y
      BY <1>7, <1>8, <2>1, <2>2, <3>1 DEF RedisToken, MemToken, PushToken
    <3> QED
      BY <3>2, <3>3
  <2>4. u \in Tokens(j)' => c.job = j
    <3> SUFFICES ASSUME NEW t \in Tokens(j)', t = u PROVE c.job = j
      OBVIOUS
    <3>1. t \in Token /\ PushToken(t, j)'
      BY DEF Tokens, RedisToken, MemToken, CurToken
    <3>2. ~PushToken(t, j)
      BY <1>2, LiveFacts DEF PushToken
    <3> QED
      BY <2>1, <3>1, <3>2
  <2>5. y.from <= u.from
    BY <1>4
  <2> HIDE DEF u, y
  <2> QED
    BY <1>9, <2>3, <2>4, <2>5, OneComes, TokenTypesNext
<1>12. CASE ~Jobs!exhausted(c) /\ mem' = [mem EXCEPT ![w] = Append(@, d)] /\ storing' = storing
  <2>1. ASSUME NEW t \in Token, MemToken(t, j)' PROVE MemToken(t, j) \/ (t = v /\ c.job = j)
    BY <1>2, <1>5, <1>6, <1>12, <2>1, MemGrows
  <2>2. \A t \in Token : PushToken(t, j)' => PushToken(t, j)
    BY <1>1, <1>12 DEF PushToken
  <2>3. Tokens(j)' \ {v} \subseteq Tokens(j) \ {y}
    <3> SUFFICES ASSUME NEW t \in Tokens(j)', t # v PROVE t \in Tokens(j) /\ t # y
      OBVIOUS
    <3>1. t \in Token /\ (RedisToken(t, j)' \/ MemToken(t, j)' \/ PushToken(t, j)' \/ CurToken(t, j)')
      BY DEF Tokens
    <3>2. t \in Tokens(j)
      BY <1>7, <1>8, <2>1, <2>2, <3>1 DEF Tokens
    <3>3. t # y
      BY <1>7, <1>8, <2>1, <2>2, <3>1 DEF RedisToken, MemToken, PushToken
    <3> QED
      BY <3>2, <3>3
  <2>4. v \in Tokens(j)' => c.job = j
    <3> SUFFICES ASSUME NEW t \in Tokens(j)', t = v PROVE c.job = j
      OBVIOUS
    <3>1. t \in Token /\ MemToken(t, j)'
      BY DEF Tokens, RedisToken, PushToken, CurToken
    <3>2. ~MemToken(t, j)
      <4>1. Len(mem[w]) \in Nat
        BY <1>2, LenProperties DEF JobsTypes
      <4> QED
        BY <4>1 DEF MemToken
    <3> QED
      BY <2>1, <3>1, <3>2
  <2>5. y.from <= v.from
    BY <1>4
  <2> HIDE DEF v, y
  <2> QED
    BY <1>9, <2>3, <2>4, <2>5, OneComes, TokenTypesNext
<1> QED
  BY <1>3, <1>10, <1>11, <1>12 DEF Jobs!beginPush

\* What goes wrong: a broken connection may double the push that waits on it, and may
\* lose the copy a pop was answered with; a stop loses what the worker has.
LEMMA FaultTokens ==
  ASSUME JobsTypes, NEW p \in Jobs!Process,
         Jobs!disconnect(p) \/ (p \in Worker /\ Jobs!stop(p)), NEW j \in Job
  PROVE  /\ faults' = faults + 1
         /\ \A k, f \in Nat : Budget(Tokens(j), k, f) => Budget(Tokens(j)', k, f + 1)
         /\ Tokens(j) = {} => Tokens(j)' = {}
<1> DEFINE i == IF redis # <<>> THEN Jobs!First(redis) ELSE 0
           z == [at |-> "double", of |-> p, n |-> 0, from |-> storing[p].attempts]
           Back(t) == ShiftAt(IF redis' = redis THEN "none" ELSE "redis", "server", i, t)
           T == Tokens(j)' \ {z}
<1>1. /\ redis' = redis \/ (redis # <<>> /\ redis' = Jobs!RemoveAt(redis, Jobs!First(redis)))
      /\ faults' = faults + 1
  BY DEF Jobs!disconnect, Jobs!stop
<1>2. i \in Nat
  BY Shrinks DEF JobsTypes
<1>3. ASSUME NEW t \in Token, RedisToken(t, j)' PROVE RedisToken(Back(t), j)
  <2>1. CASE redis' = redis
    <3>1. Back(t) = t
      BY <2>1, <1>3 DEF ShiftAt, RedisToken
    <3> QED
      BY <1>3, <2>1, <3>1 DEF RedisToken
  <2>2. CASE redis' # redis
    BY <1>1, <1>3, <2>2, RedisShrinks
  <2> QED
    BY <2>1, <2>2
<1>4. ASSUME NEW t \in Token, MemToken(t, j)' PROVE MemToken(t, j)
  <2>1. t.of \in Jobs!Process
    BY DEF Token
  <2>2. CASE mem' = mem
    BY <1>4, <2>2 DEF MemToken
  <2>3. CASE mem' = [mem EXCEPT ![p] = <<>>]
    <3>1. t.of # p
      BY <1>4, <2>1, <2>3, EmptySeq DEF MemToken, JobsTypes
    <3> QED
      BY <1>4, <2>1, <2>3, <3>1 DEF MemToken, JobsTypes
  <2> QED
    BY <2>2, <2>3 DEF Jobs!disconnect, Jobs!stop
<1>5. ASSUME NEW t \in Token, CurToken(t, j)' PROVE CurToken(t, j)
  <2>1. CASE cur' = cur
    BY <1>5, <2>1 DEF CurToken
  <2>2. CASE p \in Worker /\ cur' = [cur EXCEPT ![p] = Jobs!None]
    <3>1. t.of # p
      BY <1>5, <2>2, LiveFacts DEF CurToken, JobsTypes
    <3> QED
      BY <1>5, <2>2, <3>1 DEF CurToken, JobsTypes
  <2> QED
    BY <2>1, <2>2 DEF Jobs!disconnect, Jobs!stop
<1>6. ASSUME NEW t \in Token, PushToken(t, j)', t # z PROVE PushToken(t, j)
  <2>1. t.of \in Jobs!Process
    BY DEF Token
  <2>2. CASE Jobs!disconnect(p)
    <3>1. storing' = storing /\ connected' = [connected EXCEPT ![p] = FALSE]
      BY <2>2 DEF Jobs!disconnect
    <3>2. CASE t.of # p
      BY <1>6, <2>1, <3>1, <3>2 DEF PushToken, JobsTypes
    <3>3. CASE t.of = p /\ t.at = "storing"
      BY <1>6, <3>1, <3>3 DEF PushToken
    <3>4. CASE t.of = p /\ t.at = "double"
      <4>1. t.n = 0 /\ t.from = storing[p].attempts
        BY <1>6, <3>1, <3>4 DEF PushToken
      <4>2. t = z
        BY <3>4, <4>1 DEF Token
      <4> QED
        BY <1>6, <4>2
    <3> QED
      BY <1>6, <3>2, <3>3, <3>4 DEF PushToken
  <2>3. CASE Jobs!stop(p)
    <3>1. storing' = [storing EXCEPT ![p] = Jobs!None] /\ connected' = connected
      BY <2>3 DEF Jobs!stop
    <3>2. t.of # p
      BY <1>6, <2>1, <3>1, LiveFacts DEF PushToken, JobsTypes
    <3> QED
      BY <1>6, <2>1, <3>1, <3>2 DEF PushToken, JobsTypes
  <2> QED
    BY <2>2, <2>3
<1>7. \A t \in T : Back(t) \in Tokens(j)
  <2> SUFFICES ASSUME NEW t \in Tokens(j)', t # z PROVE Back(t) \in Tokens(j)
    OBVIOUS
  <2>1. t \in Token /\ (RedisToken(t, j)' \/ MemToken(t, j)' \/ PushToken(t, j)' \/ CurToken(t, j)')
    BY DEF Tokens
  <2>2. Back(t) \in Token /\ (t.at # "redis" => Back(t) = t)
    <3> HIDE DEF i
    <3> QED
      BY <1>2, <2>1, ShiftFacts DEF ShiftAt, Token
  <2>3. CASE RedisToken(t, j)'
    BY <1>3, <2>1, <2>2, <2>3 DEF Tokens
  <2>4. CASE MemToken(t, j)' \/ PushToken(t, j)' \/ CurToken(t, j)'
    <3>1. t.at # "redis"
      BY <2>4 DEF MemToken, PushToken, CurToken
    <3>2. t \in Tokens(j)
      BY <1>4, <1>5, <1>6, <2>1, <2>4 DEF Tokens
    <3> QED
      BY <2>2, <3>1, <3>2
  <2> QED
    BY <2>1, <2>3, <2>4
<1>8. Carries(Tokens(j), T)
  <2> DEFINE a == IF redis' = redis THEN "none" ELSE "redis"
             g == [t \in T |-> Back(t)]
  <2>1. T \subseteq Token
    BY TokenTypesNext
  <2>2. g \in [T -> Tokens(j)] /\ \A t \in T : g[t] = ShiftAt(a, "server", i, t)
    BY <1>7
  <2> HIDE DEF a, i, T, g
  <2>3. \A s, t \in T : g[s] = g[t] => s = t
    BY <1>2, <2>1, <2>2, ShiftInjective
  <2>4. \A t \in T : g[t].from <= t.from
    BY <1>2, <2>1, <2>2, ShiftFacts DEF Token
  <2> QED
    BY <2>2, <2>3, <2>4 DEF Carries
<1>9. z \in Tokens(j)' => Tokens(j) # {}
  <2> SUFFICES ASSUME NEW t \in Tokens(j)', t = z PROVE Tokens(j) # {}
    OBVIOUS
  <2>1. t \in Token /\ PushToken(t, j)'
    BY DEF Tokens, RedisToken, MemToken, CurToken
  <2> DEFINE u == [t EXCEPT !.at = "storing"]
  <2>2. storing'[p] = storing[p] \/ storing'[p] = Jobs!None
    BY DEF Jobs!disconnect, Jobs!stop, JobsTypes
  <2>3. storing[p].job = j /\ storing[p].attempts = t.from /\ t.n = 0 /\ t.of = p
    BY <2>1, <2>2, LiveFacts DEF PushToken
  <2>4. u \in Token /\ PushToken(u, j)
    BY <2>1, <2>3 DEF PushToken, Token
  <2>5. u \in Tokens(j)
    BY <2>4 DEF Tokens
  <2> QED
    BY <2>5
<1>10. Tokens(j)' \subseteq T \cup {z} /\ \A s \in T : s.from \in Nat
  BY TokenTypesNext
<1> HIDE DEF T, z
<1>11. ASSUME NEW k \in Nat, NEW f \in Nat, Budget(Tokens(j), k, f)
       PROVE  Budget(Tokens(j)', k, f + 1)
  <2>1. Budget(T, k, f)
    BY <1>8, <1>10, <1>11, CarriedBudget, TokenTypes
  <2> QED
    BY <1>10, <2>1, BudgetDoubles
<1>12. Tokens(j) = {} => T = {}
  BY <1>8, <1>10, CarriedBudget, TokenTypes
<1> QED
  BY <1>1, <1>9, <1>10, <1>11, <1>12

\* Coming back only ends what might have been doubled.
LEMMA BackTokens ==
  ASSUME JobsTypes, NEW p \in Jobs!Process,
         Jobs!connect(p) \/ (p \in Worker /\ Jobs!start(p)), NEW j \in Job
  PROVE  Carries(Tokens(j), Tokens(j)')
<1>1. /\ connected' = [connected EXCEPT ![p] = TRUE]
      /\ redis' = redis /\ mem' = mem /\ storing' = storing /\ cur' = cur
  BY DEF Jobs!connect, Jobs!start
<1>2. \A t \in Token : /\ RedisToken(t, j)' => RedisToken(t, j)
                       /\ MemToken(t, j)' => MemToken(t, j)
                       /\ CurToken(t, j)' => CurToken(t, j)
  BY <1>1 DEF RedisToken, MemToken, CurToken
<1>3. ASSUME NEW t \in Token, PushToken(t, j)' PROVE PushToken(t, j)
  <2>1. t.of \in Jobs!Process
    BY DEF Token
  <2> QED
    BY <1>1, <1>3, <2>1 DEF PushToken, JobsTypes
<1>4. Tokens(j)' \subseteq Tokens(j)
  BY <1>2, <1>3 DEF Tokens
<1> QED
  BY <1>4, NoneComes, TokenTypesNext

\* The server's push of a new job makes its first token.
LEMMA PushTokens ==
  ASSUME JobsTypes, NEW j \in Job, storing["server"] = Jobs!None,
         Jobs!beginPush("server", [job |-> j, attempts |-> 0]),
         redis' = redis, cur' = cur, connected' = connected, NEW l \in Job
  PROVE  /\ l # j => Carries(Tokens(l), Tokens(l)')
         /\ l = j /\ Tokens(j) = {} => \E d : Tokens(j)' \subseteq {d}
<1> DEFINE c == [job |-> j, attempts |-> 0]
           u == [at |-> "storing", of |-> "server", n |-> 0, from |-> 0]
           v == [at |-> "mem", of |-> "server", n |-> Len(mem["server"]) + 1, from |-> 0]
           d == IF connected["server"] THEN u ELSE v
<1>1. /\ c \in Live /\ c.job = j /\ c.attempts = 0 /\ "server" \in Jobs!Process
  BY LiveFacts DEF Jobs!Process
<1>2. \/ connected["server"] /\ storing' = [storing EXCEPT !["server"] = c] /\ mem' = mem
      \/ ~connected["server"] /\ mem' = [mem EXCEPT !["server"] = Append(@, c)] /\ storing' = storing
  BY DEF Jobs!beginPush
<1> HIDE DEF c
<1>3. ASSUME NEW t \in Token, PushToken(t, l)'
      PROVE  PushToken(t, l) \/ (t = d /\ l = j)
  <2>1. t.of \in Jobs!Process
    BY DEF Token
  <2>2. CASE storing' = storing
    BY <1>3, <2>2 DEF PushToken
  <2>3. CASE connected["server"] /\ storing' = [storing EXCEPT !["server"] = c] /\ t.of # "server"
    BY <1>3, <2>1, <2>3 DEF PushToken, JobsTypes
  <2>4. CASE connected["server"] /\ storing' = [storing EXCEPT !["server"] = c] /\ t.of = "server"
    <3>1. storing'["server"] = c
      BY <1>1, <2>4 DEF JobsTypes
    <3>2. t.at = "storing" /\ t.n = 0 /\ t.from = 0 /\ l = j
      BY <1>1, <1>3, <2>4, <3>1 DEF PushToken
    <3>3. t = u
      BY <2>4, <3>2 DEF Token
    <3> QED
      BY <2>4, <3>2, <3>3
  <2> QED
    BY <1>2, <2>2, <2>3, <2>4
<1>4. ASSUME NEW t \in Token, MemToken(t, l)' PROVE MemToken(t, l) \/ (t = d /\ l = j)
  <2>1. CASE mem' = mem
    BY <1>4, <2>1 DEF MemToken
  <2>2. CASE ~connected["server"] /\ mem' = [mem EXCEPT !["server"] = Append(@, c)]
    BY <1>1, <1>4, <2>2, MemGrows
  <2> QED
    BY <1>2, <2>1, <2>2
<1>5. \A t \in Token : /\ RedisToken(t, l)' => RedisToken(t, l)
                       /\ CurToken(t, l)' => CurToken(t, l)
  BY DEF RedisToken, CurToken
<1> HIDE DEF d
<1>6. \A t \in Tokens(l)' : t \in Tokens(l) \/ (t = d /\ l = j)
  BY <1>3, <1>4, <1>5 DEF Tokens
<1>7. ASSUME l # j PROVE Carries(Tokens(l), Tokens(l)')
  <2>1. Tokens(l)' \subseteq Tokens(l)
    BY <1>6, <1>7
  <2> QED
    BY <2>1, NoneComes, TokenTypesNext
<1>8. ASSUME l = j, Tokens(j) = {} PROVE Tokens(j)' \subseteq {d}
  BY <1>6, <1>8
<1> QED
  BY <1>7, <1>8

\* A job is accounted for by the queue that holds it, or by who has it.
LEMMA HoldsFacts ==
  ASSUME NEW q \in Seq(Live), NEW j
  PROVE  /\ Jobs!Holds(q, j) <=> \E n \in 1..Len(q) : q[n].job = j
         /\ \A c \in Live : Jobs!Holds(q, j) \/ c.job = j => Jobs!Holds(Append(q, c), j)
         /\ q # <<>> /\ Jobs!Holds(q, j) =>
              \/ q[Jobs!First(q)].job = j
              \/ Jobs!Holds(Jobs!RemoveAt(q, Jobs!First(q)), j)
<1>1. \A s \in Seq(Live) : Jobs!Holds(s, j) <=> \E n \in 1..Len(s) : s[n].job = j
  BY DEF Jobs!Holds
<1>2. ASSUME NEW c \in Live, Jobs!Holds(q, j) \/ c.job = j PROVE Jobs!Holds(Append(q, c), j)
  <2> DEFINE r == Append(q, c)
  <2>1. /\ r \in Seq(Live) /\ \A n \in 1..Len(q) : n \in 1..Len(r) /\ r[n] = q[n]
        /\ Len(r) \in 1..Len(r) /\ r[Len(r)] = c
    BY Grows
  <2> HIDE DEF r
  <2>2. \E n \in 1..Len(r) : r[n].job = j
    BY <1>1, <1>2, <2>1
  <2> QED
    BY <1>1, <2>1, <2>2 DEF r
<1>3. ASSUME q # <<>>, Jobs!Holds(q, j), q[Jobs!First(q)].job # j
      PROVE  Jobs!Holds(Jobs!RemoveAt(q, Jobs!First(q)), j)
  <2> DEFINE i == Jobs!First(q)
             r == Jobs!RemoveAt(q, i)
  <2>1. r \in Seq(Live) /\ \A n \in 1..Len(q) \ {i} : \E m \in 1..Len(r) : r[m] = q[n]
    BY <1>3, Shrinks
  <2>2. PICK n \in 1..Len(q) : q[n].job = j
    BY <1>1, <1>3
  <2> HIDE DEF i, r
  <2>3. n # i
    BY <1>3, <2>2 DEF i
  <2>4. \E m \in 1..Len(r) : r[m].job = j
    BY <2>1, <2>2, <2>3
  <2> QED
    BY <1>1, <2>1, <2>4 DEF r, i
<1> QED
  BY <1>1, <1>2, <1>3

LEMMA HoldsMore ==
  ASSUME NEW q \in Seq(Live), NEW c \in Live, NEW j, Jobs!Holds(q, j) \/ c.job = j
  PROVE  Jobs!Holds(Append(q, c), j)
BY HoldsFacts

\* The types of the queue: no copy is ever at an attempt that is not allowed.
LEMMA JobsTypesStep ==
  ASSUME JobsTypes, WorkersFit, Jobs!Next PROVE JobsTypes' /\ WorkersFit'
<1> USE DEF Jobs!connection
<1>0. \A w \in Worker : w \in Jobs!Process /\ w # "server"
  BY JobsAssumption DEF Jobs!Process
<1>1. ASSUME NEW p \in Jobs!Process, NEW c \in Live, Jobs!beginPush(p, c)
      PROVE  /\ mem' \in [Jobs!Process -> Seq(Live)]
             /\ storing' \in [Jobs!Process -> Live \cup {Jobs!None}]
             /\ \A q \in Jobs!Process \ {p} : storing'[q] = storing[q]
             /\ ~connected[p] => storing' = storing
  <2>1. CASE connected[p]
    BY <1>1, <2>1 DEF Jobs!beginPush, JobsTypes
  <2>2. CASE ~connected[p]
    <3>1. Append(mem[p], c) \in Seq(Live)
      BY Grows DEF JobsTypes
    <3> QED
      BY <1>1, <2>2, <3>1 DEF Jobs!beginPush, JobsTypes
  <2> QED
    BY <2>1, <2>2
<1>2. CASE Jobs!push
  <2>1. PICK j \in Job : /\ ended' = [ended EXCEPT ![j] = "open"]
                         /\ Jobs!beginPush("server", [job |-> j, attempts |-> 0])
    BY <1>2 DEF Jobs!push
  <2>2. [job |-> j, attempts |-> 0] \in Live /\ "server" \in Jobs!Process
    BY LiveFacts DEF Jobs!Process
  <2>3. /\ mem' \in [Jobs!Process -> Seq(Live)]
        /\ storing' \in [Jobs!Process -> Live \cup {Jobs!None}]
        /\ \A q \in Jobs!Process \ {"server"} : storing'[q] = storing[q]
    BY <1>1, <2>1, <2>2
  <2>4. JobsTypes'
    BY <1>2, <2>1, <2>3 DEF Jobs!push, JobsTypes
  <2>5. WorkersFit'
    BY <1>0, <1>2, <2>3 DEF Jobs!push, WorkersFit
  <2> QED
    BY <2>4, <2>5
<1>3. ASSUME NEW p \in Jobs!Process, Jobs!pushed(p) \/ Jobs!pushFails(p)
      PROVE  JobsTypes' /\ WorkersFit'
  <2>1. storing[p] \in Live
    BY <1>3 DEF Jobs!pushed, Jobs!pushFails, JobsTypes
  <2>2. Append(redis, storing[p]) \in Seq(Live) /\ Append(mem[p], storing[p]) \in Seq(Live)
    BY <2>1, Grows DEF JobsTypes
  <2>3. /\ storing' = [storing EXCEPT ![p] = Jobs!None] /\ Jobs!Resume(p)
        /\ cur' = cur /\ runs' = runs /\ ended' = ended /\ connected' = connected
        /\ faults' = faults
    BY <1>3 DEF Jobs!pushed, Jobs!pushFails
  <2>4. mem' \in [Jobs!Process -> Seq(Live)] /\ redis' \in Seq(Live)
    BY <1>3, <2>2 DEF Jobs!pushed, Jobs!pushFails, JobsTypes
  <2>5. worker' \in [Worker -> {"popping", "running", "backing", "closed"}]
    BY <2>3 DEF Jobs!Resume, JobsTypes
  <2>6. JobsTypes'
    BY <2>3, <2>4, <2>5 DEF JobsTypes
  <2>7. ASSUME NEW w \in Worker PROVE WorkersFit!(w)'
    <3>1. /\ worker'[w] = IF w = p /\ worker[w] = "backing" THEN "popping" ELSE worker[w]
          /\ w # p => storing'[w] = storing[w]
          /\ w = p => storing'[w] = Jobs!None
      BY <1>0, <2>3 DEF Jobs!Resume, JobsTypes
    <3> QED
      BY <2>3, <3>1 DEF WorkersFit
  <2> QED
    BY <2>6, <2>7 DEF WorkersFit
<1>4. ASSUME NEW w \in Worker, Jobs!pop(w) \/ Jobs!popMemory(w)
      PROVE  JobsTypes' /\ WorkersFit'
  <2>1. PICK c \in Live : Jobs!Run(w, c) /\ redis' \in Seq(Live)
                          /\ mem' \in [Jobs!Process -> Seq(Live)]
    <3>1. CASE Jobs!pop(w)
      <4>1. redis[Jobs!First(redis)] \in Live /\ Jobs!RemoveAt(redis, Jobs!First(redis)) \in Seq(Live)
        BY <3>1, Shrinks DEF Jobs!pop, JobsTypes
      <4> QED
        BY <3>1, <4>1 DEF Jobs!pop, JobsTypes
    <3>2. CASE Jobs!popMemory(w)
      <4> DEFINE q == mem[w]
      <4>1. q[Jobs!First(q)] \in Live /\ Jobs!RemoveAt(q, Jobs!First(q)) \in Seq(Live)
        BY <1>0, <3>2, Shrinks DEF Jobs!popMemory, JobsTypes
      <4> QED
        BY <1>0, <3>2, <4>1 DEF Jobs!popMemory, JobsTypes
    <3> QED
      BY <1>4, <3>1, <3>2
  <2>2. /\ storing' = storing /\ ended' = ended /\ connected' = connected /\ faults' = faults
        /\ worker[w] = "popping"
    BY <1>4 DEF Jobs!pop, Jobs!popMemory
  <2>3. c.job \in Job /\ c # Jobs!None
    BY LiveFacts
  <2>4. runs' \in [Job -> Nat]
    BY <2>1, <2>3 DEF Jobs!Run, JobsTypes
  <2>5. JobsTypes'
    BY <2>1, <2>2, <2>4 DEF Jobs!Run, JobsTypes
  <2>6. WorkersFit'
    BY <2>1, <2>2, <2>3 DEF Jobs!Run, WorkersFit, JobsTypes
  <2> QED
    BY <2>5, <2>6
<1>5. ASSUME NEW w \in Worker, Jobs!succeed(w) PROVE JobsTypes' /\ WorkersFit'
  <2>1. cur[w] \in Live /\ cur[w].job \in Job
    BY <1>5, LiveFacts DEF Jobs!succeed, WorkersFit, JobsTypes
  <2>2. JobsTypes'
    BY <1>5, <2>1 DEF Jobs!succeed, JobsTypes
  <2>3. WorkersFit'
    BY <1>5 DEF Jobs!succeed, WorkersFit, JobsTypes
  <2> QED
    BY <2>2, <2>3
<1>6. ASSUME NEW w \in Worker, Jobs!retry(w) PROVE JobsTypes' /\ WorkersFit'
  <2> DEFINE c == cur[w]
             d == [c EXCEPT !.attempts = @ + 1]
  <2>1. /\ c \in Live /\ c.job \in Job /\ c.attempts \in Nat /\ worker[w] = "running"
        /\ cur' = [cur EXCEPT ![w] = Jobs!None]
        /\ redis' = redis /\ runs' = runs /\ connected' = connected /\ faults' = faults
    BY <1>6, LiveFacts DEF Jobs!retry, WorkersFit, JobsTypes
  <2>2. CASE Jobs!exhausted(c)
    <3>1. /\ worker' = [worker EXCEPT ![w] = "popping"] /\ mem' = mem /\ storing' = storing
          /\ ended' = [ended EXCEPT ![c.job] = IF @ = "done" THEN @ ELSE "exhausted"]
      BY <1>6, <2>2 DEF Jobs!retry
    <3>2. ended' \in [Job -> {"new", "open", "done", "exhausted"}]
      BY <2>1, <3>1 DEF JobsTypes
    <3>3. JobsTypes'
      BY <2>1, <3>1, <3>2 DEF JobsTypes
    <3>4. WorkersFit'
      BY <2>1, <3>1 DEF WorkersFit, JobsTypes
    <3> QED
      BY <3>3, <3>4
  <2>3. CASE ~Jobs!exhausted(c)
    <3>1. /\ Jobs!beginPush(w, d) /\ ended' = ended
          /\ worker' = [worker EXCEPT ![w] = IF connected[w] THEN "backing" ELSE "popping"]
      BY <1>6, <2>3 DEF Jobs!retry
    <3>2. d \in Live
      <4>1. c.attempts + 1 < maxAttempts
        BY <2>1, <2>3, JobsAssumption DEF Jobs!exhausted
      <4> HIDE DEF c
      <4> QED
        BY <2>1, <4>1, JobsAssumption DEF Live
    <3> HIDE DEF d
    <3>3. /\ mem' \in [Jobs!Process -> Seq(Live)]
          /\ storing' \in [Jobs!Process -> Live \cup {Jobs!None}]
          /\ \A q \in Jobs!Process \ {w} : storing'[q] = storing[q]
          /\ ~connected[w] => storing' = storing
      BY <1>0, <1>1, <3>1, <3>2
    <3>4. JobsTypes'
      BY <2>1, <3>1, <3>3 DEF JobsTypes
    <3>5. ASSUME NEW x \in Worker PROVE WorkersFit!(x)'
      <4>1. CASE x = w
        BY <1>0, <2>1, <3>1, <3>3, <4>1 DEF WorkersFit, JobsTypes
      <4>2. CASE x # w
        BY <1>0, <2>1, <3>1, <3>3, <4>2 DEF WorkersFit, JobsTypes
      <4> QED
        BY <4>1, <4>2
    <3> QED
      BY <3>4, <3>5 DEF WorkersFit
  <2> QED
    BY <2>2, <2>3
<1>7. ASSUME NEW p \in Jobs!Process, Jobs!disconnect(p) \/ (p \in Worker /\ Jobs!stop(p))
      PROVE  JobsTypes' /\ WorkersFit'
  <2>1. redis' \in Seq(Live)
    <3>1. redis # <<>> => Jobs!RemoveAt(redis, Jobs!First(redis)) \in Seq(Live)
      BY Shrinks DEF JobsTypes
    <3> QED
      BY <1>7, <3>1 DEF Jobs!disconnect, Jobs!stop, JobsTypes
  <2>2. faults' \in 0..MaxFaults
    BY <1>7, JobsAssumption DEF Jobs!disconnect, Jobs!stop, JobsTypes
  <2>3. CASE Jobs!disconnect(p)
    BY <2>1, <2>2, <2>3 DEF Jobs!disconnect, JobsTypes, WorkersFit
  <2>4. CASE p \in Worker /\ Jobs!stop(p)
    <3>1. JobsTypes'
      BY <2>1, <2>2, <2>4, EmptySeq DEF Jobs!stop, JobsTypes
    <3>2. WorkersFit'
      BY <1>0, <2>4 DEF Jobs!stop, JobsTypes, WorkersFit
    <3> QED
      BY <3>1, <3>2
  <2> QED
    BY <1>7, <2>3, <2>4
<1>8. ASSUME NEW p \in Jobs!Process, Jobs!connect(p) PROVE JobsTypes' /\ WorkersFit'
  BY <1>8 DEF Jobs!connect, JobsTypes, WorkersFit
<1>9. ASSUME NEW w \in Worker, Jobs!start(w) PROVE JobsTypes' /\ WorkersFit'
  BY <1>9 DEF Jobs!start, JobsTypes, WorkersFit
<1> QED
  BY <1>0, <1>2, <1>3, <1>4, <1>5, <1>6, <1>7, <1>8, <1>9 DEF Jobs!Next

\* No copy gets lost without a fault.
LEMMA AccountedStep ==
  ASSUME JobsTypes, WorkersFit, Jobs!JobAccounted, Jobs!Next PROVE Jobs!JobAccounted'
<1> USE DEF Jobs!connection
<1> SUFFICES ASSUME NEW j \in Job, ended'[j] = "open", faults' = 0 PROVE Jobs!Somewhere(j)'
  BY DEF Jobs!JobAccounted
<1>0. /\ \A w \in Worker : w \in Jobs!Process
      /\ \A p \in Jobs!Process : mem[p] \in Seq(Live)
      /\ redis \in Seq(Live) /\ faults \in Nat /\ j # "none" /\ Jobs!None.job # j
  BY JobsAssumption, LiveFacts DEF Jobs!Process, JobsTypes
<1>1. ended[j] = "open" /\ faults = 0 => Jobs!Somewhere(j)
  BY DEF Jobs!JobAccounted
<1>2. CASE Jobs!push
  <2>1. PICK i \in Job : /\ ended' = [ended EXCEPT ![i] = "open"] /\ storing["server"] = Jobs!None
                         /\ Jobs!beginPush("server", [job |-> i, attempts |-> 0])
    BY <1>2 DEF Jobs!push
  <2>2. /\ redis' = redis /\ cur' = cur /\ faults' = faults /\ "server" \in Jobs!Process
        /\ [job |-> i, attempts |-> 0] \in Live
    BY <1>2, LiveFacts DEF Jobs!push, Jobs!Process
  <2>3. CASE i = j
    <3>1. CASE connected["server"]
      <4>1. storing'["server"].job = j
        BY <2>1, <2>2, <2>3, <3>1 DEF Jobs!beginPush, JobsTypes
      <4> QED
        BY <2>2, <4>1 DEF Jobs!Somewhere
    <3>2. CASE ~connected["server"]
      <4>1. Jobs!Holds(mem'["server"], j)
        <5>1. mem'["server"] = Append(mem["server"], [job |-> i, attempts |-> 0])
          BY <2>1, <2>2, <3>2 DEF Jobs!beginPush, JobsTypes
        <5> QED
          BY <1>0, <2>2, <2>3, <5>1, HoldsFacts
      <4> QED
        BY <2>2, <4>1 DEF Jobs!Somewhere
    <3> QED
      BY <3>1, <3>2
  <2>4. CASE i # j
    <3>1. Jobs!Somewhere(j)
      BY <1>1, <2>1, <2>2, <2>4 DEF JobsTypes
    <3>2. ASSUME NEW p \in Jobs!Process, Jobs!Holds(mem[p], j) PROVE Jobs!Holds(mem'[p], j)
      <4>1. mem'[p] = mem[p] \/ mem'[p] = Append(mem[p], [job |-> i, attempts |-> 0])
        BY <2>1 DEF Jobs!beginPush, JobsTypes
      <4> QED
        BY <1>0, <2>2, <3>2, <4>1, HoldsMore
    <3>3. ASSUME NEW p \in Jobs!Process, storing[p].job = j PROVE storing'[p].job = j
      <4>1. p # "server"
        BY <1>0, <2>1, <3>3
      <4> QED
        BY <2>1, <3>3, <4>1 DEF Jobs!beginPush, JobsTypes
    <3> QED
      BY <2>2, <3>1, <3>2, <3>3 DEF Jobs!Somewhere
  <2> QED
    BY <2>3, <2>4
<1>3. ASSUME NEW p \in Jobs!Process, Jobs!pushed(p) \/ Jobs!pushFails(p)
      PROVE  Jobs!Somewhere(j)'
  <2>1. /\ storing' = [storing EXCEPT ![p] = Jobs!None] /\ cur' = cur /\ ended' = ended
        /\ faults' = faults /\ storing[p] \in Live
    BY <1>3 DEF Jobs!pushed, Jobs!pushFails, JobsTypes
  <2>2. Jobs!Somewhere(j)
    BY <1>1, <2>1
  <2>3. Jobs!Holds(redis, j) => Jobs!Holds(redis', j)
    BY <1>0, <1>3, <2>1, HoldsMore DEF Jobs!pushed, Jobs!pushFails
  <2>4. ASSUME NEW q \in Jobs!Process, Jobs!Holds(mem[q], j) PROVE Jobs!Holds(mem'[q], j)
    <3>1. mem'[q] = mem[q] \/ mem'[q] = Append(mem[q], storing[p])
      BY <1>3 DEF Jobs!pushed, Jobs!pushFails, JobsTypes
    <3> QED
      BY <1>0, <2>1, <2>4, <3>1, HoldsMore
  <2>5. storing[p].job = j => Jobs!Holds(redis', j) \/ Jobs!Holds(mem'[p], j)
    <3>1. redis' = Append(redis, storing[p]) \/ mem'[p] = Append(mem[p], storing[p])
      BY <1>3 DEF Jobs!pushed, Jobs!pushFails, JobsTypes
    <3> QED
      BY <1>0, <2>1, <3>1, HoldsMore
  <2>6. \A q \in Jobs!Process \ {p} : storing'[q] = storing[q]
    BY <2>1 DEF JobsTypes
  <2> QED
    BY <2>1, <2>2, <2>3, <2>4, <2>5, <2>6 DEF Jobs!Somewhere
<1>4. ASSUME NEW w \in Worker, Jobs!pop(w) PROVE Jobs!Somewhere(j)'
  <2> DEFINE c == redis[Jobs!First(redis)]
  <2>1. /\ mem' = mem /\ storing' = storing /\ ended' = ended /\ faults' = faults
        /\ cur' = [cur EXCEPT ![w] = c] /\ worker[w] = "popping" /\ redis # <<>>
        /\ redis' = Jobs!RemoveAt(redis, Jobs!First(redis))
    BY <1>4 DEF Jobs!pop, Jobs!Run
  <2>2. Jobs!Somewhere(j) /\ cur[w].job # j
    BY <1>0, <1>1, <2>1 DEF WorkersFit
  <2>3. Jobs!Holds(redis, j) => Jobs!Holds(redis', j) \/ c.job = j
    BY <1>0, <2>1, HoldsFacts
  <2> HIDE DEF c
  <2>4. cur'[w] = c /\ \A x \in Worker \ {w} : cur'[x] = cur[x]
    BY <2>1 DEF JobsTypes
  <2> QED
    BY <2>1, <2>2, <2>3, <2>4 DEF Jobs!Somewhere
<1>5. ASSUME NEW w \in Worker, Jobs!popMemory(w) PROVE Jobs!Somewhere(j)'
  <2> DEFINE q == mem[w]
             c == q[Jobs!First(q)]
  <2>1. /\ redis' = redis /\ storing' = storing /\ ended' = ended /\ faults' = faults
        /\ cur' = [cur EXCEPT ![w] = c] /\ worker[w] = "popping" /\ q # <<>>
        /\ mem' = [mem EXCEPT ![w] = Jobs!RemoveAt(@, Jobs!First(q))]
    BY <1>5 DEF Jobs!popMemory, Jobs!Run
  <2>2. Jobs!Somewhere(j) /\ cur[w].job # j
    BY <1>0, <1>1, <2>1 DEF WorkersFit
  <2>3. mem'[w] = Jobs!RemoveAt(q, Jobs!First(q)) /\ q \in Seq(Live)
    BY <1>0, <2>1 DEF JobsTypes
  <2>4. Jobs!Holds(q, j) => Jobs!Holds(mem'[w], j) \/ c.job = j
    BY <2>1, <2>3, HoldsFacts
  <2>5. \A p \in Jobs!Process \ {w} : mem'[p] = mem[p]
    BY <2>1 DEF JobsTypes
  <2> HIDE DEF c
  <2>6. cur'[w] = c /\ \A x \in Worker \ {w} : cur'[x] = cur[x]
    BY <2>1 DEF JobsTypes
  <2> QED
    BY <1>0, <2>1, <2>2, <2>4, <2>5, <2>6 DEF Jobs!Somewhere
<1>6. ASSUME NEW w \in Worker, Jobs!succeed(w) PROVE Jobs!Somewhere(j)'
  <2>1. /\ cur[w] \in Live /\ cur' = [cur EXCEPT ![w] = Jobs!None] /\ faults' = faults
        /\ ended' = [ended EXCEPT ![cur[w].job] = "done"]
        /\ redis' = redis /\ mem' = mem /\ storing' = storing
    BY <1>6 DEF Jobs!succeed, WorkersFit, JobsTypes
  <2>2. cur[w].job # j /\ ended[j] = "open"
    BY <2>1 DEF JobsTypes
  <2>3. Jobs!Somewhere(j)
    BY <1>1, <2>1, <2>2
  <2>4. \A x \in Worker \ {w} : cur'[x] = cur[x]
    BY <2>1 DEF JobsTypes
  <2> QED
    BY <2>1, <2>2, <2>3, <2>4 DEF Jobs!Somewhere
<1>7. ASSUME NEW w \in Worker, Jobs!retry(w) PROVE Jobs!Somewhere(j)'
  <2> DEFINE c == cur[w]
             d == [c EXCEPT !.attempts = @ + 1]
  <2>1. /\ c \in Live /\ c.job \in Job /\ c.attempts \in Nat /\ storing[w] = Jobs!None
        /\ cur' = [cur EXCEPT ![w] = Jobs!None]
        /\ redis' = redis /\ faults' = faults /\ w \in Jobs!Process
    BY <1>0, <1>7, LiveFacts DEF Jobs!retry, WorkersFit, JobsTypes
  <2>2. \A x \in Worker \ {w} : cur'[x] = cur[x]
    BY <2>1 DEF JobsTypes
  <2>3. CASE Jobs!exhausted(c)
    <3>1. /\ mem' = mem /\ storing' = storing
          /\ ended' = [ended EXCEPT ![c.job] = IF @ = "done" THEN @ ELSE "exhausted"]
      BY <1>7, <2>3 DEF Jobs!retry
    <3>2. c.job # j /\ ended[j] = "open"
      BY <2>1, <3>1 DEF JobsTypes
    <3>3. Jobs!Somewhere(j)
      BY <1>1, <2>1, <3>2
    <3> QED
      BY <2>1, <2>2, <3>1, <3>2, <3>3 DEF Jobs!Somewhere
  <2>4. CASE ~Jobs!exhausted(c)
    <3>1. Jobs!beginPush(w, d) /\ ended' = ended
      BY <1>7, <2>4 DEF Jobs!retry
    <3>2. d \in Live /\ d.job = c.job
      <4>1. c.attempts + 1 < maxAttempts
        BY <2>1, <2>4, JobsAssumption DEF Jobs!exhausted
      <4> HIDE DEF c
      <4> QED
        BY <2>1, <4>1, JobsAssumption DEF Live
    <3> HIDE DEF d
    <3>3. Jobs!Somewhere(j)
      BY <1>1, <2>1, <3>1
    <3>4. ASSUME NEW p \in Jobs!Process, Jobs!Holds(mem[p], j) PROVE Jobs!Holds(mem'[p], j)
      <4>1. mem'[p] = mem[p] \/ mem'[p] = Append(mem[p], d)
        BY <3>1 DEF Jobs!beginPush, JobsTypes
      <4> QED
        BY <1>0, <3>2, <3>4, <4>1, HoldsMore
    <3>5. ASSUME NEW p \in Jobs!Process, storing[p].job = j PROVE storing'[p].job = j
      <4>1. p # w
        BY <1>0, <2>1, <3>5
      <4> QED
        BY <3>1, <3>5, <4>1 DEF Jobs!beginPush, JobsTypes
    <3>6. c.job = j => storing'[w].job = j \/ Jobs!Holds(mem'[w], j)
      <4>1. storing'[w] = d \/ mem'[w] = Append(mem[w], d)
        BY <2>1, <3>1 DEF Jobs!beginPush, JobsTypes
      <4> QED
        BY <1>0, <2>1, <3>2, <4>1, HoldsMore
    <3> QED
      BY <2>1, <2>2, <3>3, <3>4, <3>5, <3>6 DEF Jobs!Somewhere
  <2> QED
    BY <2>3, <2>4
<1>8. ASSUME NEW p \in Jobs!Process, Jobs!disconnect(p) \/ (p \in Worker /\ Jobs!stop(p))
      PROVE  FALSE
  BY <1>0, <1>8 DEF Jobs!disconnect, Jobs!stop
<1>9. ASSUME NEW p \in Jobs!Process, Jobs!connect(p) \/ (p \in Worker /\ Jobs!start(p))
      PROVE  Jobs!Somewhere(j)'
  <2>1. /\ redis' = redis /\ mem' = mem /\ storing' = storing /\ cur' = cur
        /\ ended' = ended /\ faults' = faults
    BY <1>9 DEF Jobs!connect, Jobs!start
  <2> QED
    BY <1>1, <2>1 DEF Jobs!Somewhere
<1> QED
  BY <1>0, <1>2, <1>3, <1>4, <1>5, <1>6, <1>7, <1>8, <1>9 DEF Jobs!Next

\* Every step keeps every job within its budget.
LEMMA BudgetedStep ==
  ASSUME JobsTypes, WorkersFit, Budgeted, Jobs!Next PROVE Budgeted'
<1> USE DEF Jobs!connection
<1> SUFFICES ASSUME NEW j \in Job
             PROVE  /\ Budget(Tokens(j)', runs'[j], faults')
                    /\ ended'[j] = "new" => Tokens(j)' = {} /\ runs'[j] = 0
  BY DEF Budgeted
<1>0. /\ \A w \in Worker : w \in Jobs!Process
      /\ Budget(Tokens(j), runs[j], faults)
      /\ ended[j] = "new" => Tokens(j) = {} /\ runs[j] = 0
      /\ runs[j] \in Nat /\ faults \in Nat
      /\ \A s \in Tokens(j) \cup Tokens(j)' : s.from \in Nat
  BY TokenTypes, TokenTypesNext, JobsAssumption DEF Budgeted, Jobs!Process, JobsTypes
<1>1. ASSUME Carries(Tokens(j), Tokens(j)'), runs'[j] = runs[j], faults' = faults,
             ended'[j] = "new" => ended[j] = "new"
      PROVE  /\ Budget(Tokens(j)', runs'[j], faults')
             /\ ended'[j] = "new" => Tokens(j)' = {} /\ runs'[j] = 0
  BY <1>0, <1>1, CarriedBudget
<1>2. CASE Jobs!push
  <2>1. PICK i \in Job : /\ ended[i] = "new" /\ ended' = [ended EXCEPT ![i] = "open"]
                         /\ storing["server"] = Jobs!None
                         /\ Jobs!beginPush("server", [job |-> i, attempts |-> 0])
    BY <1>2 DEF Jobs!push
  <2>2. /\ redis' = redis /\ cur' = cur /\ faults' = faults /\ runs' = runs
        /\ connected' = connected
    BY <1>2 DEF Jobs!push
  <2>3. CASE i = j
    <3>1. \E d : Tokens(j)' \subseteq {d}
      BY <1>0, <2>1, <2>2, <2>3, PushTokens
    <3>2. runs'[j] = 0 /\ ended'[j] = "open"
      BY <1>0, <2>1, <2>2, <2>3 DEF JobsTypes
    <3> QED
      BY <1>0, <2>2, <3>1, <3>2, BudgetBegins
  <2>4. CASE i # j
    <3>1. Carries(Tokens(j), Tokens(j)')
      BY <2>1, <2>2, <2>4, PushTokens
    <3>2. ended'[j] = ended[j]
      BY <2>1, <2>4 DEF JobsTypes
    <3> QED
      BY <1>1, <2>2, <3>1, <3>2
  <2> QED
    BY <2>3, <2>4
<1>3. ASSUME NEW p \in Jobs!Process, Jobs!pushed(p) \/ Jobs!pushFails(p)
      PROVE  /\ Budget(Tokens(j)', runs'[j], faults')
             /\ ended'[j] = "new" => Tokens(j)' = {} /\ runs'[j] = 0
  <2>1. Carries(Tokens(j), Tokens(j)')
    BY <1>3, PushedTokens, PushFailsTokens
  <2>2. runs' = runs /\ faults' = faults /\ ended' = ended
    BY <1>3 DEF Jobs!pushed, Jobs!pushFails
  <2> QED
    BY <1>1, <2>1, <2>2
<1>4. ASSUME NEW w \in Worker, NEW c \in Live, runs' = [runs EXCEPT ![c.job] = @ + 1],
             Carries(Tokens(j), Tokens(j)'),
             c.job = j => /\ Tokens(j) # {}
                          /\ \A k \in Nat, f \in Nat :
                               Budget(Tokens(j), k, f) => Budget(Tokens(j)', k + 1, f),
             ended' = ended, faults' = faults
      PROVE  /\ Budget(Tokens(j)', runs'[j], faults')
             /\ ended'[j] = "new" => Tokens(j)' = {} /\ runs'[j] = 0
  <2>1. CASE c.job = j
    <3>1. runs'[j] = runs[j] + 1
      BY <1>4, <2>1 DEF JobsTypes
    <3>2. Budget(Tokens(j)', runs[j] + 1, faults)
      BY <1>0, <1>4, <2>1
    <3> QED
      BY <1>0, <1>4, <2>1, <3>1, <3>2
  <2>2. CASE c.job # j
    <3>1. runs'[j] = runs[j]
      BY <1>4, <2>2 DEF JobsTypes
    <3> QED
      BY <1>1, <1>4, <3>1
  <2> QED
    BY <2>1, <2>2
<1>5. ASSUME NEW w \in Worker, Jobs!pop(w) \/ Jobs!popMemory(w)
      PROVE  /\ Budget(Tokens(j)', runs'[j], faults')
             /\ ended'[j] = "new" => Tokens(j)' = {} /\ runs'[j] = 0
  <2>1. ended' = ended /\ faults' = faults
    BY <1>5 DEF Jobs!pop, Jobs!popMemory
  <2>2. CASE Jobs!pop(w)
    BY <1>4, <2>1, <2>2, PopTokens
  <2>3. CASE Jobs!popMemory(w)
    BY <1>4, <2>1, <2>3, PopMemoryTokens
  <2> QED
    BY <1>5, <2>2, <2>3
<1>6. ASSUME NEW w \in Worker, Jobs!succeed(w) \/ Jobs!retry(w)
      PROVE  /\ Budget(Tokens(j)', runs'[j], faults')
             /\ ended'[j] = "new" => Tokens(j)' = {} /\ runs'[j] = 0
  <2>1. Carries(Tokens(j), Tokens(j)')
    BY <1>6, RunEndsTokens
  <2>2. runs' = runs /\ faults' = faults
    BY <1>6 DEF Jobs!succeed, Jobs!retry
  <2>3. ended'[j] = "new" => ended[j] = "new"
    BY <1>6 DEF Jobs!succeed, Jobs!retry, JobsTypes
  <2> QED
    BY <1>1, <2>1, <2>2, <2>3
<1>7. ASSUME NEW p \in Jobs!Process, Jobs!disconnect(p) \/ (p \in Worker /\ Jobs!stop(p))
      PROVE  /\ Budget(Tokens(j)', runs'[j], faults')
             /\ ended'[j] = "new" => Tokens(j)' = {} /\ runs'[j] = 0
  <2>1. /\ faults' = faults + 1
        /\ \A k, f \in Nat : Budget(Tokens(j), k, f) => Budget(Tokens(j)', k, f + 1)
        /\ Tokens(j) = {} => Tokens(j)' = {}
    BY <1>7, FaultTokens
  <2>2. runs' = runs /\ ended' = ended
    BY <1>7 DEF Jobs!disconnect, Jobs!stop
  <2> QED
    BY <1>0, <2>1, <2>2
<1>8. ASSUME NEW p \in Jobs!Process, Jobs!connect(p) \/ (p \in Worker /\ Jobs!start(p))
      PROVE  /\ Budget(Tokens(j)', runs'[j], faults')
             /\ ended'[j] = "new" => Tokens(j)' = {} /\ runs'[j] = 0
  <2>1. Carries(Tokens(j), Tokens(j)')
    BY <1>8, BackTokens
  <2>2. runs' = runs /\ faults' = faults /\ ended' = ended
    BY <1>8 DEF Jobs!connect, Jobs!start
  <2> QED
    BY <1>1, <2>1, <2>2
<1> QED
  BY <1>0, <1>2, <1>3, <1>5, <1>6, <1>7, <1>8 DEF Jobs!Next

LEMMA JobsInit == Jobs!Init => JobsInv
<1> SUFFICES ASSUME Jobs!Init PROVE JobsInv
  OBVIOUS
<1>1. JobsTypes
  BY EmptySeq, JobsAssumption DEF Jobs!Init, JobsTypes
<1>2. WorkersFit
  BY DEF Jobs!Init, WorkersFit, Jobs!Process
<1>3. Jobs!JobAccounted
  BY DEF Jobs!Init, Jobs!JobAccounted
<1>4. ASSUME NEW j \in Job PROVE Tokens(j) = {}
  <2> SUFFICES ASSUME NEW t \in Token,
                      RedisToken(t, j) \/ MemToken(t, j) \/ PushToken(t, j) \/ CurToken(t, j)
               PROVE  FALSE
    BY DEF Tokens
  <2>1. t.of \in Jobs!Process /\ Jobs!None.job # j /\ Len(<<>>) = 0
    BY LiveFacts, EmptySeq DEF Token
  <2> QED
    BY <2>1 DEF Jobs!Init, RedisToken, MemToken, PushToken, CurToken
<1>5. Budgeted
  <2> SUFFICES ASSUME NEW j \in Job PROVE Budget(Tokens(j), 0, 0)
    BY <1>4 DEF Jobs!Init, Budgeted
  <2> QED
    BY <1>4, BudgetBegins
<1> QED
  BY <1>1, <1>2, <1>3, <1>5 DEF JobsInv

LEMMA JobsFacts == JobsInv => JobsAccounted
<1> SUFFICES ASSUME JobsInv PROVE JobsAccounted
  OBVIOUS
<1>1. Jobs!TypeOK
  <2>1. Live \subseteq Jobs!Copy
    BY LiveFacts
  <2>2. Seq(Live) \subseteq Seq(Jobs!Copy)
    BY <2>1
  <2> QED
    BY <2>1, <2>2 DEF JobsInv, JobsTypes, Jobs!TypeOK
<1>2. ASSUME NEW j \in Job PROVE runs[j] <= maxAttempts * (1 + faults)
  <2>1. Budget(Tokens(j), runs[j], faults) /\ faults \in Nat
    BY JobsAssumption DEF JobsInv, Budgeted, JobsTypes
  <2> QED
    BY <2>1, BudgetBound
<1> QED
  BY <1>1, <1>2 DEF JobsInv, JobsAccounted, Jobs!RunsBounded

\* The distributed queue: pushes and retries that fail, processes that lose Redis and
\* come back, workers that stop: without a fault no job is lost, and however many
\* workers and copies there are a fault costs a job one round of attempts at most.
THEOREM JobsAreKept == StorageSpec => []JobsAccounted
<1>1. StorageInit => JobsInv
  BY JobsInit DEF StorageInit
<1>2. JobsInv /\ [StorageNext]_all => JobsInv'
  <2> SUFFICES ASSUME JobsInv, [StorageNext]_all PROVE JobsInv'
    OBVIOUS
  <2>1. CASE part = "jobs" /\ Jobs!Next
    BY <2>1, JobsTypesStep, AccountedStep, BudgetedStep DEF JobsInv
  <2>2. CASE UNCHANGED jobsVars
    <3>1. JobsTypes' /\ WorkersFit' /\ Jobs!JobAccounted'
      BY <2>2 DEF jobsVars, JobsInv, JobsTypes, WorkersFit, Jobs!JobAccounted, Jobs!Somewhere
    <3>2. \A j : Tokens(j)' = Tokens(j)
      BY <2>2 DEF jobsVars, Tokens, RedisToken, MemToken, PushToken, CurToken
    <3>3. Budgeted'
      BY <2>2, <3>2 DEF jobsVars, JobsInv, Budgeted
    <3> QED
      BY <3>1, <3>3 DEF JobsInv
  <2> QED
    BY <2>1, <2>2 DEF StorageNext, all
<1> HIDE DEF JobsInv
<1> QED
  BY <1>1, <1>2, JobsFacts, PTL DEF StorageSpec

-----------------------------------------------------------------------------
(* The dead letter queue.  Between the failure of an execution and the row *)
(* that tells of it the activity itself is what keeps it in mind.          *)

Recording(a) == pc[a] \in {"select", "insert"}

\* An opportunity whose execution failed has its link, is dead-lettered, waits in the
\* queue, or is about to be recorded.
InMind(o) ==
  \/ linked[o] \/ dead[o]
  \/ \E row \in queue : row.opp = o
  \/ \E a \in Sweep : Recording(a) /\ job[a] = o

\* A count that has been read is at least one; past the last interval it has made a
\* dead letter of its opportunity.
FoundFits(a) ==
  pc[a] = "insert" => found[a] # 0 /\ (found[a] > Len(retryIntervalsMin) => dead[job[a]])

DLQInv ==
  /\ DLQ!TypeOK
  /\ \A o \in Opp : failed[o] => InMind(o)
  /\ \A a \in Sweep : FoundFits(a)

LEMMA DLQConstants ==
  /\ DLQ!AnyOpp \in Opp
  /\ Len(retryIntervalsMin) \in Nat \ {0}
  /\ \A k \in 1..Len(retryIntervalsMin) : retryIntervalsMin[k] \in Nat
  /\ DLQ!MaxFailures = Len(retryIntervalsMin) + 1 /\ 1 \in DLQ!Slot
  BY DLQAssumption DEF DLQ!DLQAssumption, DLQ!AnyOpp, DLQ!MaxFailures, DLQ!Slot

LEMMA DLQInit == DLQ!Init => DLQInv
  BY DLQConstants, EmptySeq DEF DLQ!Init, DLQInv, DLQ!TypeOK, FoundFits, InMind

\* An activity begins with the first of some opportunities.
LEMMA BeginInv ==
  ASSUME DLQInv, NEW a \in Sweep, NEW k \in {"sweep", "direct"}, NEW jobs \in Seq(Opp),
         DLQ!Begin(a, k, jobs)
  PROVE  DLQInv'
<1> USE DEF DLQ!Begin
<1>1. Head(jobs) \in Opp /\ Tail(jobs) \in Seq(Opp)
  BY HeadTailProperties
<1>2. DLQ!TypeOK'
  BY <1>1 DEF DLQInv, DLQ!TypeOK
<1>3. ASSUME NEW b \in Sweep, Recording(b) PROVE Recording(b)' /\ job'[b] = job[b]
  BY <1>3 DEF DLQInv, DLQ!TypeOK, Recording
<1>4. ASSUME NEW o \in Opp, failed'[o] PROVE InMind(o)'
  BY <1>3, <1>4 DEF DLQInv, InMind, Recording
<1>5. ASSUME NEW b \in Sweep PROVE FoundFits(b)'
  BY DEF DLQInv, DLQ!TypeOK, FoundFits
<1> QED
  BY <1>2, <1>4, <1>5 DEF DLQInv

\* The rows a sweep takes name opportunities.
LEMMA BatchNames ==
  ASSUME DLQ!TypeOK, NEW b \in DLQ!Batches PROVE [i \in DOMAIN b |-> b[i].opp] \in Seq(Opp)
<1>1. PICK m \in 0..Limit : b \in [1..m -> DLQ!Due]
  BY DEF DLQ!Batches, DLQ!SeqOf
<1>2. m \in Nat
  BY DLQAssumption DEF DLQ!DLQAssumption
<1>3. \A i \in 1..m : b[i].opp \in Opp
  BY <1>1 DEF DLQ!TypeOK, DLQ!Due
<1> QED
  BY <1>1, <1>2, <1>3

\* Going on to the next job: the types it keeps, and who is recording afterwards.
LEMMA NextJobFacts ==
  ASSUME DLQ!TypeOK, NEW a \in Sweep, DLQ!NextJob(a)
  PROVE  /\ pc' \in [Sweep -> {"idle", "exec", "select", "insert"}]
         /\ kind' \in [Sweep -> {"sweep", "direct"}]
         /\ job' \in [Sweep -> Opp] /\ rest' \in [Sweep -> Seq(Opp)]
         /\ found' \in [Sweep -> 0..DLQ!MaxFailures] /\ again' \in [Sweep -> BOOLEAN]
         /\ pc'[a] \in {"idle", "exec"}
         /\ \A b \in Sweep \ {a} : pc'[b] = pc[b] /\ job'[b] = job[b] /\ found'[b] = found[b]
<1>1. rest[a] \in Seq(Opp) /\ DLQ!AnyOpp \in Opp /\ 0 \in 0..DLQ!MaxFailures
  BY DLQConstants DEF DLQ!TypeOK
<1>2. rest[a] # <<>> => Head(rest[a]) \in Opp /\ Tail(rest[a]) \in Seq(Opp)
  BY <1>1, HeadTailProperties
<1> QED
  BY <1>1, <1>2 DEF DLQ!TypeOK, DLQ!NextJob

LEMMA SuccessInv ==
  ASSUME DLQInv, NEW a \in Sweep, DLQ!markRetrySuccess(a) PROVE DLQInv'
<1> USE DEF DLQ!markRetrySuccess
<1>1. DLQ!TypeOK /\ job[a] \in Opp
  BY DEF DLQInv, DLQ!TypeOK
<1>2. /\ linked' \in [Opp -> BOOLEAN] /\ linked'[job[a]]
      /\ \A o \in Opp : linked[o] => linked'[o]
      /\ queue' \subseteq queue /\ \A row \in queue : row.opp # job[a] => row \in queue'
  BY <1>1 DEF DLQ!TypeOK, DLQ!PendingOf
<1>3. DLQ!TypeOK'
  BY <1>1, <1>2, NextJobFacts DEF DLQ!TypeOK
<1>4. ASSUME NEW o \in Opp, failed'[o] PROVE InMind(o)'
  <2>1. CASE o = job[a]
    BY <2>1, <1>2 DEF InMind
  <2>2. CASE o # job[a]
    <3>1. InMind(o)
      BY <1>4 DEF DLQInv
    <3>2. ASSUME NEW b \in Sweep, Recording(b) PROVE Recording(b)' /\ job'[b] = job[b]
      BY <1>1, <3>2, NextJobFacts DEF Recording
    <3> QED
      BY <1>2, <2>2, <3>1, <3>2 DEF InMind
  <2> QED
    BY <2>1, <2>2
<1>5. ASSUME NEW b \in Sweep PROVE FoundFits(b)'
  BY <1>1, NextJobFacts DEF DLQInv, FoundFits
<1> QED
  BY <1>3, <1>4, <1>5 DEF DLQInv

LEMMA FailureInv ==
  ASSUME DLQInv, NEW a \in Sweep, DLQ!providerFails(a) PROVE DLQInv'
<1> USE DEF DLQ!providerFails
<1>1. DLQ!TypeOK'
  BY DEF DLQInv, DLQ!TypeOK
<1>2. Recording(a)' /\ job' = job /\ \A b \in Sweep : Recording(b) => Recording(b)'
  BY DEF DLQInv, DLQ!TypeOK, Recording
<1>3. ASSUME NEW o \in Opp, failed'[o] PROVE InMind(o)'
  <2>1. failed[o] \/ o = job[a]
    BY <1>3 DEF DLQInv, DLQ!TypeOK
  <2>2. CASE o = job[a]
    BY <1>2, <2>2 DEF InMind
  <2>3. CASE failed[o]
    BY <1>2, <2>3 DEF DLQInv, InMind
  <2> QED
    BY <2>1, <2>2, <2>3
<1>4. ASSUME NEW b \in Sweep PROVE FoundFits(b)'
  BY DEF DLQInv, DLQ!TypeOK, FoundFits
<1> QED
  BY <1>1, <1>3, <1>4 DEF DLQInv

LEMMA RefusalInv ==
  ASSUME DLQInv, NEW a \in Sweep, DLQ!refused(a) PROVE DLQInv'
<1> USE DEF DLQ!refused
<1>1. DLQ!TypeOK
  BY DEF DLQInv
<1>2. DLQ!TypeOK'
  BY <1>1, NextJobFacts DEF DLQ!TypeOK
<1>3. ASSUME NEW b \in Sweep PROVE /\ Recording(b) => Recording(b)' /\ job'[b] = job[b]
                                   /\ FoundFits(b)'
  BY <1>1, NextJobFacts DEF DLQInv, DLQ!TypeOK, Recording, FoundFits
<1>4. ASSUME NEW o \in Opp, failed'[o] PROVE InMind(o)'
  BY <1>3, <1>4 DEF DLQInv, InMind
<1> QED
  BY <1>2, <1>3, <1>4 DEF DLQInv

LEMMA SelectInv ==
  ASSUME DLQInv, NEW a \in Sweep, DLQ!selectLatest(a) PROVE DLQInv'
<1> DEFINE n == DLQ!Saturate(count[job[a]] + 1)
<1> USE DEF DLQ!selectLatest
<1>1. DLQ!TypeOK /\ job[a] \in Opp
  BY DEF DLQInv, DLQ!TypeOK
<1>2. n \in 1..DLQ!MaxFailures
  BY <1>1, DLQConstants DEF DLQ!TypeOK, DLQ!Saturate
<1> HIDE DEF n
<1>3. /\ found' = [found EXCEPT ![a] = n]
      /\ dead' = [dead EXCEPT ![job[a]] = @ \/ n > Len(retryIntervalsMin)]
      /\ pc' = [pc EXCEPT ![a] = "insert"]
      /\ UNCHANGED <<queue, count, linked, failed, kind, job, rest, again>>
  BY DEF n
<1> USE DEF DLQ!TypeOK
<1>4. DLQ!TypeOK'
  <2>1. found' \in [Sweep -> 0..DLQ!MaxFailures]
    BY <1>1, <1>2, <1>3
  <2>2. dead' \in [Opp -> BOOLEAN]
    <3>1. (dead[job[a]] \/ n > Len(retryIntervalsMin)) \in BOOLEAN
      OBVIOUS
    <3> QED
      BY <1>1, <1>3, <3>1, Zenon
  <2> QED
    BY <1>1, <1>3, <2>1, <2>2
<1>5. /\ \A o \in Opp : dead[o] => dead'[o]
      /\ n > Len(retryIntervalsMin) => dead'[job[a]]
  <2>1. \A o \in Opp : dead'[o] = IF o = job[a] THEN dead[o] \/ n > Len(retryIntervalsMin) ELSE dead[o]
    BY <1>1, <1>3, Zenon
  <2> QED
    BY <1>1, <2>1
<1>6. ASSUME NEW b \in Sweep PROVE (Recording(b) => Recording(b)') /\ FoundFits(b)'
  BY <1>1, <1>2, <1>3, <1>5 DEF DLQInv, Recording, FoundFits
<1>7. ASSUME NEW o \in Opp, failed'[o] PROVE InMind(o)'
  <2>1. InMind(o)
    BY <1>3, <1>7 DEF DLQInv
  <2>2. \A b \in Sweep : pc[b] \in {"select", "insert"} => pc'[b] \in {"select", "insert"}
    BY <1>1, <1>3
  <2> QED
    BY <1>1, <1>3, <1>5, <2>1, <2>2 DEF InMind, Recording
<1> QED
  BY <1>4, <1>6, <1>7 DEF DLQInv

LEMMA InsertInv ==
  ASSUME DLQInv, NEW a \in Sweep, DLQ!insertRow(a) PROVE DLQInv'
<1> DEFINE n == CHOOSE i \in DLQ!FreeSlots(job[a]) : TRUE
<1> DEFINE new == [opp |-> job[a], n |-> n, wait |-> retryIntervalsMin[found[a]]]
<1>1. DLQ!TypeOK /\ job[a] \in Opp /\ found[a] \in 1..DLQ!MaxFailures /\ pc[a] = "insert"
  BY DEF DLQ!insertRow, DLQInv, DLQ!TypeOK, FoundFits
<1>2. queue \subseteq queue'
  BY DEF DLQ!insertRow
<1>3. \/ dead[job[a]] \/ \E row \in queue' : row.opp = job[a]
  <2>1. CASE found[a] > Len(retryIntervalsMin)
    BY <1>1, <2>1 DEF DLQInv, FoundFits
  <2>2. CASE DLQ!FreeSlots(job[a]) = {}
    BY <1>2, <2>2, DLQConstants DEF DLQ!FreeSlots, DLQ!PendingOf
  <2>3. CASE ~(found[a] > Len(retryIntervalsMin)) /\ DLQ!FreeSlots(job[a]) # {}
    <3>1. queue' = queue \cup {new}
      BY <2>3 DEF DLQ!insertRow
    <3>2. new.opp = job[a] /\ new \in queue'
      BY <3>1
    <3> QED
      BY <3>2
  <2> QED
    BY <2>1, <2>2, <2>3
<1>4. /\ queue' \subseteq [opp : Opp, n : DLQ!Slot, wait : Int]
      /\ \A r, s \in queue' : r.opp = s.opp /\ r.n = s.n => r = s
  <2>1. CASE queue' = queue
    BY <1>1, <2>1 DEF DLQ!TypeOK
  <2>2. CASE queue' # queue
    <3>1. /\ found[a] <= Len(retryIntervalsMin) /\ DLQ!FreeSlots(job[a]) # {}
          /\ queue' = queue \cup {new}
      BY <1>1, <2>2, DLQConstants DEF DLQ!insertRow
    <3>2. n \in DLQ!FreeSlots(job[a])
      BY <3>1
    <3> HIDE DEF n
    <3>3. n \in DLQ!Slot /\ \A row \in queue : row.opp = job[a] => row.n # n
      BY <3>2 DEF DLQ!FreeSlots, DLQ!PendingOf
    <3>4. retryIntervalsMin[found[a]] \in Int
      BY <1>1, <3>1, DLQConstants
    <3> QED
      BY <1>1, <3>1, <3>3, <3>4 DEF DLQ!TypeOK
  <2> QED
    BY <2>1, <2>2
<1> HIDE DEF n, new
<1>5. count' \in [Opp -> 0..DLQ!MaxFailures]
  BY <1>1 DEF DLQ!insertRow, DLQ!TypeOK
<1>6. /\ pc' \in [Sweep -> {"idle", "exec", "select", "insert"}]
      /\ kind' \in [Sweep -> {"sweep", "direct"}]
      /\ job' \in [Sweep -> Opp] /\ rest' \in [Sweep -> Seq(Opp)]
      /\ found' \in [Sweep -> 0..DLQ!MaxFailures] /\ again' \in [Sweep -> BOOLEAN]
      /\ pc'[a] # "insert"
      /\ \A b \in Sweep \ {a} : pc'[b] = pc[b] /\ job'[b] = job[b] /\ found'[b] = found[b]
  <2>1. CASE again[a]
    BY <1>1, <2>1 DEF DLQ!insertRow, DLQ!TypeOK
  <2>2. CASE ~again[a]
    <3>1. DLQ!NextJob(a)
      BY <2>2 DEF DLQ!insertRow
    <3> QED
      BY <1>1, <3>1, NextJobFacts
  <2> QED
    BY <2>1, <2>2
<1>7. UNCHANGED <<dead, linked, failed>>
  BY DEF DLQ!insertRow
<1>8. DLQ!TypeOK'
  BY <1>1, <1>4, <1>5, <1>6, <1>7 DEF DLQ!TypeOK
<1>9. ASSUME NEW o \in Opp, failed'[o] PROVE InMind(o)'
  <2>1. InMind(o)
    BY <1>7, <1>9 DEF DLQInv
  <2>2. CASE o = job[a]
    BY <1>3, <1>7, <2>2 DEF InMind
  <2>3. CASE o # job[a]
    BY <1>2, <1>6, <1>7, <2>1, <2>3 DEF InMind, Recording
  <2> QED
    BY <2>2, <2>3
<1>10. ASSUME NEW b \in Sweep PROVE FoundFits(b)'
  BY <1>6, <1>7 DEF DLQInv, FoundFits
<1> QED
  BY <1>8, <1>9, <1>10 DEF DLQInv

LEMMA TickInv == ASSUME DLQInv, DLQ!tick PROVE DLQInv'
<1> USE DEF DLQ!tick, DLQ!activity
<1>1. ASSUME NEW row \in queue
      PROVE  /\ DLQ!OneTickOn(row) \in [opp : Opp, n : DLQ!Slot, wait : Int]
             /\ DLQ!OneTickOn(row).opp = row.opp /\ DLQ!OneTickOn(row).n = row.n
  <2>1. row \in [opp : Opp, n : DLQ!Slot, wait : Int]
    BY DEF DLQInv, DLQ!TypeOK
  <2>2. [row EXCEPT !.wait = @ - 1] \in [opp : Opp, n : DLQ!Slot, wait : Int]
        /\ [row EXCEPT !.wait = @ - 1].opp = row.opp /\ [row EXCEPT !.wait = @ - 1].n = row.n
    BY <2>1
  <2>3. DLQ!OneTickOn(row) = row \/ DLQ!OneTickOn(row) = [row EXCEPT !.wait = @ - 1]
    BY DEF DLQ!OneTickOn
  <2> QED
    BY <2>1, <2>2, <2>3
<1>2. queue' \subseteq [opp : Opp, n : DLQ!Slot, wait : Int]
  BY <1>1
<1>3. \A r, s \in queue' : r.opp = s.opp /\ r.n = s.n => r = s
  BY <1>1 DEF DLQInv, DLQ!TypeOK
<1>4. DLQ!TypeOK'
  BY <1>2, <1>3 DEF DLQInv, DLQ!TypeOK
<1>5. ASSUME NEW o \in Opp, failed'[o] PROVE InMind(o)'
  BY <1>1, <1>5 DEF DLQInv, InMind, Recording
<1> QED
  BY <1>4, <1>5 DEF DLQInv, FoundFits

LEMMA DLQStep == DLQInv /\ DLQ!Next => DLQInv'
<1> SUFFICES ASSUME DLQInv, DLQ!Next PROVE DLQInv'
  OBVIOUS
<1>1. ASSUME NEW a \in Sweep, NEW o \in Opp, DLQ!executeOpportunity(a, o) PROVE DLQInv'
  <2>1. <<o>> \in Seq(Opp) /\ DLQ!Begin(a, "direct", <<o>>)
    BY <1>1 DEF DLQ!executeOpportunity
  <2> QED
    BY <2>1, BeginInv
<1>2. ASSUME NEW a \in Sweep, DLQ!replayPendingRetries(a) PROVE DLQInv'
  <2>1. PICK b \in DLQ!Batches : DLQ!Begin(a, "sweep", [i \in DOMAIN b |-> b[i].opp])
    BY <1>2 DEF DLQ!replayPendingRetries
  <2>2. [i \in DOMAIN b |-> b[i].opp] \in Seq(Opp)
    BY BatchNames DEF DLQInv
  <2> QED
    BY <2>1, <2>2, BeginInv
<1>3. ASSUME NEW a \in Sweep, DLQ!Step(a) PROVE DLQInv'
  BY <1>3, SuccessInv, FailureInv, RefusalInv, SelectInv, InsertInv DEF DLQ!Step
<1> QED
  BY <1>1, <1>2, <1>3, TickInv DEF DLQ!Next

LEMMA DLQFacts == DLQInv => FailureIsTracked
<1> SUFFICES ASSUME DLQInv, DLQ!AtRest, NEW o \in Opp, failed[o]
             PROVE  linked[o] \/ dead[o] \/ \E row \in queue : row.opp = o
  BY DEF FailureIsTracked, DLQ!FailureIsTracked, DLQInv
<1> QED
  BY DEF DLQInv, DLQ!AtRest, InMind, Recording

\* The dead letter queue: sweeps and executions of any opportunities that overlap, lose
\* each other's counts and race successes with failures: when nothing is under way, one
\* whose execution failed has its link, waits in the queue or is dead-lettered.
THEOREM FailuresAreTracked == StorageSpec => []FailureIsTracked
<1>1. StorageInit => DLQInv
  BY DLQInit DEF StorageInit
<1>2. DLQInv /\ [StorageNext]_all => DLQInv'
  <2> SUFFICES ASSUME DLQInv, [StorageNext]_all PROVE DLQInv'
    OBVIOUS
  <2>1. CASE part = "dlq" /\ DLQ!Next
    BY <2>1, DLQStep
  <2>2. CASE UNCHANGED dlqVars
    BY <2>2 DEF dlqVars, DLQInv, DLQ!TypeOK, FoundFits, InMind, Recording
  <2> QED
    BY <2>1, <2>2 DEF StorageNext, all
<1> HIDE DEF DLQInv
<1> QED
  BY <1>1, <1>2, DLQFacts, PTL DEF StorageSpec
=============================================================================
