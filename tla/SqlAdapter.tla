----------------------------- MODULE SqlAdapter -----------------------------
(***************************************************************************)
(* DatabaseAdapter over SQLite or PostgreSQL.  With SQLite every activity  *)
(* of the process shares one connection: a transaction awaits between its  *)
(* BEGIN and its COMMIT, and what others execute in between joins it.      *)
(* Transactions themselves queue on a chain of promises.  With PostgreSQL  *)
(* a transaction has a client of a bounded pool to itself.  The            *)
(* synchronous connection of database.ts writes the same SQLite file.      *)
(***************************************************************************)
EXTENDS Naturals, Sequences, FiniteSets

CONSTANTS
  Tx,           \* transactions
  Solo,         \* statements through adapter.execute
  Direct,       \* statements on the synchronous connection
  Statements,   \* statements of a transaction's callback
  PoolSize

ASSUME SqlAdapterAssumption ==
  /\ Statements \in Nat \ {0} /\ PoolSize \in Nat \ {0}
  /\ Tx \cap (Solo \cup Direct) = {} /\ Solo \cap Direct = {}

VARIABLES
  engine,
  committed,   \* durable statements
  pending,     \* per transaction: executed statements that are not committed
  joined,      \* statements of others inside the open SQLite transaction
  chain,       \* sqliteTxMutex: transactions in the order they asked
  at,          \* per transaction: "new", "waiting", "open" or "done"
  answer,
  undone       \* statements that a ROLLBACK or a crash took back

vars == <<engine, committed, pending, joined, chain, at, answer, undone>>

Single == Solo \cup Direct
Activity == Tx \cup Single
Effect(a) == IF a \in Tx THEN {a} \X (1..Statements) ELSE {<<a, 1>>}
Open == {t \in Tx : at[t] = "open"}
SQLite == engine = "SQLite"

TypeOK ==
  /\ engine \in {"SQLite", "PostgreSQL"}
  /\ committed \subseteq UNION {Effect(a) : a \in Activity}
  /\ pending \in [Tx -> 0..Statements]
  /\ joined \subseteq Single
  /\ chain \in Seq(Tx)
  /\ at \in [Tx -> {"new", "waiting", "open", "done"}]
  /\ answer \in [Activity -> {"none", "resolved", "rejected"}]
  /\ undone \subseteq Activity

-----------------------------------------------------------------------------

Tell(a, r) == answer' = [answer EXCEPT ![a] = r]

\* withTransaction: with SQLite the transaction joins the chain, with PostgreSQL
\* it asks the pool for a client.
withTransaction(t) ==
  /\ at[t] = "new" /\ answer[t] = "none"
  /\ at' = [at EXCEPT ![t] = "waiting"]
  /\ chain' = IF SQLite THEN Append(chain, t) ELSE chain
  /\ UNCHANGED <<engine, committed, pending, joined, answer, undone>>

\* Mutant: transactions do not wait for each other.
mayBeginAtOnce(t) == at[t] = "waiting"

mayBegin(t) ==
  /\ at[t] = "waiting"
  /\ IF SQLite THEN chain # <<>> /\ Head(chain) = t ELSE Cardinality(Open) < PoolSize

begin(t) ==
  /\ mayBegin(t)
  /\ at' = [at EXCEPT ![t] = "open"]
  /\ UNCHANGED <<engine, committed, pending, joined, chain, answer, undone>>

\* No client within connectionTimeoutMillis.
connectTimesOut(t) ==
  /\ ~SQLite /\ at[t] = "waiting" /\ Cardinality(Open) = PoolSize
  /\ at' = [at EXCEPT ![t] = "done"] /\ Tell(t, "rejected")
  /\ UNCHANGED <<engine, committed, pending, joined, chain, undone>>

\* The callback's next statement.
txExecute(t) ==
  /\ at[t] = "open" /\ pending[t] < Statements
  /\ pending' = [pending EXCEPT ![t] = @ + 1]
  /\ UNCHANGED <<engine, committed, joined, chain, at, answer, undone>>

\* Mutant: the chain is left as it is when a transaction fails.
releaseOnSuccess(t) ==
  chain' = IF SQLite /\ pending[t] = Statements THEN Tail(chain) ELSE chain

\* What a COMMIT makes durable: with SQLite all that the shared connection holds.
Executed(t) == {t} \X (1..pending[t])
Held(t) ==
  IF SQLite THEN (UNION {Executed(u) : u \in Open}) \cup (UNION {Effect(a) : a \in joined})
  ELSE Executed(t)

\* The chain goes on whether the transaction resolved or not.
release(t) == chain' = IF SQLite THEN Tail(chain) ELSE chain

commit(t) ==
  /\ at[t] = "open" /\ pending[t] = Statements
  /\ committed' = committed \cup Held(t)
  /\ joined' = {} /\ at' = [at EXCEPT ![t] = "done"]
  /\ release(t) /\ Tell(t, "resolved")
  /\ UNCHANGED <<engine, pending, undone>>

\* Mutant: what others executed meanwhile is forgotten, neither kept nor undone.
rollbackOwnOnly(t) ==
  /\ at[t] = "open"
  /\ undone' = undone \cup {t}
  /\ joined' = {} /\ at' = [at EXCEPT ![t] = "done"]
  /\ release(t) /\ Tell(t, "rejected")
  /\ UNCHANGED <<engine, committed, pending>>

\* A statement, the callback or the COMMIT throws: ROLLBACK, and the promise is
\* rejected.  What others executed meanwhile is undone with it.
rollback(t) ==
  /\ at[t] = "open"
  /\ undone' = undone \cup {t} \cup joined
  /\ joined' = {} /\ at' = [at EXCEPT ![t] = "done"]
  /\ release(t) /\ Tell(t, "rejected")
  /\ UNCHANGED <<engine, committed, pending>>

\* PostgreSQL commits and the reply is lost: the caller is told that it failed.
commitReplyLost(t) ==
  /\ ~SQLite /\ at[t] = "open" /\ pending[t] = Statements
  /\ committed' = committed \cup Held(t)
  /\ at' = [at EXCEPT ![t] = "done"] /\ Tell(t, "rejected")
  /\ UNCHANGED <<engine, pending, joined, chain, undone>>

\* adapter.execute outside a transaction: on the shared connection it is part of
\* whatever transaction is open there.
execute(a) ==
  /\ a \in Solo /\ answer[a] = "none"
  /\ IF SQLite /\ Open # {} THEN joined' = joined \cup {a} /\ UNCHANGED committed
     ELSE committed' = committed \cup Effect(a) /\ UNCHANGED joined
  /\ Tell(a, "resolved")
  /\ UNCHANGED <<engine, pending, chain, at, undone>>

\* A write on the synchronous connection: locked out, after busy_timeout, while
\* the other connection has written and not committed.
directWrite(a) ==
  /\ a \in Direct /\ answer[a] = "none"
  /\ IF SQLite /\ \E t \in Open : pending[t] > 0 \/ joined # {}
     THEN Tell(a, "rejected") /\ UNCHANGED committed
     ELSE Tell(a, "resolved") /\ committed' = committed \cup Effect(a)
  /\ UNCHANGED <<engine, pending, joined, chain, at, undone>>

\* The process dies or closes the adapter: what is open or queued is gone, unanswered.
close ==
  /\ at' = [t \in Tx |-> IF at[t] = "new" THEN "new" ELSE "done"]
  /\ undone' = undone \cup joined \cup Open
  /\ chain' = <<>> /\ joined' = {}
  /\ UNCHANGED <<engine, committed, pending, answer>>

Init ==
  /\ engine \in {"SQLite", "PostgreSQL"} /\ committed = {} /\ pending = [t \in Tx |-> 0]
  /\ joined = {} /\ chain = <<>> /\ at = [t \in Tx |-> "new"]
  /\ answer = [a \in Activity |-> "none"] /\ undone = {}

Next ==
  \/ \E t \in Tx : \/ withTransaction(t) \/ begin(t) \/ connectTimesOut(t) \/ txExecute(t)
                   \/ commit(t) \/ rollback(t) \/ commitReplyLost(t)
  \/ \E a \in Solo : execute(a)
  \/ \E a \in Direct : directWrite(a)
  \/ close

\* The event loop runs what is ready: a transaction whose turn it is begins, and an
\* open one, whose callback always ends, goes on to its end.
Fairness == \A t \in Tx : WF_vars(begin(t)) /\ WF_vars(txExecute(t) \/ commit(t) \/ rollback(t))

Spec == Init /\ [][Next]_vars /\ Fairness

-----------------------------------------------------------------------------
(* Properties.                                                             *)

Atomic == INSTANCE AtomicStore WITH store <- committed

\* Both engines keep the promise of AtomicStore, whatever is executed between a
\* transaction's BEGIN and its COMMIT and wherever the process dies.
TransactionsAreAtomic == Atomic!Spec

\* A statement whose caller was told that it succeeded is durable, is inside the
\* transaction that is still open, or was taken back together with it.
AcknowledgedIsKept ==
  \A a \in Single : answer[a] = "resolved" =>
    Effect(a) \subseteq committed \/ a \in joined \/ a \in undone

\* With SQLite one transaction is open at a time, the first of the chain, and only
\* in it can others' statements be held.
Turns ==
  /\ SQLite => \A s, t \in Open : s = t
  /\ SQLite => \A t \in Open : chain # <<>> /\ Head(chain) = t
  /\ Open = {} \/ ~SQLite => joined = {}

\* Nothing of a transaction is durable before its caller is told or it is done,
\* and what is held in the open transaction is not durable yet.
NothingEarly ==
  /\ \A t \in Tx : /\ at[t] # "done" => answer[t] = "none" /\ Effect(t) \cap committed = {}
                   /\ answer[t] = "resolved" => Effect(t) \subseteq committed
  /\ \A a \in Single : answer[a] # "resolved" => a \notin joined /\ Effect(a) \cap committed = {}
  /\ \A a \in joined : Effect(a) \cap committed = {} /\ answer[a] # "rejected"

\* What the adapter guarantees of its own state; the proof that it implements
\* AtomicStore rests on it.
AdapterInv == TypeOK /\ Turns /\ NothingEarly /\ AcknowledgedIsKept

\* A transaction that asked for its turn is answered, whatever happens to those
\* before it, unless the process dies.
TransactionEnds ==
  \A t \in Tx : at[t] = "waiting" ~> at[t] = "done"
=============================================================================
