-------------------------- MODULE DoubleEntryLedger --------------------------
(***************************************************************************)
(* The hash chain of the double-entry ledger.  Two kinds of writers append *)
(* to it: a reconciliation, which takes its timestamp when it begins and   *)
(* its place in the chain when its transaction runs, and recordEntry,      *)
(* which reads the newest hash in one step and appends in another.  The    *)
(* auditor sorts the rows by timestamp and id and follows the chain.       *)
(*                                                                         *)
(* A hash is modelled by what was hashed: equal hashes mean equal fields.  *)
(***************************************************************************)
EXTENDS Integers, Sequences

CONSTANTS
  Reconciler,  \* activations of reconcileOpportunity
  Recorder,    \* callers of recordEntry
  Amounts,     \* amounts booked
  Rand,        \* random suffixes of an entry's id
  MaxTime,     \* the last millisecond of the clock
  MaxEntries   \* rows of the table

LedgerAssumption ==
  /\ Amounts \subseteq Nat /\ Rand \subseteq Nat
  /\ MaxTime \in Nat /\ MaxEntries \in Nat

VARIABLES
  log,    \* the rows, in the order they were inserted
  now,    \* the clock
  began,  \* of each reconciliation: its timestamp once it has begun
  read,   \* of each recordEntry: the hash it read, and how many rows there were
  edited, \* a row was changed in place
  stale   \* a row was appended to a hash that was no longer the newest

vars == <<log, now, began, read, edited, stale>>

Idle == -1
GENESIS_HASH == <<>>
NotRead == [hash |-> GENESIS_HASH, rows |-> Idle]

computeHash(e) == <<e.prev_hash, e.id, e.amount, e.timestamp>>

\* ORDER BY timestamp, id: an id starts with the millisecond it was made in.
Before(a, b) ==
  \/ a.timestamp < b.timestamp
  \/ /\ a.timestamp = b.timestamp
     /\ \/ a.id.ms < b.id.ms
        \/ a.id.ms = b.id.ms /\ a.id.rand < b.id.rand

Rows == {log[i] : i \in DOMAIN log}

Latest(S) == CHOOSE e \in S : \A f \in S : f = e \/ Before(f, e)

\* What the next row has to continue, after the rows of S.
hashAfter(S) == IF S = {} THEN GENESIS_HASH ELSE Latest(S).entry_hash

\* Mutant: the rows are sorted the other way.
oldestHash ==
  IF Rows = {} THEN GENESIS_HASH
  ELSE (CHOOSE e \in Rows : \A f \in Rows : f = e \/ Before(e, f)).entry_hash

\* Mutant: the newest row is hashed again instead of its hash being read.
rehashedLatest == IF Rows = {} THEN GENESIS_HASH ELSE computeHash(Latest(Rows))

\* ... DESC LIMIT 1
latestHash == hashAfter(Rows)

NewEntry(amount, rand, timestamp, prev) ==
  LET e == [id |-> [ms |-> now, rand |-> rand], amount |-> amount,
            timestamp |-> timestamp, prev_hash |-> prev]
  IN  [id |-> e.id, amount |-> amount, timestamp |-> timestamp,
       prev_hash |-> prev, entry_hash |-> computeHash(e)]

\* The rows the audit has been through when it comes to e.
Passed(e) == {f \in Rows : Before(f, e)}

\* Mutant: only the links between rows are compared.
verifyLinksOnly == \A e \in Rows : e.prev_hash = hashAfter(Passed(e))

\* The audit: every row continues the one before it and hashes to what it says.
verifyLedgerIntegrity ==
  \A e \in Rows : e.prev_hash = hashAfter(Passed(e)) /\ e.entry_hash = computeHash(e)

TypeOK ==
  /\ now \in 0..MaxTime
  /\ Len(log) <= MaxEntries
  /\ \A i \in DOMAIN log : log[i].timestamp \in 0..now /\ log[i].id.ms \in 0..now
  /\ began \in [Reconciler -> {Idle} \cup 0..MaxTime]
  /\ \A w \in Recorder : read[w].rows \in {Idle} \cup 0..Len(log)
  /\ edited \in BOOLEAN /\ stale \in BOOLEAN

Init ==
  /\ log = <<>> /\ now = 0
  /\ began = [r \in Reconciler |-> Idle]
  /\ read = [w \in Recorder |-> NotRead]
  /\ edited = FALSE /\ stale = FALSE

-----------------------------------------------------------------------------

\* The primary key: an id is used once.
Insert(amount, timestamp, prev) ==
  /\ Len(log) < MaxEntries
  /\ \E rand \in Rand :
       /\ \A e \in Rows : e.id # [ms |-> now, rand |-> rand]
       /\ log' = Append(log, NewEntry(amount, rand, timestamp, prev))

\* A reconciliation begins: it takes its timestamp, then asks the provider.
reconcileOpportunity(r) ==
  /\ began[r] = Idle
  /\ began' = [began EXCEPT ![r] = now]
  /\ UNCHANGED <<log, now, read, edited, stale>>

\* Its transaction reads the newest hash and inserts, nothing in between.
withTransaction(r) ==
  /\ began[r] # Idle
  /\ \E amount \in Amounts : Insert(amount, began[r], latestHash)
  /\ began' = [began EXCEPT ![r] = Idle]
  /\ UNCHANGED <<now, read, edited, stale>>

\* The provider reports no payment, or the transaction rolls back.
noPayment(r) ==
  /\ began[r] # Idle
  /\ began' = [began EXCEPT ![r] = Idle]
  /\ UNCHANGED <<log, now, read, edited, stale>>

\* recordEntry: the newest hash is read ...
readLatest(w) ==
  /\ read[w] = NotRead
  /\ read' = [read EXCEPT ![w] = [hash |-> latestHash, rows |-> Len(log)]]
  /\ UNCHANGED <<log, now, began, edited, stale>>

\* ... and appended to after an await.
recordEntry(w) ==
  /\ read[w].rows # Idle
  /\ \E amount \in Amounts : Insert(amount, now, read[w].hash)
  /\ stale' = (stale \/ Len(log) > read[w].rows)
  /\ read' = [read EXCEPT ![w] = NotRead]
  /\ UNCHANGED <<now, began, edited>>

\* Somebody changes the amount of a row in the database.
editInPlace ==
  /\ \E i \in DOMAIN log, amount \in Amounts :
       /\ amount # log[i].amount
       /\ ~edited
       /\ log' = [log EXCEPT ![i].amount = amount]
  /\ edited' = TRUE
  /\ UNCHANGED <<now, began, read, stale>>

tick ==
  /\ now < MaxTime
  /\ now' = now + 1
  /\ UNCHANGED <<log, began, read, edited, stale>>

Next ==
  \/ \E r \in Reconciler : reconcileOpportunity(r) \/ withTransaction(r) \/ noPayment(r)
  \/ \E w \in Recorder : readLatest(w) \/ recordEntry(w)
  \/ editInPlace \/ tick

Spec == Init /\ [][Next]_vars

-----------------------------------------------------------------------------
(* Properties.                                                             *)

\* The rows sort in the order they were inserted.
InsertedInOrder == \A i, j \in DOMAIN log : i < j => Before(log[i], log[j])

\* The audit accepts what honest writers wrote, as long as every row sorts after
\* the rows that were there before it and nobody appended to a hash that had
\* been superseded: the chain then is the table.
OrderlyChainVerifies ==
  ~edited /\ ~stale /\ InsertedInOrder => verifyLedgerIntegrity

\* "detects tampering and fails verification if any historical ledger entry is
\* modified in place": wherever the row is and whatever came after it.
EditIsDetected == edited => ~verifyLedgerIntegrity

\* Even when appends overlap, no row hangs in the air: each continues the
\* genesis or a row inserted before it, so the whole table hangs together.
EveryRowContinuesAnEarlierOne ==
  \A i \in DOMAIN log :
    \/ log[i].prev_hash = GENESIS_HASH
    \/ \E j \in 1..(i - 1) : log[i].prev_hash = log[j].entry_hash
=============================================================================
