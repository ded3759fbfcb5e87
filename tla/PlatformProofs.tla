---------------------------- MODULE PlatformProofs ----------------------------
(***************************************************************************)
(* The books, the learners, the advisors, the limits and the market are    *)
(* sound for any tenants, callers, amounts, limits and bounds.             *)
(***************************************************************************)
EXTENDS MCPlatform, FunctionTheorems, FiniteSetTheorems, SequenceTheorems, TLAPS

-----------------------------------------------------------------------------
(* The ledger.                                                             *)

\* A row of the table.
Row(e) ==
  /\ e = [id |-> [ms |-> e.id.ms, rand |-> e.id.rand], amount |-> e.amount,
          timestamp |-> e.timestamp, prev_hash |-> e.prev_hash, entry_hash |-> e.entry_hash]
  /\ e.id.ms \in Nat /\ e.id.rand \in Nat /\ e.timestamp \in Nat

Greatest(S, e) == e \in S /\ \A f \in S : f = e \/ Ledger!Before(f, e)
Genesis(h) == h = Ledger!GENESIS_HASH

\* The rows are rows, under ids used once, and one of them sorts last.
TableInv ==
  /\ time \in 0..MaxStamp /\ Len(log) <= MaxEntries /\ log \in Seq(Ledger!Rows)
  /\ \A i \in DOMAIN log : Row(log[i]) /\ log[i].timestamp <= time /\ log[i].id.ms <= time
  /\ \A i, j \in DOMAIN log : log[i].id = log[j].id => i = j
  /\ log # <<>> => \E e \in Ledger!Rows : Greatest(Ledger!Rows, e)

\* Every row hashes to what it says until one is edited, and then that one does not.
HashesInv ==
  IF edited THEN \E i \in DOMAIN log : log[i].entry_hash # Ledger!computeHash(log[i])
  ELSE \A i \in DOMAIN log : log[i].entry_hash = Ledger!computeHash(log[i])

\* Rows continue the genesis or a row before them; in order, the very one before them.
LinksInv ==
  /\ \A i \in DOMAIN log : \/ Genesis(log[i].prev_hash)
                           \/ \E j \in 1..(i - 1) : log[i].prev_hash = log[j].entry_hash
  /\ ~edited /\ ~stale /\ Ledger!InsertedInOrder =>
       \A i \in DOMAIN log : log[i].prev_hash = IF i = 1 THEN Ledger!GENESIS_HASH
                                                ELSE log[i - 1].entry_hash

\* What a recorder read is of the table, and the newest of as many rows as there were.
ReadersInv ==
  /\ began \in [Reconciler -> {Ledger!Idle} \cup 0..MaxStamp]
  /\ \A r \in Reconciler : began[r] # Ledger!Idle => began[r] <= time
  /\ \A w \in Recorder :
       /\ read[w].rows \in {Ledger!Idle} \cup 0..Len(log)
       /\ Genesis(read[w].hash) \/ \E j \in DOMAIN log : read[w].hash = log[j].entry_hash
       /\ ~edited /\ read[w].rows = Len(log) => read[w].hash = Ledger!latestHash
  /\ read = [w \in Recorder |-> read[w]]
  /\ edited \in BOOLEAN /\ stale \in BOOLEAN

LedgerInv == TableInv /\ HashesInv /\ LinksInv /\ ReadersInv

\* The order of the rows.
LEMMA OrderIsTotal ==
  ASSUME NEW a, NEW b, NEW c, Row(a), Row(b), Row(c)
  PROVE  /\ ~Ledger!Before(a, a)
         /\ ~(Ledger!Before(a, b) /\ Ledger!Before(b, a))
         /\ Ledger!Before(a, b) /\ Ledger!Before(b, c) => Ledger!Before(a, c)
         /\ a.id # b.id => Ledger!Before(a, b) \/ Ledger!Before(b, a)
<1>1. /\ a.id.ms \in Nat /\ a.id.rand \in Nat /\ a.timestamp \in Nat
      /\ b.id.ms \in Nat /\ b.id.rand \in Nat /\ b.timestamp \in Nat
      /\ c.id.ms \in Nat /\ c.id.rand \in Nat /\ c.timestamp \in Nat
  BY DEF Row
<1>2. a.id.ms = b.id.ms /\ a.id.rand = b.id.rand => a.id = b.id
  <2>1. a.id = [ms |-> a.id.ms, rand |-> a.id.rand]
    BY DEF Row
  <2>2. b.id = [ms |-> b.id.ms, rand |-> b.id.rand]
    BY DEF Row
  <2> QED
    BY <2>1, <2>2
<1> QED
  BY <1>1, <1>2 DEF Ledger!Before

\* What is newest is a row of the table.
LEMMA LatestIsThere ==
  ASSUME NEW S, NEW e, Greatest(S, e)
  PROVE  Greatest(S, Ledger!Latest(S))
BY DEF Greatest, Ledger!Latest

LEMMA LatestIsUnique ==
  ASSUME NEW S, NEW e, Greatest(S, e), \A f \in S : Row(f)
  PROVE  Ledger!Latest(S) = e
<1> DEFINE l == Ledger!Latest(S)
<1>1. Greatest(S, l)
  BY LatestIsThere
<1> HIDE DEF l
<1>2. l \in S /\ e \in S /\ Row(l) /\ Row(e)
  BY <1>1 DEF Greatest
<1>3. l = e \/ (Ledger!Before(l, e) /\ Ledger!Before(e, l))
  BY <1>1, <1>2 DEF Greatest
<1> QED
  BY <1>2, <1>3, OrderIsTotal DEF l

LEMMA TableFacts ==
  ASSUME TableInv
  PROVE  /\ Len(log) \in Nat /\ DOMAIN log = 1..Len(log) /\ time \in Nat
         /\ \A f \in Ledger!Rows : Row(f)
         /\ \A i \in DOMAIN log : log[i] \in Ledger!Rows
<1>1. Len(log) \in Nat /\ DOMAIN log = 1..Len(log)
  BY LenProperties DEF TableInv
<1>2. time \in Nat
  BY LedgerAssumption DEF Ledger!LedgerAssumption, TableInv
<1> QED
  BY <1>1, <1>2 DEF TableInv, Ledger!Rows

LEMMA LatestHashFacts ==
  ASSUME TableInv
  PROVE  Genesis(Ledger!latestHash) \/ \E j \in DOMAIN log : Ledger!latestHash = log[j].entry_hash
<1>1. CASE Ledger!Rows = {}
  BY <1>1 DEF Ledger!latestHash, Ledger!hashAfter, Genesis
<1>2. CASE Ledger!Rows # {}
  <2>1. log # <<>>
    BY <1>2 DEF Ledger!Rows
  <2>2. Ledger!Latest(Ledger!Rows) \in Ledger!Rows
    BY <2>1, LatestIsThere DEF TableInv, Greatest
  <2>3. PICK j \in DOMAIN log : Ledger!Latest(Ledger!Rows) = log[j]
    BY <2>2 DEF Ledger!Rows
  <2> QED
    BY <1>2, <2>3 DEF Ledger!latestHash, Ledger!hashAfter
<1> QED
  BY <1>1, <1>2

LEMMA LedgerInit == Ledger!Init => LedgerInv
<1> SUFFICES ASSUME Ledger!Init PROVE LedgerInv
  OBVIOUS
<1>1. log = <<>> /\ Len(log) = 0 /\ DOMAIN log = {} /\ time = 0 /\ ~edited /\ ~stale
  BY DEF Ledger!Init
<1>2. TableInv
  <2>1. MaxStamp \in Nat /\ MaxEntries \in Nat
    BY LedgerAssumption DEF Ledger!LedgerAssumption
  <2>2. log \in Seq(Ledger!Rows)
    BY <1>1, EmptySeq
  <2> QED
    BY <1>1, <2>1, <2>2 DEF TableInv
<1>3. HashesInv /\ LinksInv
  BY <1>1 DEF HashesInv, LinksInv
<1>4. ReadersInv
  <2>1. Ledger!latestHash = Ledger!GENESIS_HASH
    BY <1>1 DEF Ledger!latestHash, Ledger!hashAfter, Ledger!Rows
  <2>2. \A w \in Recorder : read[w].rows = Ledger!Idle /\ read[w].hash = Ledger!GENESIS_HASH
    BY DEF Ledger!Init, Ledger!NotRead
  <2>3. began = [r \in Reconciler |-> Ledger!Idle] /\ read = [w \in Recorder |-> read[w]]
    BY DEF Ledger!Init
  <2>4. began \in [Reconciler -> {Ledger!Idle} \cup 0..MaxStamp]
        /\ \A r \in Reconciler : began[r] = Ledger!Idle
    BY <2>3
  <2>5. \A w \in Recorder :
          /\ read[w].rows \in {Ledger!Idle} \cup 0..Len(log) /\ Genesis(read[w].hash)
          /\ read[w].hash = Ledger!latestHash
    BY <2>1, <2>2 DEF Genesis
  <2>6. edited \in BOOLEAN /\ stale \in BOOLEAN
    BY DEF Ledger!Init
  <2>7. \A r \in Reconciler : began[r] # Ledger!Idle => began[r] <= time
    BY <2>4
  <2>8. read = [w \in Recorder |-> read[w]]
    BY <2>3
  <2> QED
    BY <2>4, <2>5, <2>6, <2>7, <2>8 DEF ReadersInv
<1> QED
  BY <1>2, <1>3, <1>4 DEF LedgerInv

\* A row is inserted: it continues what its writer read.
Inserted(e) ==
  /\ Len(log) < MaxEntries /\ log' = Append(log, e) /\ Row(e)
  /\ e.timestamp <= time /\ e.id.ms <= time /\ \A f \in Ledger!Rows : f.id # e.id
  /\ e.entry_hash = Ledger!computeHash(e)
  /\ UNCHANGED <<time, edited>>

LEMMA InsertFacts ==
  ASSUME TableInv, NEW amount, NEW ts \in Nat, ts <= time, NEW prev,
         Ledger!Insert(amount, ts, prev), UNCHANGED <<time, edited>>
  PROVE  \E e : Inserted(e) /\ e.prev_hash = prev
<1>1. PICK rand \in Rand : /\ \A f \in Ledger!Rows : f.id # [ms |-> time, rand |-> rand]
                          /\ log' = Append(log, Ledger!NewEntry(amount, rand, ts, prev))
                          /\ Len(log) < MaxEntries
  BY DEF Ledger!Insert
<1> DEFINE e == Ledger!NewEntry(amount, rand, ts, prev)
<1>2. /\ e.id = [ms |-> time, rand |-> rand] /\ e.amount = amount /\ e.timestamp = ts
      /\ e.prev_hash = prev
      /\ e = [id |-> e.id, amount |-> e.amount, timestamp |-> e.timestamp,
              prev_hash |-> e.prev_hash, entry_hash |-> e.entry_hash]
      /\ e.entry_hash = Ledger!computeHash(e)
  BY DEF Ledger!NewEntry, Ledger!computeHash
<1>3. log' = Append(log, e)
  BY <1>1
<1> HIDE DEF e
<1>4. rand \in Nat /\ time \in Nat
  BY TableFacts, LedgerAssumption DEF Ledger!LedgerAssumption
<1>5. e.id.ms = time /\ e.id.rand = rand
  BY <1>2
<1>6. Row(e)
  BY <1>2, <1>4, <1>5 DEF Row
<1>7. Inserted(e)
  BY <1>1, <1>2, <1>3, <1>4, <1>5, <1>6 DEF Inserted
<1> QED
  BY <1>2, <1>7

\* What an insertion does to the table.
LEMMA InsertedFacts ==
  ASSUME TableInv, NEW e, Inserted(e)
  PROVE  /\ Len(log') = Len(log) + 1 /\ DOMAIN log' = 1..(Len(log) + 1)
         /\ \A i \in DOMAIN log : log'[i] = log[i]
         /\ log'[Len(log) + 1] = e /\ Ledger!Rows' = Ledger!Rows \cup {e}
         /\ log' \in Seq(Ledger!Rows')
<1> DEFINE S == Ledger!Rows \cup {e}
<1>1. log \in Seq(Ledger!Rows) /\ Len(log) \in Nat /\ DOMAIN log = 1..Len(log)
  BY TableFacts DEF TableInv
<1>2. log \in Seq(S) /\ e \in S
  BY <1>1, SeqMonotonic
<1> HIDE DEF S
<1>3. /\ Append(log, e) \in Seq(S) /\ Len(Append(log, e)) = Len(log) + 1
      /\ \A i \in 1..Len(log) : Append(log, e)[i] = log[i]
      /\ Append(log, e)[Len(log) + 1] = e
  BY <1>2, AppendProperties
<1>4. log' = Append(log, e)
  BY DEF Inserted
<1>5. DOMAIN log' = 1..(Len(log) + 1)
  BY <1>3, <1>4, LenProperties
<1>6. Ledger!Rows' = {log'[i] : i \in DOMAIN log'}
  BY DEF Ledger!Rows
<1>7. Ledger!Rows' = S
  <2>1. \A i \in 1..(Len(log) + 1) : i \in 1..Len(log) \/ i = Len(log) + 1
    BY <1>1
  <2>2. \A i \in 1..(Len(log) + 1) : log'[i] \in S
    BY <1>1, <1>3, <1>4, <2>1 DEF S, Ledger!Rows
  <2>3. \A i \in 1..Len(log) : i \in 1..(Len(log) + 1)
    BY <1>1
  <2>4. Len(log) + 1 \in 1..(Len(log) + 1)
    BY <1>1
  <2> QED
    BY <1>1, <1>3, <1>4, <1>5, <1>6, <2>2, <2>3, <2>4 DEF S, Ledger!Rows
<1> QED
  BY <1>1, <1>3, <1>4, <1>5, <1>7 DEF S

LEMMA TableGrows ==
  ASSUME TableInv, NEW e, Inserted(e)
  PROVE  TableInv'
<1>1. /\ Len(log) \in Nat /\ DOMAIN log = 1..Len(log) /\ time' = time
      /\ \A f \in Ledger!Rows : Row(f)
      /\ \A i \in DOMAIN log : log[i] \in Ledger!Rows
  BY TableFacts DEF Inserted
<1>2. /\ Len(log') = Len(log) + 1 /\ DOMAIN log' = 1..(Len(log) + 1)
      /\ \A i \in DOMAIN log : log'[i] = log[i]
      /\ log'[Len(log) + 1] = e /\ Ledger!Rows' = Ledger!Rows \cup {e}
      /\ log' \in Seq(Ledger!Rows')
  BY InsertedFacts
<1>3. \A i \in DOMAIN log' : i \in DOMAIN log \/ i = Len(log) + 1
  BY <1>1, <1>2
<1>4. \A i \in DOMAIN log' : Row(log'[i]) /\ log'[i].timestamp <= time' /\ log'[i].id.ms <= time'
  BY <1>1, <1>2, <1>3 DEF TableInv, Inserted
<1>5. \A i, j \in DOMAIN log' : log'[i].id = log'[j].id => i = j
  <2>1. \A i \in DOMAIN log : log'[i].id # e.id
    BY <1>1, <1>2 DEF Inserted
  <2> QED
    BY <1>2, <1>3, <2>1 DEF TableInv
<1>6. Len(log') <= MaxEntries
  BY <1>1, <1>2, LedgerAssumption DEF Inserted, Ledger!LedgerAssumption
<1>7. \E f \in Ledger!Rows' : Greatest(Ledger!Rows', f)
  <2>1. CASE log = <<>>
    <3>1. Ledger!Rows = {}
      BY <2>1 DEF Ledger!Rows
    <3> QED
      BY <1>2, <3>1 DEF Greatest
  <2>2. CASE log # <<>>
    <3>1. PICK g \in Ledger!Rows : Greatest(Ledger!Rows, g)
      BY <2>2 DEF TableInv
    <3>2. Row(g) /\ Row(e) /\ g.id # e.id /\ \A f \in Ledger!Rows : Row(f)
      BY <1>1, <3>1 DEF Inserted
    <3>3. CASE Ledger!Before(e, g)
      BY <1>2, <3>1, <3>3 DEF Greatest
    <3>4. CASE Ledger!Before(g, e)
      <4>1. \A f \in Ledger!Rows : Ledger!Before(f, e)
        BY <3>1, <3>2, <3>4, OrderIsTotal DEF Greatest
      <4> QED
        BY <1>2, <4>1 DEF Greatest
    <3> QED
      BY <3>2, <3>3, <3>4, OrderIsTotal
  <2> QED
    BY <2>1, <2>2
<1> QED
  BY <1>1, <1>2, <1>4, <1>5, <1>6, <1>7 DEF TableInv

\* In order, the newest row is the last one inserted.
LEMMA LastIsLatest ==
  ASSUME TableInv, Ledger!InsertedInOrder, NEW n \in DOMAIN log
  PROVE  Ledger!hashAfter({log[j] : j \in 1..n}) = log[n].entry_hash
<1> DEFINE S == {log[j] : j \in 1..n}
<1>1. /\ DOMAIN log = 1..Len(log) /\ Len(log) \in Nat /\ n \in 1..Len(log)
      /\ \A i \in DOMAIN log : Row(log[i])
  BY TableFacts DEF TableInv
<1>2. \A j \in 1..n : j \in DOMAIN log /\ (j < n \/ j = n)
  BY <1>1
<1>3. Greatest(S, log[n]) /\ \A f \in S : Row(f)
  BY <1>1, <1>2 DEF Greatest, Ledger!InsertedInOrder
<1> HIDE DEF S
<1>4. Ledger!Latest(S) = log[n] /\ S # {}
  BY <1>3, LatestIsUnique DEF Greatest
<1>5. Ledger!hashAfter(S) = log[n].entry_hash
  BY <1>4 DEF Ledger!hashAfter
<1> QED
  BY <1>5 DEF S

\* What continues the newest row, with the rows in order, continues the last one.
LEMMA NewestInOrder ==
  ASSUME TableInv, Ledger!InsertedInOrder
  PROVE  Ledger!latestHash = IF log = <<>> THEN Ledger!GENESIS_HASH ELSE log[Len(log)].entry_hash
<1>1. DOMAIN log = 1..Len(log) /\ Len(log) \in Nat
  BY TableFacts
<1>2. CASE log = <<>>
  <2>1. Ledger!Rows = {}
    BY <1>2 DEF Ledger!Rows
  <2> QED
    BY <1>2, <2>1 DEF Ledger!latestHash, Ledger!hashAfter
<1>3. CASE log # <<>>
  <2>1. Len(log) \in DOMAIN log
    BY <1>1, <1>3, EmptySeq DEF TableInv
  <2>2. Ledger!Rows = {log[j] : j \in 1..Len(log)}
    BY <1>1 DEF Ledger!Rows
  <2> QED
    BY <1>3, <2>1, <2>2, LastIsLatest DEF Ledger!latestHash
<1> QED
  BY <1>2, <1>3

\* The hashes and the links after an insertion that continued what its writer had read.
LEMMA ChainGrows ==
  ASSUME LedgerInv, NEW e, Inserted(e), stale' \in BOOLEAN, stale => stale',
         Genesis(e.prev_hash) \/ \E j \in DOMAIN log : e.prev_hash = log[j].entry_hash,
         ~edited /\ ~stale' => e.prev_hash = Ledger!latestHash
  PROVE  TableInv' /\ HashesInv' /\ LinksInv'
<1>1. /\ TableInv /\ TableInv' /\ edited' = edited
      /\ e.entry_hash = Ledger!computeHash(e) /\ HashesInv /\ LinksInv
  BY TableGrows DEF LedgerInv, Inserted
<1>2. /\ Len(log) \in Nat /\ DOMAIN log = 1..Len(log)
      /\ Len(log') = Len(log) + 1 /\ DOMAIN log' = 1..(Len(log) + 1)
      /\ \A i \in DOMAIN log : log'[i] = log[i]
      /\ log'[Len(log) + 1] = e
  BY <1>1, TableFacts, InsertedFacts
<1>3. \A i \in DOMAIN log' : i \in DOMAIN log \/ i = Len(log) + 1
  BY <1>2
<1>4. \A i \in DOMAIN log : i \in DOMAIN log'
  BY <1>2
<1>5. HashesInv'
  BY <1>1, <1>2, <1>3, <1>4 DEF HashesInv, Ledger!computeHash
<1>6. ASSUME NEW i \in DOMAIN log'
      PROVE  \/ Genesis(log'[i].prev_hash)
             \/ \E j \in 1..(i - 1) : log'[i].prev_hash = log'[j].entry_hash
  <2>1. CASE i \in DOMAIN log
    <3>1. \A j \in 1..(i - 1) : log'[j] = log[j]
      BY <1>2, <2>1
    <3> QED
      BY <1>1, <1>2, <2>1, <3>1 DEF LinksInv
  <2>2. CASE i = Len(log) + 1
    <3>1. 1..(i - 1) = DOMAIN log
      BY <1>2, <2>2
    <3> QED
      BY <1>2, <2>2, <3>1
  <2> QED
    BY <1>3, <2>1, <2>2
<1>7. ASSUME ~edited', ~stale', Ledger!InsertedInOrder', NEW i \in DOMAIN log'
      PROVE  log'[i].prev_hash = IF i = 1 THEN Ledger!GENESIS_HASH ELSE log'[i - 1].entry_hash
  <2>1. Ledger!InsertedInOrder
    BY <1>2, <1>4, <1>7 DEF Ledger!InsertedInOrder
  <2>2. ~edited /\ ~stale
    BY <1>1, <1>7
  <2>3. CASE i \in DOMAIN log
    <3>1. i # 1 => i - 1 \in DOMAIN log /\ log'[i - 1] = log[i - 1]
      BY <1>2, <2>3
    <3>2. log'[i].prev_hash = log[i].prev_hash
      BY <1>2, <2>3
    <3> QED
      BY <1>1, <2>1, <2>2, <2>3, <3>1, <3>2 DEF LinksInv
  <2>4. CASE i = Len(log) + 1
    <3>1. e.prev_hash = IF log = <<>> THEN Ledger!GENESIS_HASH ELSE log[Len(log)].entry_hash
      BY <1>1, <1>7, <2>1, <2>2, NewestInOrder
    <3>2. log = <<>> <=> i = 1
      BY <1>1, <1>2, <2>4, EmptySeq DEF TableInv
    <3>3. i # 1 => i - 1 = Len(log) /\ log'[i - 1] = log[Len(log)]
      BY <1>2, <2>4
    <3> QED
      BY <1>2, <2>4, <3>1, <3>2, <3>3
  <2> QED
    BY <1>3, <2>3, <2>4
<1>8. LinksInv'
  BY <1>6, <1>7 DEF LinksInv
<1> QED
  BY <1>1, <1>5, <1>8

\* What the other recorders read is still of the table, and no longer the newest.
LEMMA ReadersLookOn ==
  ASSUME LedgerInv, NEW e, Inserted(e), NEW w \in Recorder
  PROVE  /\ read[w].rows \in {Ledger!Idle} \cup 0..Len(log')
         /\ read[w].rows # Len(log')
         /\ Genesis(read[w].hash) \/ \E j \in DOMAIN log' : read[w].hash = log'[j].entry_hash
<1>1. /\ Len(log) \in Nat /\ DOMAIN log = 1..Len(log)
      /\ Len(log') = Len(log) + 1 /\ DOMAIN log' = 1..(Len(log) + 1)
      /\ \A i \in DOMAIN log : log'[i] = log[i]
  BY TableFacts, InsertedFacts DEF LedgerInv
<1>2. /\ read[w].rows \in {Ledger!Idle} \cup 0..Len(log)
      /\ Genesis(read[w].hash) \/ \E j \in DOMAIN log : read[w].hash = log[j].entry_hash
  BY DEF LedgerInv, ReadersInv
<1>3. /\ read[w].rows \in {Ledger!Idle} \cup 0..Len(log') /\ read[w].rows # Len(log')
  BY <1>1, <1>2 DEF Ledger!Idle
<1>4. \A j \in DOMAIN log : j \in DOMAIN log' /\ log'[j] = log[j]
  BY <1>1
<1> QED
  BY <1>2, <1>3, <1>4

\* Where a row was appended, and not by a recorder, the others wait as before.
LEMMA ReconcilerAppends ==
  ASSUME LedgerInv, NEW e, Inserted(e), e.prev_hash = Ledger!latestHash,
         read' = read, stale' = stale, began' \in [Reconciler -> {Ledger!Idle} \cup 0..MaxStamp],
         \A r \in Reconciler : began'[r] # Ledger!Idle => began'[r] <= time
  PROVE  LedgerInv'
<1>1. TableInv /\ edited' = edited /\ time' = time /\ edited \in BOOLEAN /\ stale \in BOOLEAN
  BY DEF LedgerInv, ReadersInv, Inserted
<1>2. Genesis(e.prev_hash) \/ \E j \in DOMAIN log : e.prev_hash = log[j].entry_hash
  BY <1>1, LatestHashFacts
<1>3. TableInv' /\ HashesInv' /\ LinksInv'
  BY <1>1, <1>2, ChainGrows
<1>4. read = [w \in Recorder |-> read[w]]
  BY DEF LedgerInv, ReadersInv
<1>5. ReadersInv'
  BY <1>1, <1>4, ReadersLookOn DEF ReadersInv
<1> QED
  BY <1>3, <1>5 DEF LedgerInv

\* A recorder's append to what was newest when it read it.
LEMMA RecorderAppends ==
  ASSUME LedgerInv, NEW w \in Recorder, Ledger!recordEntry(w)
  PROVE  LedgerInv'
<1>1. /\ TableInv /\ time \in Nat /\ edited \in BOOLEAN /\ stale \in BOOLEAN
      /\ Len(log) \in Nat
  BY TableFacts DEF LedgerInv, ReadersInv
<1>2. PICK amount \in Booked : Ledger!Insert(amount, time, read[w].hash)
  BY DEF Ledger!recordEntry
<1>3. /\ UNCHANGED <<time, edited, began>>
      /\ read[w].rows # Ledger!Idle
      /\ stale' = (stale \/ Len(log) > read[w].rows)
      /\ read' = [read EXCEPT ![w] = Ledger!NotRead]
  BY DEF Ledger!recordEntry
<1>4. PICK e : Inserted(e) /\ e.prev_hash = read[w].hash
  <2> USE <1>1
  <2>1. time <= time
    OBVIOUS
  <2>2. UNCHANGED <<time, edited>>
    BY <1>3
  <2> QED
    BY <1>2, <2>1, <2>2, InsertFacts
<1>5. /\ read[w].rows \in {Ledger!Idle} \cup 0..Len(log)
      /\ Genesis(read[w].hash) \/ \E j \in DOMAIN log : read[w].hash = log[j].entry_hash
      /\ ~edited /\ read[w].rows = Len(log) => read[w].hash = Ledger!latestHash
      /\ read = [v \in Recorder |-> read[v]]
      /\ began \in [Reconciler -> {Ledger!Idle} \cup 0..MaxStamp]
      /\ \A r \in Reconciler : began[r] # Ledger!Idle => began[r] <= time
  BY DEF LedgerInv, ReadersInv
<1>6. ~edited /\ ~stale' => e.prev_hash = Ledger!latestHash
  <2>1. ~stale' => read[w].rows = Len(log)
    <3>1. ~stale' => ~(Len(log) > read[w].rows)
      BY <1>3
    <3>2. read[w].rows \in 0..Len(log)
      BY <1>3, <1>5
    <3> QED
      BY <1>1, <3>1, <3>2
  <2> QED
    BY <1>4, <1>5, <2>1
<1>7. stale' \in BOOLEAN /\ (stale => stale')
  BY <1>1, <1>3
<1>8. TableInv' /\ HashesInv' /\ LinksInv'
  BY <1>4, <1>5, <1>6, <1>7, ChainGrows
<1>9. Len(log') \in Nat /\ Len(log') = Len(log) + 1
  BY <1>1, <1>4, InsertedFacts
<1>10. ASSUME NEW v \in Recorder
       PROVE  /\ read'[v].rows \in {Ledger!Idle} \cup 0..Len(log')
              /\ read'[v].rows # Len(log')
              /\ Genesis(read'[v].hash) \/ \E j \in DOMAIN log' : read'[v].hash = log'[j].entry_hash
  <2>1. CASE v = w
    <3>1. read'[v] = Ledger!NotRead
      BY <1>3, <1>5, <2>1
    <3>2. read'[v].rows = -1 /\ Genesis(read'[v].hash)
      BY <3>1 DEF Ledger!NotRead, Genesis, Ledger!Idle
    <3> QED
      BY <1>9, <3>2 DEF Ledger!Idle
  <2>2. CASE v # w
    <3>1. read'[v] = read[v]
      BY <1>3, <1>5, <2>2
    <3> QED
      BY <1>4, <3>1, ReadersLookOn
  <2> QED
    BY <2>1, <2>2
<1>11. read' = [v \in Recorder |-> read'[v]]
  BY <1>3, <1>5
<1>12. ReadersInv'
  BY <1>1, <1>3, <1>5, <1>7, <1>10, <1>11 DEF ReadersInv
<1> QED
  BY <1>8, <1>12 DEF LedgerInv

\* Where the table stays as it is, the chain stays as it is.
LEMMA TableStands ==
  ASSUME LedgerInv, UNCHANGED <<log, edited, stale>>, time' \in 0..MaxStamp, time <= time'
  PROVE  TableInv' /\ HashesInv' /\ LinksInv' /\ Ledger!latestHash' = Ledger!latestHash
<1>1. /\ TableInv /\ HashesInv /\ LinksInv /\ time \in Nat /\ time' \in Nat
      /\ \A i \in DOMAIN log : Row(log[i]) /\ log[i].timestamp <= time /\ log[i].id.ms <= time
  BY TableFacts DEF LedgerInv, TableInv
<1>2. Ledger!Rows' = Ledger!Rows
  BY DEF Ledger!Rows
<1>3. \A i \in DOMAIN log' : Row(log'[i]) /\ log'[i].timestamp <= time' /\ log'[i].id.ms <= time'
  BY <1>1 DEF Row
<1>4. TableInv'
  BY <1>1, <1>2, <1>3 DEF TableInv
<1>5. HashesInv' /\ LinksInv'
  BY <1>1 DEF HashesInv, LinksInv, Ledger!InsertedInOrder
<1> QED
  BY <1>2, <1>4, <1>5 DEF Ledger!latestHash

\* An edit changes an amount: the order of the rows and the links do not see it.
LEMMA EditShows ==
  ASSUME LedgerInv, Ledger!editInPlace
  PROVE  LedgerInv'
<1>1. PICK k \in DOMAIN log, amount \in Booked :
        amount # log[k].amount /\ ~edited /\ log' = [log EXCEPT ![k].amount = amount]
  BY DEF Ledger!editInPlace
<1>2. edited' = TRUE /\ UNCHANGED <<time, began, read, stale>>
  BY DEF Ledger!editInPlace
<1>3. /\ TableInv /\ HashesInv /\ LinksInv /\ ReadersInv
      /\ Len(log) \in Nat /\ DOMAIN log = 1..Len(log)
      /\ log \in Seq(Ledger!Rows) /\ \A i \in DOMAIN log : Row(log[i])
  BY TableFacts DEF LedgerInv, TableInv
<1>4. log = [i \in 1..Len(log) |-> log[i]]
  BY <1>3 DEF TableInv
<1>5. log' = [i \in 1..Len(log) |-> IF i = k THEN [log[k] EXCEPT !.amount = amount] ELSE log[i]]
  BY <1>1, <1>3, <1>4
<1>6. /\ DOMAIN log' = DOMAIN log /\ log'[k] = [log[k] EXCEPT !.amount = amount]
      /\ \A i \in DOMAIN log : i # k => log'[i] = log[i]
  BY <1>3, <1>5
<1>7. /\ log'[k].id = log[k].id /\ log'[k].timestamp = log[k].timestamp
      /\ log'[k].prev_hash = log[k].prev_hash /\ log'[k].entry_hash = log[k].entry_hash
      /\ log'[k].amount = amount /\ Row(log'[k])
  <2>1. Row(log[k])
    BY <1>3
  <2> QED
    BY <1>6, <2>1 DEF Row
<1>8. \A i \in DOMAIN log :
        /\ log'[i].id = log[i].id /\ log'[i].timestamp = log[i].timestamp
        /\ log'[i].prev_hash = log[i].prev_hash /\ log'[i].entry_hash = log[i].entry_hash
        /\ Row(log'[i])
  BY <1>3, <1>6, <1>7
<1>9. log' \in Seq(Ledger!Rows') /\ Len(log') = Len(log)
  <2>1. \A i \in 1..Len(log) : log'[i] \in Ledger!Rows'
    BY <1>3, <1>6 DEF Ledger!Rows
  <2>2. log' = [i \in 1..Len(log) |-> log'[i]]
    BY <1>5
  <2>3. log' \in [1..Len(log) -> Ledger!Rows']
    BY <2>1, <2>2
  <2> QED
    BY <1>3, <2>3, SeqDef, LenProperties
<1>10. \E f \in Ledger!Rows' : Greatest(Ledger!Rows', f)
  <2>1. log # <<>>
    BY <1>1, EmptySeq
  <2>2. PICK m \in DOMAIN log : Greatest(Ledger!Rows, log[m])
    BY <1>3, <2>1 DEF TableInv, Ledger!Rows
  <2>3. log'[m] \in Ledger!Rows'
    BY <1>6 DEF Ledger!Rows
  <2>4. ASSUME NEW f \in Ledger!Rows' PROVE f = log'[m] \/ Ledger!Before(f, log'[m])
    <3>1. PICK i \in DOMAIN log : f = log'[i]
      BY <1>6 DEF Ledger!Rows
    <3>2. log[i] = log[m] \/ Ledger!Before(log[i], log[m])
      BY <2>2 DEF Greatest, Ledger!Rows
    <3>3. CASE log[i] = log[m]
      BY <1>3, <3>1, <3>3 DEF TableInv
    <3>4. CASE Ledger!Before(log[i], log[m])
      BY <1>8, <3>1, <3>4 DEF Ledger!Before
    <3> QED
      BY <3>2, <3>3, <3>4
  <2> QED
    BY <2>3, <2>4 DEF Greatest
<1>11. TableInv'
  BY <1>2, <1>3, <1>6, <1>8, <1>9, <1>10 DEF TableInv
<1>12. HashesInv'
  <2>1. log[k].entry_hash = Ledger!computeHash(log[k])
    BY <1>1, <1>3 DEF HashesInv
  <2>2. Ledger!computeHash(log'[k]) # Ledger!computeHash(log[k])
    BY <1>1, <1>7 DEF Ledger!computeHash
  <2>3. \E i \in DOMAIN log' : log'[i].entry_hash # Ledger!computeHash(log'[i])
    BY <1>6, <1>7, <2>1, <2>2
  <2> QED
    BY <1>2, <2>3 DEF HashesInv, Ledger!computeHash
<1>13. LinksInv'
  <2>1. \A i \in DOMAIN log : \A j \in 1..(i - 1) : j \in DOMAIN log
    BY <1>3
  <2>2. ASSUME NEW i \in DOMAIN log
        PROVE  \/ Genesis(log'[i].prev_hash)
               \/ \E j \in 1..(i - 1) : log'[i].prev_hash = log'[j].entry_hash
    BY <1>3, <1>8, <2>1 DEF LinksInv
  <2> QED
    BY <1>2, <1>6, <2>2 DEF LinksInv
<1>14. ReadersInv'
  <2>1. ASSUME NEW w \in Recorder
        PROVE  /\ read[w].rows \in {Ledger!Idle} \cup 0..Len(log')
               /\ Genesis(read[w].hash) \/ \E j \in DOMAIN log' : read[w].hash = log'[j].entry_hash
    BY <1>3, <1>6, <1>8, <1>9 DEF ReadersInv
  <2> QED
    BY <1>2, <1>3, <2>1 DEF ReadersInv
<1> QED
  BY <1>11, <1>12, <1>13, <1>14 DEF LedgerInv

LEMMA LedgerStep ==
  LedgerInv /\ [Ledger!Next]_ledgerVars => LedgerInv'
<1> SUFFICES ASSUME LedgerInv, [Ledger!Next]_ledgerVars PROVE LedgerInv'
  OBVIOUS
<1>1. /\ TableInv /\ ReadersInv /\ time \in Nat /\ time \in 0..MaxStamp
      /\ MaxStamp \in Nat
      /\ began \in [Reconciler -> {Ledger!Idle} \cup 0..MaxStamp]
      /\ \A r \in Reconciler : began[r] # Ledger!Idle => began[r] <= time
      /\ read = [v \in Recorder |-> read[v]]
  BY TableFacts, LedgerAssumption DEF LedgerInv, ReadersInv, TableInv, Ledger!LedgerAssumption
<1>2. ASSUME NEW r \in Reconciler, Ledger!reconcileOpportunity(r) PROVE LedgerInv'
  <2>1. /\ began' = [began EXCEPT ![r] = time]
        /\ UNCHANGED <<log, time, read, edited, stale>>
    BY <1>2 DEF Ledger!reconcileOpportunity
  <2>2. TableInv' /\ HashesInv' /\ LinksInv' /\ Ledger!latestHash' = Ledger!latestHash
    BY <1>1, <2>1, TableStands
  <2>3. ReadersInv'
    BY <1>1, <2>1, <2>2 DEF ReadersInv
  <2> QED
    BY <2>2, <2>3 DEF LedgerInv
<1>3. ASSUME NEW r \in Reconciler, Ledger!withTransaction(r) PROVE LedgerInv'
  <2>1. PICK amount \in Booked : Ledger!Insert(amount, began[r], Ledger!latestHash)
    BY <1>3 DEF Ledger!withTransaction
  <2>2. /\ began[r] # Ledger!Idle /\ began' = [began EXCEPT ![r] = Ledger!Idle]
        /\ UNCHANGED <<time, read, edited, stale>>
    BY <1>3 DEF Ledger!withTransaction
  <2>3. began[r] \in Nat /\ began[r] <= time
    BY <1>1, <2>2
  <2>4. PICK e : Inserted(e) /\ e.prev_hash = Ledger!latestHash
    <3>1. ASSUME NEW t, t = began[r], NEW h, h = Ledger!latestHash
          PROVE  \E e : Inserted(e) /\ e.prev_hash = h
      <4>1. t \in Nat /\ t <= time /\ Ledger!Insert(amount, t, h)
        BY <2>1, <2>3, <3>1
      <4>2. UNCHANGED <<time, edited>>
        BY <2>2
      <4> QED
        BY <1>1, <4>1, <4>2, InsertFacts
    <3> QED
      BY <3>1
  <2>5. /\ began' \in [Reconciler -> {Ledger!Idle} \cup 0..MaxStamp]
        /\ \A q \in Reconciler : began'[q] # Ledger!Idle => began'[q] <= time
    BY <1>1, <2>2
  <2>6. read' = read /\ stale' = stale
    BY <2>2
  <2> QED
    BY <2>4, <2>5, <2>6, ReconcilerAppends
<1>4. ASSUME NEW r \in Reconciler, Ledger!noPayment(r) PROVE LedgerInv'
  <2>1. /\ began' = [began EXCEPT ![r] = Ledger!Idle]
        /\ UNCHANGED <<log, time, read, edited, stale>>
    BY <1>4 DEF Ledger!noPayment
  <2>2. TableInv' /\ HashesInv' /\ LinksInv' /\ Ledger!latestHash' = Ledger!latestHash
    BY <1>1, <2>1, TableStands
  <2>3. ReadersInv'
    BY <1>1, <2>1, <2>2 DEF ReadersInv
  <2> QED
    BY <2>2, <2>3 DEF LedgerInv
<1>5. ASSUME NEW w \in Recorder, Ledger!readLatest(w) PROVE LedgerInv'
  <2>1. /\ read' = [read EXCEPT ![w] = [hash |-> Ledger!latestHash, rows |-> Len(log)]]
        /\ UNCHANGED <<log, time, began, edited, stale>>
    BY <1>5 DEF Ledger!readLatest
  <2>2. TableInv' /\ HashesInv' /\ LinksInv' /\ Ledger!latestHash' = Ledger!latestHash
    BY <1>1, <2>1, TableStands
  <2>3. Len(log) \in Nat /\ Len(log') = Len(log) /\ DOMAIN log' = DOMAIN log
    BY <1>1, <2>1, TableFacts
  <2>4. ASSUME NEW v \in Recorder
        PROVE  /\ read'[v].rows \in {Ledger!Idle} \cup 0..Len(log')
               /\ Genesis(read'[v].hash) \/ \E j \in DOMAIN log' : read'[v].hash = log'[j].entry_hash
               /\ ~edited' /\ read'[v].rows = Len(log') => read'[v].hash = Ledger!latestHash'
    <3>1. CASE v = w
      <4>1. read'[v] = [hash |-> Ledger!latestHash, rows |-> Len(log)]
        BY <1>1, <2>1, <3>1
      <4>2. read'[v].rows = Len(log) /\ read'[v].hash = Ledger!latestHash
        BY <4>1
      <4> QED
        BY <1>1, <2>1, <2>2, <2>3, <4>2, LatestHashFacts
    <3>2. CASE v # w
      <4>1. read'[v] = read[v]
        BY <1>1, <2>1, <3>2
      <4> QED
        BY <1>1, <2>1, <2>2, <2>3, <4>1 DEF ReadersInv
    <3> QED
      BY <3>1, <3>2
  <2>5. read' = [v \in Recorder |-> read'[v]]
    BY <1>1, <2>1
  <2>6. ReadersInv'
    BY <1>1, <2>1, <2>4, <2>5 DEF ReadersInv
  <2> QED
    BY <2>2, <2>6 DEF LedgerInv
<1>6. ASSUME Ledger!tick PROVE LedgerInv'
  <2>1. time < MaxStamp /\ time' = time + 1 /\ UNCHANGED <<log, began, read, edited, stale>>
    BY <1>6 DEF Ledger!tick
  <2>2. time' \in 0..MaxStamp /\ time <= time'
    BY <1>1, <2>1
  <2>3. TableInv' /\ HashesInv' /\ LinksInv' /\ Ledger!latestHash' = Ledger!latestHash
    BY <2>1, <2>2, TableStands
  <2>4. ASSUME NEW r \in Reconciler, began[r] # Ledger!Idle PROVE began[r] <= time'
    <3>1. began[r] \in Nat /\ began[r] <= time
      BY <1>1, <2>4
    <3> QED
      BY <1>1, <2>1, <3>1
  <2>5. ReadersInv'
    BY <1>1, <2>1, <2>3, <2>4 DEF ReadersInv
  <2> QED
    BY <2>3, <2>5 DEF LedgerInv
<1>7. ASSUME UNCHANGED ledgerVars PROVE LedgerInv'
  <2>1. UNCHANGED <<log, time, began, read, edited, stale>>
    BY <1>7 DEF ledgerVars
  <2>2. time' \in 0..MaxStamp /\ time <= time'
    BY <1>1, <2>1
  <2>3. TableInv' /\ HashesInv' /\ LinksInv' /\ Ledger!latestHash' = Ledger!latestHash
    BY <2>1, <2>2, TableStands
  <2>4. ReadersInv'
    BY <1>1, <2>1, <2>3 DEF ReadersInv
  <2> QED
    BY <2>3, <2>4 DEF LedgerInv
<1> QED
  BY <1>2, <1>3, <1>4, <1>5, <1>6, <1>7, RecorderAppends, EditShows DEF Ledger!Next

\* What the invariant says of the chain.
LEMMA LedgerTells ==
  LedgerInv => /\ Ledger!TypeOK /\ Ledger!OrderlyChainVerifies /\ Ledger!EditIsDetected
               /\ Ledger!EveryRowContinuesAnEarlierOne
<1> SUFFICES ASSUME LedgerInv
             PROVE  /\ Ledger!TypeOK /\ Ledger!OrderlyChainVerifies /\ Ledger!EditIsDetected
                    /\ Ledger!EveryRowContinuesAnEarlierOne
  OBVIOUS
<1>1. /\ TableInv /\ HashesInv /\ LinksInv /\ ReadersInv
      /\ Len(log) \in Nat /\ DOMAIN log = 1..Len(log) /\ time \in Nat
      /\ \A i \in DOMAIN log : Row(log[i]) /\ log[i].timestamp <= time /\ log[i].id.ms <= time
  BY TableFacts DEF LedgerInv, TableInv
<1>2. Ledger!TypeOK
  <2>1. \A i \in DOMAIN log : log[i].timestamp \in 0..time /\ log[i].id.ms \in 0..time
    BY <1>1 DEF Row
  <2> QED
    BY <1>1, <2>1 DEF Ledger!TypeOK, TableInv, ReadersInv
<1>3. Ledger!EveryRowContinuesAnEarlierOne
  BY <1>1 DEF LinksInv, Genesis, Ledger!EveryRowContinuesAnEarlierOne
<1>4. Ledger!EditIsDetected
  <2>1. edited => \E i \in DOMAIN log : log[i].entry_hash # Ledger!computeHash(log[i])
    BY <1>1 DEF HashesInv
  <2> QED
    BY <2>1 DEF Ledger!EditIsDetected, Ledger!verifyLedgerIntegrity, Ledger!Rows
<1>5. Ledger!OrderlyChainVerifies
  <2> SUFFICES ASSUME ~edited, ~stale, Ledger!InsertedInOrder, NEW i \in DOMAIN log
               PROVE  /\ log[i].prev_hash = Ledger!hashAfter(Ledger!Passed(log[i]))
                      /\ log[i].entry_hash = Ledger!computeHash(log[i])
    BY DEF Ledger!OrderlyChainVerifies, Ledger!verifyLedgerIntegrity, Ledger!Rows
  <2>1. log[i].entry_hash = Ledger!computeHash(log[i])
    BY <1>1 DEF HashesInv
  <2>2. log[i].prev_hash = IF i = 1 THEN Ledger!GENESIS_HASH ELSE log[i - 1].entry_hash
    BY <1>1 DEF LinksInv
  <2>3. \A j \in DOMAIN log : Ledger!Before(log[j], log[i]) <=> j < i
    <3>1. ASSUME NEW j \in DOMAIN log PROVE Ledger!Before(log[j], log[i]) <=> j < i
      <4>1. j < i \/ i < j \/ j = i
        BY <1>1
      <4>2. /\ j < i => Ledger!Before(log[j], log[i])
            /\ i < j => Ledger!Before(log[i], log[j])
        BY DEF Ledger!InsertedInOrder
      <4>3. /\ ~Ledger!Before(log[i], log[i])
            /\ ~(Ledger!Before(log[i], log[j]) /\ Ledger!Before(log[j], log[i]))
        BY <1>1, OrderIsTotal
      <4>4. i < j => ~(j < i)
        BY <1>1
      <4>5. ~(i < i)
        BY <1>1
      <4> QED
        BY <4>1, <4>2, <4>3, <4>4, <4>5
    <3> QED
      BY <3>1
  <2>4. \A j : j \in 1..(i - 1) <=> j \in DOMAIN log /\ j < i
    BY <1>1
  <2>5. Ledger!Passed(log[i]) = {log[j] : j \in 1..(i - 1)}
    <3>1. \A f : f \in Ledger!Passed(log[i]) <=> \E j \in DOMAIN log : f = log[j] /\ Ledger!Before(f, log[i])
      BY DEF Ledger!Passed, Ledger!Rows
    <3> QED
      BY <2>3, <2>4, <3>1
  <2>6. CASE i = 1
    <3>1. 1..(i - 1) = {}
      BY <2>6
    <3>2. Ledger!Passed(log[i]) = {}
      BY <2>5, <3>1
    <3> QED
      BY <2>1, <2>2, <2>6, <3>2 DEF Ledger!hashAfter
  <2>7. CASE i # 1
    <3>1. i - 1 \in DOMAIN log
      BY <1>1, <2>7
    <3>2. ASSUME NEW m, m = i - 1 PROVE Ledger!hashAfter({log[j] : j \in 1..m}) = log[m].entry_hash
      BY <1>1, <3>1, <3>2, LastIsLatest
    <3>3. Ledger!hashAfter({log[j] : j \in 1..(i - 1)}) = log[i - 1].entry_hash
      BY <3>2
    <3> QED
      BY <2>1, <2>2, <2>5, <2>7, <3>3
  <2> QED
    BY <2>6, <2>7
<1> QED
  BY <1>2, <1>3, <1>4, <1>5

\* A part whose invariant its own initial states and steps keep, is kept by the service.
LEMMA LedgerOfThePlatform ==
  /\ PlatformInit => (part = "ledger" => LedgerInv)
  /\ (part = "ledger" => LedgerInv) /\ [PlatformNext]_all => (part' = "ledger" => LedgerInv')
<1>1. PlatformInit => (part = "ledger" => LedgerInv)
  BY LedgerInit DEF PlatformInit
<1>2. ASSUME part = "ledger" => LedgerInv, [PlatformNext]_all, part' = "ledger" PROVE LedgerInv'
  <2>1. part = "ledger" /\ [Ledger!Next]_ledgerVars
    BY <1>2 DEF PlatformNext, all
  <2> QED
    BY <1>2, <2>1, LedgerStep
<1> QED
  BY <1>1, <1>2

\* The hash chain tells the truth: the audit accepts what orderly writers wrote, for any
\* number of them, any amounts and any clock, it rejects a row edited in place, wherever
\* it is, and every row continues the genesis or a row inserted before it (recordEntry,
\* reconcileOpportunity's transaction and verifyLedgerIntegrity).
THEOREM TheChainIsSound == PlatformSpec => []ChainTellsTheTruth
<1> DEFINE Inv == part = "ledger" => LedgerInv
<1>1. PlatformInit => Inv
  BY LedgerOfThePlatform
<1>2. Inv /\ [PlatformNext]_all => Inv'
  BY LedgerOfThePlatform
<1>3. Inv => ChainTellsTheTruth
  BY LedgerTells DEF ChainTellsTheTruth
<1> HIDE DEF Inv
<1> QED
  BY <1>1, <1>2, <1>3, PTL DEF PlatformSpec

-----------------------------------------------------------------------------
(* The learners.                                                           *)

\* Counts of outcomes that are among those of an arm.
Within(c, a) ==
  /\ c.intSucc <= a.intSucc /\ c.natSucc <= a.natSucc
  /\ c.intTot - c.intSucc <= a.intTot - a.intSucc
  /\ c.natTot - c.natSucc <= a.natTot - a.natSucc

Genuine(p) == p \in Learn!Posterior /\ Within(p.of, arm[p.by])

\* A tenant's observations are among what its arm counts, which no restart forgets,
\* and so is every posterior wherever it is.
LearnInv ==
  /\ observations \in [Tenant -> Learn!Counts] /\ arm \in [Tenant -> Learn!Counts]
  /\ \A t \in Tenant : Within(observations[t], arm[t]) /\ Within(Learn!Zero, arm[t])
  /\ updating \subseteq [post : Learn!Posterior, step : Learn!Step]
  /\ \A u \in updating : Genuine(u.post)
  /\ modelRow = Learn!None \/ Genuine(modelRow)
  /\ cache = Learn!None \/ Genuine(cache)
  /\ priorRow \in [Tenant -> Learn!Posterior \cup {Learn!None}]
  /\ \A t \in Tenant : priorRow[t] = Learn!None \/ Genuine(priorRow[t])

\* The calibrator and the bandit count an outcome alike.
LEMMA CountsAgree ==
  ASSUME NEW c \in Learn!Counts, NEW a \in Learn!Counts, NEW recovered \in BOOLEAN,
         NEW intervened \in BOOLEAN, Within(c, a)
  PROVE  /\ Learn!observe(c, recovered, intervened) \in Learn!Counts
         /\ Learn!updateReward(a, recovered, intervened) \in Learn!Counts
         /\ Within(Learn!observe(c, recovered, intervened),
                   Learn!updateReward(a, recovered, intervened))
         /\ Within(c, Learn!updateReward(a, recovered, intervened))
<1> DEFINE k == IF recovered THEN 1 ELSE 0
           n == Learn!observe(c, recovered, intervened)
           b == Learn!updateReward(a, recovered, intervened)
<1>1. k \in {0, 1}
  OBVIOUS
<1>2. /\ c.intSucc \in Nat /\ c.natSucc \in Nat /\ c.intTot \in Nat /\ c.natTot \in Nat
      /\ a.intSucc \in Nat /\ a.natSucc \in Nat /\ a.intTot \in Nat /\ a.natTot \in Nat
  BY DEF Learn!Counts
<1>3. /\ n = IF intervened THEN [c EXCEPT !.intTot = c.intTot + 1, !.intSucc = c.intSucc + k]
             ELSE [c EXCEPT !.natTot = c.natTot + 1, !.natSucc = c.natSucc + k]
      /\ b = IF intervened THEN [a EXCEPT !.intTot = a.intTot + 1, !.intSucc = a.intSucc + k]
             ELSE [a EXCEPT !.natTot = a.natTot + 1, !.natSucc = a.natSucc + k]
  BY DEF Learn!observe, Learn!updateReward
<1> HIDE DEF k, n, b
<1>4. /\ n \in Learn!Counts /\ b \in Learn!Counts
      /\ n.intSucc = IF intervened THEN c.intSucc + k ELSE c.intSucc
      /\ n.natSucc = IF intervened THEN c.natSucc ELSE c.natSucc + k
      /\ n.intTot = IF intervened THEN c.intTot + 1 ELSE c.intTot
      /\ n.natTot = IF intervened THEN c.natTot ELSE c.natTot + 1
      /\ b.intSucc = IF intervened THEN a.intSucc + k ELSE a.intSucc
      /\ b.natSucc = IF intervened THEN a.natSucc ELSE a.natSucc + k
      /\ b.intTot = IF intervened THEN a.intTot + 1 ELSE a.intTot
      /\ b.natTot = IF intervened THEN a.natTot ELSE a.natTot + 1
  <2>1. /\ c.intSucc + k \in Nat /\ c.natSucc + k \in Nat /\ c.intTot + 1 \in Nat
        /\ c.natTot + 1 \in Nat /\ a.intSucc + k \in Nat /\ a.natSucc + k \in Nat
        /\ a.intTot + 1 \in Nat /\ a.natTot + 1 \in Nat
    BY <1>1, <1>2
  <2>2. /\ c = [natSucc |-> c.natSucc, natTot |-> c.natTot, intSucc |-> c.intSucc, intTot |-> c.intTot]
        /\ a = [natSucc |-> a.natSucc, natTot |-> a.natTot, intSucc |-> a.intSucc, intTot |-> a.intTot]
    BY DEF Learn!Counts
  <2>3. CASE intervened
    <3>1. /\ n = [natSucc |-> c.natSucc, natTot |-> c.natTot, intSucc |-> c.intSucc + k,
                  intTot |-> c.intTot + 1]
          /\ b = [natSucc |-> a.natSucc, natTot |-> a.natTot, intSucc |-> a.intSucc + k,
                  intTot |-> a.intTot + 1]
      BY <1>3, <2>2, <2>3
    <3> QED
      BY <1>2, <2>1, <2>3, <3>1 DEF Learn!Counts
  <2>4. CASE ~intervened
    <3>1. /\ n = [natSucc |-> c.natSucc + k, natTot |-> c.natTot + 1, intSucc |-> c.intSucc,
                  intTot |-> c.intTot]
          /\ b = [natSucc |-> a.natSucc + k, natTot |-> a.natTot + 1, intSucc |-> a.intSucc,
                  intTot |-> a.intTot]
      BY <1>3, <2>2, <2>4
    <3> QED
      BY <1>2, <2>1, <2>4, <3>1 DEF Learn!Counts
  <2> QED
    BY <2>3, <2>4
<1>5. Within(n, b) /\ Within(c, b)
  <2>1. CASE intervened
    BY <1>1, <1>2, <1>4, <2>1 DEF Within
  <2>2. CASE ~intervened
    BY <1>1, <1>2, <1>4, <2>2 DEF Within
  <2> QED
    BY <2>1, <2>2
<1> QED
  BY <1>4, <1>5 DEF n, b

LEMMA LearnInit == Learn!Init => LearnInv
<1> SUFFICES ASSUME Learn!Init PROVE LearnInv
  OBVIOUS
<1>1. Learn!Zero \in Learn!Counts /\ Within(Learn!Zero, Learn!Zero)
  BY DEF Learn!Zero, Learn!Counts, Within
<1> QED
  BY <1>1 DEF Learn!Init, LearnInv

\* Where the arms stand and nothing but genuine posteriors goes anywhere.
LEMMA LearnStep ==
  LearnInv /\ [Learn!Next]_learnVars => LearnInv'
<1> SUFFICES ASSUME LearnInv, [Learn!Next]_learnVars PROVE LearnInv'
  OBVIOUS
<1>1. /\ observations \in [Tenant -> Learn!Counts] /\ arm \in [Tenant -> Learn!Counts]
      /\ \A t \in Tenant : Within(observations[t], arm[t]) /\ Within(Learn!Zero, arm[t])
      /\ updating \subseteq [post : Learn!Posterior, step : Learn!Step]
      /\ \A u \in updating : Genuine(u.post)
      /\ modelRow = Learn!None \/ Genuine(modelRow)
      /\ cache = Learn!None \/ Genuine(cache)
      /\ priorRow \in [Tenant -> Learn!Posterior \cup {Learn!None}]
      /\ \A t \in Tenant : priorRow[t] = Learn!None \/ Genuine(priorRow[t])
  BY DEF LearnInv
<1>2. Learn!Zero \in Learn!Counts /\ \A a \in Learn!Counts : Within(a, a)
  BY DEF Learn!Zero, Learn!Counts, Within
<1>3. ASSUME NEW t \in Tenant, NEW recovered \in BOOLEAN, NEW intervened \in BOOLEAN,
             NEW significant \in BOOLEAN, Learn!settle(t, recovered, intervened, significant)
      PROVE  LearnInv'
  <2> DEFINE c == Learn!observe(observations[t], recovered, intervened)
             b == Learn!updateReward(arm[t], recovered, intervened)
             s == Learn!posteriorStatus(c, significant)
  <2>1. /\ observations' = [observations EXCEPT ![t] = c]
        /\ arm' = [arm EXCEPT ![t] = b]
        /\ UNCHANGED <<modelRow, priorRow, cache>>
    BY <1>3 DEF Learn!settle
  <2>2. updating' = IF Learn!Total(c) < UpdateAt THEN updating
                    ELSE updating \cup {[post |-> [by |-> t, of |-> c, status |-> s], step |-> "model"]}
    BY <1>3 DEF Learn!settle
  <2>3. s \in {"ACTIVE", "CANDIDATE"}
    BY DEF Learn!posteriorStatus
  <2>4. c \in Learn!Counts /\ b \in Learn!Counts /\ Within(c, b)
    BY <1>1, CountsAgree
  <2>5. \A d \in Learn!Counts : Within(d, arm[t]) => Within(d, b)
    BY <1>1, CountsAgree
  <2> HIDE DEF c, b, s
  <2>6. /\ observations' \in [Tenant -> Learn!Counts] /\ arm' \in [Tenant -> Learn!Counts]
        /\ arm'[t] = b /\ observations'[t] = c
        /\ \A x \in Tenant : x # t => arm'[x] = arm[x] /\ observations'[x] = observations[x]
    BY <1>1, <2>1, <2>4
  <2>7. \A x \in Tenant : Within(observations'[x], arm'[x]) /\ Within(Learn!Zero, arm'[x])
    BY <1>1, <1>2, <2>4, <2>5, <2>6
  <2>8. ASSUME NEW p, Genuine(p) PROVE p \in Learn!Posterior /\ Within(p.of, arm'[p.by])
    <3>1. p \in Learn!Posterior /\ p.by \in Tenant /\ p.of \in Learn!Counts /\ Within(p.of, arm[p.by])
      BY <2>8 DEF Genuine, Learn!Posterior
    <3> QED
      BY <2>5, <2>6, <3>1
  <2> DEFINE q == [by |-> t, of |-> c, status |-> s]
  <2>9. q \in Learn!Posterior /\ Within(q.of, arm'[q.by])
    BY <2>3, <2>4, <2>6 DEF Learn!Posterior
  <2>10. ASSUME NEW u \in updating'
         PROVE  /\ u \in [post : Learn!Posterior, step : Learn!Step]
                /\ Within(u.post.of, arm'[u.post.by])
    <3>1. CASE u \in updating
      BY <1>1, <2>8, <3>1
    <3>2. CASE u = [post |-> q, step |-> "model"]
      BY <2>9, <3>2 DEF Learn!Step
    <3> QED
      BY <2>2, <2>10, <3>1, <3>2
  <2>11. \A u \in updating' : (Genuine(u.post))'
    BY <2>10 DEF Genuine
  <2>12. /\ modelRow' = Learn!None \/ (Genuine(modelRow))'
         /\ cache' = Learn!None \/ (Genuine(cache))'
         /\ \A x \in Tenant : priorRow'[x] = Learn!None \/ (Genuine(priorRow[x]))'
    BY <1>1, <2>1, <2>8 DEF Genuine
  <2> QED
    BY <1>1, <2>1, <2>6, <2>7, <2>10, <2>11, <2>12 DEF LearnInv
<1>4. ASSUME arm' = arm, NEW p, Genuine(p) PROVE p \in Learn!Posterior /\ Within(p.of, arm'[p.by])
  BY <1>4 DEF Genuine
<1>5. ASSUME NEW u \in updating, Learn!updateCalibratedDistributions(u) PROVE LearnInv'
  <2>1. /\ u.step = "model" /\ modelRow' = u.post
        /\ updating' = (updating \ {u}) \cup {[u EXCEPT !.step = "prior"]}
        /\ UNCHANGED <<observations, arm, priorRow, cache>>
    BY <1>5 DEF Learn!updateCalibratedDistributions
  <2>2. u \in [post : Learn!Posterior, step : Learn!Step] /\ Genuine(u.post)
    BY <1>1
  <2> DEFINE v == [u EXCEPT !.step = "prior"]
  <2>3. v \in [post : Learn!Posterior, step : Learn!Step] /\ v.post = u.post
    BY <2>2 DEF Learn!Step
  <2> HIDE DEF v
  <2>4. \A w \in updating' : w \in updating \/ w = v
    BY <2>1 DEF v
  <2> QED
    BY <1>1, <1>4, <2>1, <2>2, <2>3, <2>4 DEF LearnInv, Genuine
<1>6. ASSUME NEW u \in updating, Learn!persistPrior(u) PROVE LearnInv'
  <2>1. /\ u.step = "prior" /\ priorRow' = [priorRow EXCEPT ![u.post.by] = u.post]
        /\ updating' = (updating \ {u}) \cup {[u EXCEPT !.step = "cache"]}
        /\ UNCHANGED <<observations, arm, modelRow, cache>>
    BY <1>6 DEF Learn!persistPrior
  <2>2. u \in [post : Learn!Posterior, step : Learn!Step] /\ Genuine(u.post)
    BY <1>1
  <2> DEFINE v == [u EXCEPT !.step = "cache"]
  <2>3. v \in [post : Learn!Posterior, step : Learn!Step] /\ v.post = u.post
    BY <2>2 DEF Learn!Step
  <2> HIDE DEF v
  <2>4. \A w \in updating' : w \in updating \/ w = v
    BY <2>1 DEF v
  <2>5. u.post \in Learn!Posterior /\ u.post.by \in Tenant
    BY <2>2 DEF Learn!Posterior
  <2>6. /\ priorRow' \in [Tenant -> Learn!Posterior \cup {Learn!None}]
        /\ \A t \in Tenant : priorRow'[t] = priorRow[t] \/ priorRow'[t] = u.post
    BY <1>1, <2>1, <2>5
  <2> QED
    BY <1>1, <1>4, <2>1, <2>2, <2>3, <2>4, <2>6 DEF LearnInv, Genuine
<1>7. ASSUME NEW u \in updating, Learn!fillCache(u) PROVE LearnInv'
  <2>1. /\ cache' = u.post /\ updating' = updating \ {u}
        /\ UNCHANGED <<observations, arm, modelRow, priorRow>>
    BY <1>7 DEF Learn!fillCache
  <2> QED
    BY <1>1, <1>4, <2>1 DEF LearnInv, Genuine
<1>8. ASSUME NEW u \in updating, Learn!updateFails(u) PROVE LearnInv'
  <2>1. updating' = updating \ {u} /\ UNCHANGED <<observations, arm, modelRow, priorRow, cache>>
    BY <1>8 DEF Learn!updateFails
  <2> QED
    BY <1>1, <1>4, <2>1 DEF LearnInv, Genuine
<1>9. ASSUME NEW p, Genuine(p), Learn!Reading(p) PROVE LearnInv'
  <2>1. /\ updating' = updating \cup {[post |-> p, step |-> "cache"]}
        /\ UNCHANGED <<observations, arm, modelRow, priorRow, cache>>
    BY <1>9 DEF Learn!Reading
  <2> DEFINE v == [post |-> p, step |-> "cache"]
  <2>2. v \in [post : Learn!Posterior, step : Learn!Step] /\ v.post = p
    BY <1>9 DEF Genuine, Learn!Step
  <2> HIDE DEF v
  <2>3. \A w \in updating' : w \in updating \/ w = v
    BY <2>1 DEF v
  <2> QED
    BY <1>1, <1>4, <1>9, <2>1, <2>2, <2>3 DEF LearnInv, Genuine
<1>10. ASSUME NEW t \in Tenant, Learn!loadPriorsFromDatabase(t) PROVE LearnInv'
  <2> DEFINE p == [priorRow[t] EXCEPT !.status = "ACTIVE"]
  <2>1. Genuine(priorRow[t]) /\ Learn!Reading(p)
    BY <1>1, <1>10 DEF Learn!loadPriorsFromDatabase
  <2>2. /\ priorRow[t] \in Learn!Posterior
        /\ Within(priorRow[t].of, arm[priorRow[t].by])
    BY <2>1 DEF Genuine
  <2>3. p \in Learn!Posterior /\ p.of = priorRow[t].of /\ p.by = priorRow[t].by
    BY <2>2 DEF Learn!Posterior
  <2> HIDE DEF p
  <2>4. Genuine(p)
    BY <2>2, <2>3 DEF Genuine
  <2> QED
    BY <1>9, <2>1, <2>4
<1>11. ASSUME Learn!getEffectiveProbabilities PROVE LearnInv'
  <2>1. Genuine(modelRow) /\ Learn!Reading(modelRow)
    BY <1>1, <1>11 DEF Learn!getEffectiveProbabilities
  <2>2. ASSUME NEW p, p = modelRow PROVE LearnInv'
    <3>1. Genuine(p) /\ Learn!Reading(p)
      BY <2>1, <2>2
    <3> QED
      BY <1>9, <3>1
  <2> QED
    BY <2>2
<1>12. ASSUME Learn!Restart PROVE LearnInv'
  <2>1. /\ observations' = [t \in Tenant |-> Learn!Zero] /\ updating' = {} /\ cache' = Learn!None
        /\ UNCHANGED <<arm, modelRow, priorRow>>
    BY <1>12 DEF Learn!Restart
  <2>2. observations' \in [Tenant -> Learn!Counts]
    BY <1>2, <2>1
  <2>3. ASSUME NEW t \in Tenant PROVE Within(observations'[t], arm'[t])
    <3>1. observations'[t] = Learn!Zero /\ arm'[t] = arm[t] /\ arm[t] \in Learn!Counts
      BY <1>1, <2>1
    <3>2. Within(Learn!Zero, arm[t])
      BY <1>1
    <3> QED
      BY <3>1, <3>2
  <2> QED
    BY <1>1, <1>4, <2>1, <2>2, <2>3 DEF LearnInv, Genuine
<1>13. ASSUME UNCHANGED learnVars PROVE LearnInv'
  <2>1. UNCHANGED <<observations, arm, updating, modelRow, priorRow, cache>>
    BY <1>13 DEF learnVars
  <2> QED
    BY <1>1, <1>4, <2>1 DEF LearnInv, Genuine
<1> QED
  BY <1>3, <1>5, <1>6, <1>7, <1>8, <1>10, <1>11, <1>12, <1>13 DEF Learn!Next

LEMMA LearnTells == LearnInv => Learn!TypeOK /\ Learn!EvidenceIsReal
<1> SUFFICES ASSUME LearnInv PROVE Learn!TypeOK /\ Learn!EvidenceIsReal
  OBVIOUS
<1>1. Learn!TypeOK
  BY DEF LearnInv, Learn!TypeOK, Genuine
<1>2. \A p \in Learn!Stored \ {Learn!None} : Genuine(p)
  BY DEF LearnInv, Learn!Stored
<1>3. Learn!EvidenceIsReal
  BY <1>2 DEF Genuine, Within, Learn!EvidenceIsReal
<1> QED
  BY <1>1, <1>3

\* What the learners keep is what happened: whatever the order in which the updates of
\* the calibrator overtake each other, and whatever a restart forgets, no posterior in a
\* table, in the cache or on its way counts an outcome its tenant's arm has not counted
\* (observe, updateCalibratedDistributions, getEffectiveProbabilities).
THEOREM PosteriorsAreOfOutcomes == PlatformSpec => []EvidenceIsReal
<1> DEFINE Inv == part = "learning" => LearnInv
<1>1. PlatformInit => Inv
  BY LearnInit DEF PlatformInit
<1>2. Inv /\ [PlatformNext]_all => Inv'
  <2> SUFFICES ASSUME Inv, [PlatformNext]_all, part' = "learning" PROVE LearnInv'
    OBVIOUS
  <2>1. part = "learning" /\ [Learn!Next]_learnVars
    BY DEF PlatformNext, all
  <2> QED
    BY <2>1, LearnStep
<1>3. Inv => EvidenceIsReal
  BY LearnTells DEF EvidenceIsReal
<1> HIDE DEF Inv
<1> QED
  BY <1>1, <1>2, <1>3, PTL DEF PlatformSpec

-----------------------------------------------------------------------------
(* The advisors.                                                           *)

AdviceInv ==
  Advice!TypeOK /\ Advice!HardDeclineIsNotPursued /\ Advice!OnlyWorthwhileIsProposed

LEMMA AdviceInit == Advice!Init => AdviceInv
<1> SUFFICES ASSUME Advice!Init PROVE AdviceInv
  OBVIOUS
<1>1. Advice!TypeOK
  <2>1. opp \in [decline : Advice!Decline, reason : Advice!Reason, attempts : {1}]
    BY DEF Advice!Init
  <2>2. 1 \in 1..MaxAttempts /\ 0 \in 0..(MaxReplans + 1)
    BY AdviceAssumption
  <2>3. opp \in Advice!Opportunity
    BY <2>1, <2>2 DEF Advice!Opportunity
  <2> QED
    BY <2>2, <2>3 DEF Advice!Init, Advice!TypeOK, Advice!NoAdvice, Advice!Health
<1>2. advice = Advice!NoAdvice
  BY DEF Advice!Init
<1>3. ~advice.hard /\ advice.by = "nobody"
  BY <1>2 DEF Advice!NoAdvice
<1> QED
  BY <1>1, <1>3 DEF AdviceInv, Advice!HardDeclineIsNotPursued, Advice!OnlyWorthwhileIsProposed

\* The categories a diagnosis knows, each of an urgency that is a percentage.
LEMMA Diagnoses ==
  ASSUME NEW o \in Advice!Opportunity
  PROVE  /\ Advice!category(o) = "SECURITY_STOP" <=>
              o.decline = "hard" \/ o.reason \in Advice!SecurityStop
         /\ Advice!diagnosedUrgency(o) \in 0..100
<1>1. o.decline \in Advice!Decline /\ o.reason \in Advice!Reason
  BY DEF Advice!Opportunity
<1>2. Advice!category(o) = "SECURITY_STOP" <=> o.decline = "hard" \/ o.reason \in Advice!SecurityStop
  BY <1>1 DEF Advice!category, Advice!Reason, Advice!SecurityStop
<1>3. Advice!category(o) \in {"SECURITY_STOP", "NETWORK_LATENCY", "INSUFFICIENT_FUNDS", "CARD_EXPIRED",
                              "USER_ABORT", "LIMIT_EXCEEDED", "TECHNICAL_GLITCH"}
  BY <1>1 DEF Advice!category, Advice!Reason, Advice!SecurityStop
<1>4. Advice!diagnosedUrgency(o) \in 0..100
  BY <1>3 DEF Advice!diagnosedUrgency
<1> QED
  BY <1>2, <1>4

\* Advice on the opportunity as it is that keeps the rules.
Sound(gateway, who, what, drafted) ==
  /\ opp.decline = "hard" /\ who # "model" => what \notin Advice!Pursuit
  /\ who = "specialists" => /\ Advice!category(opp) = "SECURITY_STOP" => what = "ABSTAIN"
                            /\ what = "ACT" => drafted
  /\ who = "portfolio" /\ what = "ACT" => opp.decline # "hard" /\ gateway >= 75 /\ facts.iven > 5000

LEMMA AdviceGiven ==
  ASSUME AdviceInv, NEW gateway \in Advice!Health, NEW who, NEW what, NEW drafted \in BOOLEAN,
         Advice!saysOver(gateway, who, what, drafted), UNCHANGED <<opp, facts>>,
         annotation' \in {Advice!NoUrgency} \cup 0..100, plans' \in 0..(MaxReplans + 1),
         Sound(gateway, who, what, drafted)
  PROVE  AdviceInv'
<1>1. /\ advice'.by = who /\ advice'.says = what /\ advice'.draft = drafted
      /\ advice'.gateway = gateway
  BY DEF Advice!saysOver
<1>5. /\ advice'.hard <=> opp.decline = "hard"
      /\ advice'.stop <=> Advice!category(opp) = "SECURITY_STOP"
  BY DEF Advice!saysOver
<1>6. opp' = opp /\ facts' = facts
  OBVIOUS
<1>2. Advice!TypeOK'
  BY <1>1 DEF AdviceInv, Advice!TypeOK
<1>3. Advice!HardDeclineIsNotPursued'
  BY <1>1, <1>5 DEF Sound, Advice!HardDeclineIsNotPursued, Advice!Pursuit
<1>4. Advice!OnlyWorthwhileIsProposed'
  BY <1>1, <1>5, <1>6 DEF Sound, Advice!OnlyWorthwhileIsProposed
<1> QED
  BY <1>2, <1>3, <1>4 DEF AdviceInv

\* The specialists: every veto comes before the recommendation to act.
LEMMA VetoesComeFirst ==
  ASSUME NEW o \in Advice!Opportunity, NEW night \in BOOLEAN, NEW urgency
  PROVE  /\ o.decline = "hard" \/ o.reason \in Advice!SecurityStop =>
              Advice!ensemble(o, night, urgency) = "ABSTAIN"
         /\ Advice!ensemble(o, night, urgency) = "ACT" => Advice!draftCustomerCommunication(o, night)
         /\ Advice!draftCustomerCommunication(o, night) \in BOOLEAN
<1> DEFINE v == Advice!checkPreExecutionCompliance(o, night)
<1>1. /\ o.decline = "hard" \/ o.reason \in Advice!SecurityStop => v = "hard_decline_blocked"
      /\ v \in {"hard_decline_blocked", "contact_limit_exceeded", "dnd_active", "can_proceed"}
  BY DEF Advice!checkPreExecutionCompliance, Advice!SecurityStop
<1>2. /\ Advice!draftCustomerCommunication(o, night) <=> v = "can_proceed" /\ o.decline # "hard"
      /\ Advice!draftCustomerCommunication(o, night) \in BOOLEAN
  BY DEF Advice!draftCustomerCommunication
<1>3. Advice!ensemble(o, night, urgency) =
        CASE o.decline = "hard" \/ v = "hard_decline_blocked" -> "ABSTAIN"
          [] o.decline # "hard" /\ v \in {"dnd_active", "contact_limit_exceeded"} -> "WAIT"
          [] o.decline # "hard" /\ v = "can_proceed" ->
               IF facts.iven <= 0 THEN "ABSTAIN" ELSE IF urgency < 25 THEN "WAIT" ELSE "ACT"
  BY DEF Advice!ensemble
<1> HIDE DEF v
<1>4. o.decline = "hard" \/ v = "hard_decline_blocked" => Advice!ensemble(o, night, urgency) = "ABSTAIN"
  BY <1>3
<1>5. o.decline # "hard" /\ v \in {"dnd_active", "contact_limit_exceeded"} =>
        Advice!ensemble(o, night, urgency) = "WAIT"
  BY <1>3
<1> QED
  BY <1>1, <1>2, <1>4, <1>5

\* The sweep: of the answers to what it knows, acting needs a healthy gateway and a value.
LEMMA ActingPays ==
  ASSUME NEW o, NEW perceived, NEW customer, NEW gateway \in Advice!Health, facts.iven \in Int,
         Advice!proposedAction(o, perceived, customer, gateway) \in Advice!Pursuit
  PROVE  o.decline # "hard" /\ gateway >= 75 /\ facts.iven > 5000
<1> DEFINE c == Advice!composite(15, 250, TRUE, perceived, customer, TRUE, facts.iven,
                                 Advice!operationalCost(o.attempts))
           m == Advice!Cardinality({x \in {"perception"} : ~perceived} \cup {x \in {"customer"} : ~customer})
           info == Advice!estimate(facts.iven, gateway, c)
           r == Advice!recommendation(c, m)
           says == Advice!proposedAction(o, perceived, customer, gateway)
<1>1. /\ o.decline = "hard" => says = "WAIT"
      /\ o.decline # "hard" =>
           says = IF r = "INVESTIGATE" \/ info = "INVESTIGATE" THEN "INVESTIGATE"
                  ELSE IF info = "WAIT" \/ r = "HUMAN_REVIEW" THEN "WAIT" ELSE "ACT"
  BY DEF Advice!proposedAction
<1> HIDE DEF c, r, says
<1>2. info \notin {"INVESTIGATE", "WAIT"} => gateway >= 75 /\ ~(facts.iven <= 5000)
  <2>1. CASE gateway = 50
    <3>1. info \in {"INVESTIGATE", "WAIT"}
      BY <2>1 DEF Advice!estimate
    <3> QED
      BY <3>1
  <2>2. CASE gateway = 95
    <3>1. facts.iven <= 5000 => info = "WAIT"
      BY <2>2 DEF Advice!estimate
    <3> QED
      BY <2>2, <3>1
  <2> QED
    BY <2>1, <2>2 DEF Advice!Health
<1> HIDE DEF info
<1>3. o.decline # "hard" /\ info \notin {"INVESTIGATE", "WAIT"}
  BY <1>1 DEF Advice!Pursuit, says
<1> QED
  BY <1>2, <1>3

LEMMA AdviceStep ==
  AdviceInv /\ [Advice!Next]_adviceVars => AdviceInv'
<1> SUFFICES ASSUME AdviceInv, [Advice!Next]_adviceVars PROVE AdviceInv'
  OBVIOUS
<1>1. /\ opp \in Advice!Opportunity /\ facts \in Advice!Facts /\ facts.iven \in Int
      /\ annotation \in {Advice!NoUrgency} \cup 0..100 /\ plans \in 0..(MaxReplans + 1)
      /\ MaxReplans \in Nat /\ MaxAttempts \in Nat
  BY AdviceAssumption DEF AdviceInv, Advice!TypeOK, Advice!Facts
<1>2. 95 \in Advice!Health /\ FALSE \in BOOLEAN
  BY DEF Advice!Health
<1>3. ASSUME Advice!diagnoseFailureReason PROVE AdviceInv'
  <2> DEFINE what == IF Advice!category(opp) = "SECURITY_STOP" THEN "ABSTAIN" ELSE "WAIT"
  <2>1. /\ annotation' = IF annotation = Advice!NoUrgency THEN Advice!diagnosedUrgency(opp) ELSE annotation
        /\ Advice!saysOver(95, "diagnosis", what, FALSE) /\ UNCHANGED <<opp, facts, plans>>
    BY <1>3 DEF Advice!diagnoseFailureReason, Advice!says
  <2>2. annotation' \in {Advice!NoUrgency} \cup 0..100
    BY <1>1, <2>1, Diagnoses
  <2>3. what \notin Advice!Pursuit
    BY DEF Advice!Pursuit
  <2> HIDE DEF what
  <2>4. UNCHANGED <<opp, facts>> /\ plans' \in 0..(MaxReplans + 1)
    BY <1>1, <2>1
  <2>5. Advice!saysOver(95, "diagnosis", what, FALSE)
    BY <2>1
  <2>6. Sound(95, "diagnosis", what, FALSE)
    BY <2>3 DEF Sound
  <2> QED
    BY <1>2, <2>2, <2>4, <2>5, <2>6, AdviceGiven
<1>4. ASSUME NEW night \in BOOLEAN, Advice!coordinateSpecialists(night) PROVE AdviceInv'
  <2> DEFINE what == Advice!ensemble(opp, night, annotation')
             drafted == Advice!draftCustomerCommunication(opp, night)
  <2>1. /\ annotation' = Advice!analyzeOpportunity(opp)
        /\ Advice!saysOver(95, "specialists", what, drafted) /\ UNCHANGED <<opp, facts, plans>>
    BY <1>4 DEF Advice!coordinateSpecialists
  <2>2. Advice!analyzeOpportunity(opp) \in 0..100
    BY <1>1 DEF Advice!analyzeOpportunity, Advice!NoUrgency
  <2>3. /\ Advice!category(opp) = "SECURITY_STOP" => what = "ABSTAIN"
        /\ opp.decline = "hard" => what = "ABSTAIN"
        /\ what = "ACT" => drafted
        /\ drafted \in BOOLEAN
    BY <1>1, VetoesComeFirst, Diagnoses
  <2> HIDE DEF what, drafted
  <2>4. Sound(95, "specialists", what, drafted)
    BY <2>3 DEF Sound, Advice!Pursuit
  <2> QED
    BY <1>1, <1>2, <2>1, <2>2, <2>3, <2>4, AdviceGiven
<1>5. ASSUME Advice!reason PROVE AdviceInv'
  <2>1. UNCHANGED <<opp, facts, annotation, plans>>
    BY <1>5 DEF Advice!reason
  <2>2. ASSUME NEW who, NEW what, who \in {"model", "rules", "forced"}, Advice!says(who, what),
               opp.decline = "hard" /\ who # "model" => what = "ABSTAIN"
        PROVE  AdviceInv'
    <3>1. Advice!saysOver(95, who, what, FALSE)
      BY <2>2 DEF Advice!says
    <3>2. who # "specialists" /\ who # "portfolio"
      BY <2>2
    <3>3. Sound(95, who, what, FALSE)
      BY <2>2, <3>2 DEF Sound, Advice!Pursuit
    <3> QED
      BY <1>1, <1>2, <2>1, <3>1, <3>3, AdviceGiven
  <2>3. opp.decline = "hard" =>
          /\ Advice!deterministicReason(opp) = "ABSTAIN" /\ Advice!forceDecision(opp) = "ABSTAIN"
          /\ Advice!mapPreferredAction(Advice!generateDeterministicFallbackIntent(opp)) = "ABSTAIN"
    BY DEF Advice!deterministicReason, Advice!forceDecision, Advice!mapPreferredAction,
           Advice!generateDeterministicFallbackIntent
  <2> QED
    BY <1>5, <2>2, <2>3 DEF Advice!reason
<1>6. ASSUME NEW gateway \in Advice!Health, NEW a, UNCHANGED <<opp, facts, annotation>>,
             plans' \in 0..(MaxReplans + 1),
             Advice!saysOver(gateway, "planner", Advice!preferredAction(opp, a), FALSE)
      PROVE  AdviceInv'
  <2> DEFINE what == Advice!preferredAction(opp, a)
  <2>1. opp.decline = "hard" => what \notin Advice!Pursuit
    BY DEF Advice!preferredAction, Advice!Pursuit
  <2> HIDE DEF what
  <2>2. Advice!saysOver(gateway, "planner", what, FALSE)
    BY <1>6 DEF what
  <2>3. Sound(gateway, "planner", what, FALSE)
    BY <2>1 DEF Sound
  <2> QED
    BY <1>1, <1>2, <1>6, <2>2, <2>3, AdviceGiven
<1>7. ASSUME Advice!createPlan PROVE AdviceInv'
  <2>1. /\ plans' = 1 /\ UNCHANGED <<opp, facts, annotation>>
        /\ \E a \in Advice!AgentIntent(opp) :
             Advice!saysOver(95, "planner", Advice!preferredAction(opp, a), FALSE)
    BY <1>7 DEF Advice!createPlan, Advice!says
  <2>2. plans' \in 0..(MaxReplans + 1)
    BY <1>1, <2>1
  <2>3. PICK a : Advice!saysOver(95, "planner", Advice!preferredAction(opp, a), FALSE)
    BY <2>1
  <2> QED
    BY <1>2, <1>6, <2>1, <2>2, <2>3
<1>8. ASSUME NEW gateway \in Advice!Health, Advice!executeReplan(gateway) PROVE AdviceInv'
  <2>1. /\ plans' = plans + 1 /\ plans <= MaxReplans /\ UNCHANGED <<opp, facts, annotation>>
        /\ Advice!saysOver(gateway, "planner", Advice!preferredAction(opp, "SEND_PAYMENT_LINK"), FALSE)
    BY <1>8 DEF Advice!executeReplan
  <2>2. plans' \in 0..(MaxReplans + 1)
    BY <1>1, <2>1
  <2> QED
    BY <1>6, <2>1, <2>2
<1>9. ASSUME NEW customer \in BOOLEAN, NEW gateway \in Advice!Health, Advice!sweep(customer, gateway)
      PROVE  AdviceInv'
  <2> DEFINE perceived == annotation # Advice!NoUrgency
             what == Advice!proposedAction(opp, perceived, customer, gateway)
  <2>1. Advice!saysOver(gateway, "portfolio", what, FALSE) /\ UNCHANGED <<opp, facts, annotation, plans>>
    BY <1>9 DEF Advice!sweep
  <2>2. what \in Advice!Pursuit => opp.decline # "hard" /\ gateway >= 75 /\ facts.iven > 5000
    BY <1>1, ActingPays
  <2> HIDE DEF what
  <2>3. /\ UNCHANGED <<opp, facts>> /\ plans' \in 0..(MaxReplans + 1)
        /\ annotation' \in {Advice!NoUrgency} \cup 0..100
    BY <1>1, <2>1
  <2>4. /\ opp.decline = "hard" => what \notin Advice!Pursuit
        /\ what = "ACT" => opp.decline # "hard" /\ gateway >= 75 /\ facts.iven > 5000
    BY <2>2 DEF Advice!Pursuit
  <2>5. Advice!saysOver(gateway, "portfolio", what, FALSE)
    BY <2>1
  <2>6. Sound(gateway, "portfolio", what, FALSE)
    BY <2>4 DEF Sound
  <2> QED
    BY <1>2, <2>3, <2>5, <2>6, AdviceGiven
<1>10. ASSUME Advice!failsAgain PROVE AdviceInv'
  <2>1. PICK d \in Advice!Decline, r \in Advice!Reason :
          opp' = [decline |-> d, reason |-> r, attempts |-> opp.attempts + 1]
    BY <1>10 DEF Advice!failsAgain
  <2>2. opp.attempts < MaxAttempts /\ UNCHANGED <<facts, annotation, plans, advice>>
    BY <1>10 DEF Advice!failsAgain
  <2>3. opp.attempts + 1 \in 1..MaxAttempts
    BY <1>1, <2>2 DEF Advice!Opportunity
  <2>4. opp' \in Advice!Opportunity
    BY <2>1, <2>3 DEF Advice!Opportunity
  <2> QED
    BY <1>1, <2>2, <2>4 DEF AdviceInv, Advice!TypeOK, Advice!HardDeclineIsNotPursued,
                           Advice!OnlyWorthwhileIsProposed
<1>11. ASSUME UNCHANGED adviceVars PROVE AdviceInv'
  <2>1. UNCHANGED <<opp, facts, annotation, plans, advice>>
    BY <1>11 DEF adviceVars
  <2> QED
    BY <2>1 DEF AdviceInv, Advice!TypeOK, Advice!HardDeclineIsNotPursued,
                Advice!OnlyWorthwhileIsProposed
<1> QED
  BY <1>3, <1>4, <1>5, <1>7, <1>8, <1>9, <1>10, <1>11 DEF Advice!Next

\* The composite confidence is monotone in what is known: what a known score adds to the
\* completeness of the data outweighs the worst it can say.
LEMMA EvidenceHelps == Advice!MoreEvidenceNeverHurts
<1> SUFFICES ASSUME NEW samples \in {5, 15, 40}, NEW scored \in BOOLEAN, NEW perceived \in BOOLEAN,
                    NEW customer \in BOOLEAN, NEW gateway \in BOOLEAN
             PROVE  LET c(s, p, k, g) == Advice!composite(samples, 250, s, p, k, g, facts.iven,
                                                          Advice!operationalCost(opp.attempts)) IN
                    /\ c(TRUE, perceived, customer, gateway) >= c(scored, perceived, customer, gateway)
                    /\ c(scored, TRUE, customer, gateway) >= c(scored, perceived, customer, gateway)
                    /\ c(scored, perceived, TRUE, TRUE) >= c(scored, perceived, customer, gateway)
  BY DEF Advice!MoreEvidenceNeverHurts
<1> DEFINE price == Advice!operationalCost(opp.attempts)
<1>1. PICK m \in Int : m = Advice!modelConfidence(samples, 250)
  BY DEF Advice!modelConfidence
<1> HIDE DEF price
<1>3. LET c(s, p, k, g) == Advice!composite(samples, 250, s, p, k, g, facts.iven, price) IN
      c(TRUE, perceived, customer, gateway) >= c(scored, perceived, customer, gateway)
  BY <1>1 DEF Advice!composite, Advice!dataConfidence, Advice!economicConfidence
<1>4. LET c(s, p, k, g) == Advice!composite(samples, 250, s, p, k, g, facts.iven, price) IN
      c(scored, TRUE, customer, gateway) >= c(scored, perceived, customer, gateway)
  BY <1>1 DEF Advice!composite, Advice!dataConfidence, Advice!economicConfidence
<1>5. LET c(s, p, k, g) == Advice!composite(samples, 250, s, p, k, g, facts.iven, price) IN
      c(scored, perceived, TRUE, TRUE) >= c(scored, perceived, customer, gateway)
  BY <1>1 DEF Advice!composite, Advice!dataConfidence, Advice!economicConfidence
<1> QED
  BY <1>3, <1>4, <1>5 DEF price

\* The advice is sound for any expected values, any number of failures and any replanning
\* budget: nothing but a raw model answer pursues a hard decline, the specialists' vetoes
\* come before their recommendation, the sweep proposes to act only over a healthy gateway
\* where acting pays, and more evidence never lowers the confidence (createPlan,
\* coordinateSpecialists, reason, sweep, composite).
THEOREM AdvisorsAreSound == PlatformSpec => []AdviceIsSound
<1> DEFINE Inv == part = "advice" => AdviceInv
<1>1. PlatformInit => Inv
  BY AdviceInit DEF PlatformInit
<1>2. Inv /\ [PlatformNext]_all => Inv'
  <2> SUFFICES ASSUME Inv, [PlatformNext]_all, part' = "advice" PROVE AdviceInv'
    OBVIOUS
  <2>1. part = "advice" /\ [Advice!Next]_adviceVars
    BY DEF PlatformNext, all
  <2> QED
    BY <2>1, AdviceStep
<1>3. Inv => AdviceIsSound
  BY EvidenceHelps DEF AdviceInv, AdviceIsSound
<1> HIDE DEF Inv
<1> QED
  BY <1>1, <1>2, <1>3, PTL DEF PlatformSpec

-----------------------------------------------------------------------------
(* The request limiters.                                                   *)

Span(S, t) == {e \in S : e.at \in t..(t + windowSeconds - 1)}
OfWindow(S, w) == {e \in S : Limits!Window(e.at) = w}
Windows == 0..Limits!Window(MaxTime)

LimitTypes ==
  /\ now \in 0..MaxTime /\ connected \in BOOLEAN /\ requests \in 0..MaxRequests
  /\ sorted \subseteq Limits!Stamp /\ IsFiniteSet(sorted)
  /\ memoryBucket \subseteq Limits!Stamp /\ IsFiniteSet(memoryBucket)
  /\ admitted \in [Limits!Store -> SUBSET Limits!Stamp]
  /\ passed \in [Limits!Store -> SUBSET Limits!Stamp]
  /\ \A s \in Limits!Store : IsFiniteSet(admitted[s]) /\ IsFiniteSet(passed[s])
  /\ counter \in [Windows -> Nat]
  /\ stored \in [Windows -> [count : Nat, expiresAt : Nat]]
  /\ pending \subseteq [window : Windows, count : Nat, n : Nat]
  /\ planBucket \in [count : Nat, windowStart : Windows]

\* What a store let in and is recent is still in its window, and no window is overfull.
SlidingInv ==
  /\ \A e \in admitted["redis"] : e.at + windowSeconds > now => e \in sorted
  /\ \A e \in admitted["memory"] : e.at + windowSeconds > now => e \in memoryBucket
  /\ admitted["fallback"] = {}
  /\ \A s \in Limits!Store, t \in Limits!Time : Cardinality(Span(admitted[s], t)) <= maxRequests

\* The process counts what it let in in its window, and nothing is in a later one; Redis
\* counts what it let in, while the fallback has let nothing in.
PlanInv ==
  /\ planBucket.windowStart <= Limits!Window(now)
  /\ \A e \in passed["memory"] : Limits!Window(e.at) <= planBucket.windowStart
  /\ \A w \in Windows : Cardinality(OfWindow(passed["memory"], w)) <= planLimit
  /\ Cardinality(OfWindow(passed["memory"], planBucket.windowStart)) <= planBucket.count
  /\ passed["fallback"] = {} =>
       \A w \in Windows : /\ Cardinality(OfWindow(passed["redis"], w)) <= planLimit
                          /\ Cardinality(OfWindow(passed["redis"], w)) <= counter[w]

LimitsInv == LimitTypes /\ SlidingInv /\ PlanInv

LEMMA LimitsCardinality == \A S : Limits!Cardinality(S) = Cardinality(S)
BY DEF Limits!Cardinality, Cardinality, Limits!IsFiniteSet, IsFiniteSet

LEMMA LimitsConstants ==
  /\ maxRequests \in Nat /\ windowSeconds \in Nat /\ planLimit \in Nat /\ keyTTL \in Nat
  /\ MaxTime \in Nat /\ MaxRequests \in Nat /\ planWindow \in Nat \ {0}
BY LimitsAssumption DEF Limits!RateLimitsAssumption

\* A later time is of no earlier window.
LEMMA WindowsFollowTime ==
  ASSUME NEW t \in Nat, NEW u \in Nat, t <= u
  PROVE  Limits!Window(t) \in Nat /\ Limits!Window(u) \in Nat /\ Limits!Window(t) <= Limits!Window(u)
<1>1. \A p \in Nat \ {0} : t \div p \in Nat /\ u \div p \in Nat /\ t \div p <= u \div p
  OBVIOUS
<1> QED
  BY <1>1, LimitsConstants DEF Limits!Window

LEMMA AtMostOneMore ==
  ASSUME NEW S, IsFiniteSet(S), NEW x, NEW T \in SUBSET (S \cup {x})
  PROVE  /\ IsFiniteSet(T) /\ Cardinality(T) \in Nat /\ Cardinality(S) \in Nat
         /\ Cardinality(T) <= Cardinality(S) + 1
<1>1. /\ IsFiniteSet(S \cup {x}) /\ Cardinality(S) \in Nat
      /\ Cardinality(S \cup {x}) = Cardinality(S) \/ Cardinality(S \cup {x}) = Cardinality(S) + 1
  BY FS_AddElement, FS_CardinalityType
<1>2. IsFiniteSet(T) /\ Cardinality(T) <= Cardinality(S \cup {x})
  BY <1>1, FS_Subset
<1>3. Cardinality(T) \in Nat
  BY <1>2, FS_CardinalityType
<1> QED
  BY <1>1, <1>2, <1>3

\* Letting one more request in, where it and the recent ones are within the limit, leaves
\* every window within the limit.
LEMMA WindowKept ==
  ASSUME now \in 0..MaxTime, NEW A \in SUBSET Limits!Stamp, IsFiniteSet(A),
         NEW x \in Limits!Stamp, x.at = now,
         NEW T, IsFiniteSet(T), x \in T, Cardinality(T) <= maxRequests,
         \A e \in A : e.at + windowSeconds > now => e \in T,
         NEW t \in Limits!Time, Cardinality(Span(A, t)) <= maxRequests
  PROVE  Cardinality(Span(A \cup {x}, t)) <= maxRequests
<1>1. /\ now \in Nat /\ t \in Nat /\ windowSeconds \in Nat /\ maxRequests \in Nat
      /\ \A e \in A : e.at \in Nat
  BY LimitsConstants DEF Limits!Stamp, Limits!Time
<1>2. CASE now \in t..(t + windowSeconds - 1)
  <2>1. \A e \in Span(A, t) : e \in T
    <3>1. ASSUME NEW e \in Span(A, t) PROVE e \in T
      <4>1. e \in A /\ e.at \in Nat /\ e.at >= t
        BY <1>1 DEF Span
      <4>2. e.at + windowSeconds > now
        BY <1>1, <1>2, <4>1
      <4> QED
        BY <4>1, <4>2
    <3> QED
      BY <3>1
  <2>2. Span(A \cup {x}, t) \in SUBSET T
    BY <2>1 DEF Span
  <2>3. /\ Cardinality(Span(A \cup {x}, t)) <= Cardinality(T)
        /\ IsFiniteSet(Span(A \cup {x}, t))
    BY <2>2, FS_Subset
  <2>4. Cardinality(Span(A \cup {x}, t)) \in Nat /\ Cardinality(T) \in Nat
    BY <2>3, FS_CardinalityType
  <2> QED
    BY <1>1, <2>3, <2>4
<1>3. CASE now \notin t..(t + windowSeconds - 1)
  <2>1. Span(A \cup {x}, t) = Span(A, t)
    BY <1>3 DEF Span
  <2> QED
    BY <2>1
<1> QED
  BY <1>2, <1>3

\* One more request in a window of the plan.
LEMMA PlanCounts ==
  ASSUME NEW S \in SUBSET Limits!Stamp, IsFiniteSet(S), NEW x, NEW w
  PROVE  /\ Cardinality(OfWindow(S, w)) \in Nat /\ Cardinality(OfWindow(S \cup {x}, w)) \in Nat
         /\ Cardinality(OfWindow(S \cup {x}, w)) <= Cardinality(OfWindow(S, w)) + 1
         /\ Limits!Window(x.at) # w => OfWindow(S \cup {x}, w) = OfWindow(S, w)
<1>1. OfWindow(S, w) \in SUBSET S
  BY DEF OfWindow
<1>2. IsFiniteSet(OfWindow(S, w))
  BY <1>1, FS_Subset
<1>3. OfWindow(S \cup {x}, w) \in SUBSET (OfWindow(S, w) \cup {x})
  BY DEF OfWindow
<1> QED
  BY <1>2, <1>3, AtMostOneMore DEF OfWindow

LEMMA LimitsInit == Limits!Init => LimitsInv
<1> SUFFICES ASSUME Limits!Init PROVE LimitsInv
  OBVIOUS
<1>1. Limits!Window(0) \in Nat /\ Limits!Window(MaxTime) \in Nat /\ Limits!Window(0) <= Limits!Window(MaxTime)
  BY WindowsFollowTime, LimitsConstants
<1>2. /\ now = 0 /\ connected \in BOOLEAN /\ requests = 0 /\ sorted = {} /\ memoryBucket = {}
      /\ pending = {} /\ planBucket = [count |-> 0, windowStart |-> 0]
      /\ admitted = [s \in Limits!Store |-> {}] /\ passed = [s \in Limits!Store |-> {}]
      /\ counter = [w \in Windows |-> 0]
      /\ stored = [w \in Windows |-> [count |-> 0, expiresAt |-> 0]]
  BY DEF Limits!Init, Windows
<1>3. IsFiniteSet({}) /\ Cardinality({}) = 0
  BY FS_EmptySet
<1>4. \A s \in Limits!Store : admitted[s] = {} /\ passed[s] = {}
  BY <1>2
<1>5. 0 \in Windows
  BY <1>1 DEF Windows
<1>6. LimitTypes
  BY <1>2, <1>3, <1>4, <1>5, LimitsConstants DEF LimitTypes
<1>7. \A s \in Limits!Store : (\A t : Span(admitted[s], t) = {}) /\ (\A w : OfWindow(passed[s], w) = {})
  BY <1>4 DEF Span, OfWindow
<1>8. "redis" \in Limits!Store /\ "memory" \in Limits!Store /\ "fallback" \in Limits!Store
  BY DEF Limits!Store
<1>9. SlidingInv
  <2>1. ASSUME NEW s \in Limits!Store, NEW t PROVE Cardinality(Span(admitted[s], t)) <= maxRequests
    BY <1>3, <1>7, LimitsConstants
  <2> QED
    BY <1>4, <1>8, <2>1 DEF SlidingInv
<1>10. PlanInv
  <2>1. ASSUME NEW w, NEW n \in Nat
        PROVE  /\ Cardinality(OfWindow(passed["memory"], w)) <= n
               /\ Cardinality(OfWindow(passed["redis"], w)) <= n
    BY <1>3, <1>7, <1>8
  <2>2. planBucket.windowStart = 0 /\ planBucket.count = 0 /\ 0 \in Nat
    BY <1>2
  <2>3. \A w \in Windows : counter[w] \in Nat
    BY <1>2
  <2>4. planLimit \in Nat
    BY LimitsConstants
  <2>5. planBucket.windowStart <= Limits!Window(now)
    BY <1>1, <1>2, <2>2
  <2>6. passed["memory"] = {}
    BY <1>4, <1>8
  <2> QED
    BY <2>1, <2>2, <2>3, <2>4, <2>5, <2>6 DEF PlanInv
<1> QED
  BY <1>6, <1>9, <1>10 DEF LimitsInv

LEMMA LimitFacts ==
  ASSUME LimitTypes
  PROVE  /\ now \in Nat /\ Limits!stamp \in Limits!Stamp /\ Limits!stamp.at = now
         /\ Limits!Window(now) \in Windows
         /\ {"redis", "memory", "fallback"} = Limits!Store
<1>1. now \in Nat /\ now <= MaxTime /\ requests \in Nat
  BY LimitsConstants DEF LimitTypes
<1>2. Limits!Window(now) \in Windows
  BY <1>1, WindowsFollowTime, LimitsConstants DEF Windows
<1> QED
  BY <1>1, <1>2 DEF Limits!stamp, Limits!Stamp, Limits!Store, Limits!Time, LimitTypes

\* What the sliding limiter keeps leaves the plan's limiter as it is, and the reverse.
LEMMA SlidingRequestKeeps ==
  ASSUME LimitsInv, NEW redisAnswers \in BOOLEAN, Limits!slidingRequest(redisAnswers)
  PROVE  LimitsInv'
<1>1. /\ LimitTypes /\ SlidingInv /\ PlanInv /\ now \in 0..MaxTime /\ now \in Nat
      /\ Limits!stamp \in Limits!Stamp /\ Limits!stamp.at = now
      /\ maxRequests \in Nat /\ windowSeconds \in Nat
      /\ "redis" \in Limits!Store /\ "memory" \in Limits!Store /\ "fallback" \in Limits!Store
  BY LimitFacts, LimitsConstants DEF LimitsInv, LimitTypes
<1>2. /\ requests' = requests + 1 /\ requests < MaxRequests
      /\ UNCHANGED <<now, connected, counter, stored, pending, planBucket, passed>>
  BY DEF Limits!slidingRequest
<1>3. /\ sorted \subseteq Limits!Stamp /\ IsFiniteSet(sorted)
      /\ memoryBucket \subseteq Limits!Stamp /\ IsFiniteSet(memoryBucket)
      /\ admitted \in [Limits!Store -> SUBSET Limits!Stamp]
      /\ \A s \in Limits!Store : IsFiniteSet(admitted[s])
      /\ \A e \in admitted["redis"] : e.at + windowSeconds > now => e \in sorted
      /\ \A e \in admitted["memory"] : e.at + windowSeconds > now => e \in memoryBucket
      /\ admitted["fallback"] = {}
      /\ \A s \in Limits!Store, t \in Limits!Time : Cardinality(Span(admitted[s], t)) <= maxRequests
  BY <1>1 DEF LimitTypes, SlidingInv
<1> DEFINE x == Limits!stamp
           Live(S) == Limits!within(S)
<1>4. ASSUME NEW S \in SUBSET Limits!Stamp, IsFiniteSet(S)
      PROVE  /\ Live(S) \in SUBSET Limits!Stamp /\ Live(S) \in SUBSET S
             /\ IsFiniteSet(Live(S)) /\ IsFiniteSet(Live(S) \cup {x})
             /\ Cardinality(Live(S)) \in Nat /\ Cardinality(Live(S) \cup {x}) \in Nat
             /\ Cardinality(Live(S) \cup {x}) <= Cardinality(Live(S)) + 1
             /\ \A e \in S : e.at + windowSeconds > now => e \in Live(S)
  <2>1. Live(S) \in SUBSET S /\ \A e \in S : e.at + windowSeconds > now => e \in Live(S)
    BY DEF Limits!within
  <2>2. IsFiniteSet(Live(S))
    BY <1>4, <2>1, FS_Subset
  <2>3. Live(S) \cup {x} \in SUBSET (Live(S) \cup {x})
    OBVIOUS
  <2> HIDE DEF Live
  <2>4. Cardinality(Live(S)) \in Nat
    BY <2>2, FS_CardinalityType
  <2>5. /\ IsFiniteSet(Live(S) \cup {x}) /\ Cardinality(Live(S) \cup {x}) \in Nat
        /\ Cardinality(Live(S) \cup {x}) <= Cardinality(Live(S)) + 1
    BY <2>2, <2>3, AtMostOneMore
  <2> QED
    BY <2>1, <2>2, <2>4, <2>5
<1>5. IsFiniteSet({x}) /\ \A S : IsFiniteSet(S) => IsFiniteSet(S \cup {x})
  BY FS_AddElement, FS_Singleton
\* Where a store lets the request in, no window is overfull, and the others stand.
<1>6. ASSUME NEW store \in {"redis", "memory"}, NEW T, IsFiniteSet(T), x \in T,
             Cardinality(T) <= maxRequests,
             \A e \in admitted[store] : e.at + windowSeconds > now => e \in T,
             admitted' = [admitted EXCEPT ![store] = admitted[store] \cup {x}]
      PROVE  /\ admitted' \in [Limits!Store -> SUBSET Limits!Stamp]
             /\ \A s \in Limits!Store : IsFiniteSet(admitted'[s])
             /\ \A s \in Limits!Store, t \in Limits!Time : Cardinality(Span(admitted'[s], t)) <= maxRequests
  <2>1. store \in Limits!Store
    BY <1>1, <1>6
  <2>2. /\ admitted'[store] = admitted[store] \cup {x}
        /\ \A s \in Limits!Store : s # store => admitted'[s] = admitted[s]
        /\ admitted' \in [Limits!Store -> SUBSET Limits!Stamp]
    BY <1>1, <1>3, <1>6, <2>1
  <2>3. \A s \in Limits!Store : IsFiniteSet(admitted'[s])
    BY <1>3, <1>5, <2>1, <2>2
  <2>4. ASSUME NEW t \in Limits!Time
        PROVE  Cardinality(Span(admitted[store] \cup {x}, t)) <= maxRequests
    <3>1. /\ admitted[store] \in SUBSET Limits!Stamp /\ IsFiniteSet(admitted[store])
          /\ Cardinality(Span(admitted[store], t)) <= maxRequests
      BY <1>3, <2>1
    <3> HIDE DEF x
    <3> QED
      BY <1>1, <1>6, <3>1, WindowKept DEF x
  <2>5. ASSUME NEW s \in Limits!Store, NEW t \in Limits!Time
        PROVE  Cardinality(Span(admitted'[s], t)) <= maxRequests
    BY <1>3, <2>2, <2>4
  <2> QED
    BY <2>2, <2>3, <2>5
<1>9. PlanInv'
  BY <1>1, <1>2 DEF PlanInv, OfWindow, Limits!Window
<1>10. ASSUME sorted' \subseteq Limits!Stamp, IsFiniteSet(sorted'),
              memoryBucket' \subseteq Limits!Stamp, IsFiniteSet(memoryBucket'),
              admitted' \in [Limits!Store -> SUBSET Limits!Stamp],
              \A s \in Limits!Store : IsFiniteSet(admitted'[s])
       PROVE  LimitTypes'
  <2>1. requests' \in 0..MaxRequests
    BY <1>1, <1>2, LimitsConstants DEF LimitTypes
  <2> QED
    BY <1>1, <1>2, <1>10, <2>1 DEF LimitTypes
<1>7. CASE redisAnswers
  <2> DEFINE T == Live(sorted) \cup {x}
  <2>1. /\ sorted' = T /\ memoryBucket' = memoryBucket
        /\ admitted' = IF Cardinality(T) > maxRequests THEN admitted
                       ELSE [admitted EXCEPT !["redis"] = admitted["redis"] \cup {x}]
    BY <1>7, LimitsCardinality DEF Limits!slidingRequest, Limits!checkLimitRedis
  <2>2. /\ IsFiniteSet(T) /\ T \in SUBSET Limits!Stamp /\ x \in T /\ Cardinality(T) \in Nat
        /\ \A e \in sorted : e.at + windowSeconds > now => e \in T
    BY <1>1, <1>3, <1>4
  <2>3. \A e \in admitted["redis"] : e.at + windowSeconds > now => e \in T
    BY <1>3, <2>2
  <2> HIDE DEF T
  <2>4. CASE Cardinality(T) > maxRequests
    <3>1. admitted' = admitted
      BY <2>1, <2>4
    <3>2. LimitTypes'
      BY <1>3, <1>10, <2>1, <2>2, <3>1
    <3>3. SlidingInv'
      BY <1>2, <1>3, <2>1, <2>3, <3>1 DEF SlidingInv
    <3> QED
      BY <1>9, <3>2, <3>3 DEF LimitsInv
  <2>5. CASE ~(Cardinality(T) > maxRequests)
    <3>1. admitted' = [admitted EXCEPT !["redis"] = admitted["redis"] \cup {x}]
      BY <2>1, <2>5
    <3>2. Cardinality(T) <= maxRequests
      BY <1>1, <2>2, <2>5
    <3>3. /\ admitted' \in [Limits!Store -> SUBSET Limits!Stamp]
          /\ \A s \in Limits!Store : IsFiniteSet(admitted'[s])
          /\ \A s \in Limits!Store, t \in Limits!Time : Cardinality(Span(admitted'[s], t)) <= maxRequests
      BY <1>6, <2>2, <2>3, <3>1, <3>2
    <3>4. /\ admitted'["redis"] = admitted["redis"] \cup {x} /\ admitted'["memory"] = admitted["memory"]
          /\ admitted'["fallback"] = {}
      BY <1>1, <1>3, <3>1
    <3>5. SlidingInv'
      BY <1>2, <1>3, <2>1, <2>2, <2>3, <3>3, <3>4 DEF SlidingInv
    <3>6. LimitTypes'
      BY <1>3, <1>10, <2>1, <2>2, <3>3
    <3> QED
      BY <1>9, <3>5, <3>6 DEF LimitsInv
  <2> QED
    BY <2>4, <2>5
<1>8. CASE ~redisAnswers
  <2> DEFINE L == Live(memoryBucket)
             T == L \cup {x}
  <2>1. /\ sorted' = sorted
        /\ IF Cardinality(L) >= maxRequests THEN UNCHANGED <<memoryBucket, admitted>>
           ELSE /\ memoryBucket' = T
                /\ admitted' = [admitted EXCEPT !["memory"] = admitted["memory"] \cup {x}]
    BY <1>8, LimitsCardinality DEF Limits!slidingRequest, Limits!checkLimitMemory
  <2>2. /\ IsFiniteSet(T) /\ T \in SUBSET Limits!Stamp /\ x \in T /\ Cardinality(T) \in Nat
        /\ Cardinality(L) \in Nat /\ Cardinality(T) <= Cardinality(L) + 1
        /\ \A e \in memoryBucket : e.at + windowSeconds > now => e \in T
    BY <1>1, <1>3, <1>4
  <2>3. \A e \in admitted["memory"] : e.at + windowSeconds > now => e \in T
    BY <1>3, <2>2
  <2> HIDE DEF L, T
  <2>4. CASE Cardinality(L) >= maxRequests
    <3>1. UNCHANGED <<sorted, memoryBucket, admitted>>
      BY <2>1, <2>4
    <3>2. LimitTypes'
      BY <1>3, <1>10, <3>1
    <3>3. SlidingInv'
      BY <1>2, <1>3, <3>1 DEF SlidingInv
    <3> QED
      BY <1>9, <3>2, <3>3 DEF LimitsInv
  <2>5. CASE ~(Cardinality(L) >= maxRequests)
    <3>1. /\ admitted' = [admitted EXCEPT !["memory"] = admitted["memory"] \cup {x}]
          /\ memoryBucket' = T
      BY <2>1, <2>5
    <3>2. Cardinality(T) <= maxRequests
      BY <1>1, <2>2, <2>5
    <3>3. /\ admitted' \in [Limits!Store -> SUBSET Limits!Stamp]
          /\ \A s \in Limits!Store : IsFiniteSet(admitted'[s])
          /\ \A s \in Limits!Store, t \in Limits!Time : Cardinality(Span(admitted'[s], t)) <= maxRequests
      BY <1>6, <2>2, <2>3, <3>1, <3>2
    <3>4. /\ admitted'["memory"] = admitted["memory"] \cup {x} /\ admitted'["redis"] = admitted["redis"]
          /\ admitted'["fallback"] = {}
      BY <1>1, <1>3, <3>1
    <3>5. SlidingInv'
      BY <1>2, <1>3, <2>1, <2>2, <2>3, <3>1, <3>3, <3>4 DEF SlidingInv
    <3>6. LimitTypes'
      BY <1>3, <1>10, <2>1, <2>2, <3>1, <3>3
    <3> QED
      BY <1>9, <3>5, <3>6 DEF LimitsInv
  <2> QED
    BY <2>4, <2>5
<1> QED
  BY <1>7, <1>8

\* A request let into a store's window of the plan.
LEMMA PassedTypes ==
  ASSUME LimitsInv, NEW store \in Limits!Store, NEW count, NEW n \in Nat, Limits!Pass(store, count, n)
  PROVE  /\ passed' \in [Limits!Store -> SUBSET Limits!Stamp]
         /\ \A s \in Limits!Store : IsFiniteSet(passed'[s])
         /\ \A s \in Limits!Store : s # store => passed'[s] = passed[s]
         /\ \/ passed'[store] = passed[store]
            \/ ~(count > planLimit) /\ passed'[store] = passed[store] \cup {[at |-> now, n |-> n]}
<1> DEFINE x == [at |-> now, n |-> n]
<1>1. /\ passed \in [Limits!Store -> SUBSET Limits!Stamp]
      /\ \A s \in Limits!Store : IsFiniteSet(passed[s])
      /\ now \in Limits!Time
  BY DEF LimitsInv, LimitTypes, Limits!Time
<1>2. x \in Limits!Stamp
  BY <1>1 DEF Limits!Stamp
<1>3. passed' = IF count > planLimit THEN passed
                ELSE [passed EXCEPT ![store] = passed[store] \cup {x}]
  BY DEF Limits!Pass
<1> HIDE DEF x
<1>4. CASE count > planLimit
  BY <1>1, <1>3, <1>4
<1>5. CASE ~(count > planLimit)
  <2>1. /\ passed'[store] = passed[store] \cup {x}
        /\ \A s \in Limits!Store : s # store => passed'[s] = passed[s]
        /\ passed' \in [Limits!Store -> SUBSET Limits!Stamp]
    BY <1>1, <1>2, <1>3, <1>5
  <2>2. IsFiniteSet(passed[store] \cup {x})
    BY <1>1, FS_AddElement
  <2> QED
    BY <1>1, <1>5, <2>1, <2>2 DEF x
<1> QED
  BY <1>4, <1>5

LEMMA PlanRequestKeeps ==
  ASSUME LimitsInv, Limits!planRequest
  PROVE  LimitsInv'
<1> DEFINE w == Limits!Window(now)
<1>1. /\ LimitTypes /\ SlidingInv /\ PlanInv /\ now \in Nat /\ w \in Windows /\ w \in Nat
      /\ "redis" \in Limits!Store /\ "memory" \in Limits!Store /\ "fallback" \in Limits!Store
      /\ planLimit \in Nat /\ requests \in Nat
  BY LimitFacts, LimitsConstants, WindowsFollowTime DEF LimitsInv, LimitTypes
<1>2. /\ requests' = requests + 1 /\ requests < MaxRequests
      /\ UNCHANGED <<now, connected, sorted, memoryBucket, admitted>>
  BY DEF Limits!planRequest
<1>3. SlidingInv'
  BY <1>1, <1>2 DEF SlidingInv
<1>4. /\ passed \in [Limits!Store -> SUBSET Limits!Stamp]
      /\ \A s \in Limits!Store : IsFiniteSet(passed[s])
      /\ counter \in [Windows -> Nat] /\ stored \in [Windows -> [count : Nat, expiresAt : Nat]]
      /\ pending \subseteq [window : Windows, count : Nat, n : Nat]
      /\ planBucket \in [count : Nat, windowStart : Windows]
  BY <1>1 DEF LimitTypes
<1>5. requests' \in 0..MaxRequests
  BY <1>1, <1>2, LimitsConstants DEF LimitTypes
<1>6. ASSUME passed' \in [Limits!Store -> SUBSET Limits!Stamp],
             \A s \in Limits!Store : IsFiniteSet(passed'[s]),
             counter' \in [Windows -> Nat], stored' = stored,
             pending' \subseteq [window : Windows, count : Nat, n : Nat],
             planBucket' \in [count : Nat, windowStart : Windows]
      PROVE  LimitTypes'
  BY <1>1, <1>2, <1>5, <1>6 DEF LimitTypes
<1>7. /\ planBucket.windowStart <= w
      /\ \A e \in passed["memory"] : Limits!Window(e.at) <= planBucket.windowStart
      /\ \A v \in Windows : Cardinality(OfWindow(passed["memory"], v)) <= planLimit
      /\ Cardinality(OfWindow(passed["memory"], planBucket.windowStart)) <= planBucket.count
      /\ passed["fallback"] = {} =>
           \A v \in Windows : /\ Cardinality(OfWindow(passed["redis"], v)) <= planLimit
                              /\ Cardinality(OfWindow(passed["redis"], v)) <= counter[v]
  BY <1>1 DEF PlanInv
<1> DEFINE x == [at |-> now, n |-> requests]
<1>8. ASSUME NEW s \in Limits!Store, NEW v
      PROVE  /\ Cardinality(OfWindow(passed[s], v)) \in Nat
             /\ Cardinality(OfWindow(passed[s] \cup {x}, v)) \in Nat
             /\ Cardinality(OfWindow(passed[s] \cup {x}, v)) <= Cardinality(OfWindow(passed[s], v)) + 1
             /\ w # v => OfWindow(passed[s] \cup {x}, v) = OfWindow(passed[s], v)
  <2>1. passed[s] \in SUBSET Limits!Stamp /\ IsFiniteSet(passed[s])
    BY <1>4
  <2>2. x.at = now
    OBVIOUS
  <2> HIDE DEF x, w
  <2>3. Limits!Window(x.at) = w
    BY <2>2 DEF w
  <2> QED
    BY <2>1, <2>3, PlanCounts
<1>9. CASE /\ connected
           /\ counter' = [counter EXCEPT ![w] = counter[w] + 1]
           /\ Limits!Pass("redis", counter[w] + 1, requests)
           /\ UNCHANGED <<stored, pending, planBucket>>
  <2>1. /\ passed' \in [Limits!Store -> SUBSET Limits!Stamp]
        /\ \A s \in Limits!Store : IsFiniteSet(passed'[s])
        /\ \A s \in Limits!Store : s # "redis" => passed'[s] = passed[s]
        /\ \/ passed'["redis"] = passed["redis"]
           \/ ~(counter[w] + 1 > planLimit) /\ passed'["redis"] = passed["redis"] \cup {x}
    BY <1>1, <1>9, PassedTypes
  <2>2. /\ counter' \in [Windows -> Nat] /\ counter'[w] = counter[w] + 1
        /\ \A v \in Windows : v # w => counter'[v] = counter[v]
        /\ counter[w] \in Nat /\ \A v \in Windows : counter[v] \in Nat
    BY <1>1, <1>4, <1>9
  <2>3. LimitTypes'
    BY <1>4, <1>6, <1>9, <2>1, <2>2
  <2>4. passed'["memory"] = passed["memory"] /\ passed'["fallback"] = passed["fallback"]
    BY <1>1, <2>1
  <2>5. ASSUME passed["fallback"] = {}, NEW v \in Windows
        PROVE  /\ Cardinality(OfWindow(passed'["redis"], v)) <= planLimit
               /\ Cardinality(OfWindow(passed'["redis"], v)) <= counter'[v]
    <3> DEFINE a == Cardinality(OfWindow(passed["redis"], v))
               b == Cardinality(OfWindow(passed["redis"] \cup {x}, v))
    <3>1. a \in Nat /\ b \in Nat /\ b <= a + 1 /\ (w # v => b = a) /\ a <= planLimit /\ a <= counter[v]
      BY <1>1, <1>7, <1>8, <2>5
    <3>2. CASE passed'["redis"] = passed["redis"]
      <4>1. Cardinality(OfWindow(passed'["redis"], v)) = a
        BY <3>2
      <4> HIDE DEF a, b
      <4> QED
        BY <2>2, <3>1, <4>1
    <3>3. CASE ~(counter[w] + 1 > planLimit) /\ passed'["redis"] = passed["redis"] \cup {x}
      <4>1. Cardinality(OfWindow(passed'["redis"], v)) = b
        BY <3>3
      <4> HIDE DEF a, b
      <4> QED
        BY <1>1, <2>2, <3>1, <3>3, <4>1
    <3> QED
      BY <2>1, <3>2, <3>3
  <2>6. PlanInv'
    BY <1>2, <1>7, <1>9, <2>4, <2>5 DEF PlanInv, OfWindow, Limits!Window
  <2> QED
    BY <1>3, <2>3, <2>6 DEF LimitsInv
<1>10. CASE /\ connected
            /\ \E count \in {counter[w], Limits!Live(w)} :
                 pending' = pending \cup {[window |-> w, count |-> count, n |-> requests]}
            /\ UNCHANGED <<counter, stored, planBucket, passed>>
  <2>1. counter[w] \in Nat /\ Limits!Live(w) \in Nat
    BY <1>1, <1>4 DEF Limits!Live
  <2>2. pending' \subseteq [window : Windows, count : Nat, n : Nat]
    BY <1>1, <1>4, <1>10, <2>1
  <2>3. LimitTypes'
    BY <1>4, <1>6, <1>10, <2>2
  <2>4. PlanInv'
    BY <1>1, <1>2, <1>10 DEF PlanInv, OfWindow, Limits!Window
  <2> QED
    BY <1>3, <2>3, <2>4 DEF LimitsInv
<1>11. CASE /\ ~connected
            /\ planBucket' = Limits!incrementMemoryBucket(w)
            /\ Limits!Pass("memory", Limits!incrementMemoryBucket(w).count, requests)
            /\ UNCHANGED <<counter, stored, pending>>
  <2> DEFINE m == Limits!incrementMemoryBucket(w)
  <2>1. /\ planBucket.count \in Nat /\ planBucket.windowStart \in Nat /\ planBucket.windowStart <= w
        /\ planBucket = [count |-> planBucket.count, windowStart |-> planBucket.windowStart]
    BY <1>1, <1>4, <1>7, WindowsFollowTime, LimitsConstants DEF Windows
  <2>2. /\ m \in [count : Nat, windowStart : Windows] /\ m.windowStart = w
        /\ m.count = IF planBucket.windowStart # w THEN 1 ELSE planBucket.count + 1
    <3>1. CASE planBucket.windowStart # w
      BY <1>1, <3>1 DEF Limits!incrementMemoryBucket
    <3>2. CASE planBucket.windowStart = w
      <4>1. m = [planBucket EXCEPT !.count = planBucket.count + 1]
        BY <3>2 DEF Limits!incrementMemoryBucket
      <4>2. planBucket.count + 1 \in Nat
        BY <2>1
      <4>3. m = [count |-> planBucket.count + 1, windowStart |-> w]
        BY <2>1, <3>2, <4>1
      <4> HIDE DEF m
      <4> QED
        BY <1>1, <3>2, <4>2, <4>3
    <3> QED
      BY <3>1, <3>2
  <2> HIDE DEF m
  <2>3. planBucket' = m /\ Limits!Pass("memory", m.count, requests)
    BY <1>11 DEF m
  <2>4. /\ passed' \in [Limits!Store -> SUBSET Limits!Stamp]
        /\ \A s \in Limits!Store : IsFiniteSet(passed'[s])
        /\ \A s \in Limits!Store : s # "memory" => passed'[s] = passed[s]
        /\ \/ passed'["memory"] = passed["memory"]
           \/ ~(m.count > planLimit) /\ passed'["memory"] = passed["memory"] \cup {x}
    BY <1>1, <2>3, PassedTypes
  <2>5. LimitTypes'
    BY <1>4, <1>6, <1>11, <2>2, <2>3, <2>4
  <2>6. passed'["redis"] = passed["redis"] /\ passed'["fallback"] = passed["fallback"]
    BY <1>1, <2>4
  <2>7. \A e \in passed'["memory"] : Limits!Window(e.at) <= w
    <3>1. ASSUME NEW e \in passed["memory"] PROVE Limits!Window(e.at) <= w
      <4>1. e.at \in Nat /\ Limits!Window(e.at) <= planBucket.windowStart
        BY <1>1, <1>4, <1>7, <3>1 DEF Limits!Stamp, Limits!Time
      <4>2. Limits!Window(e.at) \in Nat
        BY <4>1, WindowsFollowTime
      <4> QED
        BY <1>1, <2>1, <4>1, <4>2
    <3>2. x.at = now /\ w <= w
      BY <1>1
    <3> QED
      BY <2>4, <3>1, <3>2
  <2>8. planBucket.windowStart # w => OfWindow(passed["memory"], w) = {}
    <3>1. ASSUME planBucket.windowStart # w, NEW e \in passed["memory"] PROVE Limits!Window(e.at) # w
      <4>1. e.at \in Nat /\ Limits!Window(e.at) <= planBucket.windowStart
        BY <1>1, <1>4, <1>7, <3>1 DEF Limits!Stamp, Limits!Time
      <4>2. Limits!Window(e.at) \in Nat
        BY <4>1, WindowsFollowTime
      <4> QED
        BY <1>1, <2>1, <3>1, <4>1, <4>2
    <3> QED
      BY <3>1 DEF OfWindow
  <2>9. Cardinality(OfWindow(passed["memory"], w)) + 1 <= m.count
    <3>1. CASE planBucket.windowStart # w
      BY <2>2, <2>8, <3>1, FS_EmptySet
    <3>2. CASE planBucket.windowStart = w
      <4>1. /\ Cardinality(OfWindow(passed["memory"], w)) \in Nat
            /\ Cardinality(OfWindow(passed["memory"], w)) <= planBucket.count
        BY <1>1, <1>7, <1>8, <3>2
      <4> QED
        BY <2>1, <2>2, <3>2, <4>1
    <3> QED
      BY <3>1, <3>2
  <2>10. ASSUME NEW v \in Windows
         PROVE  /\ Cardinality(OfWindow(passed'["memory"], v)) <= planLimit
                /\ v = w => Cardinality(OfWindow(passed'["memory"], v)) <= m.count
    <3> DEFINE a == Cardinality(OfWindow(passed["memory"], v))
               b == Cardinality(OfWindow(passed["memory"] \cup {x}, v))
    <3>1. /\ a \in Nat /\ b \in Nat /\ b <= a + 1 /\ (w # v => b = a) /\ a <= planLimit
          /\ v = w => a + 1 <= m.count
      BY <1>1, <1>7, <1>8, <2>9
    <3>2. m.count \in Nat
      BY <2>2
    <3>3. CASE passed'["memory"] = passed["memory"]
      <4>1. Cardinality(OfWindow(passed'["memory"], v)) = a
        BY <3>3
      <4> HIDE DEF a, b
      <4> QED
        BY <1>1, <3>1, <3>2, <4>1
    <3>4. CASE ~(m.count > planLimit) /\ passed'["memory"] = passed["memory"] \cup {x}
      <4>1. Cardinality(OfWindow(passed'["memory"], v)) = b
        BY <3>4
      <4> HIDE DEF a, b
      <4> QED
        BY <1>1, <3>1, <3>2, <3>4, <4>1
    <3> QED
      BY <2>4, <3>3, <3>4
  <2>11. PlanInv'
    <3>1. planBucket'.windowStart = w /\ planBucket'.count = m.count /\ now' = now /\ w <= w
      BY <1>1, <1>2, <2>2, <2>3
    <3>2. counter' = counter
      BY <1>11
    <3> HIDE DEF w
    <3>3. planBucket'.windowStart <= Limits!Window(now)'
      BY <3>1 DEF w, Limits!Window
    <3> QED
      BY <1>1, <1>7, <2>6, <2>7, <2>10, <3>1, <3>2, <3>3 DEF PlanInv
  <2> QED
    BY <1>3, <2>5, <2>11 DEF LimitsInv
<1> QED
  BY <1>9, <1>10, <1>11 DEF Limits!planRequest

LEMMA IncrFallbackKeeps ==
  ASSUME LimitsInv, NEW r \in pending, Limits!incrFallback(r)
  PROVE  LimitsInv'
<1>1. /\ LimitTypes /\ SlidingInv /\ PlanInv /\ now \in Nat /\ planLimit \in Nat /\ keyTTL \in Nat
      /\ "redis" \in Limits!Store /\ "memory" \in Limits!Store /\ "fallback" \in Limits!Store
  BY LimitFacts, LimitsConstants DEF LimitsInv
<1>2. /\ r.window \in Windows /\ r.count \in Nat /\ r.n \in Nat
      /\ counter \in [Windows -> Nat] /\ stored \in [Windows -> [count : Nat, expiresAt : Nat]]
      /\ pending \subseteq [window : Windows, count : Nat, n : Nat]
  BY <1>1 DEF LimitTypes
<1>3. /\ pending' = pending \ {r} /\ Limits!Pass("fallback", r.count + 1, r.n)
      /\ UNCHANGED <<now, connected, sorted, memoryBucket, planBucket, admitted, requests>>
  BY DEF Limits!incrFallback
<1>4. /\ passed' \in [Limits!Store -> SUBSET Limits!Stamp]
      /\ \A s \in Limits!Store : IsFiniteSet(passed'[s])
      /\ \A s \in Limits!Store : s # "fallback" => passed'[s] = passed[s]
      /\ \/ passed'["fallback"] = passed["fallback"]
         \/ passed'["fallback"] = passed["fallback"] \cup {[at |-> now, n |-> r.n]}
  BY <1>1, <1>2, <1>3, PassedTypes
<1>5. passed'["redis"] = passed["redis"] /\ passed'["memory"] = passed["memory"]
  BY <1>1, <1>4
<1>6. passed'["fallback"] = {} => passed["fallback"] = {} /\ r.count + 1 > planLimit
  <2>1. ASSUME ~(r.count + 1 > planLimit) PROVE passed'["fallback"] # {}
    <3>1. passed' = [passed EXCEPT !["fallback"] = passed["fallback"] \cup {[at |-> now, n |-> r.n]}]
      BY <1>3, <2>1 DEF Limits!Pass
    <3> QED
      BY <1>1, <3>1 DEF LimitTypes
  <2> QED
    BY <1>4, <2>1
<1>7. \/ counter' = [counter EXCEPT ![r.window] = r.count + 1] /\ stored' = stored
      \/ /\ stored' = [stored EXCEPT ![r.window] = [count |-> r.count + 1, expiresAt |-> now + keyTTL]]
         /\ counter' = counter
  BY DEF Limits!incrFallback
<1>8. r.count + 1 \in Nat /\ now + keyTTL \in Nat
  BY <1>1, <1>2
<1>9. /\ counter' \in [Windows -> Nat] /\ stored' \in [Windows -> [count : Nat, expiresAt : Nat]]
      /\ \A v \in Windows : counter'[v] = counter[v] \/ counter'[v] = r.count + 1
  BY <1>2, <1>7, <1>8
<1>10. LimitTypes'
  BY <1>1, <1>2, <1>3, <1>4, <1>9 DEF LimitTypes
<1>11. SlidingInv'
  BY <1>1, <1>3 DEF SlidingInv
<1>12. ASSUME passed'["fallback"] = {}, NEW v \in Windows
       PROVE  /\ Cardinality(OfWindow(passed'["redis"], v)) <= planLimit
              /\ Cardinality(OfWindow(passed'["redis"], v)) <= counter'[v]
  <2> DEFINE a == Cardinality(OfWindow(passed["redis"], v))
  <2>1. a <= planLimit /\ a <= counter[v] /\ r.count + 1 > planLimit
    BY <1>1, <1>6, <1>12 DEF PlanInv
  <2>2. a \in Nat
    <3>1. OfWindow(passed["redis"], v) \in SUBSET passed["redis"] /\ IsFiniteSet(passed["redis"])
      BY <1>1 DEF OfWindow, LimitTypes
    <3> QED
      BY <3>1, FS_Subset, FS_CardinalityType
  <2>3. Cardinality(OfWindow(passed'["redis"], v)) = a
    BY <1>5
  <2> HIDE DEF a
  <2> QED
    BY <1>1, <1>8, <1>9, <2>1, <2>2, <2>3
<1>13. PlanInv'
  <2>1. /\ planBucket' = planBucket /\ Limits!Window(now)' = Limits!Window(now)
    BY <1>3 DEF Limits!Window
  <2> QED
    BY <1>1, <1>5, <1>12, <2>1 DEF PlanInv
<1> QED
  BY <1>10, <1>11, <1>13 DEF LimitsInv

LEMMA LimitsStep ==
  LimitsInv /\ [Limits!Next]_limitVars => LimitsInv'
<1> SUFFICES ASSUME LimitsInv, [Limits!Next]_limitVars PROVE LimitsInv'
  OBVIOUS
<1>1. LimitTypes /\ SlidingInv /\ PlanInv
  BY DEF LimitsInv
<1>2. ASSUME Limits!connectionChanges PROVE LimitsInv'
  <2>1. /\ connected' = ~connected
        /\ UNCHANGED <<now, sorted, memoryBucket, counter, stored, pending, planBucket, admitted, passed,
                       requests>>
    BY <1>2 DEF Limits!connectionChanges
  <2>2. connected' \in BOOLEAN
    BY <2>1
  <2>3. LimitTypes'
    BY <1>1, <2>1, <2>2 DEF LimitTypes
  <2>4. SlidingInv' /\ PlanInv'
    BY <1>1, <2>1 DEF SlidingInv, PlanInv, Limits!Window
  <2> QED
    BY <2>3, <2>4 DEF LimitsInv
<1>3. ASSUME Limits!Tick PROVE LimitsInv'
  <2>1. /\ now < MaxTime /\ now' = now + 1
        /\ UNCHANGED <<connected, sorted, memoryBucket, counter, stored, pending, planBucket, admitted,
                       passed, requests>>
    BY <1>3 DEF Limits!Tick
  <2>2. now \in Nat /\ windowSeconds \in Nat /\ MaxTime \in Nat /\ now' \in 0..MaxTime /\ now' \in Nat
    BY <1>1, <2>1, LimitFacts, LimitsConstants
  <2>3. LimitTypes'
    BY <1>1, <2>1, <2>2 DEF LimitTypes
  <2>4. \A s \in Limits!Store : \A e \in admitted[s] :
          e.at + windowSeconds > now' => e.at + windowSeconds > now
    <3>1. ASSUME NEW s \in Limits!Store, NEW e \in admitted[s], e.at + windowSeconds > now'
          PROVE  e.at + windowSeconds > now
      <4>1. e.at \in Nat
        BY <1>1, <3>1, LimitsConstants DEF LimitTypes, Limits!Stamp, Limits!Time
      <4> QED
        BY <2>1, <2>2, <3>1, <4>1
    <3> QED
      BY <3>1
  <2>5. SlidingInv'
    <3>1. "redis" \in Limits!Store /\ "memory" \in Limits!Store
      BY DEF Limits!Store
    <3> QED
      BY <1>1, <2>1, <2>4, <3>1 DEF SlidingInv
  <2>6. planBucket.windowStart <= Limits!Window(now')
    <3>1. /\ Limits!Window(now) \in Nat /\ Limits!Window(now') \in Nat
          /\ Limits!Window(now) <= Limits!Window(now')
      <4>1. ASSUME NEW u, u = now' PROVE Limits!Window(now) \in Nat /\ Limits!Window(u) \in Nat
                                         /\ Limits!Window(now) <= Limits!Window(u)
        <5>1. u \in Nat /\ now <= u
          BY <2>1, <2>2, <4>1
        <5> QED
          BY <2>2, <5>1, WindowsFollowTime
      <4> QED
        BY <4>1
    <3>2. planBucket.windowStart \in Nat /\ planBucket.windowStart <= Limits!Window(now)
      BY <1>1, WindowsFollowTime, LimitsConstants DEF LimitTypes, PlanInv, Windows
    <3> QED
      BY <3>1, <3>2
  <2>7. Limits!Window(now)' = Limits!Window(now')
    BY DEF Limits!Window
  <2>8. PlanInv'
    BY <1>1, <2>1, <2>6, <2>7 DEF PlanInv
  <2> QED
    BY <2>3, <2>5, <2>8 DEF LimitsInv
<1>4. ASSUME UNCHANGED limitVars PROVE LimitsInv'
  <2>1. UNCHANGED <<now, connected, sorted, memoryBucket, counter, stored, pending, planBucket, admitted,
                    passed, requests>>
    BY <1>4 DEF limitVars
  <2> QED
    BY <1>1, <2>1 DEF LimitsInv, LimitTypes, SlidingInv, PlanInv, Limits!Window
<1> QED
  BY <1>2, <1>3, <1>4, SlidingRequestKeeps, PlanRequestKeeps, IncrFallbackKeeps DEF Limits!Next

LEMMA LimitsTell ==
  LimitsInv => Limits!TypeOK /\ Limits!SlidingWindowBounded /\ Limits!PlanWindowBounded
<1> SUFFICES ASSUME LimitsInv
             PROVE  Limits!TypeOK /\ Limits!SlidingWindowBounded /\ Limits!PlanWindowBounded
  OBVIOUS
<1>1. LimitTypes /\ SlidingInv /\ PlanInv
  BY DEF LimitsInv
<1>2. Limits!TypeOK
  BY <1>1 DEF LimitTypes, Limits!TypeOK, Limits!Time, Windows
<1>3. Limits!SlidingWindowBounded
  BY <1>1, LimitsCardinality DEF SlidingInv, Span, Limits!SlidingWindowBounded
<1>4. Limits!PlanWindowBounded
  <2>1. DOMAIN counter = Windows
    BY <1>1 DEF LimitTypes
  <2> QED
    BY <1>1, <2>1, LimitsCardinality DEF PlanInv, OfWindow, Limits!PlanWindowBounded
<1> QED
  BY <1>2, <1>3, <1>4

-----------------------------------------------------------------------------
(* The capacity policy.                                                    *)

Counter == {"hourly", "daily"} \cup Customer
Of(k) == IF k \in Customer THEN {k} ELSE Customer
Life(k) == IF k = "hourly" THEN HOUR ELSE DAY
Most(k) == IF k = "hourly" THEN perHour ELSE IF k = "daily" THEN perDay ELSE perCustomer
Link == [customer : Customer, at : Nat]

\* The links the policy has been told of: all but the one being recorded.
Told(c) == IF caller[c].at = "linked" THEN 1..(Len(links) - 1) ELSE 1..Len(links)
Recent(c, k) == {i \in Told(c) : links[i].customer \in Of(k) /\ links[i].at + Life(k) > hour}
SentOf(k, t) == {i \in DOMAIN links : links[i].customer \in Of(k) /\ links[i].at \in t..(t + Life(k) - 1)}

PolicyTypes ==
  /\ hour \in 0..MaxHour
  /\ consumption \in [Policy!Keys -> [value : Nat, expiresAt : Nat]]
  /\ caller \in [Caller -> [at : {"idle", "granted", "linked"}, customer : Customer]]
  /\ links \in Seq(Link)
  /\ pacing \in [window : Policy!PacingWindow, arm : Policy!PacingArm, spent : Nat,
                 pulls : [Policy!PacingArm -> Nat]]

\* A counter outlives the links it counts, counts at least those that a window may still
\* hold together with the next one, and is under its limit while a grant is out.
CounterInv(c, k) ==
  /\ \A i \in Told(c) : links[i].customer \in Of(k) => links[i].at + Life(k) <= consumption[k].expiresAt
  /\ Cardinality(Recent(c, k)) <= Policy!get(k)
  /\ caller[c].at = "granted" /\ caller[c].customer \in Of(k) => Policy!get(k) < Most(k)
  /\ \A t \in 0..MaxHour : Cardinality(SentOf(k, t)) <= Most(k)

CallerInv(c) ==
  /\ \A i \in DOMAIN links : links[i].at <= hour
  /\ caller[c].at = "linked" => links # <<>> /\ links[Len(links)].customer = caller[c].customer
  /\ \A k \in Counter : CounterInv(c, k)
  /\ pacing.spent + (IF caller[c].at = "linked" THEN cost ELSE 0) = Len(links) * cost

PolicyInv == PolicyTypes /\ \A c : Caller = {c} => CallerInv(c)

LEMMA PolicyConstants ==
  /\ perHour \in Nat /\ perDay \in Nat /\ perCustomer \in Nat /\ HOUR \in Nat /\ DAY \in Nat
  /\ budget \in Nat /\ cost \in Nat /\ MaxHour \in Nat
  /\ "hourly" \notin Customer /\ "daily" \notin Customer /\ "budget" \notin Customer
BY PolicyAssumption DEF Policy!CapacityPolicyAssumption

LEMMA PolicyCardinality == \A S : Policy!Cardinality(S) = Cardinality(S)
BY DEF Policy!Cardinality, Cardinality, Policy!IsFiniteSet, IsFiniteSet

LEMMA CounterFacts ==
  ASSUME PolicyTypes, NEW k \in Counter
  PROVE  /\ k \in Policy!Keys /\ Life(k) \in Nat /\ Most(k) \in Nat /\ hour \in Nat
         /\ consumption[k].value \in Nat /\ consumption[k].expiresAt \in Nat
         /\ Policy!get(k) \in Nat
         /\ Len(links) \in Nat /\ DOMAIN links = 1..Len(links)
         /\ \A i \in DOMAIN links : links[i] \in Link /\ links[i].customer \in Customer
                                    /\ links[i].at \in Nat
<1>1. k \in Policy!Keys
  BY DEF Counter, Policy!Keys
<1>2. consumption[k] \in [value : Nat, expiresAt : Nat]
  BY <1>1 DEF PolicyTypes
<1>3. consumption[k].value \in Nat /\ consumption[k].expiresAt \in Nat
  BY <1>2
<1>4. Policy!get(k) \in Nat
  BY <1>3 DEF Policy!get
<1>5. Life(k) \in Nat /\ Most(k) \in Nat /\ hour \in Nat
  BY PolicyConstants DEF Life, Most, PolicyTypes
<1>6. Len(links) \in Nat /\ DOMAIN links = 1..Len(links)
  BY LenProperties DEF PolicyTypes
<1>7. \A i \in 1..Len(links) : links[i] \in Link
  BY <1>6, ElementOfSeq DEF PolicyTypes
<1>8. \A i \in DOMAIN links : links[i].customer \in Customer /\ links[i].at \in Nat
  BY <1>6, <1>7 DEF Link
<1> QED
  BY <1>1, <1>3, <1>4, <1>5, <1>6, <1>7, <1>8

LEMMA PolicyInit == Policy!Init => PolicyInv
<1> SUFFICES ASSUME Policy!Init PROVE PolicyInv
  OBVIOUS
<1>1. /\ hour = 0 /\ links = <<>>
      /\ consumption = [k \in Policy!Keys |-> [value |-> 0, expiresAt |-> 0]]
      /\ pacing = [window |-> "NIGHT_QUIET", arm |-> "CONSERVATIVE", spent |-> 0,
                   pulls |-> [a \in Policy!PacingArm |-> 0]]
  BY DEF Policy!Init
<1>2. PICK u \in Customer : caller = [c \in Caller |-> [at |-> "idle", customer |-> u]]
  BY DEF Policy!Init
<1>3. links \in Seq(Link) /\ Len(links) = 0 /\ DOMAIN links = {} /\ 1..Len(links) = {}
  BY <1>1, EmptySeq
<1>4. PolicyTypes
  <2>1. hour \in 0..MaxHour
    BY <1>1, PolicyConstants
  <2>2. pacing \in [window : Policy!PacingWindow, arm : Policy!PacingArm, spent : Nat,
                    pulls : [Policy!PacingArm -> Nat]]
    BY <1>1 DEF Policy!PacingWindow, Policy!PacingArm
  <2>3. consumption \in [Policy!Keys -> [value : Nat, expiresAt : Nat]]
    BY <1>1
  <2>4. caller \in [Caller -> [at : {"idle", "granted", "linked"}, customer : Customer]]
    BY <1>2
  <2> QED
    BY <1>3, <2>1, <2>2, <2>3, <2>4 DEF PolicyTypes
<1>5. ASSUME NEW c, Caller = {c} PROVE CallerInv(c)
  <2>1. caller[c].at = "idle"
    BY <1>2, <1>5
  <2>2. Told(c) = {}
    BY <1>3, <2>1 DEF Told
  <2>3. ASSUME NEW k \in Counter PROVE CounterInv(c, k)
    <3>1. Recent(c, k) = {} /\ \A t : SentOf(k, t) = {}
      BY <1>3, <2>2 DEF Recent, SentOf
    <3>2. Policy!get(k) \in Nat /\ Most(k) \in Nat
      BY <1>4, CounterFacts
    <3>3. Cardinality({}) = 0
      BY FS_EmptySet
    <3>4. Cardinality(Recent(c, k)) <= Policy!get(k)
      BY <3>1, <3>2, <3>3
    <3>5. ASSUME NEW t PROVE Cardinality(SentOf(k, t)) <= Most(k)
      BY <3>1, <3>2, <3>3
    <3> QED
      BY <2>1, <2>2, <3>4, <3>5 DEF CounterInv
  <2>4. pacing.spent = 0 /\ Len(links) * cost = 0
    BY <1>1, <1>3, PolicyConstants
  <2> QED
    BY <1>3, <2>1, <2>3, <2>4 DEF CallerInv
<1> QED
  BY <1>4, <1>5 DEF PolicyInv

\* What recording a link does to the counters of its customer, of the hour and of the day.
LEMMA RecordedFacts ==
  ASSUME PolicyTypes, NEW u \in Customer, Policy!recordConsumption(u)
  PROVE  /\ consumption' \in [Policy!Keys -> [value : Nat, expiresAt : Nat]]
         /\ \A k \in Counter :
              /\ u \in Of(k) => consumption'[k] = [value |-> Policy!get(k) + 1, expiresAt |-> hour + Life(k)]
              /\ u \notin Of(k) => consumption'[k] = consumption[k]
<1> DEFINE A == [value |-> Policy!get(u) + 1, expiresAt |-> hour + DAY]
           B == [value |-> Policy!get("hourly") + 1, expiresAt |-> hour + HOUR]
           C == [value |-> Policy!get("daily") + 1, expiresAt |-> hour + DAY]
           D == [value |-> Policy!get("budget") + cost, expiresAt |-> hour + 30 * DAY]
<1>1. /\ u \in Policy!Keys /\ "hourly" \in Policy!Keys /\ "daily" \in Policy!Keys /\ "budget" \in Policy!Keys
      /\ u # "hourly" /\ u # "daily" /\ u # "budget"
  BY PolicyConstants DEF Policy!Keys
<1>2. consumption \in [Policy!Keys -> [value : Nat, expiresAt : Nat]] /\ hour \in Nat
  BY PolicyConstants DEF PolicyTypes
<1>3. \A k \in Policy!Keys : Policy!get(k) \in Nat
  <2>1. ASSUME NEW k \in Policy!Keys PROVE Policy!get(k) \in Nat
    <3>1. consumption[k] \in [value : Nat, expiresAt : Nat]
      BY <1>2
    <3> QED
      BY <3>1 DEF Policy!get
  <2> QED
    BY <2>1
<1>4. /\ A \in [value : Nat, expiresAt : Nat] /\ B \in [value : Nat, expiresAt : Nat]
      /\ C \in [value : Nat, expiresAt : Nat] /\ D \in [value : Nat, expiresAt : Nat]
  <2>1. /\ Policy!get(u) + 1 \in Nat /\ Policy!get("hourly") + 1 \in Nat /\ Policy!get("daily") + 1 \in Nat
        /\ Policy!get("budget") + cost \in Nat /\ hour + DAY \in Nat /\ hour + HOUR \in Nat
        /\ hour + 30 * DAY \in Nat
    BY <1>1, <1>2, <1>3, PolicyConstants
  <2> QED
    BY <2>1
<1>5. consumption' = [consumption EXCEPT ![u] = A, !["hourly"] = B, !["daily"] = C, !["budget"] = D]
  BY DEF Policy!recordConsumption, Policy!set
<1> HIDE DEF A, B, C, D
<1>6. /\ consumption' \in [Policy!Keys -> [value : Nat, expiresAt : Nat]]
      /\ consumption'[u] = A /\ consumption'["hourly"] = B /\ consumption'["daily"] = C
      /\ \A k \in Policy!Keys \ {u, "hourly", "daily", "budget"} : consumption'[k] = consumption[k]
  BY <1>1, <1>2, <1>4, <1>5
<1>7. ASSUME NEW k \in Counter
      PROVE  /\ u \in Of(k) => consumption'[k] = [value |-> Policy!get(k) + 1, expiresAt |-> hour + Life(k)]
             /\ u \notin Of(k) => consumption'[k] = consumption[k]
  <2>1. CASE k = "hourly"
    BY <1>6, <2>1, PolicyConstants DEF B, Of, Life
  <2>2. CASE k = "daily"
    BY <1>6, <2>2, PolicyConstants DEF C, Of, Life
  <2>3. CASE k \in Customer
    <3>1. k # "hourly" /\ k # "daily" /\ k # "budget" /\ Of(k) = {k} /\ Life(k) = DAY /\ k \in Policy!Keys
      BY <2>3, PolicyConstants DEF Of, Life, Policy!Keys
    <3>2. CASE k = u
      BY <1>6, <3>1, <3>2 DEF A
    <3>3. CASE k # u
      BY <1>6, <3>1, <3>3
    <3> QED
      BY <3>2, <3>3
  <2> QED
    BY <2>1, <2>2, <2>3 DEF Counter
<1> QED
  BY <1>6, <1>7

\* The pacer's moves keep its types; only a link costs.
LEMMA PacerMoves ==
  ASSUME PolicyTypes, NEW a \in Policy!PacingArm
  PROVE  /\ Policy!getPacingState(a) \in [window : Policy!PacingWindow, arm : Policy!PacingArm,
                                            spent : Nat, pulls : [Policy!PacingArm -> Nat]]
         /\ Policy!getPacingState(a).spent = pacing.spent
         /\ Policy!updateDualMultiplier(a) \in [window : Policy!PacingWindow, arm : Policy!PacingArm,
                                                  spent : Nat, pulls : [Policy!PacingArm -> Nat]]
         /\ Policy!updateDualMultiplier(a).spent = pacing.spent + cost
<1> DEFINE P == [window : Policy!PacingWindow, arm : Policy!PacingArm, spent : Nat,
                 pulls : [Policy!PacingArm -> Nat]]
           g == Policy!getPacingState(a)
           d == Policy!updateDualMultiplier(a)
<1>1. pacing \in P /\ pacing.spent \in Nat /\ pacing.spent + cost \in Nat
  BY PolicyConstants DEF PolicyTypes
<1>2. Policy!getTimeWindow \in Policy!PacingWindow
  BY DEF Policy!getTimeWindow, Policy!PacingWindow
<1>3. g \in P /\ g.spent = pacing.spent
  BY <1>1, <1>2 DEF Policy!getPacingState
<1>4. d = [g EXCEPT !.spent = g.spent + cost]
  BY DEF Policy!updateDualMultiplier
<1> HIDE DEF g, d
<1>5. d \in P /\ d.spent = pacing.spent + cost
  BY <1>1, <1>3, <1>4
<1> QED
  BY <1>3, <1>5 DEF g, d

LEMMA PolicyTypesStep ==
  PolicyTypes /\ [Policy!Next]_policyVars => PolicyTypes'
<1> SUFFICES ASSUME PolicyTypes, [Policy!Next]_policyVars PROVE PolicyTypes'
  OBVIOUS
<1>1. /\ hour \in 0..MaxHour
      /\ consumption \in [Policy!Keys -> [value : Nat, expiresAt : Nat]]
      /\ caller \in [Caller -> [at : {"idle", "granted", "linked"}, customer : Customer]]
      /\ links \in Seq(Link)
      /\ pacing \in [window : Policy!PacingWindow, arm : Policy!PacingArm, spent : Nat,
                     pulls : [Policy!PacingArm -> Nat]]
      /\ MaxHour \in Nat /\ hour \in Nat
  BY PolicyConstants DEF PolicyTypes
<1>2. ASSUME NEW c \in Caller, NEW u \in Customer, Policy!evaluate(c, u) PROVE PolicyTypes'
  <2>1. caller' \in [Caller -> [at : {"idle", "granted", "linked"}, customer : Customer]]
    BY <1>1, <1>2 DEF Policy!evaluate
  <2> QED
    BY <1>1, <1>2, <2>1 DEF Policy!evaluate, PolicyTypes
<1>3. ASSUME NEW c \in Caller, Policy!createLink(c) PROVE PolicyTypes'
  <2>1. caller[c] \in [at : {"idle", "granted", "linked"}, customer : Customer]
    BY <1>1
  <2>2. [caller[c] EXCEPT !.at = "linked"] \in [at : {"idle", "granted", "linked"}, customer : Customer]
    BY <2>1
  <2>3. caller' = [caller EXCEPT ![c] = [caller[c] EXCEPT !.at = "linked"]]
    BY <1>3 DEF Policy!createLink
  <2>4. caller' \in [Caller -> [at : {"idle", "granted", "linked"}, customer : Customer]]
    BY <1>1, <2>2, <2>3
  <2>5. [customer |-> caller[c].customer, at |-> hour] \in Link
    BY <1>1, <2>1 DEF Link
  <2>6. links' \in Seq(Link)
    BY <1>1, <1>3, <2>5, AppendProperties DEF Policy!createLink
  <2> QED
    BY <1>1, <1>3, <2>4, <2>6 DEF Policy!createLink, PolicyTypes
<1>4. ASSUME NEW c \in Caller, Policy!record(c) PROVE PolicyTypes'
  <2>1. caller[c] \in [at : {"idle", "granted", "linked"}, customer : Customer]
    BY <1>1
  <2>2. /\ [caller[c] EXCEPT !.at = "idle"] \in [at : {"idle", "granted", "linked"}, customer : Customer]
        /\ caller[c].customer \in Customer
    BY <2>1
  <2>3. caller' = [caller EXCEPT ![c] = [caller[c] EXCEPT !.at = "idle"]]
    BY <1>4 DEF Policy!record
  <2>4. caller' \in [Caller -> [at : {"idle", "granted", "linked"}, customer : Customer]]
    BY <1>1, <2>2, <2>3
  <2>5. consumption' \in [Policy!Keys -> [value : Nat, expiresAt : Nat]]
    BY <1>4, <2>2, RecordedFacts DEF Policy!record
  <2>6. PICK a \in Policy!PacingArm : pacing' = Policy!updateDualMultiplier(a)
    BY <1>4 DEF Policy!record
  <2>7. pacing' \in [window : Policy!PacingWindow, arm : Policy!PacingArm, spent : Nat,
                     pulls : [Policy!PacingArm -> Nat]]
    BY <2>6, PacerMoves
  <2> QED
    BY <1>1, <1>4, <2>4, <2>5, <2>7 DEF Policy!record, PolicyTypes
<1>5. ASSUME NEW a \in Policy!PacingArm, Policy!recordPacingReward(a) PROVE PolicyTypes'
  <2> DEFINE q == [pacing.pulls EXCEPT ![a] = pacing.pulls[a] + 1]
  <2>1. pacing' = [pacing EXCEPT !.pulls = q]
    BY <1>5 DEF Policy!recordPacingReward
  <2>2. q \in [Policy!PacingArm -> Nat]
    <3>1. pacing.pulls \in [Policy!PacingArm -> Nat]
      BY <1>1
    <3>2. pacing.pulls[a] + 1 \in Nat
      BY <3>1
    <3> QED
      BY <3>1, <3>2
  <2> HIDE DEF q
  <2>3. pacing' \in [window : Policy!PacingWindow, arm : Policy!PacingArm, spent : Nat,
                     pulls : [Policy!PacingArm -> Nat]]
    BY <1>1, <2>1, <2>2
  <2> QED
    BY <1>1, <1>5, <2>3 DEF Policy!recordPacingReward, PolicyTypes
<1>6. ASSUME Policy!reportPacing PROVE PolicyTypes'
  <2>1. PICK a \in Policy!PacingArm : pacing' = Policy!getPacingState(a)
    BY <1>6 DEF Policy!reportPacing
  <2>2. pacing' \in [window : Policy!PacingWindow, arm : Policy!PacingArm, spent : Nat,
                     pulls : [Policy!PacingArm -> Nat]]
    BY <2>1, PacerMoves
  <2> QED
    BY <1>1, <1>6, <2>2 DEF Policy!reportPacing, PolicyTypes
<1>7. ASSUME Policy!Tick PROVE PolicyTypes'
  <2>1. hour' \in 0..MaxHour /\ UNCHANGED <<consumption, caller, links, pacing>>
    BY <1>1, <1>7 DEF Policy!Tick
  <2> QED
    BY <1>1, <2>1 DEF PolicyTypes
<1>8. ASSUME UNCHANGED policyVars PROVE PolicyTypes'
  <2>1. UNCHANGED <<hour, consumption, caller, links, pacing>>
    BY <1>8 DEF policyVars
  <2> QED
    BY <1>1, <2>1 DEF PolicyTypes
<1> QED
  BY <1>2, <1>3, <1>4, <1>5, <1>6, <1>7, <1>8 DEF Policy!Next

\* What the links a counter counts amount to, as sets.
LEMMA RecentIsFinite ==
  ASSUME PolicyTypes, NEW c, NEW k \in Counter
  PROVE  /\ Told(c) \subseteq DOMAIN links
         /\ IsFiniteSet(Recent(c, k)) /\ Cardinality(Recent(c, k)) \in Nat
<1>1. Len(links) \in Nat /\ DOMAIN links = 1..Len(links)
  BY CounterFacts
<1>2. Told(c) \subseteq DOMAIN links
  BY <1>1 DEF Told
<1>3. Recent(c, k) \in SUBSET DOMAIN links
  BY <1>2 DEF Recent
<1>4. 1 \in Int /\ Len(links) \in Int
  BY <1>1
<1>5. IsFiniteSet(DOMAIN links)
  BY <1>1, <1>4, FS_Interval
<1> QED
  BY <1>2, <1>3, <1>5, FS_Subset, FS_CardinalityType

\* A grant: the policy has seen room for the customer, in the hour and in the day.
LEMMA EvaluateKeeps ==
  ASSUME PolicyTypes, NEW c, Caller = {c}, CallerInv(c), NEW u \in Customer, Policy!evaluate(c, u)
  PROVE  CallerInv(c)'
<1>1. /\ caller[c].at = "idle" /\ Policy!evaluateCapacity(u)
      /\ caller' = [caller EXCEPT ![c] = [at |-> "granted", customer |-> u]]
      /\ UNCHANGED <<hour, consumption, links, pacing>>
  BY DEF Policy!evaluate
<1>2. caller'[c] = [at |-> "granted", customer |-> u]
  BY <1>1 DEF PolicyTypes
<1>3. caller'[c].at = "granted" /\ caller'[c].customer = u
  BY <1>2
<1>4. Told(c)' = Told(c)
  BY <1>1, <1>3 DEF Told
<1>5. ASSUME NEW k \in Counter PROVE CounterInv(c, k)'
  <2>1. CounterInv(c, k)
    BY DEF CallerInv
  <2>2. Recent(c, k)' = Recent(c, k) /\ Policy!get(k)' = Policy!get(k)
    BY <1>1, <1>4 DEF Recent, Policy!get
  <2>3. u \in Of(k) => Policy!get(k) < Most(k)
    <3>1. /\ Policy!get(u) < perCustomer /\ Policy!get("hourly") < perHour
          /\ Policy!get("daily") < perDay
      BY <1>1 DEF Policy!evaluateCapacity
    <3>2. CASE k = "hourly"
      BY <3>1, <3>2 DEF Most
    <3>3. CASE k = "daily"
      BY <3>1, <3>3 DEF Most
    <3>4. CASE k \in Customer
      BY <3>1, <3>4, PolicyConstants DEF Most, Of
    <3> QED
      BY <3>2, <3>3, <3>4 DEF Counter
  <2>4. \A t \in 0..MaxHour : SentOf(k, t)' = SentOf(k, t)
    BY <1>1 DEF SentOf
  <2> QED
    BY <1>1, <1>3, <1>4, <2>1, <2>2, <2>3, <2>4 DEF CounterInv
<1> QED
  BY <1>1, <1>3, <1>5 DEF CallerInv

\* A link: it takes its place among those a window may still hold.
LEMMA CreateLinkKeeps ==
  ASSUME PolicyTypes, NEW c, Caller = {c}, CallerInv(c), Policy!createLink(c)
  PROVE  CallerInv(c)'
<1> DEFINE l == [customer |-> caller[c].customer, at |-> hour]
           n == Len(links) + 1
<1>1. /\ caller[c].at = "granted" /\ caller' = [caller EXCEPT ![c].at = "linked"]
      /\ links' = Append(links, l) /\ UNCHANGED <<hour, consumption, pacing>>
  BY DEF Policy!createLink
<1>2. /\ caller[c] \in [at : {"idle", "granted", "linked"}, customer : Customer]
      /\ caller[c].customer \in Customer /\ hour \in Nat
  BY PolicyConstants DEF PolicyTypes
<1>3. caller'[c].at = "linked" /\ caller'[c].customer = caller[c].customer
  BY <1>1, <1>2 DEF PolicyTypes
<1>4. /\ "hourly" \in Counter /\ Len(links) \in Nat /\ DOMAIN links = 1..Len(links) /\ n \in Nat
      /\ \A i \in DOMAIN links : links[i].at \in Nat
  <2>1. "hourly" \in Counter
    BY DEF Counter
  <2> QED
    BY <2>1, CounterFacts
<1>5. /\ links' \in Seq(Link) /\ Len(links') = n /\ links'[n] = l
      /\ \A i \in 1..Len(links) : links'[i] = links[i]
  <2>1. l \in Link
    BY <1>2 DEF Link
  <2> HIDE DEF l
  <2> QED
    BY <1>1, <2>1, AppendProperties DEF PolicyTypes
<1>6. DOMAIN links' = 1..n
  BY <1>5, LenProperties
<1>7. l.customer = caller[c].customer /\ l.at = hour
  OBVIOUS
<1> HIDE DEF l
<1>8. Told(c) = 1..Len(links) /\ Told(c)' = 1..Len(links)
  BY <1>1, <1>3, <1>4, <1>5 DEF Told
<1>9. ASSUME NEW k \in Counter PROVE CounterInv(c, k)'
  <2>1. CounterInv(c, k) /\ Policy!get(k) \in Nat /\ Life(k) \in Nat /\ Most(k) \in Nat
    BY CounterFacts DEF CallerInv
  <2>2. Recent(c, k)' = Recent(c, k) /\ Policy!get(k)' = Policy!get(k)
    BY <1>1, <1>5, <1>8 DEF Recent, Policy!get
  <2>3. \A i \in Told(c)' : links'[i].customer \in Of(k) => links'[i].at + Life(k) <= consumption'[k].expiresAt
    BY <1>1, <1>5, <1>8, <2>1 DEF CounterInv
  <2>4. ASSUME NEW t \in 0..MaxHour PROVE Cardinality(SentOf(k, t)') <= Most(k)
    <3> DEFINE window == t..(t + Life(k) - 1)
    <3>1. \A i \in 1..n : i \in 1..Len(links) \/ i = n
      BY <1>4
    <3>2. CASE caller[c].customer \in Of(k) /\ hour \in window
      <4>1. \A i \in DOMAIN links : links[i].at \in window => links[i].at + Life(k) > hour
        <5>1. ASSUME NEW i \in DOMAIN links, links[i].at \in window PROVE links[i].at + Life(k) > hour
          BY <1>2, <1>4, <2>1, <3>2, <5>1
        <5> QED
          BY <5>1
      <4>2. SentOf(k, t)' \in SUBSET (Recent(c, k) \cup {n})
        BY <1>4, <1>5, <1>6, <1>8, <3>1, <4>1 DEF SentOf, Recent
      <4>3. IsFiniteSet(Recent(c, k)) /\ Cardinality(Recent(c, k)) \in Nat
        BY RecentIsFinite
      <4>4. ASSUME NEW T, T = SentOf(k, t)'
            PROVE  Cardinality(T) \in Nat /\ Cardinality(T) <= Cardinality(Recent(c, k)) + 1
        BY <4>2, <4>3, <4>4, AtMostOneMore
      <4>5. Cardinality(Recent(c, k)) <= Policy!get(k) /\ Policy!get(k) < Most(k)
        BY <1>1, <2>1, <3>2 DEF CounterInv
      <4> QED
        BY <2>1, <4>3, <4>4, <4>5
    <3>3. CASE ~(caller[c].customer \in Of(k) /\ hour \in window)
      <4>1. SentOf(k, t)' = SentOf(k, t)
        BY <1>4, <1>5, <1>6, <1>7, <3>1, <3>3 DEF SentOf
      <4> QED
        BY <2>1, <4>1 DEF CounterInv
    <3> QED
      BY <3>2, <3>3
  <2> QED
    BY <1>3, <2>1, <2>2, <2>3, <2>4 DEF CounterInv
<1>10. \A i \in DOMAIN links' : links'[i].at <= hour'
  <2>1. \A i \in 1..n : i \in 1..Len(links) \/ i = n
    BY <1>4
  <2>2. hour <= hour
    BY <1>2
  <2> QED
    BY <1>1, <1>4, <1>5, <1>6, <1>7, <2>1, <2>2 DEF CallerInv
<1>11. pacing'.spent + cost = Len(links') * cost
  <2>1. pacing.spent + 0 = Len(links) * cost
    BY <1>1 DEF CallerInv
  <2>2. pacing.spent \in Nat /\ cost \in Nat
    BY PolicyConstants DEF PolicyTypes
  <2>3. \A x, y \in Nat : (x + 1) * y = x * y + y
    OBVIOUS
  <2> QED
    BY <1>1, <1>4, <1>5, <2>1, <2>2, <2>3
<1>12. links' # <<>> /\ links'[Len(links')].customer = caller'[c].customer
  BY <1>3, <1>4, <1>5, <1>6, <1>7
<1> QED
  BY <1>3, <1>9, <1>10, <1>11, <1>12 DEF CallerInv

\* The link is recorded: every counter of it counts one more, and lives on.
LEMMA RecordKeeps ==
  ASSUME PolicyTypes, NEW c, Caller = {c}, CallerInv(c), Policy!record(c)
  PROVE  CallerInv(c)'
<1> DEFINE u == caller[c].customer
           n == Len(links)
<1>1. /\ caller[c].at = "linked" /\ caller' = [caller EXCEPT ![c].at = "idle"]
      /\ Policy!recordConsumption(u) /\ UNCHANGED <<hour, links>>
  BY DEF Policy!record
<1>2. /\ caller[c] \in [at : {"idle", "granted", "linked"}, customer : Customer]
      /\ u \in Customer /\ hour \in Nat
  BY PolicyConstants DEF PolicyTypes
<1>3. caller'[c].at = "idle"
  BY <1>1, <1>2 DEF PolicyTypes
<1>4. /\ n \in Nat /\ DOMAIN links = 1..n /\ links # <<>> /\ links[n].customer = u
      /\ \A i \in DOMAIN links : links[i].at \in Nat /\ links[i].at <= hour
  <2>1. "hourly" \in Counter
    BY DEF Counter
  <2>2. n \in Nat /\ DOMAIN links = 1..n /\ \A i \in DOMAIN links : links[i].at \in Nat
    BY <2>1, CounterFacts
  <2> QED
    BY <1>1, <2>2 DEF CallerInv
<1>5. Told(c) = 1..(n - 1) /\ Told(c)' = 1..n /\ \A i \in 1..n : i \in 1..(n - 1) \/ i = n
  BY <1>1, <1>3, <1>4 DEF Told
<1>6. ASSUME NEW k \in Counter PROVE CounterInv(c, k)'
  <2>1. /\ CounterInv(c, k) /\ Policy!get(k) \in Nat /\ Life(k) \in Nat /\ Most(k) \in Nat
    BY CounterFacts DEF CallerInv
  <2>2. \A t \in 0..MaxHour : SentOf(k, t)' = SentOf(k, t)
    BY <1>1 DEF SentOf
  <2>3. CASE u \in Of(k)
    <3>1. consumption'[k] = [value |-> Policy!get(k) + 1, expiresAt |-> hour + Life(k)]
      BY <1>1, <1>2, <2>3, RecordedFacts
    <3>2. consumption'[k].value = Policy!get(k) + 1 /\ consumption'[k].expiresAt = hour + Life(k)
      BY <3>1
    <3>3. Policy!get(k)' = Policy!get(k) + 1
      <4>1. ~(hour > hour + Life(k))
        BY <1>2, <2>1
      <4> QED
        BY <1>1, <3>2, <4>1 DEF Policy!get
    <3>4. \A i \in Told(c)' : links'[i].at + Life(k) <= consumption'[k].expiresAt
      <4>1. ASSUME NEW i \in DOMAIN links PROVE links[i].at + Life(k) <= hour + Life(k)
        BY <1>2, <1>4, <2>1
      <4> QED
        BY <1>1, <1>4, <1>5, <3>2, <4>1
    <3>5. Recent(c, k)' \in SUBSET (Recent(c, k) \cup {n})
      BY <1>1, <1>5 DEF Recent
    <3>6. IsFiniteSet(Recent(c, k)) /\ Cardinality(Recent(c, k)) \in Nat
      BY RecentIsFinite
    <3>7. ASSUME NEW T, T = Recent(c, k)'
          PROVE  Cardinality(T) \in Nat /\ Cardinality(T) <= Cardinality(Recent(c, k)) + 1
      BY <3>5, <3>6, <3>7, AtMostOneMore
    <3>8. Cardinality(Recent(c, k)') <= Policy!get(k)'
      <4>1. Cardinality(Recent(c, k)) <= Policy!get(k)
        BY <2>1 DEF CounterInv
      <4> QED
        BY <2>1, <3>3, <3>6, <3>7, <4>1
    <3> QED
      BY <1>3, <2>1, <2>2, <3>4, <3>8 DEF CounterInv
  <2>4. CASE u \notin Of(k)
    <3>1. consumption'[k] = consumption[k]
      BY <1>1, <1>2, <2>4, RecordedFacts
    <3>2. Policy!get(k)' = Policy!get(k)
      BY <1>1, <3>1 DEF Policy!get
    <3>3. \A i \in 1..n : links[i].customer \in Of(k) => i \in 1..(n - 1)
      BY <1>4, <1>5, <2>4
    <3>4. \A i \in 1..(n - 1) : i \in 1..n
      BY <1>4
    <3>5. Recent(c, k)' = Recent(c, k)
      BY <1>1, <1>5, <3>3, <3>4 DEF Recent
    <3>6. \A i \in Told(c)' : links'[i].customer \in Of(k) => links'[i].at + Life(k) <= consumption'[k].expiresAt
      BY <1>1, <1>5, <2>1, <3>1, <3>3 DEF CounterInv
    <3> QED
      BY <1>3, <2>1, <2>2, <3>2, <3>5, <3>6 DEF CounterInv
  <2> QED
    BY <2>3, <2>4
<1>7. pacing'.spent + 0 = Len(links') * cost
  <2>1. PICK a \in Policy!PacingArm : pacing' = Policy!updateDualMultiplier(a)
    BY DEF Policy!record
  <2>2. pacing'.spent = pacing.spent + cost
    BY <2>1, PacerMoves
  <2>3. pacing.spent + cost = Len(links) * cost
    BY <1>1 DEF CallerInv
  <2>4. pacing.spent + cost \in Nat
    BY PolicyConstants DEF PolicyTypes
  <2> QED
    BY <1>1, <2>2, <2>3, <2>4
<1> QED
  BY <1>1, <1>3, <1>4, <1>6, <1>7 DEF CallerInv

\* The pacer moves, or learns: no link, no counter.
LEMMA PacerKeeps ==
  ASSUME PolicyTypes, NEW c, Caller = {c}, CallerInv(c), UNCHANGED <<hour, consumption, caller, links>>,
         pacing'.spent = pacing.spent
  PROVE  CallerInv(c)'
<1>1. Told(c)' = Told(c)
  BY DEF Told
<1>2. ASSUME NEW k \in Counter PROVE CounterInv(c, k)'
  <2>1. CounterInv(c, k)
    BY DEF CallerInv
  <2>2. Recent(c, k)' = Recent(c, k) /\ Policy!get(k)' = Policy!get(k)
    BY <1>1 DEF Recent, Policy!get
  <2>3. \A t \in 0..MaxHour : SentOf(k, t)' = SentOf(k, t)
    BY DEF SentOf
  <2> QED
    BY <1>1, <2>1, <2>2, <2>3 DEF CounterInv
<1> QED
  BY <1>2 DEF CallerInv

\* An hour passes: a counter that expires has outlived every link it counted.
LEMMA TickKeeps ==
  ASSUME PolicyTypes, NEW c, Caller = {c}, CallerInv(c), Policy!Tick
  PROVE  CallerInv(c)'
<1>1. hour' = hour + 1 /\ UNCHANGED <<consumption, caller, links, pacing>>
  BY DEF Policy!Tick
<1>2. Told(c)' = Told(c)
  BY <1>1 DEF Told
<1>3. hour \in Nat /\ hour' \in Nat
  BY <1>1, PolicyConstants DEF PolicyTypes
<1>4. ASSUME NEW k \in Counter PROVE CounterInv(c, k)'
  <2>1. /\ CounterInv(c, k) /\ Policy!get(k) \in Nat /\ Life(k) \in Nat /\ Most(k) \in Nat
        /\ consumption[k].expiresAt \in Nat /\ consumption[k].value \in Nat
        /\ \A i \in DOMAIN links : links[i].at \in Nat
    BY CounterFacts DEF CallerInv
  <2>2. Told(c) \subseteq DOMAIN links
    BY RecentIsFinite
  <2>3. \A t \in 0..MaxHour : SentOf(k, t)' = SentOf(k, t)
    BY <1>1 DEF SentOf
  <2>4. Recent(c, k)' \in SUBSET Recent(c, k)
    <3>1. ASSUME NEW i \in Told(c), links[i].at + Life(k) > hour' PROVE links[i].at + Life(k) > hour
      BY <1>1, <1>3, <2>1, <2>2, <3>1
    <3> QED
      BY <1>1, <1>2, <3>1 DEF Recent
  <2>5. IsFiniteSet(Recent(c, k)) /\ Cardinality(Recent(c, k)) \in Nat
    BY RecentIsFinite
  <2>6. ASSUME NEW T, T = Recent(c, k)'
        PROVE  Cardinality(T) \in Nat /\ Cardinality(T) <= Cardinality(Recent(c, k))
    <3>1. T \in SUBSET Recent(c, k)
      BY <2>4, <2>6
    <3> QED
      BY <2>5, <3>1, FS_Subset, FS_CardinalityType
  <2>7. /\ Policy!get(k)' = IF hour' > consumption[k].expiresAt THEN 0 ELSE consumption[k].value
        /\ Policy!get(k) = IF hour > consumption[k].expiresAt THEN 0 ELSE consumption[k].value
    BY <1>1 DEF Policy!get
  <2>8. CASE hour' > consumption[k].expiresAt
    <3>1. ASSUME NEW i \in Told(c), links[i].customer \in Of(k) PROVE ~(links[i].at + Life(k) > hour')
      <4>1. links[i].at + Life(k) <= consumption[k].expiresAt /\ links[i].at \in Nat
        BY <2>1, <2>2, <3>1 DEF CounterInv
      <4> QED
        BY <1>3, <2>1, <2>8, <4>1
    <3>2. Recent(c, k)' = {}
      BY <1>1, <1>2, <3>1 DEF Recent
    <3>3. Cardinality(Recent(c, k)') = 0 /\ Policy!get(k)' = 0
      BY <2>7, <2>8, <3>2, FS_EmptySet
    <3>4. caller'[c].at = "granted" /\ caller'[c].customer \in Of(k) => 0 < Most(k)
      <4>1. Policy!get(k) < Most(k) => 0 < Most(k)
        BY <2>1
      <4> QED
        BY <1>1, <2>1, <4>1 DEF CounterInv
    <3> QED
      BY <1>1, <1>2, <2>1, <2>3, <3>3, <3>4 DEF CounterInv
  <2>9. CASE ~(hour' > consumption[k].expiresAt)
    <3>1. ~(hour > consumption[k].expiresAt)
      BY <1>1, <1>3, <2>1, <2>9
    <3>2. Policy!get(k)' = Policy!get(k)
      BY <2>7, <2>9, <3>1
    <3>3. Cardinality(Recent(c, k)') <= Policy!get(k)
      <4>1. Cardinality(Recent(c, k)) <= Policy!get(k)
        BY <2>1 DEF CounterInv
      <4> QED
        BY <2>1, <2>5, <2>6, <4>1
    <3> QED
      BY <1>1, <1>2, <2>1, <2>3, <3>2, <3>3 DEF CounterInv
  <2> QED
    BY <2>8, <2>9
<1>5. \A i \in DOMAIN links' : links'[i].at <= hour'
  <2>1. "hourly" \in Counter
    BY DEF Counter
  <2>2. \A i \in DOMAIN links : links[i].at \in Nat
    BY <2>1, CounterFacts
  <2>3. ASSUME NEW i \in DOMAIN links PROVE links[i].at <= hour + 1
    <3>1. links[i].at <= hour /\ links[i].at \in Nat
      BY <2>2 DEF CallerInv
    <3> QED
      BY <1>3, <3>1
  <2> QED
    BY <1>1, <2>3
<1> QED
  BY <1>1, <1>4, <1>5 DEF CallerInv

LEMMA PolicyStep ==
  PolicyInv /\ [Policy!Next]_policyVars => PolicyInv'
<1> SUFFICES ASSUME PolicyInv, [Policy!Next]_policyVars PROVE PolicyInv'
  OBVIOUS
<1>1. PolicyTypes /\ PolicyTypes'
  BY PolicyTypesStep DEF PolicyInv
<1>2. ASSUME NEW c, Caller = {c} PROVE CallerInv(c)'
  <2>1. CallerInv(c)
    BY <1>2 DEF PolicyInv
  <2>2. \A d \in Caller : d = c
    BY <1>2
  <2>3. ASSUME NEW u \in Customer, Policy!evaluate(c, u) PROVE CallerInv(c)'
    BY <1>1, <1>2, <2>1, <2>3, EvaluateKeeps
  <2>4. ASSUME Policy!createLink(c) PROVE CallerInv(c)'
    BY <1>1, <1>2, <2>1, <2>4, CreateLinkKeeps
  <2>5. ASSUME Policy!record(c) PROVE CallerInv(c)'
    BY <1>1, <1>2, <2>1, <2>5, RecordKeeps
  <2>6. ASSUME Policy!Tick PROVE CallerInv(c)'
    BY <1>1, <1>2, <2>1, <2>6, TickKeeps
  <2>7. ASSUME UNCHANGED <<hour, consumption, caller, links>>, pacing'.spent = pacing.spent
        PROVE  CallerInv(c)'
    BY <1>1, <1>2, <2>1, <2>7, PacerKeeps
  <2>8. ASSUME NEW a \in Policy!PacingArm, Policy!recordPacingReward(a) PROVE CallerInv(c)'
    <3>1. /\ pacing' = [pacing EXCEPT !.pulls[a] = @ + 1]
          /\ UNCHANGED <<hour, consumption, caller, links>>
      BY <2>8 DEF Policy!recordPacingReward
    <3>2. pacing'.spent = pacing.spent
      BY <1>1, <3>1 DEF PolicyTypes
    <3> QED
      BY <2>7, <3>1, <3>2
  <2>9. ASSUME Policy!reportPacing PROVE CallerInv(c)'
    <3>1. /\ \E a \in Policy!PacingArm : pacing' = Policy!getPacingState(a)
          /\ UNCHANGED <<hour, consumption, caller, links>>
      BY <2>9 DEF Policy!reportPacing
    <3>2. pacing'.spent = pacing.spent
      BY <1>1, <3>1, PacerMoves
    <3> QED
      BY <2>7, <3>1, <3>2
  <2>10. ASSUME UNCHANGED policyVars PROVE CallerInv(c)'
    <3>1. UNCHANGED <<hour, consumption, caller, links, pacing>>
      BY <2>10 DEF policyVars
    <3> QED
      BY <2>7, <3>1
  <2> QED
    BY <2>2, <2>3, <2>4, <2>5, <2>6, <2>8, <2>9, <2>10 DEF Policy!Next
<1> QED
  BY <1>1, <1>2 DEF PolicyInv

LEMMA PolicyTells == PolicyInv => Policy!TypeOK /\ Policy!LimitsHold
<1> SUFFICES ASSUME PolicyInv PROVE Policy!TypeOK /\ Policy!LimitsHold
  OBVIOUS
<1>1. PolicyTypes
  BY DEF PolicyInv
<1>2. Policy!TypeOK
  BY <1>1 DEF PolicyTypes, Policy!TypeOK, Link
<1>3. ASSUME Policy!Cardinality(Caller) = 1
      PROVE  /\ \A t \in 0..MaxHour :
                  /\ \A u \in Customer : Policy!Sent({u}, t, DAY) <= perCustomer
                  /\ Policy!Sent(Customer, t, HOUR) <= perHour
                  /\ Policy!Sent(Customer, t, DAY) <= perDay
             /\ pacing.spent + (IF \E c \in Caller : caller[c].at = "linked" THEN cost ELSE 0)
                  = Len(links) * cost
  <2>1. IsFiniteSet(Caller)
    BY PolicyAssumption DEF Policy!CapacityPolicyAssumption, Policy!IsFiniteSet, IsFiniteSet
  <2>2. PICK c : Caller = {c}
    BY <1>3, <2>1, PolicyCardinality, FS_Singleton
  <2>3. CallerInv(c)
    BY <2>2 DEF PolicyInv
  <2>4. ASSUME NEW k \in Counter, NEW t \in 0..MaxHour PROVE Policy!Sent(Of(k), t, Life(k)) <= Most(k)
    BY <2>3, PolicyCardinality DEF CallerInv, CounterInv, SentOf, Policy!Sent
  <2>5. ASSUME NEW t \in 0..MaxHour, NEW u \in Customer PROVE Policy!Sent({u}, t, DAY) <= perCustomer
    <3>1. /\ u \in Counter /\ Of(u) = {u} /\ Life(u) = DAY /\ Most(u) = perCustomer
      BY PolicyConstants DEF Counter, Of, Life, Most
    <3>2. Policy!Sent(Of(u), t, Life(u)) <= Most(u)
      BY <2>4, <3>1
    <3> QED
      BY <3>1, <3>2
  <2>6. ASSUME NEW t \in 0..MaxHour
        PROVE  Policy!Sent(Customer, t, HOUR) <= perHour /\ Policy!Sent(Customer, t, DAY) <= perDay
    <3>1. /\ "hourly" \in Counter /\ Of("hourly") = Customer /\ Life("hourly") = HOUR
          /\ Most("hourly") = perHour
          /\ "daily" \in Counter /\ Of("daily") = Customer /\ Life("daily") = DAY /\ Most("daily") = perDay
      BY PolicyConstants DEF Counter, Of, Life, Most
    <3>2. Policy!Sent(Of("hourly"), t, Life("hourly")) <= Most("hourly")
      BY <2>4, <3>1
    <3>3. Policy!Sent(Of("daily"), t, Life("daily")) <= Most("daily")
      BY <2>4, <3>1
    <3> QED
      BY <3>1, <3>2, <3>3
  <2>7. (\E d \in Caller : caller[d].at = "linked") <=> caller[c].at = "linked"
    BY <2>2
  <2>8. pacing.spent + (IF caller[c].at = "linked" THEN cost ELSE 0) = Len(links) * cost
    BY <2>3 DEF CallerInv
  <2>9. pacing.spent + (IF \E d \in Caller : caller[d].at = "linked" THEN cost ELSE 0) = Len(links) * cost
    BY <2>7, <2>8
  <2> QED
    BY <2>5, <2>6, <2>9
<1>4. Policy!LimitsHold
  BY <1>3 DEF Policy!LimitsHold
<1> QED
  BY <1>2, <1>4

\* No window exceeds its limit, for any limits, windows and lives of keys: the sliding
\* limiter's in each store, the plan's in each store, and, with one caller at a time, the
\* merchant's hours and days, whose counters outlive every link they count (checkLimit,
\* tieredRateLimiter, cache.incr's fallback; evaluateCapacity, recordConsumption).
THEOREM LimitsAreKept == PlatformSpec => []LimitsHold
<1> DEFINE Inv == (part = "limits" => LimitsInv) /\ (part = "policy" => PolicyInv)
<1>1. PlatformInit => Inv
  BY LimitsInit, PolicyInit DEF PlatformInit
<1>2. Inv /\ [PlatformNext]_all => Inv'
  <2> SUFFICES ASSUME Inv, [PlatformNext]_all PROVE Inv'
    OBVIOUS
  <2>1. ASSUME part' = "limits" PROVE LimitsInv'
    <3>1. part = "limits" /\ [Limits!Next]_limitVars
      BY <2>1 DEF PlatformNext, all
    <3> QED
      BY <3>1, LimitsStep
  <2>2. ASSUME part' = "policy" PROVE PolicyInv'
    <3>1. part = "policy" /\ [Policy!Next]_policyVars
      BY <2>2 DEF PlatformNext, all
    <3> QED
      BY <3>1, PolicyStep
  <2> QED
    BY <2>1, <2>2
<1>3. Inv => LimitsHold
  BY LimitsTell, PolicyTells DEF LimitsHold
<1> HIDE DEF Inv
<1> QED
  BY <1>1, <1>2, <1>3, PTL DEF PlatformSpec

-----------------------------------------------------------------------------
(* The market and the gate.                                                *)

Scores == [iven : Int, confidence : Confidence]
Pairs == [nat : Probability, int : Probability]

\* An opportunity on record.
Recorded(r) ==
  /\ r = [code |-> r.code, reason |-> r.reason, amount |-> r.amount, decline |-> r.decline,
          attempts |-> r.attempts, held |-> r.held, status |-> r.status]
  /\ r.amount \in Int /\ r.attempts \in Int /\ r.held \in BOOLEAN /\ r.status \in Status
  /\ r.decline \in {"hard", "soft", "unknown"}
  /\ r.decline = classifyDeclineTaxonomy(r.code, r.reason)

\* Its score: what is declined for good is worth nothing.
Values(r, s) == s \in Scores /\ (r.decline = "hard" => s.iven <= 0)

\* Its decision: only what was worth it is accepted, and only what was accepted is
\* allocated or authorised.
Decides(r, d) ==
  /\ d \in Decision
  /\ d = "ACT" => r.decline # "hard" /\ ~r.held
  /\ r.status \in {"allocated", "authorized"} => d = "ACT"

Fit(r, s, d) ==
  \/ r = NoRow /\ s = NoScore /\ d = "none"
  \/ Recorded(r) /\ Values(r, s) /\ Decides(r, d)

EconTables ==
  /\ row = [o \in Opp |-> row[o]] /\ score = [o \in Opp |-> score[o]]
  /\ decision = [o \in Opp |-> decision[o]]
  /\ \A o \in Opp : Fit(row[o], score[o], decision[o])
  /\ IsFiniteSet(Known) /\ model \in Pair \cup {NoModel} /\ scorings \in 0..MaxScorings
MarketInv == DOMAIN market.at \subseteq Known /\ MarketIsOptimal
EconInv == EconTables /\ MarketInv

LEMMA NoRowIsNone == ASSUME NEW r, Recorded(r) PROVE r # NoRow
BY DEF Recorded, NoRow

LEMMA FitFacts ==
  ASSUME NEW r, NEW s, NEW d, Fit(r, s, d)
  PROVE  /\ s \in Scores /\ d \in Decision
         /\ r # NoRow => Recorded(r) /\ Values(r, s) /\ Decides(r, d)
         /\ r = NoRow => s = NoScore /\ d = "none"
BY NoRowIsNone DEF Fit, Values, Decides, Scores, NoScore, Decision, Confidence

-----------------------------------------------------------------------------
(* Scoring.                                                                *)

LEMMA CostFacts ==
  ASSUME NEW n \in Int PROVE calculateCosts(n) \in Int /\ calculateCosts(n) >= 400
<1>1. CASE n <= 1
  BY <1>1 DEF calculateCosts
<1>2. CASE n = 2
  BY <1>2 DEF calculateCosts
<1>3. CASE n = 3
  BY <1>3 DEF calculateCosts
<1>4. CASE n >= 4
  BY <1>4 DEF calculateCosts
<1> QED
  BY <1>1, <1>2, <1>3, <1>4

LEMMA GrossFacts ==
  ASSUME NEW inc \in Int, NEW amount \in Int
  PROVE  Gross(inc, amount) \in Int /\ Gross(0, amount) = 0
<1>1. 2 * inc * amount + 10000 \in Int /\ 2 * 0 * amount + 10000 = 10000
  OBVIOUS
<1> QED
  BY <1>1 DEF Gross

LEMMA ConfidenceFacts == ASSUME NEW r PROVE determineConfidence(r) \in Confidence
BY DEF determineConfidence, Confidence

LEMMA BaseFacts ==
  ASSUME NEW code PROVE staticBase(code) \in Pairs
BY DEF staticBase, STATIC_PROBABILITY_TABLE, Pairs, Probability

LEMMA ProbabilitiesAreNumbers == Probability \subseteq Int
BY DEF Probability

LEMMA IncrementalFacts ==
  ASSUME NEW m \in Pairs PROVE Incremental(m) \in Nat /\ (m.int = m.nat => Incremental(m) = 0)
<1>1. m.nat \in Probability /\ m.int \in Probability
  BY DEF Pairs
<1>2. m.nat \in Int /\ m.int \in Int
  BY <1>1, ProbabilitiesAreNumbers
<1> QED
  BY <1>2 DEF Incremental, NonNegative

LEMMA HardPairIsOne == HardPair \in Pairs
BY DEF HardPair, Pairs, Probability

LEMMA PairsAreTyped == Pair \subseteq Pairs
BY EconomicsAssumption DEF Pairs

LEMMA EstimateFacts ==
  ASSUME NEW r, model \in Pair \cup {NoModel}
  PROVE  estimateProbabilities(r) \in Pairs
<1>1. HardPair \in Pairs
  BY HardPairIsOne
<1>2. staticBase(r.code) \in Pairs
  BY BaseFacts
<1>3. model # NoModel => model \in Pairs
  BY PairsAreTyped
<1> QED
  BY <1>1, <1>2, <1>3 DEF estimateProbabilities, getEffectiveProbabilitiesSync

\* A score is a score, and of what is declined for good a worthless one, whatever pair
\* of probabilities it is computed from.
LEMMA ScoreFacts ==
  ASSUME NEW r, Recorded(r), NEW m \in Pairs
  PROVE  Values(r, calculateScore(r, m))
<1> DEFINE v == Gross(Incremental(m), NonNegative(r.amount)) - calculateCosts(Clamp(r.attempts, 1, 20))
<1>1. NonNegative(r.amount) \in Int /\ Clamp(r.attempts, 1, 20) \in Int
  BY DEF Recorded, NonNegative, Clamp
<1>2. v \in Int
  BY <1>1, IncrementalFacts, GrossFacts, CostFacts
<1>3. calculateScore(r, m) = [iven |-> IF r.decline = "hard" THEN Clamp(v, v, 0) ELSE v,
                              confidence |-> determineConfidence(r)]
  BY DEF calculateScore
<1> HIDE DEF v
<1>4. Clamp(v, v, 0) \in Int /\ Clamp(v, v, 0) <= 0
  BY <1>2 DEF Clamp
<1> QED
  BY <1>2, <1>3, <1>4, ConfidenceFacts DEF Values, Scores

LEMMA BridgeFacts ==
  ASSUME NEW r, Recorded(r), NEW sig \in Signal, model \in Pair \cup {NoModel}
  PROVE  Values(r, bridgedScore(r, sig))
<1> DEFINE c == calculateModifiers(sig)
           e == Incremental(estimateProbabilities(r))
           inc == IF r.decline = "hard" THEN 0 ELSE Clamp(e + c.prob, 0, 9500)
           v == Gross(inc, r.amount) - calculateCosts(r.attempts) - c.fatigue
<1>1. sig.prob \in Int /\ sig.fatigue \in Int
  BY EconomicsAssumption
<1>2. c.prob = Clamp(sig.prob, -1000, 1000) /\ c.fatigue = Clamp(sig.fatigue, 0, 500)
  BY DEF calculateModifiers
<1>3. c.prob \in Int /\ c.fatigue \in Int /\ c.fatigue >= 0
  BY <1>1, <1>2 DEF Clamp
<1>4. e \in Int
  BY EstimateFacts, IncrementalFacts
<1>5. bridgedScore(r, sig) = [iven |-> v, confidence |-> determineConfidence(r)]
  BY DEF bridgedScore
<1> HIDE DEF c, e
<1>6. inc \in Int /\ (r.decline = "hard" => inc = 0)
  BY <1>3, <1>4 DEF Clamp
<1> HIDE DEF inc
<1>7. r.amount \in Int /\ r.attempts \in Int
  BY DEF Recorded
<1>8. Gross(inc, r.amount) \in Int /\ (r.decline = "hard" => Gross(inc, r.amount) = 0)
  BY <1>6, <1>7, GrossFacts
<1>9. calculateCosts(r.attempts) \in Int /\ calculateCosts(r.attempts) >= 400
  BY <1>7, CostFacts
<1>10. v \in Int /\ (r.decline = "hard" => v <= 0)
  BY <1>3, <1>8, <1>9
<1> HIDE DEF v
<1> QED
  BY <1>5, <1>10, ConfidenceFacts DEF Values, Scores

LEMMA ScoreOfFacts ==
  ASSUME EconTables, NEW o \in Known
  PROVE  Values(row[o], ScoreOf(o)) /\ (ScoreOf(o).iven > 0 => row[o].decline # "hard")
<1>1. o \in Opp /\ row[o] # NoRow /\ Fit(row[o], score[o], decision[o])
  BY DEF Known, EconTables
<1>2. Recorded(row[o]) /\ Values(row[o], score[o])
  BY <1>1, FitFacts
<1>3. Values(row[o], calculateScore(row[o], estimateProbabilities(row[o])))
  BY <1>2, EstimateFacts, ScoreFacts DEF EconTables
<1>4. Values(row[o], ScoreOf(o))
  BY <1>2, <1>3 DEF ScoreOf
<1> QED
  BY <1>4 DEF Values, Scores

-----------------------------------------------------------------------------
(* The ranking.                                                            *)

\* A payment's value decides; the ranks of the eligible are 1 to as many as there are.
LEMMA EligibleFacts ==
  ASSUME EconTables
  PROVE  /\ Eligible \subseteq Candidates /\ Candidates \subseteq Known /\ Known \subseteq Opp
         /\ Eligible \subseteq Nat /\ IsFiniteSet(Eligible) /\ Cardinality(Eligible) \in Nat
         /\ \A o \in Eligible : ScoreOf(o).iven \in Int /\ ScoreOf(o).iven > 0
<1>1. Eligible \subseteq Candidates /\ Candidates \subseteq Known /\ Known \subseteq Opp
  BY DEF Eligible, Candidates, Known
<1>2. Eligible \subseteq Nat
  BY <1>1, EconomicsAssumption
<1>3. IsFiniteSet(Eligible) /\ Cardinality(Eligible) \in Nat
  BY <1>1, FS_Subset, FS_CardinalityType DEF EconTables
<1>4. \A o \in Eligible : ScoreOf(o).iven \in Int /\ ScoreOf(o).iven > 0
  BY <1>1, ScoreOfFacts DEF Eligible, Worth, Values, Scores
<1> QED
  BY <1>1, <1>2, <1>3, <1>4

LEMMA RanksDescend ==
  ASSUME EconTables, NEW a \in Eligible, NEW b \in Eligible
  PROVE  /\ rankInBatch(a) \in 1..Cardinality(Eligible)
         /\ a # b => rankInBatch(a) < rankInBatch(b) \/ rankInBatch(b) < rankInBatch(a)
         /\ ScoreOf(a).iven > ScoreOf(b).iven => rankInBatch(a) < rankInBatch(b)
<1> DEFINE before(o) == {p \in Eligible : ranksBefore(p, o)}
           value(o) == ScoreOf(o).iven
<1>1. \A o \in Eligible : o \in Nat /\ value(o) \in Int
  BY EligibleFacts
<1>2. \A o \in Eligible : IsFiniteSet(before(o)) /\ Cardinality(before(o)) \in Nat
  BY EligibleFacts, FS_Subset, FS_CardinalityType
<1>3. ASSUME NEW p \in Eligible, NEW q \in Eligible, ranksBefore(p, q)
      PROVE  rankInBatch(p) < rankInBatch(q)
  <2>1. p \notin before(p)
    BY <1>1 DEF ranksBefore
  <2>2. before(p) \cup {p} \subseteq before(q)
    BY <1>1, <1>3 DEF ranksBefore
  <2>3. Cardinality(before(p) \cup {p}) = Cardinality(before(p)) + 1
    BY <1>2, <2>1, FS_AddElement
  <2>4. Cardinality(before(p) \cup {p}) <= Cardinality(before(q))
    BY <1>2, <2>2, FS_Subset
  <2>5. rankInBatch(p) = Cardinality(before(p)) + 1 /\ rankInBatch(q) = Cardinality(before(q)) + 1
    BY DEF rankInBatch
  <2> HIDE DEF before
  <2> QED
    BY <1>2, <2>3, <2>4, <2>5
<1>4. rankInBatch(a) \in 1..Cardinality(Eligible)
  <2>1. before(a) \subseteq Eligible \ {a}
    BY <1>1 DEF ranksBefore
  <2>2. IsFiniteSet(Eligible \ {a}) /\ Cardinality(Eligible \ {a}) = Cardinality(Eligible) - 1
    BY EligibleFacts, FS_RemoveElement
  <2>3. Cardinality(before(a)) <= Cardinality(Eligible) - 1
    BY <2>1, <2>2, FS_Subset
  <2>4. rankInBatch(a) = Cardinality(before(a)) + 1
    BY DEF rankInBatch
  <2> HIDE DEF before
  <2> QED
    BY <1>2, <2>3, <2>4, EligibleFacts
<1>5. a # b => ranksBefore(a, b) \/ ranksBefore(b, a)
  BY <1>1 DEF ranksBefore
<1>6. value(a) > value(b) => ranksBefore(a, b)
  BY DEF ranksBefore
<1> QED
  BY <1>3, <1>4, <1>5, <1>6

\* So many ranks are given away as there are eligible, from 1 up: the first c of them
\* are of as many opportunities.
LEMMA RanksAreAllGiven ==
  ASSUME EconTables
  PROVE  \A k \in 1..Cardinality(Eligible) : \E o \in Eligible : rankInBatch(o) = k
<1> DEFINE n == Cardinality(Eligible)
           f == [o \in Eligible |-> rankInBatch(o)]
<1>1. n \in Nat /\ IsFiniteSet(Eligible)
  BY EligibleFacts
<1>2. IsFiniteSet(1..n) /\ Cardinality(1..n) = n
  BY <1>1, FS_Interval
<1>3. f \in [Eligible -> 1..n]
  BY RanksDescend
<1>4. \A a, b \in Eligible : f[a] = f[b] => a = b
  <2>1. SUFFICES ASSUME NEW a \in Eligible, NEW b \in Eligible, f[a] = f[b], a # b PROVE FALSE
    OBVIOUS
  <2>2. rankInBatch(a) \in Int /\ rankInBatch(a) = rankInBatch(b)
    BY <2>1, <1>1, RanksDescend
  <2> QED
    BY <2>1, <2>2, RanksDescend
<1> HIDE DEF f
<1>5. f \in Injection(Eligible, 1..n)
  BY <1>3, <1>4, Fun_IsInj
<1>6. f \in Surjection(Eligible, 1..n)
  BY <1>2, <1>5, FS_Injection
<1>7. \A k \in 1..n : \E o \in Eligible : f[o] = k
  BY <1>6, Fun_SurjectionProperties
<1> QED
  BY <1>7 DEF f

LEMMA AcceptedAreCounted ==
  ASSUME EconTables, NEW c \in Nat, c <= Cardinality(Eligible)
  PROVE  Cardinality({o \in Eligible : rankInBatch(o) <= c}) = c
<1> DEFINE S == {o \in Eligible : rankInBatch(o) <= c}
           f == [o \in S |-> rankInBatch(o)]
<1>1. IsFiniteSet(1..c) /\ Cardinality(1..c) = c
  BY FS_Interval
<1>2. \A o \in Eligible : rankInBatch(o) \in Nat /\ rankInBatch(o) >= 1
  BY RanksDescend, EligibleFacts
<1>3. f \in [S -> 1..c]
  BY <1>2
<1>4. \A a, b \in S : f[a] = f[b] => a = b
  <2>1. SUFFICES ASSUME NEW a \in S, NEW b \in S, f[a] = f[b], a # b PROVE FALSE
    OBVIOUS
  <2>2. rankInBatch(a) \in Int /\ rankInBatch(a) = rankInBatch(b)
    BY <2>1, <1>2
  <2> QED
    BY <2>1, <2>2, RanksDescend
<1>5. \A k \in 1..c : \E o \in S : f[o] = k
  <2>1. SUFFICES ASSUME NEW k \in 1..c PROVE \E o \in S : f[o] = k
    OBVIOUS
  <2>2. k \in 1..Cardinality(Eligible)
    BY EligibleFacts
  <2>3. PICK o \in Eligible : rankInBatch(o) = k
    BY <2>2, RanksAreAllGiven
  <2> QED
    BY <2>3
<1> HIDE DEF f, S
<1>6. f \in Injection(S, 1..c) /\ f \in Surjection(S, 1..c)
  BY <1>3, <1>4, <1>5, Fun_IsInj, Fun_IsSurj
<1>7. Cardinality(S) = c
  BY <1>1, <1>6, FS_Injection
<1> QED
  BY <1>7 DEF S

-----------------------------------------------------------------------------
(* What a market run leaves behind.                                        *)

\* The choice of m among the eligible S (MarketIsOptimal).
Optimal(m, S) ==
  LET value(o) == m.at[o].iven
      accepted == {o \in DOMAIN m.rank : m.rank[o] <= m.capacity}
      binds == m.capacity > 0 /\ Cardinality(S) >= m.capacity
  IN  /\ accepted \subseteq S /\ DOMAIN m.rank = S
      /\ Cardinality(accepted) = IF binds THEN m.capacity
                                 ELSE IF m.capacity <= 0 THEN 0 ELSE Cardinality(S)
      /\ \A a \in accepted, o \in S \ accepted : value(a) >= value(o)
      /\ IF binds THEN /\ \A a \in accepted : value(a) >= m.shadow
                       /\ \E a \in accepted : value(a) = m.shadow
         ELSE m.shadow = 0
      /\ m.abstained = DOMAIN m.at \ S
Earning(at, R) == {o \in DOMAIN at : at[o].iven > 0 /\ at[o].confidence # "low" /\ ~R[o].held}

LEMMA OptimalIsMeant == MarketIsOptimal <=> (market # NoMarket => Optimal(market, Earning(market.at, row)))
BY DEF MarketIsOptimal, Optimal, Earning

LEMMA OptimalThen ==
  ASSUME market' # NoMarket => Optimal(market', Earning(market'.at, row')) PROVE MarketIsOptimal'
BY DEF MarketIsOptimal, Optimal, Earning

\* A run's choice.
LEMMA RunIsOptimal ==
  ASSUME EconTables, NEW c \in Int
  PROVE  LET m == AfterMarket(c).result IN
         /\ Optimal(m, Eligible) /\ Earning(m.at, row) = Eligible
         /\ DOMAIN m.at = Candidates
<1> DEFINE m == AfterMarket(c).result
           value(o) == ScoreOf(o).iven
           accepted == {o \in Eligible : rankInBatch(o) <= c}
           binds == c > 0 /\ Cardinality(Eligible) >= c
<1>1. m = [capacity |-> c, shadow |-> shadowPrice(c), rank |-> [o \in Eligible |-> rankInBatch(o)],
           abstained |-> Candidates \ Eligible, at |-> [o \in Candidates |-> ScoreOf(o)]]
  BY DEF AfterMarket
<1> HIDE DEF m
<1>2. /\ Eligible \subseteq Candidates /\ IsFiniteSet(Eligible) /\ Cardinality(Eligible) \in Nat
      /\ \A o \in Eligible : value(o) \in Int /\ m.at[o].iven = value(o)
      /\ \A o \in Eligible : rankInBatch(o) \in Nat /\ rankInBatch(o) >= 1 /\ rankInBatch(o) <= Cardinality(Eligible)
  BY <1>1, EligibleFacts, RanksDescend
<1>3. {o \in DOMAIN m.rank : m.rank[o] <= m.capacity} = accepted
  BY <1>1
<1>4. Cardinality(accepted) = IF binds THEN c ELSE IF c <= 0 THEN 0 ELSE Cardinality(Eligible)
  <2>1. CASE binds
    BY <2>1, AcceptedAreCounted
  <2>2. CASE c <= 0
    <3>1. accepted = {}
      BY <1>2, <2>2
    <3> QED
      BY <2>2, <3>1, FS_EmptySet
  <2>3. CASE c > 0 /\ Cardinality(Eligible) < c
    <3>1. accepted = Eligible
      BY <1>2, <2>3
    <3> HIDE DEF accepted
    <3> QED
      BY <1>2, <2>3, <3>1
  <2> QED
    BY <1>2, <2>1, <2>2, <2>3
<1>5. ASSUME NEW a \in accepted, NEW o \in Eligible \ accepted PROVE value(a) >= value(o)
  <2>1. rankInBatch(a) < rankInBatch(o)
    BY <1>2
  <2>2. ~(value(o) > value(a))
    BY <1>2, <2>1, RanksDescend
  <2> QED
    BY <1>2, <2>2
<1>6. ASSUME binds
      PROVE  /\ \A a \in accepted : value(a) >= m.shadow
             /\ \E a \in accepted : value(a) = m.shadow
  <2>1. c \in 1..Cardinality(Eligible)
    BY <1>2, <1>6
  <2> DEFINE z == CHOOSE o \in Eligible : rankInBatch(o) = c
  <2>2. z \in Eligible /\ rankInBatch(z) = c
    BY <2>1, RanksAreAllGiven
  <2>3. m.shadow = value(z)
    BY <1>1, <1>6 DEF shadowPrice
  <2> HIDE DEF z
  <2>4. ASSUME NEW a \in accepted PROVE value(a) >= value(z)
    <3>1. ~(value(z) > value(a))
      BY <1>2, <2>2, RanksDescend
    <3> QED
      BY <1>2, <2>2, <3>1
  <2>5. z \in accepted
    BY <1>2, <2>2
  <2> QED
    BY <2>3, <2>4, <2>5
<1>7. ~binds => m.shadow = 0
  BY <1>1, <1>2 DEF shadowPrice
<1>8. m.abstained = DOMAIN m.at \ Eligible /\ DOMAIN m.at = Candidates /\ m.capacity = c
      /\ DOMAIN m.rank = Eligible
  BY <1>1
<1>9. Earning(m.at, row) = Eligible
  BY <1>1 DEF Earning, Eligible, Worth, isSyntheticHoldout
<1>10. \A o \in Eligible : m.at[o].iven = value(o)
  BY <1>2
<1> HIDE DEF accepted, value
<1>11. accepted \subseteq Eligible
  BY DEF accepted
<1>12. /\ \A a \in accepted, o \in Eligible \ accepted : m.at[a].iven >= m.at[o].iven
       /\ binds => /\ \A a \in accepted : m.at[a].iven >= m.shadow
                   /\ \E a \in accepted : m.at[a].iven = m.shadow
  BY <1>5, <1>6, <1>10, <1>11
<1>13. Optimal(m, Eligible)
  BY <1>3, <1>4, <1>7, <1>8, <1>11, <1>12 DEF Optimal
<1> QED
  BY <1>8, <1>9, <1>13 DEF m

\* What was chosen stays chosen while no row loses or changes its group.
LEMMA ChoiceStands ==
  ASSUME MarketInv, UNCHANGED market, Known \subseteq Known',
         \A o \in Known : row'[o].held = row[o].held
  PROVE  MarketInv'
<1>1. DOMAIN market.at \subseteq Known /\ DOMAIN market'.at = DOMAIN market.at
  BY DEF MarketInv
<1>2. Earning(market'.at, row') = Earning(market.at, row)
  BY <1>1 DEF Earning
<1>3. market' # NoMarket => Optimal(market', Earning(market'.at, row'))
  BY <1>2, OptimalIsMeant DEF MarketInv
<1>4. MarketIsOptimal'
  BY <1>3, OptimalThen
<1> QED
  BY <1>1, <1>4 DEF MarketInv

\* The status that is written, or the one that was there.
LEMMA StatusFacts ==
  ASSUME NEW from \in Status, NEW to \in Status
  PROVE  updateStatus(from, to) \in {from, to}
BY DEF updateStatus

LEMMA StatusWritten ==
  ASSUME NEW r, NEW s, NEW d, Fit(r, s, d), r # NoRow,
         NEW st \in Status, st \in {"allocated", "authorized"} => d = "ACT"
  PROVE  /\ Fit([r EXCEPT !.status = st], s, d) /\ [r EXCEPT !.status = st] # NoRow
         /\ [r EXCEPT !.status = st].held = r.held
<1> DEFINE q == [r EXCEPT !.status = st]
<1>1. Recorded(r) /\ Values(r, s) /\ Decides(r, d)
  BY FitFacts
<1>2. q = [code |-> r.code, reason |-> r.reason, amount |-> r.amount, decline |-> r.decline,
           attempts |-> r.attempts, held |-> r.held, status |-> st]
  BY <1>1 DEF Recorded
<1> HIDE DEF q
<1>3. Recorded(q)
  BY <1>1, <1>2 DEF Recorded
<1>4. Values(q, s) /\ Decides(q, d)
  BY <1>1, <1>2 DEF Values, Decides
<1> QED
  BY <1>2, <1>3, <1>4, NoRowIsNone DEF Fit, q

LEMMA ScoreWritten ==
  ASSUME NEW r, NEW s, NEW d, Fit(r, s, d), r # NoRow, NEW t, Values(r, t)
  PROVE  Fit(r, t, d)
BY FitFacts DEF Fit

LEMMA DecisionWritten ==
  ASSUME NEW r, NEW s, NEW d, Fit(r, s, d), r # NoRow, r.status \notin {"allocated", "authorized"},
         NEW e \in Decision, e = "ACT" => r.decline # "hard" /\ ~r.held
  PROVE  Fit(r, s, e)
BY FitFacts DEF Fit, Decides

\* The gate authorises what was accepted, and nothing else.
LEMMA GateFits ==
  ASSUME NEW r, NEW s, NEW d, Fit(r, s, d), r # NoRow
  PROVE  Fit(Evaluated(r, s, d), s, d) /\ Evaluated(r, s, d) # NoRow /\ Evaluated(r, s, d).held = r.held
<1> DEFINE v == verdictOf(r, s, d)
           st == updateStatus(r.status, suggestedStatus[v])
<1>1. Recorded(r) /\ Decides(r, d)
  BY FitFacts
<1>2. v \in Verdict /\ (v = "AUTHORIZED" => d = "ACT")
  BY DEF verdictOf, RuleVerdict, Verdict
<1> HIDE DEF v
<1>3. suggestedStatus[v] \in Status /\ (suggestedStatus[v] \in {"allocated", "authorized"} => v = "AUTHORIZED")
  BY <1>2 DEF suggestedStatus, Verdict, Status
<1>4. r.status \in Status /\ (r.status \in {"allocated", "authorized"} => d = "ACT")
  BY <1>1 DEF Recorded, Decides
<1>5. st \in {r.status, suggestedStatus[v]}
  BY <1>3, <1>4, StatusFacts
<1>6. Evaluated(r, s, d) = [r EXCEPT !.status = st]
  BY <1>1 DEF Evaluated, v, Recorded
<1> HIDE DEF st
<1>7. st \in Status /\ (st \in {"allocated", "authorized"} => d = "ACT")
  BY <1>2, <1>3, <1>4, <1>5
<1> QED
  BY <1>6, <1>7, StatusWritten

LEMMA MarketFits ==
  ASSUME EconTables, NEW c \in Int
  PROVE  LET m == AfterMarket(c) IN
         /\ m.row = [o \in Opp |-> m.row[o]] /\ m.score = [o \in Opp |-> m.score[o]]
         /\ m.decision = [o \in Opp |-> m.decision[o]]
         /\ \A o \in Opp : Fit(m.row[o], m.score[o], m.decision[o])
         /\ \A o \in Opp : /\ m.row[o] = NoRow <=> row[o] = NoRow
                           /\ row[o] # NoRow => m.row[o].held = row[o].held
<1> DEFINE m == AfterMarket(c)
           decided(o) == MarketDecision(c, o)
           was(o) == IF score[o] = NoScore
                     THEN IF row[o].status = "pending" THEN "scored" ELSE row[o].status
                     ELSE row[o].status
           st(o) == updateStatus(was(o), MarketStatus[decided(o)])
<1>1. Candidates \subseteq Known /\ Known \subseteq Opp /\ Eligible \subseteq Candidates
  BY EligibleFacts
<1>2. /\ m.row = [o \in Opp |-> IF o \in Candidates THEN [row[o] EXCEPT !.status = st(o)] ELSE row[o]]
      /\ m.score = [o \in Opp |-> IF o \in Candidates THEN ScoreOf(o) ELSE score[o]]
      /\ m.decision = [o \in Opp |-> IF o \in Candidates THEN decided(o) ELSE decision[o]]
  <2>1. ASSUME NEW o \in Candidates
        PROVE  [row[o] EXCEPT !.status =
                  updateStatus(IF score[o] = NoScore THEN IF row[o].status = "pending" THEN "scored" ELSE row[o].status
                               ELSE @, MarketStatus[[p \in Candidates |-> MarketDecision(c, p)][o]])]
               = [row[o] EXCEPT !.status = st(o)]
    <3>1. Recorded(row[o])
      BY <1>1, FitFacts DEF EconTables, Known
    <3> QED
      BY <3>1 DEF Recorded
  <2> QED
    BY <2>1 DEF AfterMarket
<1> HIDE DEF m
<1>3. ASSUME NEW o \in Opp, o \notin Candidates
      PROVE  m.row[o] = row[o] /\ m.score[o] = score[o] /\ m.decision[o] = decision[o]
  BY <1>2, <1>3
<1>4. ASSUME NEW o \in Candidates
      PROVE  /\ Fit(m.row[o], m.score[o], m.decision[o])
             /\ m.row[o] # NoRow /\ row[o] # NoRow /\ m.row[o].held = row[o].held
  <2>1. o \in Opp /\ row[o] # NoRow /\ Fit(row[o], score[o], decision[o])
    BY <1>1 DEF EconTables, Known
  <2>2. Recorded(row[o])
    BY <2>1, FitFacts
  <2>3. row[o].status \in {"pending", "scored", "deferred"}
    BY DEF Candidates
  <2>4. Values(row[o], ScoreOf(o))
    BY <1>1, ScoreOfFacts
  <2>5. decided(o) \in Decision /\ (decided(o) = "ACT" => o \in Eligible) /\ decided(o) # "none"
    BY DEF MarketDecision, Decision
  <2>6. decided(o) = "ACT" => row[o].decline # "hard" /\ ~row[o].held
    <3>1. o \in Eligible => ScoreOf(o).iven > 0 /\ ~row[o].held
      BY DEF Eligible, Worth, isSyntheticHoldout
    <3> QED
      BY <1>1, <2>5, <3>1, ScoreOfFacts
  <2> HIDE DEF decided
  <2>7. Fit(row[o], ScoreOf(o), decided(o))
    BY <2>1, <2>3, <2>4, <2>5, <2>6, ScoreWritten, DecisionWritten
  <2>8. was(o) \in {"pending", "scored", "deferred"} /\ was(o) \in Status
    BY <2>3 DEF Status
  <2>9. /\ MarketStatus[decided(o)] \in Status
        /\ MarketStatus[decided(o)] \in {"allocated", "authorized"} => decided(o) = "ACT"
    BY <2>5 DEF MarketStatus, Decision, Status
  <2>10. st(o) \in {was(o), MarketStatus[decided(o)]}
    BY <2>8, <2>9, StatusFacts
  <2> HIDE DEF was, st
  <2>11. st(o) \in Status /\ (st(o) \in {"allocated", "authorized"} => decided(o) = "ACT")
    BY <2>8, <2>9, <2>10
  <2>12. m.row[o] = [row[o] EXCEPT !.status = st(o)] /\ m.score[o] = ScoreOf(o) /\ m.decision[o] = decided(o)
    BY <1>2, <2>1
  <2> QED
    BY <2>1, <2>7, <2>11, <2>12, StatusWritten
<1>5. /\ m.row = [o \in Opp |-> m.row[o]] /\ m.score = [o \in Opp |-> m.score[o]]
      /\ m.decision = [o \in Opp |-> m.decision[o]]
  BY <1>2
<1>6. \A o \in Opp : Fit(m.row[o], m.score[o], m.decision[o])
  BY <1>3, <1>4 DEF EconTables
<1>7. \A o \in Opp : /\ m.row[o] = NoRow <=> row[o] = NoRow
                     /\ row[o] # NoRow => m.row[o].held = row[o].held
  BY <1>3, <1>4
<1> QED
  BY <1>5, <1>6, <1>7 DEF m

-----------------------------------------------------------------------------
(* The steps.                                                              *)

LEMMA EconInit == Init => EconInv
<1> SUFFICES ASSUME Init PROVE EconInv
  OBVIOUS
<1>1. /\ row = [o \in Opp |-> NoRow] /\ score = [o \in Opp |-> NoScore]
      /\ decision = [o \in Opp |-> "none"] /\ model = NoModel /\ market = NoMarket /\ scorings = 0
  BY DEF Init
<1>2. Known = {}
  BY <1>1 DEF Known
<1>3. EconTables
  BY <1>1, <1>2, FS_EmptySet, EconomicsAssumption DEF EconTables, Fit
<1>4. MarketInv
  BY <1>1 DEF MarketInv, MarketIsOptimal, NoMarket
<1> QED
  BY <1>3, <1>4 DEF EconInv

\* Where every row fits its score and decision and none is lost, the tables are in order.
LEMMA TablesKept ==
  ASSUME EconTables, row' = [o \in Opp |-> row'[o]], score' = [o \in Opp |-> score'[o]],
         decision' = [o \in Opp |-> decision'[o]],
         \A o \in Opp : Fit(row'[o], score'[o], decision'[o]),
         \A o \in Opp : /\ row'[o] = NoRow <=> row[o] = NoRow
                        /\ row[o] # NoRow => row'[o].held = row[o].held,
         model' \in Pair \cup {NoModel}, scorings' \in 0..MaxScorings
  PROVE  /\ EconTables' /\ Known' = Known
         /\ MarketInv /\ UNCHANGED market => MarketInv'
<1>1. Known' = Known
  BY DEF Known
<1>2. EconTables'
  BY <1>1 DEF EconTables
<1>3. \A o \in Known : row'[o].held = row[o].held
  BY DEF Known
<1> QED
  BY <1>1, <1>2, <1>3, ChoiceStands

LEMMA IngestKeeps ==
  ASSUME EconInv, NEW o \in Opp, NEW e \in Errors, NEW amount \in Amounts, NEW given \in GivenAttempts,
         NEW held \in BOOLEAN, ingest(o, e.code, e.reason, amount, given, held)
  PROVE  EconInv'
<1> DEFINE r == normalizeOpportunity(e.code, e.reason, amount, given, held)
<1>1. /\ EconTables /\ row[o] = NoRow /\ row' = [row EXCEPT ![o] = r]
      /\ UNCHANGED <<score, decision, model, market, scorings>>
  BY DEF EconInv, ingest
<1>2. Cardinality(Known) \in Nat
  BY <1>1, FS_CardinalityType DEF EconTables
<1>3. /\ amount \in Int /\ given \in Int
  BY EconomicsAssumption
<1>4. r = [code |-> e.code, reason |-> e.reason, amount |-> amount,
           decline |-> classifyDeclineTaxonomy(e.code, e.reason),
           attempts |-> IF given >= 1 THEN given ELSE Cardinality(Known) + 1,
           held |-> held, status |-> "pending"]
  BY DEF normalizeOpportunity
<1> HIDE DEF r
<1>5. classifyDeclineTaxonomy(e.code, e.reason) \in {"hard", "soft", "unknown"}
  BY DEF classifyDeclineTaxonomy
<1>6. Recorded(r)
  BY <1>2, <1>3, <1>4, <1>5 DEF Recorded, Status
<1>7. score[o] = NoScore /\ decision[o] = "none"
  BY <1>1, FitFacts DEF EconTables
<1>8. Fit(r, score[o], decision[o])
  BY <1>4, <1>6, <1>7 DEF Fit, Values, Decides, Scores, NoScore, Confidence, Decision
<1>9. row' = [p \in Opp |-> IF p = o THEN r ELSE row[p]]
  BY <1>1 DEF EconTables
<1>10. Known' = Known \cup {o}
  BY <1>6, <1>9, NoRowIsNone DEF Known
<1>11. EconTables'
  <2>1. IsFiniteSet(Known')
    BY <1>1, <1>10, FS_AddElement DEF EconTables
  <2>2. \A p \in Opp : Fit(row'[p], score'[p], decision'[p])
    BY <1>1, <1>8, <1>9 DEF EconTables
  <2> QED
    BY <1>1, <1>9, <2>1, <2>2 DEF EconTables
<1>12. \A p \in Known : row'[p].held = row[p].held
  BY <1>1, <1>9 DEF Known
<1>13. MarketInv'
  BY <1>1, <1>10, <1>12, ChoiceStands DEF EconInv
<1> QED
  BY <1>11, <1>13 DEF EconInv

LEMMA ScoringKeeps ==
  ASSUME EconInv, NEW o \in Known, NEW m \in Pairs, scoreOpportunity(o, m)
  PROVE  EconInv'
<1> DEFINE st == IF row[o].status = "pending" THEN "scored" ELSE row[o].status
           t == calculateScore(row[o], m)
<1>1. /\ EconTables /\ scorings' = scorings + 1 /\ scorings < MaxScorings
      /\ score' = [score EXCEPT ![o] = t] /\ row' = [row EXCEPT ![o].status = st]
      /\ UNCHANGED <<decision, model, market>>
  BY DEF EconInv, scoreOpportunity
<1>2. o \in Opp /\ row[o] # NoRow /\ Fit(row[o], score[o], decision[o])
  BY <1>1 DEF EconTables, Known
<1>3. Recorded(row[o]) /\ Decides(row[o], decision[o])
  BY <1>2, FitFacts
<1>4. Values(row[o], t)
  BY <1>3, ScoreFacts
<1> HIDE DEF t
<1>5. Fit(row[o], t, decision[o])
  BY <1>2, <1>4, ScoreWritten
<1>6. st \in Status /\ (st \in {"allocated", "authorized"} => decision[o] = "ACT")
  BY <1>3 DEF Recorded, Decides, Status
<1> HIDE DEF st
<1>7. /\ Fit([row[o] EXCEPT !.status = st], t, decision[o]) /\ [row[o] EXCEPT !.status = st] # NoRow
      /\ [row[o] EXCEPT !.status = st].held = row[o].held
  BY <1>2, <1>5, <1>6, StatusWritten
<1>8. /\ row' = [p \in Opp |-> IF p = o THEN [row[o] EXCEPT !.status = st] ELSE row[p]]
      /\ score' = [p \in Opp |-> IF p = o THEN t ELSE score[p]]
  <2>1. row = [p \in Opp |-> row[p]] /\ score = [p \in Opp |-> score[p]]
    BY <1>1 DEF EconTables
  <2>2. row' = [row EXCEPT ![o] = [row[o] EXCEPT !.status = st]]
    BY <1>1
  <2> QED
    BY <1>1, <1>2, <2>1, <2>2
<1>9. scorings' \in 0..MaxScorings
  BY <1>1, EconomicsAssumption DEF EconTables
<1>10. /\ \A p \in Opp : Fit(row'[p], score'[p], decision'[p])
       /\ \A p \in Opp : /\ row'[p] = NoRow <=> row[p] = NoRow
                         /\ row[p] # NoRow => row'[p].held = row[p].held
  BY <1>1, <1>2, <1>7, <1>8 DEF EconTables
<1>11. row' = [p \in Opp |-> row'[p]] /\ score' = [p \in Opp |-> score'[p]] /\ decision' = [p \in Opp |-> decision'[p]]
  BY <1>1, <1>8 DEF EconTables
<1> QED
  BY <1>1, <1>9, <1>10, <1>11, TablesKept DEF EconInv, EconTables

LEMMA BridgeKeeps ==
  ASSUME EconInv, NEW o \in Opp, NEW sig \in Signal, scoreWithSemanticBridge(o, sig)
  PROVE  EconInv'
<1> DEFINE t == bridgedScore(row[o], sig)
<1>1. /\ EconTables /\ scorings' = scorings + 1 /\ scorings < MaxScorings /\ o \in Known
      /\ score' = [score EXCEPT ![o] = t] /\ UNCHANGED <<row, decision, model, market>>
  BY DEF EconInv, scoreWithSemanticBridge
<1>2. row[o] # NoRow /\ Fit(row[o], score[o], decision[o])
  BY <1>1 DEF EconTables, Known
<1>3. Values(row[o], t)
  BY <1>1, <1>2, FitFacts, BridgeFacts DEF EconTables
<1> HIDE DEF t
<1>4. Fit(row[o], t, decision[o])
  BY <1>2, <1>3, ScoreWritten
<1>5. score' = [p \in Opp |-> IF p = o THEN t ELSE score[p]]
  BY <1>1 DEF EconTables
<1>6. scorings' \in 0..MaxScorings
  BY <1>1, EconomicsAssumption DEF EconTables
<1>7. \A p \in Opp : Fit(row'[p], score'[p], decision'[p])
  BY <1>1, <1>4, <1>5 DEF EconTables
<1>8. row' = [p \in Opp |-> row'[p]] /\ score' = [p \in Opp |-> score'[p]] /\ decision' = [p \in Opp |-> decision'[p]]
  BY <1>1, <1>5 DEF EconTables
<1> QED
  BY <1>1, <1>6, <1>7, <1>8, TablesKept DEF EconInv, EconTables

\* A run and what it reports.
LEMMA MarketKeeps ==
  ASSUME EconInv, NEW c \in Int,
         row' = [o \in Opp |-> row'[o]], score' = AfterMarket(c).score, decision' = AfterMarket(c).decision,
         market' = AfterMarket(c).result, UNCHANGED <<model, scorings>>,
         \A o \in Opp : Fit(row'[o], score'[o], decision'[o]),
         \A o \in Opp : /\ row'[o] = NoRow <=> row[o] = NoRow
                        /\ row[o] # NoRow => row'[o].held = row[o].held
  PROVE  EconInv'
<1>1. EconTables
  BY DEF EconInv
<1>2. score' = [o \in Opp |-> score'[o]] /\ decision' = [o \in Opp |-> decision'[o]]
  BY <1>1, MarketFits
<1>3. EconTables' /\ Known' = Known
  BY <1>1, <1>2, TablesKept DEF EconTables
<1>4. Optimal(market', Eligible) /\ Earning(market'.at, row) = Eligible /\ DOMAIN market'.at = Candidates
  BY <1>1, RunIsOptimal
<1>5. Candidates \subseteq Known /\ Known \subseteq Opp
  BY <1>1, EligibleFacts
<1>6. Earning(market'.at, row') = Earning(market'.at, row)
  BY <1>4, <1>5 DEF Earning, Known
<1>7. Optimal(market', Earning(market'.at, row'))
  BY <1>4, <1>6
<1>8. MarketIsOptimal'
  BY <1>7, OptimalThen
<1> QED
  BY <1>3, <1>4, <1>5, <1>8 DEF EconInv, MarketInv

LEMMA AllocationKeeps ==
  ASSUME EconInv, NEW c \in Capacities, runMarketAllocation(c) PROVE EconInv'
<1> DEFINE m == AfterMarket(c)
<1>1. /\ row' = m.row /\ score' = m.score /\ decision' = m.decision /\ market' = m.result
      /\ UNCHANGED <<model, scorings>>
  BY DEF runMarketAllocation
<1>2. EconTables /\ c \in Int
  BY EconomicsAssumption DEF EconInv
<1>3. /\ m.row = [o \in Opp |-> m.row[o]]
      /\ \A o \in Opp : Fit(m.row[o], m.score[o], m.decision[o])
      /\ \A o \in Opp : /\ m.row[o] = NoRow <=> row[o] = NoRow
                        /\ row[o] # NoRow => m.row[o].held = row[o].held
  BY <1>2, MarketFits
<1> HIDE DEF m
<1>4. /\ row' = [o \in Opp |-> row'[o]]
      /\ \A o \in Opp : Fit(row'[o], score'[o], decision'[o])
      /\ \A o \in Opp : /\ row'[o] = NoRow <=> row[o] = NoRow
                        /\ row[o] # NoRow => row'[o].held = row[o].held
  BY <1>1, <1>3
<1> QED
  BY <1>1, <1>2, <1>4, MarketKeeps DEF m

LEMMA PipelineKeeps ==
  ASSUME EconInv, NEW c \in Capacities, runAuthorityPipeline(c) PROVE EconInv'
<1> DEFINE m == AfterMarket(c)
           gated == {o \in Known : m.row[o].status \in {"allocated", "pending", "scored"}}
           eval(o) == Evaluated(m.row[o], m.score[o], m.decision[o])
<1>1. /\ row' = [o \in Opp |-> IF o \in gated THEN eval(o) ELSE m.row[o]]
      /\ score' = m.score /\ decision' = m.decision /\ market' = m.result
      /\ UNCHANGED <<model, scorings>>
  BY DEF runAuthorityPipeline
<1>2. EconTables /\ c \in Int
  BY EconomicsAssumption DEF EconInv
<1>3. /\ \A o \in Opp : Fit(m.row[o], m.score[o], m.decision[o])
      /\ \A o \in Opp : /\ m.row[o] = NoRow <=> row[o] = NoRow
                        /\ row[o] # NoRow => m.row[o].held = row[o].held
  BY <1>2, MarketFits
<1> HIDE DEF m
<1>4. ASSUME NEW o \in gated
      PROVE  /\ o \in Opp /\ row[o] # NoRow
             /\ Fit(eval(o), m.score[o], m.decision[o]) /\ eval(o) # NoRow /\ eval(o).held = row[o].held
  <2>1. o \in Opp /\ row[o] # NoRow
    BY DEF Known
  <2> QED
    BY <1>3, <2>1, GateFits
<1> HIDE DEF gated, eval
<1>5. /\ row' = [o \in Opp |-> row'[o]]
      /\ \A o \in Opp : Fit(row'[o], score'[o], decision'[o])
      /\ \A o \in Opp : /\ row'[o] = NoRow <=> row[o] = NoRow
                        /\ row[o] # NoRow => row'[o].held = row[o].held
  BY <1>1, <1>3, <1>4
<1> QED
  BY <1>1, <1>2, <1>5, MarketKeeps DEF m

LEMMA EvaluationKeeps ==
  ASSUME EconInv, NEW o \in Opp, evaluateOpportunity(o) PROVE EconInv'
<1> DEFINE st == IF score[o] = NoScore /\ row[o].status = "pending" THEN "scored" ELSE row[o].status
           t == ScoreOf(o)
           q == [row[o] EXCEPT !.status = st]
           r == IF score[o] = NoScore /\ row[o].status = "pending" THEN [row[o] EXCEPT !.status = "scored"]
                ELSE row[o]
           e == Evaluated(r, t, decision[o])
<1>1. /\ EconTables /\ o \in Known
      /\ score' = [score EXCEPT ![o] = t] /\ row' = [row EXCEPT ![o] = e]
      /\ UNCHANGED <<decision, model, market, scorings>>
  BY DEF EconInv, evaluateOpportunity
<1>2. row[o] # NoRow /\ Fit(row[o], score[o], decision[o])
  BY <1>1 DEF EconTables, Known
<1>3. Recorded(row[o]) /\ Decides(row[o], decision[o])
  BY <1>2, FitFacts
<1>4. Fit(row[o], t, decision[o])
  BY <1>1, <1>2, ScoreOfFacts, ScoreWritten
<1>5. st \in Status /\ (st \in {"allocated", "authorized"} => decision[o] = "ACT")
  BY <1>3 DEF Recorded, Decides, Status
<1>6. r = q
  BY <1>3 DEF Recorded
<1> HIDE DEF st, t, r
<1>7. Fit(q, t, decision[o]) /\ q # NoRow /\ q.held = row[o].held
  BY <1>2, <1>4, <1>5, StatusWritten
<1> HIDE DEF q
<1>8. Fit(e, t, decision[o]) /\ e # NoRow /\ e.held = row[o].held
  BY <1>6, <1>7, GateFits
<1> HIDE DEF e
<1>9. /\ row' = [p \in Opp |-> IF p = o THEN e ELSE row[p]]
      /\ score' = [p \in Opp |-> IF p = o THEN t ELSE score[p]]
  <2>1. row = [p \in Opp |-> row[p]] /\ score = [p \in Opp |-> score[p]]
    BY <1>1 DEF EconTables
  <2> QED
    BY <1>1, <2>1
<1>10. /\ \A p \in Opp : Fit(row'[p], score'[p], decision'[p])
       /\ \A p \in Opp : /\ row'[p] = NoRow <=> row[p] = NoRow
                         /\ row[p] # NoRow => row'[p].held = row[p].held
  BY <1>1, <1>2, <1>8, <1>9 DEF EconTables
<1>11. row' = [p \in Opp |-> row'[p]] /\ score' = [p \in Opp |-> score'[p]] /\ decision' = [p \in Opp |-> decision'[p]]
  BY <1>1, <1>9 DEF EconTables
<1> QED
  BY <1>1, <1>10, <1>11, TablesKept DEF EconInv, EconTables

LEMMA PortfolioSweepKeeps ==
  ASSUME EconInv, sweep PROVE EconInv'
<1> DEFINE news(o) == o \in Candidates /\ score[o] = NoScore /\ row[o].status = "pending"
<1>1. /\ EconTables
      /\ score' = [o \in Opp |-> IF o \in Candidates THEN ScoreOf(o) ELSE score[o]]
      /\ row' = [o \in Opp |-> IF news(o) THEN [row[o] EXCEPT !.status = "scored"] ELSE row[o]]
      /\ UNCHANGED <<decision, model, market, scorings>>
  BY DEF EconInv, sweep
<1>2. ASSUME NEW o \in Opp
      PROVE  /\ Fit(row'[o], score'[o], decision'[o])
             /\ row'[o] = NoRow <=> row[o] = NoRow
             /\ row[o] # NoRow => row'[o].held = row[o].held
  <2>1. Fit(row[o], score[o], decision[o]) /\ Candidates \subseteq Known
    BY <1>1, EligibleFacts DEF EconTables
  <2>2. CASE o \notin Candidates
    BY <1>1, <2>1, <2>2
  <2>3. CASE o \in Candidates
    <3>1. row[o] # NoRow
      BY <2>1, <2>3 DEF Known
    <3>2. Fit(row[o], ScoreOf(o), decision[o])
      BY <1>1, <2>1, <2>3, <3>1, ScoreOfFacts, ScoreWritten
    <3>3. "scored" \in Status
      BY DEF Status
    <3>4. /\ Fit([row[o] EXCEPT !.status = "scored"], ScoreOf(o), decision[o])
          /\ [row[o] EXCEPT !.status = "scored"] # NoRow
          /\ [row[o] EXCEPT !.status = "scored"].held = row[o].held
      BY <3>1, <3>2, <3>3, StatusWritten
    <3> HIDE DEF news
    <3>5. score'[o] = ScoreOf(o) /\ row'[o] \in {row[o], [row[o] EXCEPT !.status = "scored"]} /\ decision' = decision
      BY <1>1, <2>3
    <3> QED
      BY <3>1, <3>2, <3>4, <3>5
  <2> QED
    BY <2>2, <2>3
<1>3. row' = [p \in Opp |-> row'[p]] /\ score' = [p \in Opp |-> score'[p]] /\ decision' = [p \in Opp |-> decision'[p]]
  <2>1. decision = [p \in Opp |-> decision[p]]
    BY <1>1 DEF EconTables
  <2> HIDE DEF news
  <2> QED
    BY <1>1, <2>1
<1> QED
  BY <1>1, <1>2, <1>3, TablesKept DEF EconInv, EconTables

LEMMA EconStep ==
  ASSUME EconInv, [Next]_vars PROVE EconInv'
<1>1. CASE UNCHANGED vars
  <2>1. UNCHANGED <<row, score, decision, model, market, scorings>>
    BY <1>1 DEF vars
  <2>2. Known' = Known
    BY <2>1 DEF Known
  <2>3. EconTables'
    BY <2>1, <2>2 DEF EconInv, EconTables
  <2>4. MarketInv'
    BY <2>1, <2>2, ChoiceStands DEF EconInv
  <2> QED
    BY <2>3, <2>4 DEF EconInv
<1>2. ASSUME NEW o \in Opp, NEW e \in Errors, NEW amount \in Amounts, NEW given \in GivenAttempts,
             NEW held \in BOOLEAN, ingest(o, e.code, e.reason, amount, given, held)
      PROVE  EconInv'
  BY <1>2, IngestKeeps
<1>3. ASSUME NEW o \in Opp, NEW pair \in Pair, o \in Known,
             scoreOpportunity(o, sampleProbabilities(row[o], pair))
      PROVE  EconInv'
  <2>1. pair \in Pairs
    BY PairsAreTyped
  <2>2. HardPair \in Pairs
    BY HardPairIsOne
  <2>3. sampleProbabilities(row[o], pair) \in Pairs
    BY <2>1, <2>2 DEF sampleProbabilities
  <2> QED
    BY <1>3, <2>3, ScoringKeeps
<1>4. ASSUME NEW o \in Opp, o \in Known, scoreOpportunity(o, estimateProbabilities(row[o]))
      PROVE  EconInv'
  <2>1. estimateProbabilities(row[o]) \in Pairs
    BY EstimateFacts DEF EconInv, EconTables
  <2> QED
    BY <1>4, <2>1, ScoringKeeps
<1>5. ASSUME NEW o \in Opp, NEW sig \in Signal, scoreWithSemanticBridge(o, sig) PROVE EconInv'
  BY <1>5, BridgeKeeps
<1>6. ASSUME NEW o \in Opp, evaluateOpportunity(o) PROVE EconInv'
  BY <1>6, EvaluationKeeps
<1>7. ASSUME NEW m \in Pair, modelChanges(m) PROVE EconInv'
  <2>1. /\ model' = m /\ scorings' = scorings + 1 /\ scorings < MaxScorings
        /\ UNCHANGED <<row, score, decision, market>>
    BY <1>7 DEF modelChanges
  <2>2. EconTables
    BY DEF EconInv
  <2>3. model' \in Pair \cup {NoModel} /\ scorings' \in 0..MaxScorings
    BY <2>1, <2>2, EconomicsAssumption DEF EconTables
  <2>4. /\ row' = [p \in Opp |-> row'[p]] /\ score' = [p \in Opp |-> score'[p]]
        /\ decision' = [p \in Opp |-> decision'[p]]
        /\ \A p \in Opp : Fit(row'[p], score'[p], decision'[p])
        /\ \A p \in Opp : /\ row'[p] = NoRow <=> row[p] = NoRow
                          /\ row[p] # NoRow => row'[p].held = row[p].held
    BY <2>1, <2>2 DEF EconTables
  <2> QED
    BY <2>1, <2>2, <2>3, <2>4, TablesKept DEF EconInv
<1>8. ASSUME NEW c \in Capacities, runMarketAllocation(c) \/ runAuthorityPipeline(c) PROVE EconInv'
  BY <1>8, AllocationKeeps, PipelineKeeps
<1>9. ASSUME sweep PROVE EconInv'
  BY <1>9, PortfolioSweepKeeps
<1> QED
  BY <1>1, <1>2, <1>3, <1>4, <1>5, <1>6, <1>7, <1>8, <1>9 DEF Next

LEMMA EconTells == EconInv => TypeOK /\ MarketIsOptimal /\ UnreachableStaysOut
<1> SUFFICES ASSUME EconInv PROVE TypeOK /\ MarketIsOptimal /\ UnreachableStaysOut
  OBVIOUS
<1>1. EconTables /\ MarketIsOptimal
  BY DEF EconInv, MarketInv
<1>2. ASSUME NEW o \in Known
      PROVE  o \in Opp /\ Recorded(row[o]) /\ Decides(row[o], decision[o])
  BY <1>1, FitFacts DEF EconTables, Known
<1>3. ASSUME NEW o \in Opp PROVE score[o] \in Scores /\ decision[o] \in Decision
  BY <1>1, FitFacts DEF EconTables
<1>4. decision \in [Opp -> Decision]
  <2>1. decision = [o \in Opp |-> decision[o]]
    BY <1>1 DEF EconTables
  <2> QED
    BY <1>3, <2>1
<1>5. TypeOK
  BY <1>1, <1>2, <1>3, <1>4 DEF TypeOK, EconTables, Recorded, Scores
<1>6. UnreachableStaysOut
  <2>1. ASSUME NEW o \in Known, row[o].status \in {"allocated", "authorized"}
        PROVE  /\ (row[o].code \cup row[o].reason) \cap HARD_DECLINE_PATTERNS = {}
               /\ ~row[o].held /\ decision[o] = "ACT"
    BY <1>2, <2>1 DEF Recorded, Decides, classifyDeclineTaxonomy
  <2> QED
    BY <2>1 DEF UnreachableStaysOut
<1> QED
  BY <1>1, <1>5, <1>6

\* For any payments, capacities, models, samples and signals: the market's choice earns
\* the most the capacity allows and reports its marginal value, and whatever the issuer
\* declined for good or the control group holds is never allocated nor authorised
\* (runMarketAllocation, scoreOpportunity, scoreWithSemanticBridge, runAuthorityPipeline).
THEOREM TheMarketIsSound == PlatformSpec => []MarketIsSound
<1> DEFINE Inv == part = "economics" => EconInv
<1>1. PlatformInit => Inv
  BY EconInit DEF PlatformInit
<1>2. Inv /\ [PlatformNext]_all => Inv'
  <2> SUFFICES ASSUME Inv, [PlatformNext]_all, part' = "economics" PROVE EconInv'
    OBVIOUS
  <2>1. part = "economics" /\ [Next]_vars
    BY DEF PlatformNext, all
  <2> QED
    BY <2>1, EconStep
<1>3. Inv => MarketIsSound
  BY EconTells DEF MarketIsSound
<1> HIDE DEF Inv
<1> QED
  BY <1>1, <1>2, <1>3, PTL DEF PlatformSpec
=============================================================================
