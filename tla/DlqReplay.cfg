\* Is a dead letter left alone?
SPECIFICATION StorageSpec
CONSTANTS
  o1 = o1  a1 = a1  a2 = a2  j1 = j1  j2 = j2  w1 = w1  w2 = w2
  Tx = {"t1", "t2"}  Solo = {"s1", "s2"}  Direct = {"d1"}  Statements = 2  PoolSize = 1
  Instance = {"a", "b", "c"}  MaxStops = 3
  Opp = {o1}  Sweep = {a1, a2}  retryIntervalsMin <- ThreeIntervals  Limit = 2  MaxPending = 3
  Job = {j1, j2}  Worker = {w1, w2}  typeOf <- TwoTypes  maxAttempts = 2  MaxFaults = 1
PROPERTIES DeadLetterIsNotReplayed
CHECK_DEADLOCK FALSE
