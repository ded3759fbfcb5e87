\* Scoring, market and gate; learners; limiters; capacity policy; advisors; ledger.
CONSTANTS
  Opp = {1, 2}
  Errors <- ThreeErrors
  Amounts = {50000, 100000}
  GivenAttempts = {1}
  Pair <- OnePair
  Signal <- OneSignal
  Capacities = {0, 1}
  MaxScorings = 1
  Tenant = {t1, t2}
  UpdateAt = 2
  Calibrated = 2
  MaxOutcomes = 3
  MaxRestarts = 1
  MaxReads = 1
  maxRequests = 1
  windowSeconds = 2
  planLimit = 1
  planWindow = 2
  keyTTL = 2
  MaxTime = 3
  MaxRequests = 4
  Caller = {1}
  Customer = {"a", "b"}
  perHour = 1
  perDay = 2
  perCustomer = 1
  HOUR = 1
  DAY = 4
  budget = 6
  cost = 2
  MaxHour = 6
  Iven = {0, 5000, 5001}
  MaxAttempts = 3
  MaxReplans = 1
  Reconciler = {1, 2}
  Recorder = {1}
  Booked = {1, 2}
  Rand = {0, 1}
  MaxStamp = 1
  MaxEntries = 3
SPECIFICATION PlatformSpec
CHECK_DEADLOCK FALSE
INVARIANTS
  
  EvidenceIsReal
  
  AdviceIsSound
  
