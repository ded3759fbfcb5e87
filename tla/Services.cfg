\* Mirror, credentials, accounts, audit, memory.
SPECIFICATION ServicesSpec
CONSTANTS
  Opp = {"o1"}  Run = {"r1"}  Written = {"pending", "recovered"}  MaxCalls = 3  MaxFaults = 1
  Registration = {"i1", "i2"}  Reader = {"g1"}  Key = {"k1"}  MaxOutages = 1  MaxLosses = 1
  Requests = 3  Mailbox = {"m"}  Address <- Typed  OtpTries = 2
  Audited = {"p"}  MaxFetchFailures = 1  MaxPayments = 1
  Topic = {"x", "y"}  MaxMemories = 4  MaxClock = 1  FetchLimit = 2  RecallLimit = 1  TopK = 1
INVARIANTS ParentGoesFirst CredentialsHold  
PROPERTIES RecallIsSettled
CHECK_DEADLOCK FALSE
