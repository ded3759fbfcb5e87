\* Live streams, trace streams, shop page, dashboard session.
SPECIFICATION ClientsSpec
CONSTANTS
  MaxConn = 3  Tenant = {"t1", "t2"}  Notice = {"n1"}  Quiet = 1
  Watcher = {"w1", "w2"}  TraceRun = {"r1", "r2"}  MaxTraced = 5  BufferSize = 3  ReplayLast = 2
  Payment = {"p1", "p2"}  PollTries = 2  MaxFailures = 1
  Merchant = {"a"}  Demo = "d"  MaxTasks = 2  MaxReloads = 1
INVARIANTS StreamsHear TraceHasNoGap CheckoutIsHonest
PROPERTIES TokenComesWithItsOwner
CHECK_DEADLOCK FALSE
