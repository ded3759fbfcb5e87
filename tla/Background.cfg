\* The daemon; three opportunities that compete, of which the first is above the
\* live ceiling and the second a hard decline; two deliveries about one payment,
\* interventions and a crash.
SPECIFICATION BackSpec
CONSTANTS
  MaxPush = 2
  o1 = o1  o2 = o2  o3 = o3
  Opp = {o1, o2, o3}  Live = {o1}
  HardDecline = {o2}  LowConfidence = {}  Holdout = {}  OverCeiling = {o1}
  Iven <- FirstIsWorthMost  InitAttempts <- FirstAttempt
  Amount = 2  Capacity = 1  RetryIntervals = 2  MaxBooked = 1
  Restarts = TRUE  Worker = {"sweep"}  Recon = {"poller"}
  p1 = p1  h1 = h1
  Payment = {p1}  Delivery = {1, 2}  Request = {h1}
  kindOf <- FailedThenPaid  payOf <- OnePayment  eventOf <- OwnEvent
  max_attempts = 2  MaxOps = 2
INVARIANTS SleepingWillWake ForbiddenGetNoLink DeliveriesInHand
PROPERTIES ReopenedOnlyByAnotherDelivery 
CHECK_DEADLOCK FALSE
