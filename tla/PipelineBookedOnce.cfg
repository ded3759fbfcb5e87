\* Is a payment booked once?
SPECIFICATION Spec
CONSTANTS
  o1 = o1  o2 = o2  o3 = o3  w1 = w1  w2 = w2  r1 = r1  r2 = r2
  Opp = {o1}  Live = {}
  HardDecline = {}  LowConfidence = {}  Holdout = {}  OverCeiling = {}
  Iven <- IvenOf  InitAttempts <- FirstAttempt
  Amount = 2  Capacity = 1  RetryIntervals = 2  MaxBooked = 2
  Restarts = TRUE  Worker = {w1}  Recon = {r1, r2}
SYMMETRY Symmetric
INVARIANTS BookedOnce
