\* Overlapping calls, restarts and late loads, with the timers' fairness.
SPECIFICATION FairSpec
CONSTANTS
  Call = {"c1", "c2", "c3"}  FailureThreshold = 3  Cooldown = 2  MaxRetries = 2
  Restarts = TRUE
INVARIANTS ClosedBelowThreshold MirrorIsSafe
PROPERTIES OpenEnds
