SPECIFICATION AgentsSpec
CONSTANTS o1 = o1 u1 = u1 u2 = u2
 MOpp = {o1} Batches <- TwoBatches Pool = {u1, u2}
 MaxMissions = 2 maxToolCalls = 2 maxIterations = 3 MaxSwitches = 1
 Tool = {"read", "write"} Registered = {"read", "write"} Forbidden = {"write"}
 Agent = {"AgentOrchestrator"} Recognized = {"AgentOrchestrator"}
 MAX_CALLS = 2 WINDOW = 2 maxIdentical = 3 maxFailures = 2 maxCalls = 3 MaxClock = 3 MaxCallsMade = 5
 Provider = {"claude", "gemini"} Request = {1, 2} Orders <- TwoOrders
 Trips = 2 OpenFor = 2 MaxNow = 3 MaxTries = 3
 ReviewId = {1, 2} DraftId = {1} SLA = 1 MaxDay = 3
INVARIANTS MissionsAccounted CallersAreHeldBack
PROPERTIES BatchReturns KillStopsDispatch FailingToolStaysBlocked DecisionStands
CHECK_DEADLOCK FALSE
