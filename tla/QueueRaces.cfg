SPECIFICATION Spec
CONSTANTS
  j1 = j1
  j2 = j2
  Jobs = {j1, j2}
  Agents = {a1}
  Goroutines = {g1}
  Destructive = {j1}
  Expiring = {}
  Faults = {}
  Reports = {"success"}
  Cancellable = {}
  Deletable = {}
  PromptPump = TRUE
  FullBuffers = TRUE
  MaxDue = 1
  MaxCrashes = 0
  Targets <- MCTargets
  Priority <- MCPriority
  CreatedAt <- MCCreatedAt
  MaxRetry <- MCMaxRetry
INVARIANTS TypeOK OneRunning DestructiveOnce DispatchesCharged
CHECK_DEADLOCK FALSE
