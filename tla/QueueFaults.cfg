SPECIFICATION Spec
CONSTANTS
  j1 = j1
  j2 = j2
  Jobs = {j1}
  Agents = {a1}
  Goroutines = {g1}
  Destructive = {}
  Expiring = {j1}
  Faults = {"read", "write"}
  Reports = {"success"}
  Cancellable = {j1}
  Deletable = {a1}
  PromptPump = FALSE
  FullBuffers = TRUE
  MaxDue = 2
  MaxCrashes = 1
  Targets <- MCTargets
  Priority <- MCPriority
  CreatedAt <- MCCreatedAt
  MaxRetry <- MCMaxRetry
PROPERTY CancelledStays
CHECK_DEADLOCK FALSE
