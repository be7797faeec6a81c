SPECIFICATION FairSpec
CONSTANTS
  j1 = j1
  j2 = j2
  Jobs = {j1}
  Agents = {a1}
  Goroutines = {g1}
  Destructive = {}
  Expiring = {j1}
  Faults = {}
  Reports = {"success"}
  Cancellable = {}
  Deletable = {}
  PromptPump = TRUE
  FullBuffers = FALSE
  MaxDue = 1
  MaxCrashes = 1
  Targets <- MCTargets
  Priority <- MCPriority
  CreatedAt <- MCCreatedAt
  MaxRetry <- MCMaxRetry
PROPERTIES RunningRecovered ExpiringEnds
CHECK_DEADLOCK FALSE
