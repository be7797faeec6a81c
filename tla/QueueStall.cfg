SPECIFICATION FairSpec
CONSTANTS
  j1 = j1
  j2 = j2
  Jobs = {j1}
  Agents = {a1}
  Goroutines = {g1}
  Destructive = {}
  Expiring = {}
  Faults = {}
  Reports = {"success"}
  Cancellable = {}
  Deletable = {}
  PromptPump = TRUE
  FullBuffers = FALSE
  MaxDue = 1
  MaxCrashes = 0
  Targets <- MCTargets
  Priority <- MCPriority
  CreatedAt <- MCCreatedAt
  MaxRetry <- MCMaxRetry
PROPERTY QueueAdvances
CHECK_DEADLOCK FALSE
