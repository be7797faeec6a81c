SPECIFICATION DeliverySpec
CONSTANTS
  pc = pc1
  Jobs = {j1, j2}
  Agents = {pc1}
  Goroutines = {g1}
  Destructive = {j1}
  FileJobs = {}
  Expiring = {}
  Faults = {}
  Reports = {"success"}
  Cancellable = {}
  Deletable = {}
  PromptPump = TRUE
  FullBuffers = FALSE
  MaxDue = 1
  MaxCrashes = 1
  MaxAgentCrashes = 1
  MaxSessions = 2
  MaxDeliveries = 4
  QueueCap = 1
  CompletedCap = 1
  Targets <- MCTargets
  Priority <- MCPriority
  CreatedAt <- MCCreatedAt
  MaxRetry <- MCMaxRetry
CONSTRAINT OneJob
ACTION_CONSTRAINT MarksFirst
INVARIANT DestructiveRunsOnce
PROPERTY SuccessIsFinal
CHECK_DEADLOCK FALSE
