SPECIFICATION MCSpec
CONSTANTS
  None = None
  Requests = {r1, r2}
  AskModes = {"ethernet"}
  AskActions = {"disable_lan"}
  Adapters = {"wifi", "eth"}
  Faults = {"status", "enable", "disable", "full"}
  MaxSessions = 2
  MaxCrashes = 1
  MaxEvents = 3
INVARIANTS OkMeansConverged
PROPERTIES KeepsNetwork NetworkConverges
CHECK_DEADLOCK FALSE
