SPECIFICATION MCSpec
CONSTANTS
  None = None
  Truncated = Truncated
  Torn = Torn
  RuleEditors = {e1}
  AppEditors = {e2}
  Check = check
  MaxEvents = 2
  MaxSessions = 1
  MaxCrashes = 0
  MaxBumpFailures = 0
  MaxSendFailures = 0
  Foreign = None
INVARIANT FileWhole
CHECK_DEADLOCK FALSE
