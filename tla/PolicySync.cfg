SPECIFICATION MCSpec
CONSTANTS
  None = None
  Truncated = Truncated
  Torn = Torn
  RuleEditors = {e1}
  AppEditors = {e2}
  Check = check
  MaxEvents = 2
  MaxSessions = 2
  MaxCrashes = 1
  MaxBumpFailures = 1
  MaxSendFailures = 1
  Foreign = 3
INVARIANTS TypeOK VersionHonest NeverAhead
PROPERTIES PolicyConverges
CHECK_DEADLOCK FALSE
