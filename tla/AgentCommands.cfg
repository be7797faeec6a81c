SPECIFICATION MCSpec
CONSTANTS
  j1 = j1
  j2 = j2
  Jobs = {j1, j2}
  FileJobs = {j2}
  Attempts = {0, 1}
  Outcomes = {"success"}
  Expiring = {j2}
  FullBuffers = TRUE
  QueueCap = 1
  CompletedCap = 1
  MaxDeliveries = 3
  MaxSessions = 3
  MaxCrashes = 2
  MaxForgets = 1
INVARIANTS AtMostOnce TrackedExactly SameAnswer FileOutcomeKnown
PROPERTIES ResultKept TrackingEnds
CHECK_DEADLOCK FALSE
