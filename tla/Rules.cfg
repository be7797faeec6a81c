SPECIFICATION Spec
CONSTANTS
  Dims <- MCDims
  Values = {downloads, blocked}
  Any = Any
  Unset = Unset
  MaxRules = 2
  Pids = {p1, p2}
  Blocked = Blocked
  Namesake = Namesake
  Other = Other
  Free = Free
  MaxStarts = 2
  ag1 = ag1
  ag2 = ag2
  Directory <- MCDirectory
  Targets <- MCTargets
  MaxPolls = 2
  VersionNumbers <- MCVersionNumbers
  MaxFleet = 2
  Paths = {x1, x2}
  Links = {k1, k2}
  MaxReports = 3
  MaxQueue = 1
  MaxVerdicts = 1
  Things = {t1, t2}
  Keyboards = {t1}
  MissingStreak = 2
  MaxFlips = 3
  MaxEvents = 2
INVARIANTS
  RulesTypeOK MostSpecificWins OnlyMatchingKilled KilledMeansGone
  NewestIsMax PathLinkedOnce RemovalSustained
PROPERTY
  CommandCounted
CHECK_DEADLOCK FALSE
