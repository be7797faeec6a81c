SPECIFICATION Spec
CONSTANTS
  Conns = {c1, c2}
  NoConn = NoConn
  OfflineAfter = 1
  MaxTime = 5
  MaxRestarts = 1
  MaxDbFaults = 1
  Requests = {r1, r2}
  NoRequest = NoRequest
  BatchBufferSize = 2
  MaxEntries = 5
  Readers = {c1, c2}
  ConsecutiveRequired = 2
  Cooldown = 2
  app1 = app1
  Apps = {app1}
  NamePart = {}
  Readings <- MCReadings
  MaxAlertTime = 3
  MaxStreak = 3
  Logins = {l1, l2, l3}
  MaxAttempts = 1
  Window = 1
  SessionDuration = 1
  MaxAuthTime = 3
  Products = {p1, p2}
  Msi = {p1}
  Versions = {v1}
  NotInstalled = NotInstalled
  MaxChanges = 1
  MaxUninstalls = 1
  MaxWire = 1
  MaxMishaps = 1
INVARIANTS
  ServicesTypeOK ConnectedShownOnline LoneRequestGetsItsAnswer
  RowsInOrder AlertExactlyWhenDue LimiterSound
PROPERTIES
  OneAlertPerOutage OfflineAlerted
  TableIsOneScan InventoryConverges
CHECK_DEADLOCK FALSE
