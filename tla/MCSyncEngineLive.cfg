SPECIFICATION FairSpec
CONSTANTS
  Conn = {c1}
  Call = {r1}
  Txn = {t1}
  Value = {v1}
  Absent = Absent
  NoChange = NoChange
  NoCall = NoCall
  NoConn = NoConn
  DbFails = TRUE
  MaxVersions = 2
  MaxFailures = 1
  MaxCrashes = 1
PROPERTIES
  LockReleased
  EventuallyMirrored
