SPECIFICATION Spec
CONSTANTS
  Conn = {c1}
  Call = {r1}
  Txn = {t1}
  Value = {v1, v2}
  Absent = Absent
  NoChange = NoChange
  NoCall = NoCall
  NoConn = NoConn
  DbFails = FALSE
  MaxVersions = 2
  MaxFailures = 2
  MaxCrashes = 0
INVARIANT DisconnectedHasNoRows
