SPECIFICATION Spec
CONSTANTS
  Conn = {c1}
  Call = {r1, r2}
  Txn = {t1, t2}
  Value = {v1, v2}
  Absent = Absent
  NoChange = NoChange
  NoCall = NoCall
  NoConn = NoConn
  DbFails = TRUE
  MaxVersions = 2
  MaxFailures = 2
  MaxCrashes = 1
INVARIANTS
  TypeOK
  LedgerMatchesCursor
PROPERTIES
  CursorNeverRegresses
  CounterAgreesWithLog
  RefinesLedgerMirror
SYMMETRY Symmetry
