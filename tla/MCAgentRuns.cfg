SPECIFICATION FairSpec
CONSTANTS
  Run = {r1, r2}
  Def = {d1}
  NoDef = NoDef
  MaxConcurrent = 1
  Ceiling = 1
  DbFails = TRUE
  MaxCrashes = 1
INVARIANTS
  TypeOK
  SlotInv
  KeyInv
  RowInv
  CancelledOnRequest
PROPERTIES
  OutcomeStays
  RunsEnd
CHECK_DEADLOCK FALSE
