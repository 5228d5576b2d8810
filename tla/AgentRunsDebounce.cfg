SPECIFICATION Spec
CONSTANTS
  Run = {r1, r2}
  Def = {d1}
  NoDef = NoDef
  MaxConcurrent = 2
  Ceiling = 2
  DbFails = FALSE
  MaxCrashes = 0
INVARIANTS
  DebounceCoalesces
CHECK_DEADLOCK FALSE
