SPECIFICATION Spec
CONSTANTS
  Req = {r1, r2, r3, r4}
  Pinned = Pinned
  MaxFaults = 1
INVARIANTS
  TypeOK
  StatusTruthful
  ResultsTrue
  OneUse
PROPERTIES
  ResultsKept
SYMMETRY Symmetry
CHECK_DEADLOCK FALSE
