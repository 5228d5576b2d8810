SPECIFICATION Spec
CONSTANTS
  a1 = a1
  Txn = {t1, t2}
  Account = {a1}
  AccountOf <- MCAccountOf
  NoTxn = NoTxn
  PerDay = 2
  Overlap = 2
  Backfill = 3
  FirstClean = 4
  Discovers = TRUE
  MaxTime = 5
  MaxEdits = 1
INVARIANTS
  TypeOK
  NothingMissed
  NoGhostHolds
  CountedOnce
  HoldsKept
  TimelineTruthful
SYMMETRY Symmetry
