SPECIFICATION FairSpec
CONSTANTS
  c1 = c1
  c2 = c2
  Conn = {c1, c2}
  Jitter <- MCJitter
  Fires <- MCFires
  Tick = {k1}
  Startup = Startup
  Other = Other
  Free = Free
  Never = Never
  MaxWorkers = 1
  TickEvery = 2
  SyncTimeout = 3
  BackoffBase = 1
  MaxTime = 4
  MaxFailures = 2
  MaxEvents = 1
INVARIANTS
  TypeOK
  JobInv
  FireServed
  BackoffHonoured
PROPERTIES
  JobsEnd
CHECK_DEADLOCK FALSE
