SPECIFICATION FairSpec
CONSTANTS
  Offsets <- MC_Offsets
  WINDOW = 5
  GOOD = 1
  BAD = 2
  BIG = 5
  LOCK = 2
  TIMEOUT = 2
  MaxLag = 1
INVARIANTS
  LockNeedsSync
  StepsSettle
PROPERTIES
  ImplementsDiscipline
  GoodPairsLock
