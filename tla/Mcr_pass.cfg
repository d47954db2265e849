SPECIFICATION FairSpec
CONSTANTS
  Offsets <- MC_Offsets
  ENTER = 1
  EXIT = 1
  EXIT_STREAK = 2
  CLAMP = 2
  DEPTH = 2
  STALE = 1
  STALL = 3
  RETRY = 1
  MaxRx = 4
  MaxLag = 1
INVARIANTS
  LockIsEarned
  DriftSinceBaseline
  LockIsAlive
PROPERTIES
  SpikesTolerated
  RestartIsJustified
  RetriesContinue
