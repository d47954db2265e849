SPECIFICATION FairSpec
CONSTANTS
  Delays <- MC_Delays
  MAX_DELAY = 4
  INTERVAL = 2
  ALLOWED = 2
  SEQ = 4
  MaxLag = 2
INVARIANTS
  SampleIsWhole
  LossesCounted
PROPERTIES
  RequestsContinue
