SPECIFICATION FairSpec
CONSTANTS
  Senders <- MC_Senders
  Gptp = "gptp"
  TXSLOTS = 2
  SPP = 3
  BuildStrobes = 1
  TURNS = 3
INVARIANTS
  PacketsAreWhole
  OwnFramesAlternate
  FirmwareFirst
  ReleasedIsSilent
PROPERTIES
  SendsComplete
  WaitShrinks
