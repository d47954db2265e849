SPECIFICATION Spec
CONSTANTS
  Senders <- MC_Senders
  Gptp = "gptp"
  TXSLOTS = 2
  SPP = 2
  BuildStrobes = 1
  TURNS = 3
PROPERTIES
  StampIsOfThisFrame
