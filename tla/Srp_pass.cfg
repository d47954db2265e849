SPECIFICATION Spec
CONSTANTS
  Sids = {s1, s2, s3}
  NoSid = NoSid
  Domains = {d1}
  Default = Default
  TABLE = 2
  JOIN = 2
  LEAVEALL = 1
  MaxLag = 2
SYMMETRY Symmetry
INVARIANTS
  RegistrarKeepsLatest
  SilenceIsNoticed
  RegisteredIsHeard
PROPERTIES
  ImplementsCache
  AdvertiseRegisters
  NewBeforeJoin
