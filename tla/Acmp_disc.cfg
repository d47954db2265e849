SPECIFICATION Spec
CONSTANTS
  s1 = s1
  s2 = s2
  t1 = t1
  t2 = t2
  m1 = m1
  m2 = m2
  c1 = c1
  c2 = c2
  NoStream = NoStream
  NoMac = NoMac
  Own = Own
  Streams = {s1, s2}
  Talkers = {t1, t2}
  Macs = {m1, m2}
  OwnerOf <- MC_OwnerOf
  DestOf <- MC_DestOf
  EidMatch <- MC_EidSame
  Cmds = {c1, c2}
  SavedMacs = {m1}
  Console = {}
  SEQ = 2
  MaxSeq = 3
  MaxCount = 1
  RESOLVE_TIMEOUT = 1
INVARIANT
  DisconnectSticks
