\* Two clients take turns at one session, over a network that may lose packets.
CONSTANTS
  MAX_SESSIONS = 1
  Macs = {m1, m2}
  NullMac = NullMac
  SessionIds = {7}
  Lifetime = 1
  TicksPerDay = 3
  Modes <- MCModes
  FbWords = 6
  Word = {1824, 1857}
  Writable = {2}
  FrameRoom = 4
  Unseen = Unseen
  Lossy = TRUE
SPECIFICATION StreamFairSpec
INVARIANTS SessionTypeOK RoundDelivers
PROPERTIES PacketsFit FallsSilent
