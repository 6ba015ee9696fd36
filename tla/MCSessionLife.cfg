CONSTANTS
  MAX_SESSIONS = 2
  Macs = {m1, m2}
  NullMac = NullMac
  SessionIds = {0, 7}
  Lifetime = 2
  TicksPerDay = 7
  Modes <- MCModes
  FbWords = 4
  Word = {1824, 1857}
  Writable = {0}
  FrameRoom = 2
  MaxAge = 9
SPECIFICATION LifeSpec
INVARIANTS LifeTypeOK OneSessionEach OnlyMidnightSurvives
PROPERTIES LiveKept KeepsPromise WriteNoticed SendingEnds
