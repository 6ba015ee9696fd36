\* A screen at rest, two sessions on a network that loses nothing.
CONSTANTS
  MAX_SESSIONS = 2
  Macs = {m1, m2}
  NullMac = NullMac
  SessionIds = {7}
  Lifetime = 1
  TicksPerDay = 3
  Modes <- TallMode
  FbWords = 6
  Word = {1824, 1857}
  Writable = {}
  FrameRoom = 4
  Unseen = Unseen
  Lossy = FALSE
SPECIFICATION StreamFairSpec
PROPERTIES StartedClientServed
