\* One session on a network that loses nothing.
CONSTANTS
  MAX_SESSIONS = 1
  Macs = {m1}
  NullMac = NullMac
  SessionIds = {7}
  Lifetime = 1
  TicksPerDay = 3
  Modes <- TallMode
  FbWords = 6
  Word = {1824, 1857}
  Writable = {2}
  FrameRoom = 4
  Unseen = Unseen
  Lossy = FALSE
SPECIFICATION StreamSpec
PROPERTIES SkipMeansUnchanged
