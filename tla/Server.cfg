CONSTANTS
  m1 = m1
  m2 = m2
  NumBuffers = 2
  Frames <- MCFrames
  NoFrame = NoFrame
  Blank = Blank
  MAX_SESSIONS = 1
  Macs = {m1, m2}
  NullMac = NullMac
  SessionIds = {7}
  Lifetime = 0
  TicksPerDay = 2
  Modes <- MCModes
  FbWords = 4
  Word = {0, 1}
  Writable = {0}
  FrameRoom = 4
  KBD_ROOM = 2
  Keys <- MCKeys
  LocalKeys <- MCLocal
  NoReply = NoReply
SPECIFICATION Spec
INVARIANTS ServerTypeOK Conservation AnsweredOnce CleanReplies KeysWhole
