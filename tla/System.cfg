CONSTANTS
  s1 = s1
  s2 = s2
  Server = {s1, s2}
  NoServer = NoServer
  MAX_HOSTS = 2
  MaxRuns = 2
  StartInterval = 0
  ProbeInterval = 0
  EpollTimeout = 1
  EscTime = 1
  MaxSignals = 1
  SockRoom = 1
  SEQ_BUFFER_SIZE = 3
  Byte = {"0", "esc"}
  Esc = "esc"
  MenuExit = {"esc"}
  Digit <- MCDigit
  ExitSeqs <- MCExitSeqs
  MAX_SESSIONS = 1
  Lifetime = 5
  MaxLost = 1
  Typed <- MCTyped
SPECIFICATION FairSpec
INVARIANTS SystemTypeOK OnlyWanted OwnScreen
PROPERTIES KeptWhileControlled ChosenAsShown ServedAtLast
