SPECIFICATION Spec
CONSTANTS
  Peers = {"p1"}
  Count <- OneCut
  Main <- GrowingMain
  OwnMain <- ForkedOwn
  Genesis = 2
  FirstTail <- ShortTail
  Now = 10
  Word = 16
  Cap = 2
  MaxRetry = 1
  MaxTrouble = 2
INVARIANTS
  TypeOK
  OneSession
  CleanEndIsComplete
PROPERTIES
  SessionEnds
  TaskTakenUp
CHECK_DEADLOCK FALSE
