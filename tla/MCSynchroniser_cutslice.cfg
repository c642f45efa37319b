SPECIFICATION Spec
CONSTANTS
  Peers = {"p1"}
  Count <- TwoCuts
  Main <- GrowingMain
  OwnMain <- ShortOwn
  Genesis = 2
  FirstTail <- ShortTail
  Now = 10
  Word = 16
  Cap = 2
  MaxRetry = 1
  MaxTrouble = 2
INVARIANT EndIsComplete
CHECK_DEADLOCK FALSE
