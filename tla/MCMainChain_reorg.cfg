SPECIFICATION Spec
CONSTANTS
  Blocks <- ForkBlocks
  Genesis = "g"
  None = "zero"
  Links <- ForkLinks
  Time <- ForkTime
  Slice <- ForkSlice
  Diff <- ForkDiff
  Work <- ForkDiff
  Accepts <- ForkAccepts
  Workers = {"w1"}
  ConfirmBlock = 1
  WordSize = 64
  Skew = 1
  Copies = 1
  MaxNow = 5
  MaxCrashes = 0
INVARIANTS
  TypeOK
  MainChainNumbered
  LocatorOnMainChain
  StateOfMainBlock
  ConfirmedByFirstMain
PROPERTIES
  EarlyOnlyAhead
  Converges
  ImplementsLedger
