SPECIFICATION Spec
CONSTANTS
  Blocks <- ForkBlocks
  Genesis = "g"
  None = "zero"
  Links <- ForkLinks
  Time <- ForkTime
  Slice <- ForkSlice
  Diff <- ForkDiff
  Work <- ForkDiff
  Accepts <- ForkAccepts
  Workers = {"w1"}
  ConfirmBlock = 1
  WordSize = 64
  Skew = 0
  Copies = 1
  MaxNow = 6
  MaxCrashes = 1
INVARIANTS
  LocatorOnMainChain
