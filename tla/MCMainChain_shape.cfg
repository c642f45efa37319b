SPECIFICATION Spec
CONSTANTS
  Blocks <- SliceBlocks
  Genesis = "g"
  None = "zero"
  Links <- SliceLinks
  Time <- SliceTime
  Slice <- SliceSlice
  Diff <- SliceDiff
  Work <- MinerWork
  Accepts <- SliceAccepts
  Workers = {w1, w2}
  ConfirmBlock = 1
  WordSize = 64
  Skew = 1
  Copies = 2
  MaxNow = 3
  MaxCrashes = 1
SYMMETRY WorkerSymmetry
INVARIANTS
  ChainShape
  TailLeads
  CumIsChainWork
  CumMonotone
PROPERTIES
  PlaceNeverMoves
