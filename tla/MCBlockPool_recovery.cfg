SPECIFICATION Spec
CONSTANTS
  Blocks <- PairBlocks
  Genesis = "g"
  None = None
  Links <- PairLinks
  Time <- PairTime
  Period = 2
  NoInfo = {}
  Arrivals <- PairArrivals
  Workers = {w1, w2}
  Timer = T
  AddCap = 1
  DelCap = 2
  MaxTips = 4
  MaxSyncs = 2
INVARIANT NoTipLost
PROPERTY Drains
