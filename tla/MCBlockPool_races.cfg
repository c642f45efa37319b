SPECIFICATION Spec
CONSTANTS
  Blocks <- LayerBlocks
  Genesis = "g"
  None = None
  Links <- LayerLinks
  Time <- LayerTime
  Period = 2
  NoInfo = {"n"}
  Arrivals <- LayerArrivals
  Workers = {w1, w2}
  Timer = T
  AddCap = 1
  DelCap = 2
  MaxTips = 4
  MaxSyncs = 0
SYMMETRY WorkerSymmetry
INVARIANTS TypeOK MapsAgree Closed
