SPECIFICATION Spec
CONSTANTS
  Blocks <- DagBlocks
  Genesis = "g"
  Links <- DagLinks
  Addresses = {"u", "v", "w"}
  Alloc <- DagAlloc
  Bodies <- PlainBodies
  TxGas = 1
  MiningGasUsed = 2
  UserRate = 20
  InitialReward = 3
  OneTos = 2
  HalfLife = 2
  WordSize = 64
  MaxMains = 3
CHECK_DEADLOCK FALSE
INVARIANTS TypeOK Conserved Solvent
