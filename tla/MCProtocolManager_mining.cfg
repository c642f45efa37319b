SPECIFICATION Spec
CONSTANTS
  Peers <- TwoPeers
  Senders <- TwoPeersSenders
  MaxOrders = 1
  MaxConnects = 2
  MaxTasks = 1
INVARIANTS TypeOK MiningHasWorker ClosedWithoutPeers
CHECK_DEADLOCK FALSE
