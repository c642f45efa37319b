SPECIFICATION Spec
CONSTANTS
  Peers = {p1, p2}
  Hashes = {h1}
  Workers = {w1, w2}
  Lacking = {h1}
  ReqCap = 1
  AnnounceLimit = 1
  OriginLimit = 1
  MaxAnnounces = 2
  MaxAsks = 1
INVARIANTS TypeOK NoRequestForgotten
PROPERTY AnnouncedSettled
CHECK_DEADLOCK FALSE
