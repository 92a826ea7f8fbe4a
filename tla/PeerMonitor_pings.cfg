CONSTANTS
  Peer = {p1, p2}
  MaxPings = 2
SPECIFICATION Spec
INVARIANTS TypeOK NonceMatches OnePingEach PongRecognised NothingLeft
PROPERTIES RemovedUnlessStuck StuckStays
CHECK_DEADLOCK FALSE
