CONSTANTS
  Peer = {p1, p2}
  InitialPeer = p1
  CFPeer = {p1, p2}
  Genesis = g
  a1 = a1  a2 = a2  a3 = a3  b2 = b2
  Postgres = TRUE
  Block <- MCBlock
  height <- MCHeight
  prev <- MCPrev
  HeadersMsg <- MCHeadersMsg
  startHeight <- MCStartHeight
SPECIFICATION Spec
INVARIANTS TypeOK NoGap InFlightInOrder CrashOnlyOnLoss
PROPERTIES StoreSpec SyncedAsHeard
CHECK_DEADLOCK FALSE
