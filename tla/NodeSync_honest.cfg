CONSTANTS
  Peer = {p1}
  InitialPeer = p1
  CFPeer = {p1}
  Genesis = 0
  N = 3
  FirstHeight = 2
  Postgres = FALSE
  Batch = 2
  Room = 1
  Block <- MCBlock
  height <- MCHeight
  prev <- MCPrev
  HeadersMsg <- MCHeadersMsg
  startHeight <- MCStartHeight
  Branch <- MCBranch
SPECIFICATION NodeSpec
INVARIANTS NodeTypeOK SyncedCaughtUp FiltersOfStored
PROPERTIES EventuallySynced CatchesUp EventuallyFiltered
CHECK_DEADLOCK FALSE
