CONSTANTS
  Peer = {p1}
  MaxPings = 2
SPECIFICATION Spec
PROPERTY RemovedOnDisconnect
CHECK_DEADLOCK FALSE
