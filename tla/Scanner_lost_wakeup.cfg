CONSTANTS
  single = single  double = double  once = once
  Request = {single}
  Persistent = {single}
  MaxErrors = 0
  MaxHeight = 1
  firstBlock <- MCFirstBlock
  hits <- MCHits
SPECIFICATION Spec
PROPERTY WaitingIsServed
CHECK_DEADLOCK FALSE
