CONSTANTS
  single = single  double = double  once = once
  Request = {double, once}
  Persistent = {double}
  MaxErrors = 1
  MaxHeight = 3
  firstBlock <- MCFirstBlock
  hits <- MCHits
SPECIFICATION Spec
INVARIANTS TypeOK NeverForgotten NoMatchMissed NoExtraReports
PROPERTIES PromiseKept QueueServed StopEnds
CHECK_DEADLOCK FALSE
