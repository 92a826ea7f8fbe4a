SPECIFICATION Spec
CONSTANTS
  Ws = {w1, w2}
  Http = {}
  NoClient = none
  MaxMessages = 1
  MaxReports = 2
PROPERTY ReportsReachClients
CHECK_DEADLOCK FALSE
