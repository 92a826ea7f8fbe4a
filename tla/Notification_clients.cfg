SPECIFICATION Spec
CONSTANTS
  Ws = {w1}
  Http = {h1}
  NoClient = none
  MaxMessages = 3
  MaxReports = 2
INVARIANT TypeOK
PROPERTIES DiesOnlyForAbsent ReportsTaken RequestsTaken ShutdownEnds
CHECK_DEADLOCK FALSE
