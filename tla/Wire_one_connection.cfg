SPECIFICATION Spec
CONSTANTS
  Byte = 5
  Tip = 2
  MaxRange = 2
  Word = 1000
  MaxSent = 2
  Message <- MCMessage
CHECK_DEADLOCK FALSE
INVARIANTS TypeOK InStep
PROPERTIES Served ReaderEnds
