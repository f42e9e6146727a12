SPECIFICATION Spec
CONSTANTS
  TOP = 16
  OPCODES = 8
  BitXor <- ExclusiveOr
  CR = 5
  LF = 6
  BUFF_SIZE = 23
  Requests <- TwoRequests
  ClientFrames <- SomeFrames
  Lengths = {1, 14, 20}
  MaxUnits = 2
  MaxBlurs = 2
INVARIANTS
  HeardAsSaid
  AnswersTheKey
  ReceivedAsSent
CHECK_DEADLOCK FALSE
