SPECIFICATION Spec
CONSTANTS
  Sizes <- BoundarySizes
  BUFF_SIZE = 12
  MaxSent = 3
PROPERTIES
  CacheFits
  LossNeedsReset
  FIFO
  EofNoticed
  WholePackagesHandled
CHECK_DEADLOCK FALSE
