SPECIFICATION Spec
CONSTANTS
  TVs  <- SomeTVs
  Spelled <- SpeltTVs
  PCs  <- TwoPCs
  Asks <- EachAsks
  Fds  <- TwoFds
  Cap = 2
  MaxTold = 4
INVARIANTS
  AttachedToAsker
  NoSelfDeadlock
  InOrder
PROPERTIES
  LinesArrive
CHECK_DEADLOCK FALSE
