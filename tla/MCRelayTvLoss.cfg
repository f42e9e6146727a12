SPECIFICATION Spec
CONSTANTS
  TVs  <- OneTV
  PCs  <- TwoPCs
  Phps <- NoPhps
  Asks <- NobodyAsks
  Fds  <- ThreeFds
PROPERTIES
  TvLossIsTold
CHECK_DEADLOCK FALSE
