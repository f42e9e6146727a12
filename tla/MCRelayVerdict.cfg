SPECIFICATION Spec
CONSTANTS
  TVs  <- TwoTVs
  PCs  <- NoPCs
  Phps <- TwoPhps
  Asks <- EachAsksOneTV
  Fds  <- ThreeFds
PROPERTIES
  VerdictToAsker
CHECK_DEADLOCK FALSE
