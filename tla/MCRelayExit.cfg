SPECIFICATION Spec
CONSTANTS
  TVs  <- OneTV
  PCs  <- OnePC
  Phps <- NoPhps
  Asks <- NobodyAsks
  Fds  <- TwoFds
PROPERTIES
  ExitOnlyDisconnects
CHECK_DEADLOCK FALSE
