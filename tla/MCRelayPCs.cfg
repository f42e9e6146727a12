SPECIFICATION Spec
CONSTANTS
  TVs  <- OneTV
  PCs  <- TwoPCs
  Phps <- NoPhps
  Asks <- NobodyAsks
  Fds  <- ThreeFds
INVARIANTS
  ReadersMatchSockets
  RegistrySound
  PairingSymmetric
  SessionIsOnline
PROPERTIES
  NoBystander
  SessionEndIsTold
  SessionEndClearsLists
  ServedUntilClosed
  RunawayNeedsDeadTv
VIEW Unheard
CHECK_DEADLOCK FALSE
