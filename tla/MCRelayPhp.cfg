SPECIFICATION Spec
CONSTANTS
  TVs  <- OneTV
  PCs  <- OnePC
  Phps <- TwoPhps
  Asks <- BothAskTheTV
  Fds  <- ThreeFds
INVARIANTS
  EntryNamesAsker
PROPERTIES
  EntryDropIsTold
  WaitEnds
VIEW Unheard
CHECK_DEADLOCK FALSE
