SPECIFICATION Spec
CONSTANTS
  Transfers <- TwoTransfers
  PCs       <- OnePC
  Names     <- OneName
  Requests  <- AnyRequest
  OldSizes  <- Longer
  Header = 2
INVARIANT
  PathIsTheFile
CHECK_DEADLOCK FALSE
