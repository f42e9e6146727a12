SPECIFICATION Spec
CONSTANTS
  Transfers <- TwoTransfers
  PCs       <- OnePC
  Names     <- OneName
  Requests  <- AnyRequest
  OldSizes  <- Longer
  Header = 2
INVARIANTS
  NoticeMeansStored
  ToldOnce
  StuckNeedsMergedRead
PROPERTIES
  NoticeArrives
CHECK_DEADLOCK FALSE
