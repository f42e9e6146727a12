SPECIFICATION Spec
CONSTANTS
  TVs <- MCTVs
  PCs <- MCPCs
  Phps <- MCPhps
  Fds <- MCFds
  MaxSize = 2
  Scenes <- MCScenes
  MaxCalls = 40
INVARIANTS
  AsIfOneByOne
  NewcomerKept
  LinesKept
  StartsClean
CHECK_DEADLOCK FALSE
