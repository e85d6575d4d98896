SPECIFICATION Spec
CONSTANTS
  NBlocks = 2
  MaxTime = 2
  NoFile = NoFile
  MaxRuns = 1
INVARIANT
  NothingIsLost
CHECK_DEADLOCK FALSE
