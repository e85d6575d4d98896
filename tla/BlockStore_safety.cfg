SPECIFICATION FairSpec
CONSTANTS
  NBlocks = 2
  MaxTime = 2
  NoFile = NoFile
  MaxRuns = 2
INVARIANTS
  TypeOK
  SizeWithinFile
PROPERTIES
  LossIsTheRacingBlock
  FileOnlyGrows
  ChangeIsSaved
CHECK_DEADLOCK FALSE
