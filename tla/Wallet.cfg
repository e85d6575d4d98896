SPECIFICATION WalletFairSpec
CONSTANTS
  NBlocks = 2
  MaxTime = 2
  NoFile = NoFile
  MaxRuns = 2
  MaxHeaders = 2
  MAX_SEND_INV_COUNT = 1
INVARIANT
  CaughtUp
PROPERTIES
  ImplementsStore
  ChainReachesFile
CHECK_DEADLOCK FALSE
