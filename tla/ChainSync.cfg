SPECIFICATION FairSpec
CONSTANTS
  MaxHeight = 4
  Times = {1, 2, 3}
  MaxHeaders = 3
  MAX_SEND_INV_COUNT = 2
INVARIANTS
  TypeOK
  HeadersAfterBlocks
  QuietIsComplete
PROPERTIES
  FeedsTheChain
  SessionEnds
CHECK_DEADLOCK FALSE
