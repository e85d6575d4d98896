SPECIFICATION Spec
CONSTANTS
  HeaderLen = 2
  BufLen = 4
  NMsg = 3
  MaxBody = 2
  MaxNeed = 3
INVARIANTS
  TypeOK
  PoolsHoldTheArrived
  StreamInStep
CHECK_DEADLOCK FALSE
