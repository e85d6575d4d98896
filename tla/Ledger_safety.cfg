SPECIFICATION Spec
CONSTANTS
  NTx = 3
  NOut = 2
  Watched = {"a"}
  Nobody = "nobody"
  MaxRuns = 2
INVARIANTS
  TypeOK
  CopiesFit
  NeverTooLow
  PlainWalletsExact
