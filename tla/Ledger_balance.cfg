SPECIFICATION Spec
CONSTANTS
  NTx = 3
  NOut = 2
  Watched = {"a"}
  Nobody = "nobody"
  MaxRuns = 1
INVARIANT
  BalanceExact
