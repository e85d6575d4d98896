SPECIFICATION Spec
CONSTANTS
  Base = 4
  Mantissa = 2
  Radix = 3
  HashLen = 2
  Nibble = 2
  PubkeyStart = 0
  MaxSize = 300
  MaxLen = 3
  MaxScripts = 3
  MaxText = 7
  MaxScript = 6
INVARIANTS
  RoundTrip
  PartThrows
  TextsSurvive
  ScriptsPayHashes
  NumberSurvives
  CompactSurvives
CHECK_DEADLOCK FALSE
