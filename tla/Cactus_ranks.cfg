SPECIFICATION Spec
CONSTANTS
  b1 = b1
  b2 = b2
  NumRanks = 2
  Banks = {b1}
  NumRows = 2
  RowPerm <- DirectPerm
  Threshold = 1
  PrevEnable = TRUE
  TrefMode = "absorb"
  TrefInterval = 1
  ABODelay = 1
  TABO = 2
  RefInterval = 6
  RefChunks = 2
  Factor = 2
  MaxCount = 1
  MaxStall = 1
INVARIANTS AlertProtocol DrainConsistent RefreshOnTime
PROPERTY MitigatedBeforeRFMLeaves
