SPECIFICATION FairSpec
CONSTANTS
  b1 = b1
  b2 = b2
  NumRanks = 1
  Banks = {b1, b2}
  NumRows = 2
  RowPerm <- ShiftedPerm
  Threshold = 2
  PrevEnable = FALSE
  TrefMode = "max"
  TrefInterval = 2
  ABODelay = 1
  TABO = 2
  RefInterval = 7
  RefChunks = 2
  Factor = 1
  MaxCount = 3
  MaxStall = 1
INVARIANTS TypeOK DrainConsistent MaxOfTouched RefreshOnTime
PROPERTY AlertServed
