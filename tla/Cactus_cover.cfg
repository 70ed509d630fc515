SPECIFICATION Spec
CONSTANTS
  b1 = b1
  b2 = b2
  NumRanks = 1
  Banks = {b1, b2}
  NumRows = 3
  RowPerm <- ShiftedPerm
  Threshold = 2
  PrevEnable = FALSE
  TrefMode = "max"
  TrefInterval = 2
  ABODelay = 1
  TABO = 1
  RefInterval = 4
  RefChunks = 3
  Factor = 1
  MaxCount = 2
  MaxStall = 0
INVARIANT CounterCoversActs
PROPERTY MitigatedBeforeRFMLeaves
