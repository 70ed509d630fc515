SPECIFICATION FairSpec
CONSTANTS
  a1 = a1  a2 = a2  a3 = a3  b1 = b1  b2 = b2  r1 = r1  r2 = r2
  Addrs = {a1, a2, a3}
  Banks = {b1}
  BankOf <- OneBank
  RowOf <- SharedRow
  NoRow = NoRow
  Unified = TRUE
  RowPolicy = "OPEN_PAGE"
  TransQueueSize = 2
  CmdQueueSize = 2
  LowMark = 0
  RowHitLimit = 2
  MaxVersion = 1
  MaxTrans = 4
  MaxStall = 0
  MaxCloses = 1
INVARIANTS PendingIsQueued
PROPERTIES ImplementsPort EveryReadReturns OldestIssues
