SPECIFICATION Spec
CONSTANTS
  a1 = a1  a2 = a2  a3 = a3  b1 = b1  b2 = b2  r1 = r1  r2 = r2
  Addrs = {a1, a2, a3}
  Banks = {b1, b2}
  BankOf <- TwoBanks
  RowOf <- TwoRows
  NoRow = NoRow
  Unified = FALSE
  RowPolicy = "SOFT_CLOSE_PAGE"
  TransQueueSize = 2
  CmdQueueSize = 1
  LowMark = 0
  RowHitLimit = 1
  MaxVersion = 2
  MaxTrans = 4
  MaxStall = 0
  MaxCloses = 1
INVARIANTS TypeOK PendingIsQueued DrainWithinBuffer
PROPERTY ImplementsPort
