SPECIFICATION Spec
CONSTANTS
  Policies = {"bankset"}
  NumRanks = 1
  Bankgroups = 8
  BanksPerGroup = 4
  RefChunks = 5
  MaxQueue = 3
INVARIANT Rotation
