SPECIFICATION Spec
CONSTANTS
  Policies = {"simultaneous", "rank", "bankset", "bank"}
  NumRanks = 1
  Bankgroups = 8
  BanksPerGroup = 4
  RefChunks = 5
  MaxQueue = 3
INVARIANTS TypeOK RequestedInTime BanksInStep CountersInStep EveryChunkReset
