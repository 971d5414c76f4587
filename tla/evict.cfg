SPECIFICATION Spec
CONSTANTS
  Nil = Nil
  MaxTie = 3
  Tie <- MCTie
  CN = {c1}
  NodeCount = 1
  Keys = {0}
  Hash <- MCHash
  Values = {"a"}
  TooLong = {}
  Replication = 1
  SlotCount <- MCSlotCount
  CacheOn = TRUE
  EvictPct = 80
  WaitAttempts = 2
  OpKinds = {"write", "evict"}
  Thread = Thread
  MaxOps = 2
  MaxEpoch = 6
  MaxFaults = 0
  Prime = 1
  Cache = 1
  Backup = 0
INVARIANT EvictionReturns
