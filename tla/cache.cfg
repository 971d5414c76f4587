SPECIFICATION Spec
CONSTANTS
  Nil = Nil
  MaxTie = 3
  Tie <- MCTie
  CN = {c1, c2}
  NodeCount = 1
  Keys = {0}
  Hash <- MCHash
  Values = {"a"}
  TooLong = {}
  Replication = 1
  SlotCount <- MCSlotCount
  CacheOn = TRUE
  EvictPct = 80
  WaitAttempts = 2
  OpKinds = {"read", "write", "evict"}
  Thread = Thread
  MaxOps = 2
  MaxEpoch = 5
  MaxFaults = 1
  Prime = 1
  Cache = 2
  Backup = 0
SYMMETRY Symmetry
CHECK_DEADLOCK FALSE
INVARIANT
  CacheNotAhead
