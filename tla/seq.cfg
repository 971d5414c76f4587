SPECIFICATION Spec
CONSTANTS
  Nil = Nil
  MaxTie = 3
  Tie <- MCTie
  CN = {c1}
  NodeCount = 2
  Keys = {0, 2, 102}
  Hash <- MCHash
  Values = {"a", "b", "c"}
  TooLong = {"c"}
  Replication = 2
  SlotCount <- MCSlotCount
  CacheOn = TRUE
  EvictPct = 101
  WaitAttempts = 2
  OpKinds = {"read", "write", "update", "delete"}
  Thread = Thread
  MaxOps = 5
  MaxEpoch = 6
  MaxFaults = 0
  Prime = 2
  Cache = 2
  Backup = 2
INVARIANTS
  ReplicasAgree
  CacheCoherent
PROPERTY
  ImplementsKV
