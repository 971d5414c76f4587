SPECIFICATION Spec
CONSTANTS
  Nil = Nil
  MaxTie = 3
  Tie <- MCTie
  CN = {c1}
  NodeCount = 1
  Keys = {0, 5, 9}
  Hash <- MCHash
  Values = {"a"}
  TooLong = {}
  Replication = 1
  SlotCount <- MCSlotCount
  CacheOn = TRUE
  EvictPct = 50
  WaitAttempts = 2
  OpKinds = {"write", "delete"}
  Thread = Thread
  MaxOps = 6
  MaxEpoch = 3
  MaxFaults = 0
  Prime = 4
  Cache = 3
  Backup = 0
CHECK_DEADLOCK FALSE
INVARIANT
  DeletedReadsNotFound
