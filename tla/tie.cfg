SPECIFICATION Spec
CONSTANTS
  Nil = Nil
  MaxTie = 3
  Tie <- MCTie
  CN = {c1, c2}
  NodeCount = 3
  Keys = {0}
  Hash <- MCHash
  Values = {"a", "b"}
  TooLong = {}
  Replication = 3
  SlotCount <- MCSlotCount
  CacheOn = FALSE
  EvictPct = 80
  WaitAttempts = 2
  OpKinds = {"write"}
  Thread = Thread
  MaxOps = 1
  MaxEpoch = 6
  MaxFaults = 0
  Prime = 1
  Cache = 0
  Backup = 1
INVARIANT OneTieBreakWinner
