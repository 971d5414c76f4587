SPECIFICATION FairSpec
CONSTANTS
  Nil = Nil
  MaxTie = 3
  Tie <- MCTie
  CN = {c1, c2}
  NodeCount = 2
  Keys = {0}
  Hash <- MCHash
  Values = {"a", "b"}
  TooLong = {}
  Replication = 2
  SlotCount <- MCSlotCount
  CacheOn = TRUE
  EvictPct = 80
  WaitAttempts = 2
  OpKinds = {"read", "write"}
  Thread = Thread
  MaxOps = 1
  MaxEpoch = 5
  MaxFaults = 1
  Prime = 1
  Cache = 1
  Backup = 1
INVARIANT
  EvictionReturns
PROPERTIES
  LeakIsPermanent
  CommandsReturn
