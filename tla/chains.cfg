SPECIFICATION Spec
CONSTANTS
  Nil = Nil
  MaxTie = 3
  Tie <- MCTie
  CN = {c1, c2}
  NodeCount = 1
  Keys = {0, 1, 3}
  Hash <- MCHash
  Values = {"a"}
  TooLong = {}
  Replication = 1
  SlotCount <- MCSlotCount
  CacheOn = TRUE
  EvictPct = 80
  WaitAttempts = 2
  OpKinds = {"write", "delete"}
  Thread = Thread
  MaxOps = 2
  MaxEpoch = 5
  MaxFaults = 1
  Prime = 3
  Cache = 0
  Backup = 0
SYMMETRY Symmetry
INVARIANT
  ProbeChainIntact
PROPERTY
  LeakIsPermanent
