SPECIFICATION Spec
CONSTANTS
  Nil = Nil
  MaxTie = 3
  Tie <- MCTie
  CN = {c1, c2}
  NodeCount = 4
  Keys = {0}
  Hash <- MCHash
  Values = {"a", "b"}
  TooLong = {}
  Replication = 4
  SlotCount <- MCSlotCount
  CacheOn = FALSE
  EvictPct = 80
  WaitAttempts = 2
  OpKinds = {"write"}
  Thread = Thread
  MaxOps = 2
  MaxEpoch = 5
  MaxFaults = 0
  Prime = 1
  Cache = 0
  Backup = 1
SYMMETRY Symmetry
INVARIANTS
  TypeOK
  OneCommitPerEpoch
  VisibleAtMostOneAhead
PROPERTY
  PrimeEpochStep
