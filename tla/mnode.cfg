SPECIFICATION FairSpec
CONSTANTS
  Nil = Nil
  Thread = Thread
  CN = {c1}
  OpKinds = {"cas", "read", "write", "evict"}
  MaxWord = 2
  MaxOps = 1
  MaxFaults = 1
CHECK_DEADLOCK FALSE
INVARIANTS
  EvictorSafe
  OneRequestAfterStop
PROPERTIES
  ImplementsCas
  DeathKillsInTransferOnly
  RequestsReturn
  WorkersEnd
  StopEnds
