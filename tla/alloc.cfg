SPECIFICATION Spec
CONSTANTS
  Width = 7
  HeaderBytes = 3
  SlotBytes = 4
  Kilo = 4
  Magnitudes <- MCMagnitudes
  Units = {"b", "kb", "gb"}
  ManualCounts <- MCManualCounts
  Replications = {0, 2}
  MaxMagnitude = 63
  Smallest = 4
  Largest = 0
CHECK_DEADLOCK FALSE
INVARIANTS
  RegionFits
  FairShares
