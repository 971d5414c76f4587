SPECIFICATION Spec
CONSTANTS
  Width = 7
  HeaderBytes = 3
  SlotBytes = 4
  Kilo = 4
  Magnitudes <- MCMagnitudes
  Units = {"b"}
  ManualCounts <- MCManualCounts
  Replications = {1, 2}
  MaxMagnitude = 31
  Smallest = 2
  Largest = 2
CHECK_DEADLOCK FALSE
INVARIANT
  RegionFits
