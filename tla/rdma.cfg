SPECIFICATION Spec
CONSTANTS
  Nil = Nil
  None = None
  Callers = {c1, c2}
  Words = {0, 1, 2, 3}
  MaxTie = 5
  Tie <- MCTie
  Key = 1
  Hash = 1
  Values = {"a"}
  OpKinds = {"read", "write", "delete"}
  Units <- MCUnits
  MaxOps = 2
  MaxFaults = 1
SYMMETRY MCSymmetry
CHECK_DEADLOCK FALSE
INVARIANTS
  AuthenticValue
  LoneWritesDecode
  WinnersDiffer
