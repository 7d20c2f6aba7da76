SPECIFICATION Spec
CONSTANTS
  p1 = p1  p2 = p2  p3 = p3
  None = None
  Torn = Torn
  Preparer = {p1, p2, p3}
  MaxIntrusions = 3
  MaxFaults = 2
INVARIANTS PreparedInv HandleGood
PROPERTY NothingLost
CHECK_DEADLOCK FALSE
SYMMETRY PreparerSymmetry
