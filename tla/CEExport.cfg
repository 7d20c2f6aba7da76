SPECIFICATION Spec
CONSTANTS
  c1 = c1  c2 = c2  r1 = r1  r2 = r2
  None = None
  Command = {c1, c2}
  Request = {r1, r2}
  MaxCalls = 3
  MaxFaults = 1
  MaxIntrusions = 1
INVARIANTS CommandInv ResultTruthful ExportedThere OwnWork
SYMMETRY Symmetry
CHECK_DEADLOCK FALSE
