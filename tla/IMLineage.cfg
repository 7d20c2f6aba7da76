SPECIFICATION Spec
CONSTANTS
  c1 = c1  c2 = c2  o1 = o1  outsider = outsider
  None = None
  Checkout = {c1, c2}
  Operation = {o1}
  Outsider = outsider
  Calls <- CallsOf
  MaxCommits <- CommitsOf
  MaxIntrusions = 1
  MaxReplaced = 1
INVARIANTS VerifiedStands RecoveryInv
PROPERTIES ForeignKept LineageKept
