SPECIFICATION Spec
CONSTANTS
  h1 = h1  h2 = h2
  None = None
  Handler = {h1}
  MaxInvocations = 5
  MaxCorrections = 1
  MaxFaults = 0
INVARIANT FailedNotPromoted
