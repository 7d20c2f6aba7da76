SPECIFICATION FairSpec
CONSTANTS
  h1 = h1  h2 = h2
  None = None
  Handler = {h1, h2}
  MaxInvocations = 5
  MaxCorrections = 1
  MaxFaults = 1
INVARIANT OutcomeInv
PROPERTIES NoCallAfterAnswer CallsKept HandlerEnds
