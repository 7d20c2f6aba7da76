SPECIFICATION CallsSpec
CONSTANTS
  p1 = p1  p2 = p2  peer = peer  a = a  aa = aa  b = b  c = c
  None = None
  Publisher = {p1, p2}
  Peer = {}
  Message = {a, aa, b, c}
  Id <- IdOf
  Root <- OwnRoots
  Approved = {a, aa, b, c}
  MaxMessages = 1
  MaxFaults = 1
INVARIANTS HistorySafe OwnPublication HistoryCapped
PROPERTY LogKept
SYMMETRY HistorySymmetry
