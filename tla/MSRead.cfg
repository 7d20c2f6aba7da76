SPECIFICATION FairSpec
CONSTANTS
  p1 = p1  p2 = p2  peer = peer  a = a  aa = aa  b = b  c = c
  None = None
  Publisher = {p1}
  Peer = {peer}
  Message = {a, aa, b}
  Id <- IdOf
  Root <- OwnRoots
  Approved = {a, aa, b}
  MaxMessages = 2
  MaxFaults = 1
PROPERTIES PeerMonotone EventuallyRead
