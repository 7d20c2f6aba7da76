SPECIFICATION StatusSpec
CONSTANTS
  w1 = w1  w2 = w2  w3 = w3  Nobody = Nobody
  Tick = {w1, w2, w3}
INVARIANT NoLeftover
PROPERTY OwnStatus
SYMMETRY TickSymmetry
