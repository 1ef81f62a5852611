SPECIFICATION PinsSpec
CONSTANTS
  m1 = m1
  m2 = m2
  x1 = x1
  x2 = x2
  None = None
  Nodes = {m1, m2}
  Txns = {x1, x2}
  TTL = 3
INVARIANT PinLivesTwoTTL
