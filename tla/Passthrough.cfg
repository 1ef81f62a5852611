SPECIFICATION FairSpec
CONSTANTS
  l1 = l1
  l2 = l2
  c1 = c1
  c2 = c2
  c3 = c3
  Listeners = {l1, l2}
  Conns = {c1, c2, c3}
INVARIANT ShutdownIsClean
PROPERTIES ShutdownReturns OneFailureStopsServe
