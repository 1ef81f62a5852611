SPECIFICATION FairSpec
CONSTANTS
  w1 = w1
  w2 = w2
  n1 = n1
  e1 = e1
  f1 = f1
  f2 = f2
  None = None
  Waiters = {w1, w2}
  Mesh = {n1}
  Externals = {e1}
  Fetches = {f1, f2}
  MaxRound = 1
  HealthCheck = 0
  Debounce = 1
INVARIANTS StatusIsPast WorkIsShared NobodySleepsInVain
PROPERTY PassedWaitsEnd
