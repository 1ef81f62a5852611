SPECIFICATION Spec
CONSTANTS
  m1 = m1
  m2 = m2
  e1 = e1
  e2 = e2
  r1 = r1
  r2 = r2
  Requests = {r1}
  Kinds = {"plain"}
  Mesh = {m1}
  Externals = {}
  RetryBudget <- NoBudget
  Threshold = 2
  OpenFor = 1
  BusyFor = 1
  MaxAborts = 1
SYMMETRY Symmetric
INVARIANT InflightIsLoad

