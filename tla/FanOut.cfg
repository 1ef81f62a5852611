SPECIFICATION FairSpec
CONSTANTS
  m1 = m1
  m2 = m2
  e1 = e1
  h1 = h1
  x1 = x1
  None = None
  Mesh = {m1, m2}
  Externals = {e1}
  Nodes <- MCNodes
  Handlers = {h1}
  Txns = {x1}
  TTL = 2
  Selections <- MCSelections
  Odd = {}
PROPERTIES PinsNameHolders RejectionHidesNothing NotFoundIsEverywhere LeftoversAreNotBooked PinsKeepTheirPromise TransactionsEnd
