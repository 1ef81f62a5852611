SPECIFICATION FairSpec
CONSTANTS
  c1 = c1
  c2 = c2
  t1 = t1
  t2 = t2
  Clients = {c1, c2}
  Anonymous = {c1, c2}
  Overflow = Overflow
  MaxKeys = 1
  Windows <- MCWindows
  Capacity <- MCCapacity
  Rate <- MCRate
  BaseCosts = {2}
  DefaultWeight = 1
  SimRate = 2
  Efforts = {1}
  MaxEffort = 1
  Tickets = {t1, t2}
  MaxNow = 1
  MaxStops = 1
INVARIANTS NoFreeCredits ToldIsBilled AccountsAgree
PROPERTY OverdrawnIsCut
