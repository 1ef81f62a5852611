SPECIFICATION FairSpec
CONSTANTS
  n1 = n1
  n2 = n2
  a1 = a1
  a2 = a2
  None = None
  Agents = {n1, n2}
  Addresses = {a1, a2}
  NoLocals <- MCNoLocals
  Records <- MCRecords
  FirstRecord <- MCFirstRecord
  Rtt <- MCRtt
  Stale = 3
  SuspectAfter = 3
  PathTimeout = 1
  PathProbeInterval = 5
  PathFailures = 2
  MaxChanges = 1
  MaxDelay = 1
  MaxLate = 1
PROPERTIES DeafAfterThree LinkHeals LinkHolds
