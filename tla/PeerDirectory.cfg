SPECIFICATION DeliverySpec
CONSTANTS
  p1 = p1
  Peers = {p1}
  Excluded = {}
  Tolerance = 0
  Grace = 1
  Required = 2
  SuspectAfter = 3
  DownAfter = 6
  ProbeInterval = 2
  ProbeTimeout = 1
  MaxRound = 0
  MaxSeq = 2
  MaxRestarts = 1
  MaxInFlight = 2
PROPERTIES HeartbeatsMoveForward RestartedPeerIsHeard
