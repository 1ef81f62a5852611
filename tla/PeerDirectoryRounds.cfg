SPECIFICATION FairSpec
CONSTANTS
  p1 = p1
  Peers = {p1}
  Excluded = {}
  Tolerance = 0
  Grace = 1
  Required = 2
  SuspectAfter = 2
  DownAfter = 3
  ProbeInterval = 2
  ProbeTimeout = 1
  MaxRound = 1
  MaxSeq = 2
  MaxRestarts = 0
  MaxInFlight = 1
INVARIANT AnnouncedIsReleased
PROPERTIES DeadPeerGoesOffline SilentNodeStaysShown LaggardIsShown
