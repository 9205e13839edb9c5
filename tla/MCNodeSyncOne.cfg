CONSTANTS
  p1 = p1
  p2 = p2
  Peers = {p1}
  Sync = Sync
  MaxBlock = 6
  Heights = {0, 3, 6}
  Batch = 3
  MinPrefetch = 3
  MaxPerPeer = 2
  MaxHandle = 1
  MaxPrefetch = 1
  Refused = {}
  MaxDrops = 0
  MaxMissing = 0
  LostBy = {}
  MaxAsks = 0
SPECIFICATION FairSpec
PROPERTY CatchesUp
CHECK_DEADLOCK FALSE
