CONSTANTS
  p1 = p1
  p2 = p2
  Peers = {p1, p2}
  Sync = Sync
  MaxBlock = 2
  Heights = {1}
  Batch = 3
  MinPrefetch = 3
  MaxPerPeer = 1
  MaxHandle = 1
  MaxPrefetch = 1
  Refused = {2}
  MaxDrops = 1
  MaxMissing = 1
  LostBy = {"message_hash"}
  MaxAsks = 1
SPECIFICATION Spec
INVARIANTS SyncInOrder RequestsAreOpen HonestNotBlamed SuspensionEnds
CHECK_DEADLOCK FALSE
