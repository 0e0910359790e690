SPECIFICATION FairSpec
CONSTANTS
  Nodes = {1, 2}
  Bootstrap <- Pair
  BindAll = {}
  Producers = {1, 2}
  MaxBusy = 8
  CrashProne = {}
  MaxCrashes = 0
  NoWorker = NoWorker
  Unreachable = Unreachable
  Nobody = Nobody
INVARIANTS TypeOK WiredOrPending GossipCloses
PROPERTY GossipSettles
CHECK_DEADLOCK FALSE
