SPECIFICATION Spec
CONSTANTS
  Nodes = {1, 2}
  Bootstrap <- Pair
  BindAll = {1, 2}
  Producers = {1, 2}
  MaxBusy = 8
  CrashProne = {}
  MaxCrashes = 0
  NoWorker = NoWorker
  Unreachable = Unreachable
  Nobody = Nobody
INVARIANT ConnectsToPeer
CHECK_DEADLOCK FALSE
