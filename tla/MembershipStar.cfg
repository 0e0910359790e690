SPECIFICATION Spec
CONSTANTS
  Nodes = {1, 2, 3}
  Bootstrap <- Star
  BindAll = {}
  Producers = {}
  MaxBusy = 1
  CrashProne = {1}
  MaxCrashes = 1
  NoWorker = NoWorker
  Unreachable = Unreachable
  Nobody = Nobody
INVARIANTS GossipCloses Reintegrates
CHECK_DEADLOCK FALSE
