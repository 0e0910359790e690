SPECIFICATION Spec
CONSTANTS
  Nodes = {1, 2}
  Bootstrap <- Star
  BindAll = {}
  Producers = {}
  MaxBusy = 8
  CrashProne = {2}
  MaxCrashes = 1
  NoWorker = NoWorker
  Unreachable = Unreachable
  Nobody = Nobody
INVARIANT Reintegrates
CHECK_DEADLOCK FALSE
