SPECIFICATION FairSpec
CONSTANTS
  Nodes = {1, 2}
  Bases = {1, 2}
  Parts = {"a", "b", "t"}
  IdParts <- MCIdParts
  Sensors <- MCSensors
  Values = {"v"}
  MaxClock = 2
  NoRecord = NoRecord
  Readings <- MCReadings
  Polls = {1, 2}
  Awaited = Awaited
  Failed = Failed
  LogMax = 2
  MaxLosses = 1
  MaxSwitches = 1
INVARIANTS TypeOK LogConsistent ReadingsReachLog
PROPERTIES UiCatchesUp
