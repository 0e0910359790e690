SPECIFICATION Spec
CONSTANTS
  Nodes = {1, 2}
  Parts <- MCParts
  IdParts <- AddressIds
  Sensors <- TwoSensors
  Values = {v1}
  NoRecord = NoRecord
  Produces <- OnlyFirst
  PeerIds = {1, 2}
  Reach <- Direct
  InitialPeers <- Mesh
  ClockMonotone = FALSE
  Lossy = FALSE
  MaxCrashes = 0
  MaxClock = 1
  MaxQueue = 1
INVARIANT QuiescentAgreement
