SPECIFICATION FairSpec
CONSTANTS
  Nodes = {1, 2}
  Parts <- MCParts
  IdParts <- PlainIds
  Sensors <- OneSensor
  Values = {v1}
  NoRecord = NoRecord
  Produces <- Colliding
  PeerIds = {1, 2}
  Reach <- Direct
  InitialPeers <- Mesh
  ClockMonotone = FALSE
  Lossy = FALSE
  MaxCrashes = 0
  MaxClock = 1
  MaxQueue = 1
INVARIANTS TypeOK PendingIsCurrent NoReadingLost QuiescentAgreement
PROPERTY Convergence
