SPECIFICATION Spec
CONSTANTS
  Nodes = {1, 2}
  Parts <- MCParts
  IdParts <- PlainIds
  Sensors <- OneSensor
  Values = {v1, v2}
  NoRecord = NoRecord
  Produces <- OneProducer
  PeerIds <- MCPeerIds
  Reach <- MCReach
  InitialPeers <- Seeded
  ClockMonotone = TRUE
  Lossy = TRUE
  MaxCrashes = 1
  MaxClock = 1
  MaxQueue = 2
INVARIANTS SameStampSameRecord NoReadingLost QuiescentAgreement
PROPERTY ImplementsStore
SYMMETRY ValueSymmetry
