SPECIFICATION FairSpec
CONSTANTS
  Envs <- MCEnvs
  Addresses <- MCAddresses
  Strangers = {s1}
  NoPeer = NoPeer
  Junk = Junk
  Blank = Blank
  Raises = Raises
INVARIANTS TypeOK SilentAfterExit DistinctSensors
PROPERTIES CleanUpEnds PeersServed
CHECK_DEADLOCK FALSE
