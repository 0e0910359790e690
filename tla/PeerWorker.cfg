SPECIFICATION FairSpec
CONSTANTS
  MaxFrames = 3
  MaxConns = 3
  MaxFailures = 2
  BackoffMax = 3
  Linear = FALSE
INVARIANTS TypeOK NoSocketLeak NothingMissing WiresOrdered
PROPERTIES ImplementsLink StopCompletes QueueDrains
CHECK_DEADLOCK FALSE
