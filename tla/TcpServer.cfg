SPECIFICATION FairSpec
CONSTANTS
  Conns = {c1, c2}
  NoConn = NoConn
  Frames <- MCFrames
  MaxFrameSize = 1
  Ids = {"n1", "n2"}
  Raises = Raises
  Ignored = Ignored
  MaxFrames = 2
  MaxStarts = 2
INVARIANTS TypeOK NothingLeft JoinsStarted SentIsHandled
PROPERTIES StaleNeverDispatch StopReturns Served
CHECK_DEADLOCK FALSE
