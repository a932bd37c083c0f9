CONSTANTS
  Threads = {t1, t2}
  NoThread = NoThread
  Depth = 2
  Packets = 3
  Others = 1
  First = 2
  Setups <- MCSetups
SPECIFICATION FairSpec
INVARIANTS HeardInOrder
PROPERTIES FeedSpec CallsReturn ReentryHangsAll
CHECK_DEADLOCK FALSE
