CONSTANTS
  kLine = 4
  kLinesPerPage = 3
  kPages = 3
  Lines = 4
  kReps = 2
  kMaxThreads = 3
  kIters = 4
  MaxCalls = 2
  kWorkers = 3
  kBatches = 2
  kTouchesPerBatch = 3
  MaxPages = 2
  ChurnPages = 2
  kWords = 2
  kReads = 3
  MaxUpdates = 3
SPECIFICATION FairSpec
INVARIANTS WalksTrue NothingLostOrTorn WorkersRunInFull
PROPERTIES DisruptorStops
