CONSTANTS
  Depth = 2
  Packets = 4
  Attempts = 3
  InOrder = TRUE
SPECIFICATION ReaderSpec
INVARIANTS SnapshotAnnounced
PROPERTIES CallsReturn
