CONSTANTS
  Depth = 2
  Packets = 4
  Attempts = 3
  InOrder = FALSE
SPECIFICATION Spec
INVARIANTS SnapshotConsistent
