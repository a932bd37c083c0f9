CONSTANTS
  N = 3
  MaxCalls = 3
SPECIFICATION BothSpec
INVARIANTS IInv SameSlots
PROPERTIES PoolSpec OptionalIsPool
