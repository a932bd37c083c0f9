CONSTANTS
  N = 3
  MaxCalls = 3
  CtorUsesPool = TRUE
SPECIFICATION Spec
INVARIANTS RecycleFindsObject
CHECK_DEADLOCK FALSE
