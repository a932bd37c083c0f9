CONSTANTS
  N = 2
  NumConsumers = 2
  Total = 5
  Chained = FALSE
SPECIFICATION FairSpec
INVARIANTS IInv NeverLapped StaleGateIsSafe
PROPERTIES AllConsumed
