CONSTANTS
  N = 2
  NumConsumers = 2
  Total = 5
  Chained = TRUE
SPECIFICATION FairSpec
INVARIANTS NoDataRace ChainOrder NoStandstill
PROPERTIES LogSpec AllConsumed
