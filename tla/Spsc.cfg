CONSTANTS
  N = 4
  SeqCst = FALSE
  Cached = TRUE
  Rounds = 2
  Items <- MCItems
SPECIFICATION FairSpec
INVARIANTS IInv NoDataRace NeverOverfull NeverUnderrun
PROPERTIES FifoSpec AllDelivered
