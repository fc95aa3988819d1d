SPECIFICATION FairSpec
CONSTANTS
  Batch = {b1}
  Size = 2
  Nobody = Nobody
  Stopper = Stopper
  MaxCrashes = 1
  IdleStops = FALSE
INVARIANT StopLeavesOne SentIsTrue SentIsWhole
PROPERTY PromiseKept NothingOverObjection SilenceIsInformed EveryHoldEnds
CHECK_DEADLOCK FALSE
