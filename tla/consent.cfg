SPECIFICATION FairSpec
CONSTANTS
  Item = {i1}
  Campaign = {}
  Msg = {m1}
  Sweeper = Sweeper
  Nobody = Nobody
  MaxDrafts = 1
  MaxAsks = 2
  MaxCrashes = 1
CHECK_DEADLOCK FALSE
INVARIANTS ConsentIsTimely
PROPERTIES ConsentKept EveryAskEnds NoBatchForgotten YesIsActedOn
