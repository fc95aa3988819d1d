SPECIFICATION FairSpec
CONSTANTS
  Item = {}
  Campaign = {s1}
  Msg = {m1, m2}
  Sweeper = Sweeper
  Nobody = Nobody
  MaxDrafts = 2
  MaxAsks = 2
  MaxCrashes = 1
CHECK_DEADLOCK FALSE
PROPERTIES ConsentKept
