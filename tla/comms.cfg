SPECIFICATION FairSpec
CONSTANTS
  Ask = {a1}
  Task = {t1}
  Push = {p1}
  Turn = {m1}
  Tail = Tail
  Reaper = Reaper
  Settler = {Tail, Reaper}
  Sweep = Sweep
  Nobody = Nobody
  MaxNews = 2
  MaxRows = 3
  MaxFaults = 1
CHECK_DEADLOCK FALSE
INVARIANTS
  ToldOnce
  OneDeferral
PROPERTY EveryItemEnds
