SPECIFICATION FairSpec
CONSTANTS
  Charge = {c1}
  Capture = {p1}
  Failure = {f1}
  Cancellation = {x1}
  Token = {t1, t2}
  Sub = {s1, s2}
  Nobody = Nobody
  Sweep = Sweep
  Threshold = 2
  MaxFaults = 1
INVARIANT OneSubscription MirrorIsLatest LinkIsTrue
PROPERTY FeesOnce CancelledStands TrialsEnd
