SPECIFICATION Spec
CONSTANTS
  Campaign = {c1}
  Customer = {u1, u2}
  Exec = {e1, e2}
  Nobody = Nobody
  GraphArmed = {c1}
  MaxRuns = 2
  MaxDays = 1
  StatusReadsFail = TRUE
  CallsBlur = TRUE
SYMMETRY FanoutSymmetry
INVARIANT OncePerPair RefusalHonoured
PROPERTY PromiseKept
