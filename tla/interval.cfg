SPECIFICATION Spec
CONSTANTS
  Campaign = {c1, c2}
  Customer = {u1}
  Exec = {e1}
  Nobody = Nobody
  GraphArmed = {}
  MaxRuns = 2
  MaxDays = 1
  StatusReadsFail = FALSE
  CallsBlur = TRUE
SYMMETRY FanoutSymmetry
INVARIANT OncePerInterval
