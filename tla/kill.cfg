SPECIFICATION Spec
CONSTANTS
  Campaign = {c1}
  Customer = {u1, u2}
  Exec = {e1}
  Nobody = Nobody
  GraphArmed = {}
  MaxRuns = 3
  MaxDays = 0
  StatusReadsFail = FALSE
  CallsBlur = TRUE
INVARIANT KillLeavesOne
PROPERTY SentIsFinal
