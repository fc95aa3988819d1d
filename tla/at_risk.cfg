SPECIFICATION Spec
CONSTANTS
  Charge = {}
  Capture = {p1}
  Failure = {f1, f2, f3}
  Cancellation = {}
  Token = {t1}
  Sub = {s1}
  Nobody = Nobody
  Sweep = Sweep
  Threshold = 3
  MaxFaults = 0
PROPERTY ThirdFailureBites
CHECK_DEADLOCK FALSE
