SPECIFICATION FairSpec
CONSTANTS
  Task = {t1, t2}
  MaxPlan = 1
  MaxSteps = 2
  MaxCycles = 1
  MaxRevisions = 1
  MaxVerify = 1
  MaxAttempts = 2
  MaxCrashes = 0
  MaxRedrives = 0
  MaxSweeps = 0
INVARIANT OneActiveUnlessForced OpenApprovalHasConsumer
PROPERTY QueueMoves
