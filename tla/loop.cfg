SPECIFICATION Spec
CONSTANTS
  Task = {t1}
  MaxPlan = 2
  MaxSteps = 3
  MaxCycles = 3
  MaxRevisions = 1
  MaxVerify = 1
  MaxAttempts = 2
  MaxCrashes = 0
  MaxRedrives = 1
  MaxSweeps = 2
INVARIANT TypeOK NoSuccessAfterRefusal OneStory InOrder EndedBlockHasRetry
PROPERTY ClosedStays
