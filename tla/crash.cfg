SPECIFICATION FairSpec
CONSTANTS
  Task = {t1}
  MaxPlan = 1
  MaxSteps = 2
  MaxCycles = 2
  MaxRevisions = 0
  MaxVerify = 1
  MaxAttempts = 1
  MaxCrashes = 2
  MaxRedrives = 0
  MaxSweeps = 1
INVARIANT SendOnlyIfApproved AtMostOneCampaignSent
PROPERTY WorkflowEnds
