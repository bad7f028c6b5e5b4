SPECIFICATION Spec
CONSTANTS
  MaxJobs = 1
  MaxToggles = 2
  Operators = {o1}
  Candidates = {1}
  Baseline = Baseline
  Backup = Backup
  Stages <- MCTwoStages
  AutoApproveCanary = TRUE
  FailureWindow = 2
PROPERTIES
  
  CanaryEnds
CHECK_DEADLOCK FALSE
