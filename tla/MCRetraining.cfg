SPECIFICATION Spec
CONSTANTS
  MaxJobs = 2
  MaxToggles = 0
  Operators = {o1}
  Candidates = {1, 2}
  Baseline = Baseline
  Backup = Backup
  Stages <- MCOneStage
  AutoApproveCanary = FALSE
  FailureWindow = 1
INVARIANTS
  ActiveIsProduction
PROPERTIES
  InFlightEnds
CHECK_DEADLOCK FALSE
