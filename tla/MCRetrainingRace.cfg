SPECIFICATION Spec
CONSTANTS
  o1 = o1
  o2 = o2
  MaxJobs = 2
  MaxToggles = 0
  Operators = {o1, o2}
  Candidates = {1}
  Baseline = Baseline
  Backup = Backup
  Stages <- MCOneStage
  AutoApproveCanary = FALSE
  FailureWindow = 1
INVARIANTS
  SlotAgreement
  NoOrphanTraffic
PROPERTIES
  SlotSpec
SYMMETRY MCSymmetry
CHECK_DEADLOCK FALSE
