SPECIFICATION RecoverySpec
CONSTANTS
  MaxJobs = 1
  MaxRollouts = 1
  Switches = {"MAINTENANCE"}
  MaxToggles = 1
  MaxRequests = 0
  MaxFaults = 1
  Candidates = {1}
  Baseline = Baseline
  Backup = Backup
INVARIANTS
  RecoveredCandidatePromotes
CHECK_DEADLOCK FALSE
