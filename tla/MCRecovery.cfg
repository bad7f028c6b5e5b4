SPECIFICATION RecoverySpec
CONSTANTS
  MaxJobs = 1
  MaxRollouts = 1
  Switches = {"MAINTENANCE"}
  MaxToggles = 1
  MaxRequests = 1
  MaxFaults = 2
  Candidates = {1}
  Baseline = Baseline
  Backup = Backup
INVARIANTS
  DiskCurrent
  RecoverySound
  ProductionDurable
PROPERTIES
  FileSettles
CHECK_DEADLOCK FALSE
