SPECIFICATION SuiteSpec
CONSTANTS
  e1 = e1
  e2 = e2
  Signals = {"slo", "breaker"}
  MaxHistory = 1
  LongOpen = 3
  AlertQueueSize = 1
  MaxIncidents = 3
  MaxChanges = 3
  Evaluators = {e1, e2}
  RingSize = 3
  MinSamples = 2
  MaxPushes = 4
  MaxDriftHistory = 2
  LevelValues = {99, 100, 101, 74, 75, 76, 249, 250, 251, 149, 150, 151, 499, 500, 501, 199, 200, 201, 999, 1000, 1001, 5000, 5001, 3000, 3001, 20000, 20001, 25001, 10000, 10001, 2000, 2001, 95000, 94999, 98000, 97999, 99900, 99899, 99950, 99949, 99500, 99499, 99800, 99799, 100000}
  SampleValues = {1, 15, 16, 26}
  MaxSamples = 5
  Reservoir = 3
  WindowLength = 2
  SlowLatency = 100
  MaxEvaluations = 4
  MaxProbes = 2
  MaxMinute = 3
  j1 = j1
  j2 = j2
  TrainJobs = {j1, j2}
  SampleQuorum = 1
  SampleCounts = {0, 1}
  c1 = c1
  Clerks = {c1}
  MaxFiles = 2
  MaxFlips = 1
INVARIANTS
  OperatorsInformed
  ChecksumOfOwnTraining
  

  
CHECK_DEADLOCK FALSE
