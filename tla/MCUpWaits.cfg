SPECIFICATION Spec
CONSTANTS
  Schedules = {"s", "other"}
  Self = "s"
  NoOne = "nobody"
  CronJobs = {}
  Policies = {}
  Workloads = {"db", "api"}
  WaveOf <- MCWaveOf
  Rank <- MCRank
  Origins <- MCRunning
  BatchSize = 0
  WaveTimeout = 2
  FaultKinds = {}
  MaxFaults = 0
PROPERTIES
  UpWaitsForPods
