SPECIFICATION FairSpec
CONSTANTS
  Schedules = {"s", "other"}
  Self = "s"
  NoOne = "nobody"
  CronJobs = {"cron"}
  Policies = {}
  Workloads = {"db", "cron", "api"}
  WaveOf <- MCWaveOf
  Rank <- MCRank
  Origins <- MCOrigins
  BatchSize = 1
  WaveTimeout = 1
  FaultKinds = {"list", "status", "crash"}
  MaxFaults = 1
INVARIANTS
  TypeOK
PROPERTIES
  DownInOrder
  UpAskedInOrder
  ProgressMonotonic
  HeldByOwnPods
  DownReachesLastWave
  UpReachesLastWave
