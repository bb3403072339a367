SPECIFICATION FairSpec
CONSTANTS
  Schedules = {"g"}
  NoOne = "nobody"
  CronJobs = {}
  Policies = {"Max", "Disabled"}
  Home <- MCNoHome
  Namespaces = {"n1"}
  Workloads = {"d"}
  NsOf <- MCOneInN1
  Excluded <- MCExcludeNone
  UserPolicy <- MCPolicyMax
  TargetSets <- MCOnlyN1
  Sizes = {0, 2}
  BatchSize = 0
  Moves = {"create", "delete", "flip"}
  FaultKinds = {"discover"}
  MaxFaults = 1
PROPERTIES
  DeletionRestores
CHECK_DEADLOCK FALSE
