SPECIFICATION FairSpec
CONSTANTS
  Schedules = {"g"}
  NoOne = "nobody"
  CronJobs = {"c"}
  Policies = {"Max", "Disabled"}
  Home <- MCNoHome
  Namespaces = {"n1", "n2"}
  Workloads = {"d", "c", "e"}
  NsOf <- MCThreeInTwo
  Excluded <- MCExcludeNone
  UserPolicy <- MCPolicyMax
  TargetSets <- MCWithOrWithoutN2
  Sizes = {0, 1}
  BatchSize = 0
  Moves = {"create", "flip"}
  FaultKinds = {"scale"}
  MaxFaults = 1
PROPERTIES
  UpReached
CHECK_DEADLOCK FALSE
