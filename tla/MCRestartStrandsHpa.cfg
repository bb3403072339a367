SPECIFICATION Spec
CONSTANTS
  Schedules = {"g"}
  NoOne = "nobody"
  CronJobs = {}
  Policies = {"Max", "Disabled"}
  Home <- MCNoHome
  Namespaces = {"n1"}
  Workloads = {"d"}
  NsOf <- MCOneInN1
  Excluded <- MCExcludeNone
  UserPolicy <- MCPolicyMax
  TargetSets <- MCOnlyN1
  Sizes = {0, 2}
  BatchSize = 0
  Moves = {"create", "delete", "flip"}
  FaultKinds = {"crash"}
  MaxFaults = 1
INVARIANTS
  HpaOwnerExists
CHECK_DEADLOCK FALSE
