SPECIFICATION Spec
CONSTANTS
  Schedules = {"g", "l"}
  NoOne = "nobody"
  CronJobs = {}
  Policies = {"Max", "Disabled"}
  Home <- MCHomeOfL
  Namespaces = {"n1"}
  Workloads = {"d"}
  NsOf <- MCOneInN1
  Excluded <- MCExcludeNone
  UserPolicy <- MCPolicyMax
  TargetSets <- MCOnlyN1
  Sizes = {0, 2}
  BatchSize = 0
  Moves = {"create", "flip"}
  FaultKinds = {}
  MaxFaults = 0
INVARIANTS
  LocalWins
CHECK_DEADLOCK FALSE
