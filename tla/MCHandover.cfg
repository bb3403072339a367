SPECIFICATION Spec
CONSTANTS
  Schedules = {"g", "l"}
  NoOne = "nobody"
  CronJobs = {}
  Policies = {"Max", "Disabled"}
  Home <- MCHomeOfL
  Namespaces = {"n1"}
  Workloads = {"d"}
  NsOf <- MCOneInN1
  Excluded <- MCExcludeNone
  UserPolicy <- MCPolicyMax
  TargetSets <- MCN1OrNothing
  Sizes = {0, 2}
  BatchSize = 0
  Moves = {"create", "delete", "flip", "edit", "suspend", "retarget"}
  FaultKinds = {"discover", "list", "list hpas", "transfer", "hpa", "scale", "release", "cleanup", "status", "crash"}
  MaxFaults = 1
INVARIANTS
  CountPreserved
  HpaRecoverable
PROPERTIES
  Implements
CHECK_DEADLOCK FALSE
