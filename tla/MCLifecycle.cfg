SPECIFICATION FairSpec
CONSTANTS
  Schedules = {"g"}
  NoOne = "nobody"
  CronJobs = {"c"}
  Policies = {"Max", "Disabled"}
  Home <- MCNoHome
  Namespaces = {"n1", "n2"}
  Workloads = {"d", "c", "e"}
  NsOf <- MCThreeInTwo
  Excluded <- MCExcludeNone
  UserPolicy <- MCPolicyMax
  TargetSets <- MCWithOrWithoutN2
  Sizes = {0, 1}
  BatchSize = 1
  Moves = {"create", "delete", "flip", "suspend", "retarget"}
  FaultKinds = {"list", "cleanup", "status", "crash"}
  MaxFaults = 2
INVARIANTS
  TypeOK
  ZeroIsGuarded
PROPERTIES
  DeletionRestores
  DeletionCompletes
  DownReached
  UpReached
  HpaReturned
  OrphansReleased
CHECK_DEADLOCK FALSE
