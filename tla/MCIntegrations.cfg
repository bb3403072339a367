SPECIFICATION FairSpec
CONSTANTS
  night = night  weekend = weekend  own = own  db = db cache = cache podset = podset app = app flux = flux web = web api = api  jobs = jobs
  Schedules = {night, weekend, own}
  NoOne = NoOne
  Local = {own}
  CronJobs = {}
  Policies = {}
  Workloads = {web, api, jobs}
  CRs = {db, cache}
  Rebuilt = {podset}
  Argo = {app}
  Flux = {flux}
  Scopes <- MCScopes
  Entries <- MCEntries
  Documents <- MCDocuments
  Convention <- MCConvention
  Steady = TRUE
  Size = 1
  BatchSize = 1
  Moves = {"delete", "rewrite", "freeze"}
  FaultKinds <- MCFaults
  MaxFaults = 1
INVARIANTS TypeOK OriginalsKept HeldWhileDown UserSuspensionKept
PROPERTIES DependenciesFirst GateHonest OnlyOwnerReleases CleanupLeavesNothing PausedFirst NightCompletes
