SPECIFICATION FairSpec
CONSTANTS
  NumWorkers = 2
  NumSlots = 2
  MaxVal = 1
  c1 = c1
  c2 = c2
  Ctx <- MCCtx
  NULL = NULL
  Idle = Idle
  TimesMod = 2
  LoadsOnce = TRUE
  MaxUploads = 1
  MaxCrashes = 1
INVARIANTS FlagSound TablesSafe
PROPERTIES AtomicTable SyncSettles SyncOkMeansInstalled
