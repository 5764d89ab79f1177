CONSTANTS
  NumWorkers = 2
  LocalCacheSize = 2
  FillFreeSize = 2
  InitPerWorker = 2
  IncMax = 1
SPECIFICATION Spec
INVARIANTS CachesSound NodesAccounted
PROPERTIES FailsOnlyWhenEmpty
