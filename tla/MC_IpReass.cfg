CONSTANTS
  NumWorkers = 2
  Pkt <- MCPkt
  PktKey <- MCKey
  PktOff <- MCOff
  PktSize <- MCSize
  UINT16 = 8
  PktLast <- MCLast
  PktDeep <- MCDeep
  BucketOf <- MCBucket
  WorkerOf <- MCWorker
  Handoff = TRUE
  Node = {n1, n2}
  Info = {t1, t2}
  NULL = NULL
  MAX_CACHE_PKTS = 2
  MAX_DATA_SIZE = 3
SPECIFICATION FairSpec
INVARIANTS FragmentsAccounted WholeMeansComplete TimeoutSafe
PROPERTIES CachedIsSent
CHECK_DEADLOCK FALSE
