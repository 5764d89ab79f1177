SPECIFICATION Spec
CONSTANTS
  Workers = {1, 2}
  Intf <- MCIntf
  Buffers = {1, 2, 3, 4, 5, 6, 7, 8, 9, 10, 11, 12, 13, 14, 15, 16, 17, 18, 19, 20}
  Blocks = 5
  Arrivals <- MCArrivals
  RxIntf <- MCRxIntf
  Hash <- MCHash
  VLIB_FRAME_SIZE = 9
  VLIB_BUFFER_DATA_SIZE = 20
  HUGE_PKT_MAX_DATA_SIZE = 60
  HUFEPKT_MAX_SUB_BUFFER_CNT = 3
  Chunk = 4
  QueueLen = 1
  TxQueues = 1
  MaxSwitches = 1
INVARIANTS Conserved SentSound QueuesSound CountsBalance
CHECK_DEADLOCK FALSE
