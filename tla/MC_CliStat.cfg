SPECIFICATION Spec
CONSTANTS
  NThreads = 2
  MaxIntf = 2
  PortCounts = {0, 1, 2}
  NWorkers = 2
  HitMod = 16
  Ports = {1001, 1002}
  RetryTime = 2
  Scenarios <- MC_Scenarios
INVARIANTS AnswerIsMine HitsSound IntfStatSound
PROPERTIES RequestsTaken
CHECK_DEADLOCK FALSE
