CONSTANTS
  Timer = {a, b}
  MAX_TICKS = 4
  SLOT_CNT = 1
  Ticks = {2, 4, 5}
  Unit = 2
  StopDelay = 4
  MaxNow = 12
SPECIFICATION FairSpec
INVARIANTS StopInTime OnTime
PROPERTIES AllFire
CHECK_DEADLOCK FALSE
