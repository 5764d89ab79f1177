SPECIFICATION Spec
CONSTANTS
  Regs <- MC_Regs
  Puts <- MC_Puts
  Scenarios <- MC_Scenarios
  HeadLen = 1
  MapLen = 1
  Block = 3
  MaxGen = 3
  RealIntfs = 1
INVARIANTS ShmSound SavedSurvives RoundTrip LocksOwned
PROPERTIES LockReleased
CHECK_DEADLOCK FALSE
