SPECIFICATION Spec
CONSTANTS
  Workers = {1, 2}
  Interfaces = {1, 2, 3}
  MAX_INTERFACE_CNT = 4
  MAX_ACTION_NUM = 2
  MAX_LOAD_BALANCE_NODE = 3
  Scenarios <- MCScenarios
  INT_RANGE = 16
  Pieces <- MCPieces
  Addressed <- MCAddressed
INVARIANTS RequestsSound EncapSound PickSound WeightsSound
CHECK_DEADLOCK FALSE
