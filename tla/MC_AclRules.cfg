SPECIFICATION RulesSpec
CONSTANTS
  MAX_RULE = 3
  MAX_TUPLE = 2
  Cfg = {cfgA, cfgB, cfgC, cfgD}
  Family = {tuple4, tuple6}
  FamilyOf <- MCFamilyOf
  BucketOf <- MCBucketOf
  CNT_MAX = 2
  NONE = NONE
  Hang = Hang
  cfgA = cfgA
  cfgB = cfgB
  cfgC = cfgC
  cfgD = cfgD
  tuple4 = tuple4
  tuple6 = tuple6
INVARIANTS CountsExact MapsAgree RollBackRestores
PROPERTIES OneRuleAtATime
CHECK_DEADLOCK FALSE
