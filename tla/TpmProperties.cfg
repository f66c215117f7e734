CONSTANTS
  Values <- MCValues
  MaxCalls = 3
SPECIFICATION Spec
INVARIANTS
  LimitCached
  LimitsReported
CHECK_DEADLOCK FALSE
