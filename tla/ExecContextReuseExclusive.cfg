CONSTANTS
  Sessions <- MCSessions
  NoSession = NoSession
  CommandCodes <- MCCommandCodes
  MaxAuths = 2
  MaxSubmissions = 2
  MaxRuns = 3
  ReuseWhilePending = TRUE
SPECIFICATION Spec
INVARIANT
  HostExclusiveTracked
CHECK_DEADLOCK FALSE
