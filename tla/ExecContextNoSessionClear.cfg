CONSTANTS
  Sessions <- MCSessions
  NoSession = NoSession
  CommandCodes <- MCCommandCodes
  MaxAuths = 2
  MaxSubmissions = 2
  MaxRuns = 3
  ReuseWhilePending = FALSE
SPECIFICATION Spec
PROPERTY
  NoSessionCommandClearsExclusive
CHECK_DEADLOCK FALSE
