CONSTANTS
  Sessions <- MCSessions
  NoSession = NoSession
  CommandCodes <- MCCommandCodes
  MaxAuths = 2
  MaxSubmissions = 2
  MaxRuns = 3
  ReuseWhilePending = FALSE
SPECIFICATION Spec
INVARIANTS
  TypeOK
  ExclusiveInSync
  SessionsInSync
  NoStaleCommandAuth
CHECK_DEADLOCK FALSE
