CONSTANTS
  Values <- MCValues
  MaxCalls = 2
  Sessions <- MCSessions
  PolicySessions <- MCPolicySessions
  NVData <- MCNVData
  MaxReads = 2
  MaxCommands = 4
SPECIFICATION Spec
INVARIANT ChunkSizeNonZero
PROPERTY Termination
CHECK_DEADLOCK FALSE
