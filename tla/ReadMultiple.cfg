CONSTANTS
  Sessions <- MCSessions
  PolicySessions <- MCPolicySessions
  NVData <- MCNVData
  MaxSizes <- MCMaxSizes
  MaxCalls = 3
  MaxCommands = 4
SPECIFICATION Spec
INVARIANTS TypeOK ReadCorrect PolicySingleCommand
PROPERTIES AtomicReadSpec ReadNeverRewinds
CHECK_DEADLOCK FALSE
