CONSTANTS
  CommandCodes <- MCCommandCodes
  HandleValues <- MCHandleValues
  BufferValues <- MCBufferValues
  ParamValues <- MCParamValues
  MaxAuthsSent = 4
  MaxResponseSize = 40
SPECIFICATION Spec
INVARIANTS
  CommandRoundTrip
  ResponseRoundTrip
  DamageDetected
