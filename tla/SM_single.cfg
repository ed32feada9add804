CONSTANTS
  Ids <- OneId
  MaxSessions = 1
  ReapThreshold = 1
  MaxReads = 2
  MaxRefused = 1
SPECIFICATION Spec
PROPERTIES
  ImplementsContract
  StopTerminates
  SessionsServed
