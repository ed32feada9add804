SPECIFICATION Spec
CONSTANTS
  Sessions = {1}
  MaxSessions = 1
  MaxConnects = 2
  MayStop = TRUE
INVARIANTS TypeOK LossHandledOnce SessionsAccounted
PROPERTY Recovers
CHECK_DEADLOCK FALSE
