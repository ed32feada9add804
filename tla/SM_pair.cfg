CONSTANTS
  Ids <- TwoIds
  MaxSessions = 1
  ReapThreshold = 1
  MaxReads = 0
  MaxRefused = 0
SPECIFICATION Spec
INVARIANTS
  TypeOK
  SessionLimit
  NoOrphanSocket
  SoleCloser
  OneCloseNotice
  StopReleasesAll
