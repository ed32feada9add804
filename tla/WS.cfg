SPECIFICATION FairSpec
CONSTANTS
  NoThread = NoThread
  Writers <- TwoWriters
  Frames <- TwoAndOne
  Room = 1
  MaxPings = 1
INVARIANTS TypeOK WholeInOrder EndIsTold
PROPERTY AskedIsDone
CHECK_DEADLOCK FALSE
