SPECIFICATION FairSpec
CONSTANTS
  None = None
  Broken = Broken
  First <- Installed
  Tags <- Releases
  MaxInt = 9
  Slots = {1, 2}
INVARIANTS TypeOK FileWhole
PROPERTY UpdateEnds
CHECK_DEADLOCK FALSE
