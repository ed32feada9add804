SPECIFICATION FairSpec
CONSTANTS
  None = None
  Broken = Broken
  First <- Installed
  Tags <- Releases
  MaxInt = 9
  Slots = {1, 2}
PROPERTY NoRestartLoop
CHECK_DEADLOCK FALSE
