SPECIFICATION Spec
CONSTANTS
  Radix = 4
  SendChunk = 3
  MaxPayload = 67108864
  MaxId = 6
  Looked = 4
  IntBits = 24
  Delim <- BlankLine
  MaxBytes = 5
INVARIANTS
  BodyIsWhole
CHECK_DEADLOCK FALSE
