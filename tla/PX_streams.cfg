CONSTANTS
  Sessions <- One
  Kinds = {"connect"}
  MaxEpochs = 1
  Room = 1
  MaxUp = 2
  MaxDown = 2
  MaxPings = 1
SPECIFICATION Spec
PROPERTIES
  ImplementsStreams
  StreamsArrive
  EndArrives
