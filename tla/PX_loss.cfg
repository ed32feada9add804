CONSTANTS
  Sessions <- One
  Kinds = {"connect", "plain"}
  MaxEpochs = 2
  Room = 1
  MaxUp = 2
  MaxDown = 1
  MaxPings = 0
SPECIFICATION Spec
INVARIANTS
  TypeOK
  NoForgottenSession
PROPERTY
  ImplementsStreams
