SPECIFICATION Spec
CONSTANTS
  Conns = {1}
  MaxPieces = 2
INVARIANTS TypeOK CarriedOnce HandlerConsistent
PROPERTY EndsPassedOn
