SPECIFICATION Spec
CONSTANTS
  None = None
  MaxTurns = 2
  MaxPieces = 2
  MaxRefetches = 1
INVARIANTS NothingWiped AnswerStays
PROPERTY TurnsEnd
CHECK_DEADLOCK FALSE
