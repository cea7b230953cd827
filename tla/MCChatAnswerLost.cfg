\* A stopped stream that is finalized during the next one.
SPECIFICATION TurnsSpec
CONSTANTS
  r1 = r1
  r2 = r2
  r3 = r3
  Requests = {r1, r2, r3}
  Empty = Empty
  Window = 2
  Usages = {"preparations"}
SYMMETRY Symmetry
CHECK_DEADLOCK FALSE
INVARIANTS
  NoAnswerLost
