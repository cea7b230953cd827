\* Three requests to one chat, from one tab or several.
SPECIFICATION TurnsSpec
CONSTANTS
  r1 = r1
  r2 = r2
  r3 = r3
  Requests = {r1, r2, r3}
  Empty = Empty
  Window = 2
  Usages = {"turns", "preparations", "free"}
SYMMETRY Symmetry
CHECK_DEADLOCK FALSE
INVARIANTS
  PositionsUnique
  NothingUnarchived
PROPERTIES
  NothingComesBack
  TurnsEndTheChat
