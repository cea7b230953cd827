SPECIFICATION RagSpec
CONSTANTS
  a1 = a1
  o1 = o1
  o2 = o2
  local = local
  cloud = cloud
  None = None
  Documents <- SomeDocuments
  Size = 3
  Overlap = 1
  Questions = {local, cloud}
  CloudOnes = {cloud}
  ServerKey = TRUE
  LegacyAnonymous = TRUE
  Asks = {a1}
  Ops = {o1, o2}
  MaxPieces = 2
  MaxCollections = 2
SYMMETRY Symmetry
INVARIANTS
  CacheIsCurrent
  AcknowledgedIsFound
  IdentityStaysHome
CHECK_DEADLOCK FALSE
