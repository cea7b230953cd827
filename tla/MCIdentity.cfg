SPECIFICATION Spec
CONSTANTS
  r1 = r1
  r2 = r2
  k1 = k1
  k2 = k2
  None = None
  Users <- TwoUsers
  Roles = {"user", "admin"}
  Owners = {2}
  Keys = {k1, k2}
  Requests = {r1, r2}
  MaxKeys = 1
  MaxSignUps = 1
  Window = 2
  CacheFor = 1
  TokenLife = 3
  Leeway = 1
  MaxCached = 1
  MaxTime = 2
SYMMETRY Symmetry
INVARIANTS
  RevocationBites
  LimitsHold
PROPERTY AlwaysAnAdmin
CHECK_DEADLOCK FALSE
