\* Two requests at a time, a limit of one key, one workspace with one user.
SPECIFICATION Spec
CONSTANTS
  u1 = u1
  u2 = u2
  w1 = w1
  w2 = w2
  k1 = k1
  k2 = k2
  k3 = k3
  r1 = r1
  r2 = r2
  NoOne = NoOne
  c1 = c1
  Users = {u1}
  Workspaces = {w1}
  Keys = {k1, k2, k3}
  Contents = {c1}
  Requests = {r1, r2}
  KeyScopes <- OneScopeSet
  NewRoles = {"none", "reader"}
  MaxLost = 1
  MaxKeys = 1
  MaxRoleChanges = 1
SYMMETRY Symmetry
INVARIANTS
  EffectsEntitled
  KeysNearLimit
  ChangesAccountedFor
