-------------------------- MODULE MCWorkspaceAccess --------------------------
EXTENDS WorkspaceAccess, TLC

CONSTANTS u1, u2, w1, w2, k1, k2, k3, r1, r2, c1

OneScopeSet == {{"chat", "manage"}}

Symmetry == Permutations({u1, u2}) \cup Permutations({k1, k2, k3}) \cup Permutations({r1, r2})
=============================================================================
