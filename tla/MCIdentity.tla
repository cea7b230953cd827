------------------------------ MODULE MCIdentity ------------------------------
EXTENDS Identity, TLC

CONSTANTS r1, r2, k1, k2

TwoUsers == 1..2

Symmetry == Permutations({r1, r2}) \cup Permutations({k1, k2})
=============================================================================
