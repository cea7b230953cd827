----------------------------- MODULE MCChatTurns -----------------------------
\* Small instances of ChatTurns for TLC.
EXTENDS ChatTurns, TLC

CONSTANTS r1, r2, r3

\* Requests are interchangeable, and no property distinguishes them.
Symmetry == Permutations(Requests)
=============================================================================
