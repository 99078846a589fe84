--------------------------- MODULE MCAppLifecycle ---------------------------
\* Instances of AppLifecycle for TLC.
EXTENDS AppLifecycle, TLC

CONSTANTS r1, r2, c1, c2, q1, q2

TwoRoutines == {r1, r2}
OneRpc      == {c1}
TwoRpcs     == {c1, c2}
OneRequest  == {q1}
TwoRequests == {q1, q2}

\* Routines, RPCs and requests are interchangeable among themselves.
Symmetry ==
    Permutations(TwoRoutines) \cup Permutations(TwoRpcs) \cup Permutations(TwoRequests)
=============================================================================
