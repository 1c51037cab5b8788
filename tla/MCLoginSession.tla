--------------------------- MODULE MCLoginSession ---------------------------
\* Small instances of LoginSession; calls are interchangeable.
EXTENDS LoginSession, TLC

Symmetry == Permutations(Calls)
=============================================================================
