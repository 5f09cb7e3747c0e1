--------------------------- MODULE MCOwnedProcess ---------------------------
\* A small instance of OwnedProcess for TLC: pids are interchangeable.
EXTENDS OwnedProcess, TLC

Symmetry == Permutations(Pids)
=============================================================================
