------------------------------ MODULE MCBridge ------------------------------
\* Small instances of Bridge for TLC.
EXTENDS Bridge, TLC

\* Actors, tunnel ids and ports are interchangeable.
Symmetry == Permutations(Actors) \cup Permutations(Tids) \cup Permutations(Ports)
=============================================================================
