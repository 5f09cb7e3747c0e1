------------------------- MODULE MCRuntimeManager -------------------------
\* Small instances of RuntimeManager for TLC.
EXTENDS RuntimeManager, TLC

\* Request threads and worker threads are interchangeable.
Symmetry == Permutations(Callers) \cup Permutations(Workers)
=============================================================================
