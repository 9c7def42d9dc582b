--------------------------- MODULE MCEdgeLifecycle ---------------------------
EXTENDS EdgeLifecycle, TLC

Symmetry == Permutations(Procs)

=============================================================================
