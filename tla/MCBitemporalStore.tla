-------------------------- MODULE MCBitemporalStore --------------------------
EXTENDS BitemporalStore, TLC

Symmetry == Permutations(Tx) \cup Permutations(Values)

=============================================================================
