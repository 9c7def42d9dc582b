-------------------------- MODULE MCHistoryRetention --------------------------
EXTENDS HistoryRetention, TLC

Symmetry == Permutations(Sweeps)

=============================================================================
