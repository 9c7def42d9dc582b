---------------------------- MODULE MCMergeReview ----------------------------
EXTENDS MergeReview, TLC

\* One source observes the first native and one the others, the first and the
\* last of which share an alias.
MCSourceOf == [n \in Natives |-> IF n = 1 THEN 1 ELSE 2]
MCAliasOf  == [n \in Natives |-> IF n = 2 THEN "b" ELSE "a"]

Symmetry == Permutations(Reviewers)

=============================================================================
