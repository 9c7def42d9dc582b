----------------------------- MODULE MCScimUsers -----------------------------
EXTENDS ScimUsers, TLC

MCAsked ==
  {[ext |-> e, role |-> "viewer", active |-> TRUE] : e \in Exts \cup {None}}
  \cup {[ext |-> None, role |-> "editor", active |-> FALSE]}

Symmetry == Permutations(Clients) \cup Permutations(Names)

=============================================================================
