------------------------------- MODULE MCAccess ------------------------------
EXTENDS Access, TLC

MCProvisions == {[role |-> "viewer", quota |-> 1]}

MCConfigs == {[map |-> [c \in {"admins"} |-> "editor"], default |-> "viewer"]}
MCTokens  == {[subject |-> s, claim |-> "admins"] : s \in Subjects \cup {None}}

MCEntries == {[ext |-> None, role |-> "editor", active |-> a] : a \in BOOLEAN}

Symmetry == Permutations(Workers) \cup Permutations(Tenants)

=============================================================================
