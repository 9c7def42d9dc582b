----------------------------- MODULE MCReconcile -----------------------------
EXTENDS Reconcile, TLC

vm1 == [type |-> "vm", native |-> "i-1"]
vm2 == [type |-> "vm", native |-> "i-2"]

db1 == [type |-> "db", native |-> "i-1"]

MCKeys == {vm1, vm2, db1}
MCRelations == {[type |-> "CONTAINS", from |-> vm1, to |-> vm2]}
MCCiTypes == [s \in Sources |-> {"vm", "db"}]
MCEdgeTypes == [s \in Sources |-> {"CONTAINS"}]

\* The sources, the aliases and the values are interchangeable.
Symmetry == Permutations(Sources) \cup Permutations(Values)

=============================================================================
