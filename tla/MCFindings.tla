------------------------------ MODULE MCFindings -----------------------------
EXTENDS Findings, TLC

\* A principal reaches one target by two edges, and another by one.
MCGrants == {[from |-> p, to |-> t[1], key |-> t[2]] :
               p \in Principals, t \in {<<1, 1>>, <<1, 2>>, <<2, 1>>}}
\* Two targets, or the same one twice.
MCBatches == {MCGrants, {g \in MCGrants : g.to = 1}}

\* An announcing evaluation or an anomaly evaluation beside a silent one.
MCKindsOf == [e \in Evaluators |-> IF e = "a" THEN {"announced", "anomaly"} ELSE {"risk"}]

Symmetry == Permutations(Databases)

=============================================================================
