SPECIFICATION Spec
CONSTANTS
  Evaluators = {"a", "b"}
  Databases = {d1, d2}
  Principals = {p1}
  Groups = {g1}
  Grants <- MCGrants
  Threshold = 2
  Subs = {s1}
  MaxAttempts = 2
  None = None
  Batches <- MCBatches
  KindsOf <- MCKindsOf
  Nos = {1, 2, 3}
  Times = {0, 1}
  MaxChanges = 2
SYMMETRY Symmetry
INVARIANT OneOpenFinding
PROPERTY ToldOnCommit
PROPERTY QuietIsExact
CHECK_DEADLOCK FALSE
