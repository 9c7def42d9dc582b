SPECIFICATION Spec
CONSTANTS
  Tx = {t1, t2, t3}
  Keys = {k1}
  Values = {v1, v2}
  MaxClock = 2
  MaxOps = 2
SYMMETRY Symmetry
INVARIANT OneOpenVersion
INVARIANT SerialHistory
PROPERTY NeverRewritten
PROPERTY PastIsFixed
PROPERTY UpsertLeavesOpen
PROPERTY AskedIsCurrent
CHECK_DEADLOCK FALSE
