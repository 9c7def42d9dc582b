SPECIFICATION EdgeSpec
CONSTANTS
  Procs = {p1, p2}
  Full = 20
  Baseline = 12
  Floor = 10
  PerDay = 1
  Window = 1
  TTL = 3
  MaxClock = 4
  MaxBegun = 4
SYMMETRY Symmetry
INVARIANT ConfidenceIsEarned
INVARIANT CountIsExact
PROPERTY SerialSweep
CHECK_DEADLOCK FALSE
