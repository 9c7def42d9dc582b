SPECIFICATION FairSpec
CONSTANTS
  Runs = {r1, r2}
  Interval = 1
  MaxClock = 3
INVARIANT OneConnector
INVARIANT AttemptsAreTraced
INVARIANT FreshIsRecent
PROPERTY ImplementsLedger
 
CHECK_DEADLOCK FALSE
