SPECIFICATION Spec
CONSTANTS
  Workers = {w1, w2}
  Tenants = {t1, t2}
  Subjects = {s1}
  Roles = {"viewer", "editor"}
  None = None
  Configs <- MCConfigs
  Tokens <- MCTokens
  Provisions <- MCProvisions
  Exts = {}
  Entries <- MCEntries
  MaxMonth = 1
  MaxRequests = 3
SYMMETRY Symmetry
INVARIANT QuotaOverrun
INVARIANT Accountable
INVARIANT DeactivatedKeptOut
CHECK_DEADLOCK FALSE
