SPECIFICATION FreshnessSpec
CONSTANTS
  Customers = {c1}
  Policies = {p1}
  Claims = {}
  Ages <- MCAges
  Covers <- MCOneCover
  Losses <- MCLosses
  Score <- MCScore
  Scores <- MCScores
  Unscored = Unscored
  Editors = {e1, e2}
  Workers = {w1, w2}
  Managers = {m1}
  MaxRetries = 1
  Faults = {"broker", "crash", "error"}
  MovePolicies = TRUE
  MaxRequests = 3
INVARIANTS TypeOK MirrorKept UntouchedIsFresh
PROPERTIES ArchivedUntouched FirstScoreIsManual
CHECK_DEADLOCK FALSE
