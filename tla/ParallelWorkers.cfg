SPECIFICATION Spec
CONSTANTS
  Customers = {c1}
  Policies = {p1}
  Claims = {}
  Ages <- MCAges
  Covers <- MCOneCover
  Losses <- MCLosses
  Score <- MCScore
  Scores <- MCScores
  Unscored = Unscored
  Editors = {e1}
  Workers = {w1, w2}
  Managers = {}
  MaxRetries = 0
  Faults = {}
  MovePolicies = FALSE
  MaxRequests = 2
INVARIANT NoStaleAsFresh
CHECK_DEADLOCK FALSE
