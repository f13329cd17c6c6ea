SPECIFICATION SnapshotSpec
CONSTANTS
  Customers = {c1}
  Policies = {p1}
  Claims = {}
  Ages <- MCAges
  Covers <- MCCovers
  Losses <- MCLosses
  Score <- MCScore
  Scores <- MCScores
  Unscored = Unscored
  Editors = {e1}
  Workers = {}
  Managers = {m1}
  MaxRetries = 0
  Faults = {}
  MovePolicies = FALSE
  MaxRequests = 3
INVARIANT ConsistentSnapshot
CHECK_DEADLOCK FALSE
