SPECIFICATION FairSpec
CONSTANTS
  Customers = {c1}
  Policies = {p1}
  Claims = {k1}
  Ages <- MCAges
  Covers <- MCOneCover
  Losses <- MCLosses
  Score <- MCScore
  Scores <- MCScores
  Unscored = Unscored
  Editors = {e1, e2}
  Workers = {w1}
  Managers = {}
  MaxRetries = 1
  Faults = {"error"}
  MovePolicies = FALSE
  MaxRequests = 2
INVARIANT SettledIsCurrent
PROPERTIES ImplementsScoreBook EventuallyCurrent EventuallySettled
CHECK_DEADLOCK FALSE
