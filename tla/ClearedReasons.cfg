SPECIFICATION Spec
CONSTANTS
  c1 = c1
  c2 = c2
  t1 = t1
  t2 = t2
  v1 = v1
  v2 = v2
  Clients = {c1, c2}
  Types = {t1, t2}
  ClaimValues = {v1, v2}
  MaxIssued = 2
  MaxClaims = 2
  Books <- MCBooks
  Files <- MCFiles
  MaxLoads = 1
PROPERTY ClearedAsObserved
CHECK_DEADLOCK FALSE
