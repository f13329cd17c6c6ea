SPECIFICATION Spec
CONSTANTS
  c1 = c1
  c2 = c2
  p1 = p1
  p2 = p2
  k1 = k1
  u1 = u1
  t1 = t1
  t2 = t2
  v1 = v1
  v2 = v2
  Customers = {c1, c2}
  Policies = {p1, p2}
  Claims = {k1}
  Accounts = {u1}
  Types = {t1, t2}
  Values = {v1, v2}
  Editors = {e1, e2}
  Stores <- MCStores
  MaxRequests = 3
  Nothing = Nothing
SYMMETRY MCEditors
INVARIANTS TypeOK AuditTellsRow ErrorsAreOverlaps
PROPERTIES ArchivedTakesNothing RemovalStands
CHECK_DEADLOCK FALSE
