SPECIFICATION Spec
CONSTANTS
  Customers = {c1, c2, c3, c4}
  Requests = {q1, q2, q3}
  Forms = {"CL-00000", "CL-0"}
  Supplied <- MCNone
  Existing <- MCOne
  Nobody = Nobody
INVARIANT GeneratedSucceeds
CHECK_DEADLOCK FALSE
