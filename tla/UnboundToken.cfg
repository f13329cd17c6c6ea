SPECIFICATION Spec
CONSTANTS
  AnyId = AnyId
  Libraries <- MCLibraries
  Requests <- MCRequests
INVARIANT OnlyGroundedServes
CHECK_DEADLOCK FALSE
