SPECIFICATION Spec
CONSTANTS
  AnyId = AnyId
  Libraries <- MCLibraries
  Requests <- MCRequests
INVARIANTS TypeOK RefusalsRecorded RefusalTellsNothing StartedIsGrounded VerdictIsTrue
CHECK_DEADLOCK FALSE
