CONSTANTS
  c1 = c1
  c2 = c2
  Callers <- MCCallers
  Ids <- MCIds
  Requests <- MCRequests
  InitialTable <- MCInitialTable
SPECIFICATION Spec
INVARIANT NameConflictIs409
CHECK_DEADLOCK FALSE
