CONSTANTS
  ServeMayFail = TRUE

SPECIFICATION Spec

INVARIANTS
  TypeOK

PROPERTIES
  WaitReturnsAfterClose

\* Once every goroutine has returned nothing is left to run.
CHECK_DEADLOCK FALSE
