CONSTANTS
  Callers = {c1, c2}
  MaxTicks = 2
  ClientsPerEntry = 2
  CloseMayFail = FALSE
  RenameMayFail = FALSE
  ReopenMayFail = TRUE

SPECIFICATION Spec

INVARIANTS
  NoNilProvider

\* Once the ticks are used up, Close has run and every Save returned,
\* nothing is left to run.
CHECK_DEADLOCK FALSE
