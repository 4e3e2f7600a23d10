\* Two callers, each saving an entry for two clients, and two ticks, with
\* every step of rotate able to fail.
CONSTANTS
  Callers = {c1, c2}
  MaxTicks = 2
  ClientsPerEntry = 2
  CloseMayFail = TRUE
  RenameMayFail = TRUE
  ReopenMayFail = TRUE

SPECIFICATION Spec

INVARIANTS
  SaveFailsOnlyAfterLoggedError

PROPERTIES
  SaveReturns

\* Once the ticks are used up, Close has run and every Save returned (or the
\* process has panicked), nothing is left to run.
CHECK_DEADLOCK FALSE
