CONSTANTS
  c1 = c1
  c2 = c2
  Callers <- MCCallers
  Names <- MCNames
  Passwords <- MCPasswords
  Requests <- MCRequests
  InitialFiles <- MCInitialFiles
  ReadMayFail = TRUE
  SaveMayFail = TRUE
  MaxReloads = 1
SPECIFICATION Spec
PROPERTIES
  ImplementsUsersStore
  ReturnsWithOwnWrite
CHECK_DEADLOCK FALSE
