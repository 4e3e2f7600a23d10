CONSTANTS
  c1 = c1
  c2 = c2
  w1 = w1
  w2 = w2
  Clients <- MCClients
  Destinations <- MCDestinations
  DeniedDirs <- MCDeniedDirs
  Listeners <- MCListeners

SPECIFICATION Spec

INVARIANTS
  TypeOK
  TempFileOutlivesSenders
  ListenersSeeEveryResult

PROPERTIES
  UploadReportsEveryTarget

\* Once the response is written and the upload goroutines have finished,
\* the request is over.
CHECK_DEADLOCK FALSE
