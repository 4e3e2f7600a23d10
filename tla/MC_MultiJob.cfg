CONSTANTS
  c1 = c1
  c2 = c2
  c3 = c3
  Clients <- MCClients
  TargetLists <- MCTargetLists
  MaxRegistryEvents = 2

SPECIFICATION Spec

INVARIANTS
  TypeOK

PROPERTIES
  ImplementsMultiJobDispatch
  AllTerminalLeadsToDone

\* A multi-job whose children all finished, or stay Running forever because
\* their clients never report, leaves nothing to do: the system may stop.
CHECK_DEADLOCK FALSE
