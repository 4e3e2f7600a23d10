CONSTANTS
  p1 = p1
  p2 = p2
  p3 = p3
  Producers <- MCProducers
  QueueSizes = {0, 1}

SPECIFICATION Spec

PROPERTIES
  AcceptedEventuallySaved

\* After Close has returned and every producer has notified, nothing is left
\* to run: the program may stop here.
CHECK_DEADLOCK FALSE
