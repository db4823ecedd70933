\* Three requests and the greetings of a listener; a connection or a write fails,
\* a disconnect and a reset.
SPECIFICATION FairSpec
CONSTANTS
  Nobody = Nobody
  Request = {a, b, c}
  Urgent = {b}
  Silent = {c}
  Timed = {a}
  Greets = TRUE
  Consumer = FALSE
  Reconnects = TRUE
  MaxFaults = 1
  MaxStops = 1
  MaxResets = 1
INVARIANTS QueueInvariant
PROPERTIES RequestsSettle
\* Every request is sent once: the system stops when all are settled.
CHECK_DEADLOCK FALSE
