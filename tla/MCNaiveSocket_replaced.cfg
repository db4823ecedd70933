\* Two requests, a disconnect, and a write that fails when its socket is destroyed.
SPECIFICATION Spec
CONSTANTS
  Nobody = Nobody
  Request = {a, b}
  Urgent = {}
  Silent = {}
  Timed = {}
  Greets = FALSE
  Consumer = FALSE
  Reconnects = TRUE
  MaxFaults = 1
  MaxStops = 1
  MaxResets = 0
PROPERTY ReplacedIsHarmless
\* Every request is sent once: the system stops when all are settled.
CHECK_DEADLOCK FALSE
