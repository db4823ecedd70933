\* A post that waits for ever, a one-shot send, a worker that drains for ever
\* and one that may replace it when it dies, in every mode.
SPECIFICATION FairSpec
CONSTANTS
  p = p
  q = q
  r = r
  w = w
  x = x
  NoOwner = NoOwner
  Post = {p}
  SendCall = {q}
  Worker = {w, x}
  Successor = {}
  Process <- Calls
  Policy <- Policies
  Patient = {q}
  Once = {q}
  Timed = {}
  Shiftable = {}
  Modes <- AllModes
  MaxLapses = 0
  MaxThrows = 0
  MaxCrashes = 1
PROPERTIES EveryMessageHandled WaitsEnd
\* The calls return: the system stops when all have ended.
CHECK_DEADLOCK FALSE
