\* Two one-shot sends and nobody else.
SPECIFICATION FairSpec
CONSTANTS
  p = p
  q = q
  r = r
  w = w
  x = x
  NoOwner = NoOwner
  Post = {}
  SendCall = {q, r}
  Worker = {}
  Successor = {}
  Process <- Calls
  Policy <- Policies
  Patient = {q, r}
  Once = {q, r}
  Timed = {}
  Shiftable = {}
  Modes <- SingleMode
  MaxLapses = 0
  MaxThrows = 0
  MaxCrashes = 0
PROPERTY EveryMessageHandled
\* The calls return: the system stops when all have ended.
CHECK_DEADLOCK FALSE
