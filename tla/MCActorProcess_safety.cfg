\* p posts, q sends, w drains until its time is over and shifts to x. One
\* callback or round trip throws and one process dies, or a lease lapses.
SPECIFICATION Spec
CONSTANTS
  p = p
  q = q
  r = r
  w = w
  x = x
  NoOwner = NoOwner
  Post = {p}
  SendCall = {q}
  Worker = {w}
  Successor = {x}
  Process <- Calls
  Policy <- Policies
  Patient = {p, q}
  Once = {q}
  Timed = {w}
  Shiftable = {w}
  Modes <- RedisModes
  MaxLapses = 1
  MaxThrows = 1
  MaxCrashes = 1
CONSTRAINT LapseAlone
INVARIANTS DrainInvariant
PROPERTIES ImplementsMailbox SuccessorCanAcquire
\* The calls return: the system stops when all have ended.
CHECK_DEADLOCK FALSE
