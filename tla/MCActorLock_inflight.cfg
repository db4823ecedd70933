\* A lease lapses, no command is lost, nobody else wants the actor.
SPECIFICATION LockSpec
CONSTANTS
  NoOne = NoOne
  Process = {p1, p2}
  Client = {p1, p2}
  ClientOf <- OwnClient
  Persistent = {}
  Heartbeat = TRUE
  Lease = FALSE
  ReleaseAttempts = 2
  MaxLapses = 1
  MaxFaults = 0
  MaxCrashes = 0
INVARIANT NothingLeftBehind
\* Every invocation runs once: the system stops when all have ended.
CHECK_DEADLOCK FALSE
