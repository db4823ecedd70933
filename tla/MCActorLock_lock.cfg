\* Two invocations, one of which tries until it has the actor; two lapses, two
\* lost commands and a crash.
SPECIFICATION FairLockSpec
CONSTANTS
  NoOne = NoOne
  Process = {p1, p2}
  Client = {p1, p2}
  ClientOf <- OwnClient
  Persistent = {p1}
  Heartbeat = TRUE
  Lease = TRUE
  ReleaseAttempts = 2
  MaxLapses = 2
  MaxFaults = 2
  MaxCrashes = 1
INVARIANTS TypeOK HolderKeepsKey
PROPERTIES ImplementsLease LostMeansTaken LockRecovers
\* Every invocation runs once: the system stops when all have ended.
CHECK_DEADLOCK FALSE
