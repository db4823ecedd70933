\* Two invocations, one of which announces the game, and the pushes of two
\* handlers; a round trip, an invocation and a push fail, or a lease lapses and
\* one of them does.
SPECIFICATION FairSpec
CONSTANTS
  NoOwner = NoOwner
  Process = {p1, p2}
  Announcing = {p1}
  Message = {a, b}
  MaxLapses = 1
  MaxThrows = 1
  MaxCrashes = 1
  MaxPushFaults = 1
CONSTRAINT FewFaults
INVARIANTS GameInvariant
PROPERTIES ImplementsMailbox GamePromise
\* Invocations and pushes end: the system stops.
CHECK_DEADLOCK FALSE
