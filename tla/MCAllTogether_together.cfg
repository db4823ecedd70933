\* Four games of two members, one with two connections, and an observer.
SPECIFICATION FairSpec
CONSTANTS
  Nobody = Nobody
  m1 = m1
  m2 = m2
  watcher = watcher
  c1 = c1
  c2 = c2
  c3 = c3
  c4 = c4
  Member = {m1, m2}
  Observer = {watcher}
  Connection = {c1, c2, c3, c4}
  MemberOf <- ConnectionOwner
  MinPlayers = 1
  Repeats = 2
  Interval = 2
  MaxSteps = 1
  Setups <- FourGames
INVARIANTS TypeOK BoundOnce BoundIsDropped SimulationFollowsClock
PROPERTIES ImplementsParty LoopGoesOn
\* The game ends and its clients go.
CHECK_DEADLOCK FALSE
