SPECIFICATION KitSpec
CONSTANTS
  p1 = p1
  p2 = p2
  p3 = p3
  n1 = n1
  n2 = n2
  u1 = u1
  u2 = u2
  u3 = u3
  u4 = u4
  u5 = u5
  u6 = u6
  Device = {p1, p2}
  Name = {n1, n2}
  Update = {u1, u2, u3, u4, u5, u6}
  CallOf <- Calls
  SaveSetups <- Saves
  Player = {p1, p2, p3}
  Nobody = Nobody
  Roommate = {p1, p2}
  Founder = p1
  RoomSetups <- Rooms
  MaxPublish = 2
  MaxInvites = 2
  TurnSetups <- Games
  First_ = p1
  MatchSetups <- Hunts
INVARIANTS SaveInvariant TurnInvariant
PROPERTIES SavePromise RoomHolds TurnPromise MatchPromise
CHECK_DEADLOCK FALSE
