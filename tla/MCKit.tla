-------------------------------- MODULE MCKit --------------------------------
(***************************************************************************)
(* The parts of game-kit that share a lobby or a row: saves, the host room,*)
(* turn games and live matchmaking.  A behaviour is one part's; the state  *)
(* of the others does not change.                                          *)
(***************************************************************************)
EXTENDS Save, Room, Turns, MatchRoom

CONSTANTS p1, p2, p3, n1, n2, u1, u2, u3, u4, u5, u6

VARIABLE part

Of(x, k) == [u \in Player |-> IF u = x THEN k ELSE 0]

\* Two devices of a player: updates and a removal of one row, a claim of another.
Calls ==
  [u \in Update |->
     CASE u \in {u1, u2} -> [by |-> p1, name |-> n1, kind |-> "update"]
       [] u = u3 -> [by |-> p2, name |-> n1, kind |-> "update"]
       [] u = u4 -> [by |-> p1, name |-> n2, kind |-> "claim"]
       [] u = u5 -> [by |-> p2, name |-> n2, kind |-> "claim"]
       [] u = u6 -> [by |-> p2, name |-> n1, kind |-> "remove"]]

SaveSetup(queue, merges, calls, count) ==
  [queue |-> queue, merges |-> merges, retries |-> 1, calls |-> calls,
   faults |-> count, signOuts |-> 1]

Saves ==
  {SaveSetup(TRUE, merges, {u1, u2, u3}, 2) : merges \in BOOLEAN} \cup
  {SaveSetup(queue, TRUE, {u1, u4, u5, u6}, 1) : queue \in BOOLEAN}

\* A member that drops, a host that leaves, a host that drops and leaves.
Rooms == {[drops |-> Of(p2, 1), leaves |-> {}], [drops |-> Of(p2, 0), leaves |-> {p1}],
          [drops |-> Of(p1, 1), leaves |-> {p1}]}

TurnSetup(seats, begun, ends, count, persist, droppers, reloads, losses, saves,
          slow) ==
  [seats |-> seats, away |-> IF begun THEN {p3} \cap Range(seats) ELSE {},
   begun |-> begun, ends |-> ends, moves |-> count, persist |-> persist,
   drops |-> [u \in Player |-> IF u \in droppers THEN 1 ELSE 0],
   reloads |-> reloads, losses |-> losses, saves |-> saves, slow |-> slow]

Games ==
  {TurnSetup(<<p1, p2>>, TRUE, TRUE, 1, FALSE, {p1, p2}, {}, 0, 0, 0),
   TurnSetup(<<p1, p2>>, FALSE, FALSE, 3, FALSE, {p2}, {}, 0, 0, 0),
   TurnSetup(<<p1, p2>>, FALSE, TRUE, 2, FALSE, {}, {}, 1, 0, 1),
   TurnSetup(<<p1, p2>>, FALSE, TRUE, 2, TRUE, {}, {p2}, 0, 1, 0),
   TurnSetup(<<p1, p2>>, TRUE, TRUE, 3, TRUE, {}, {p2}, 0, 0, 1),
   TurnSetup(<<p1, p2>>, TRUE, FALSE, 3, TRUE, {p1}, {p2}, 0, 0, 0),
   TurnSetup(<<p1, p2, p3>>, TRUE, FALSE, 2, FALSE, {p1}, {}, 0, 0, 0)}

Hunt(drops_, deaf, slow) ==
  [drops |-> drops_, deaf |-> deaf, slow |-> slow,
   calm |-> deaf \cup slow = {} /\ drops_ = Of(p1, 0)]

Hunts == {Hunt(Of(p1, 0), {}, {}), Hunt(Of(p2, 1), {}, {}), Hunt(Of(p1, 1), {}, {}),
          Hunt(Of(p1, 0), {p3}, {p1, p2})}

kitVars == <<part, saveVars, gatewayVars, clientVars, boundVars,
             play, present, saved, streams, moves, requests, faults, made, huntVars,
             chance>>

Some(S) == CHOOSE s \in S : TRUE

KitInit ==
  /\ part \in {"save", "room", "turns", "match"}
  /\ IF part = "save" THEN policy \in Saves ELSE policy = Some(Saves)
  /\ IF part = "turns" THEN faults \in Games ELSE faults = Some(Games)
  /\ IF part = "match" THEN chance \in Hunts ELSE chance = Some(Hunts)
  /\ CASE part = "turns" -> TurnInitGateway
       [] part = "match" -> MatchInitGateway
       [] OTHER -> RoomInitGateway
  /\ RoomInitClients
  /\ part # "room" => drops = Of(p2, 0)
  /\ SaveInit /\ TurnInitPages /\ MatchInitKits

SaveRests == UNCHANGED saveVars
RoomRests == UNCHANGED <<clientVars, boundVars>>
TurnsRest ==
  UNCHANGED <<play, present, saved, streams, moves, requests, faults, made>>
MatchRests == UNCHANGED <<huntVars, chance>>

KitNext ==
  /\ UNCHANGED part
  /\ \/ /\ part = "save" /\ SaveNext
        /\ RoomRests /\ TurnsRest /\ MatchRests /\ UNCHANGED gatewayVars
     \/ part = "room" /\ RoomNext /\ SaveRests /\ TurnsRest /\ MatchRests
     \/ part = "turns" /\ TurnNext /\ SaveRests /\ RoomRests /\ MatchRests
     \/ part = "match" /\ MatchNext /\ SaveRests /\ RoomRests /\ TurnsRest

\* The fairness of each part, while it is the one that runs.
KitFairness ==
  /\ \A d \in Device : WF_saveVars(part = "save" /\ SaveProgress(d))
  /\ \A u \in Roommate : /\ WF_roomVars(part = "room" /\ Receive(u))
                         /\ WF_roomVars(part = "room" /\ Reconnect(u))
  /\ \A u \in Player :
       /\ WF_turnVars(part = "turns" /\ TurnProgress(u))
       /\ WF_turnVars(part = "turns" /\ LogTimeout(u))
       /\ WF_turnVars(part = "turns" /\ (ReturnPlayer(u) \/ OpenPage(u)))
       /\ WF_turnVars(part = "turns" /\ \E s \in streams : s.by = u /\ Stream(s))
       /\ WF_matchVars(part = "match" /\ (Matched(u) \/ InvitesNext(u) \/ Hears(u)))
       /\ WF_matchVars(part = "match" /\ Returns_(u))
       /\ WF_matchVars(part = "match" /\ (ErrandTimeout(u) \/ WindowEnds(u)))

KitSpec == KitInit /\ [][KitNext]_kitVars /\ KitFairness

\* Of the room (room.ts applyRoster): a member that is connected has the party in its
\* seats, or on its way, whatever join, leave, loss or succession there was; and the
\* members agree on its state in the end.
RoomHolds == [](part = "room" => RosterCatchesUp) /\ RoomPromise
=============================================================================
