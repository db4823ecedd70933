---------------------------- MODULE PartyGateway ----------------------------
(***************************************************************************)
(* The party of the lobby gateway, as the fake gateway of the tests has it *)
(* (test-support/game-kit-fakes.ts).  A request takes effect when it is    *)
(* sent; what it sends to a user waits, in order, on the user's current    *)
(* connection and is lost with it.                                         *)
(***************************************************************************)
EXTENDS Naturals, Sequences, FiniteSets, SequencesExt

CONSTANTS Player, Nobody

ASSUME GatewayAssumption == Nobody \notin Player

VARIABLES
  order,    \* the members in the order they joined; the first one leads
  invited,  \* the users with an open invitation
  online,   \* the users with a connection
  down      \* down[u]: frames on their way to u

gatewayVars == <<order, invited, online, down>>

Members == Range(order)

Leader == IF order = <<>> THEN Nobody ELSE Head(order)

Push(d, U, f) == [u \in Player |-> IF u \in U THEN Append(d[u], f) ELSE d[u]]

PartyFrame(o, i, on) ==
  [type |-> "party", order |-> o, invited |-> i, online |-> on \cap Range(o)]

NoParty == PartyFrame(<<>>, {}, {})

\* The roster goes to every member that is online.
Announce(d, o, i, on) == Push(d, Range(o) \cap on, PartyFrame(o, i, on))

ErrorTo(d, u) == Push(d, {u}, [type |-> "error"])

\* An event to one user, or an error to its sender.
SendTo(d, from, to, f) ==
  IF to \in online THEN Push(d, {to}, f) ELSE ErrorTo(d, from)

\* An event to the party, its sender included.
SendParty(d, from, f) ==
  IF from \in Members /\ online \cap Members # {}
  THEN Push(d, online \cap Members, f) ELSE ErrorTo(d, from)

PartyCreate(u) ==
  /\ IF order = <<>>
     THEN /\ order' = <<u>>
          /\ down' = Announce(down, <<u>>, {}, online)
     ELSE down' = ErrorTo(down, u) /\ UNCHANGED order
  /\ UNCHANGED <<invited, online>>

PartyInvite(u, v) ==
  /\ IF Leader = u /\ v \in online
     THEN /\ invited' = invited \cup {v}
          /\ down' = Announce(Push(down, {v}, [type |-> "invite", from |-> u]),
                              order, invited \cup {v}, online)
     ELSE down' = ErrorTo(down, u) /\ UNCHANGED invited
  /\ UNCHANGED <<order, online>>

PartyAccept(u) ==
  /\ IF u \in invited /\ order # <<>>
     THEN /\ order' = Append(order, u)
          /\ invited' = invited \ {u}
          /\ down' = Announce(down, Append(order, u), invited \ {u}, online)
     ELSE down' = ErrorTo(down, u) /\ UNCHANGED <<order, invited>>
  /\ UNCHANGED online

PartyDecline(u) ==
  /\ invited' = invited \ {u}
  /\ down' = Announce(down, order, invited \ {u}, online)
  /\ UNCHANGED <<order, online>>

PartyLeave(u) ==
  LET rest == SelectSeq(order, LAMBDA m : m # u)
      still == IF rest = <<>> THEN {} ELSE invited
  IN  /\ order' = rest
      /\ invited' = still
      /\ down' = Push(IF u \in Members THEN Announce(down, rest, still, online)
                      ELSE down, {u}, NoParty)
      /\ UNCHANGED online

\* A connection is lost with the frames on it, but for those that have arrived.
GatewayDropAfter(u, arrived) ==
  /\ u \in online
  /\ online' = online \ {u}
  /\ down' = LET d == [down EXCEPT ![u] = arrived]
             IN  IF u \in Members THEN Announce(d, order, invited, online \ {u})
                 ELSE d
  /\ UNCHANGED <<order, invited>>

GatewayDrop(u) == GatewayDropAfter(u, <<>>)

\* A connection is greeted; a member comes back to its party.
GatewayConnect(u) ==
  /\ u \notin online
  /\ online' = online \cup {u}
  /\ down' = LET d == Push(down, {u}, [type |-> "hello"])
             IN  IF u \in Members
                 THEN Announce(d, order, invited, online \cup {u}) ELSE d
  /\ UNCHANGED <<order, invited>>

=============================================================================
