-------------------------------- MODULE Room --------------------------------
(***************************************************************************)
(* The host room of game-kit (packages/game-kit/src/room.ts): what every   *)
(* member believes of the party, the commands it waits for, and the state  *)
(* the host publishes and repeats to who asks for it.                      *)
(*                                                                         *)
(* A snapshot is the number of its publication, 0 when there is none; a    *)
(* sender session is the member, since a client keeps its session id.      *)
(***************************************************************************)
EXTENDS PartyGateway

CONSTANTS
  Roommate,      \* the players that are in the lobby
  Founder,       \* who creates the party
  RoomSetups,    \* [drops: [Player -> Nat], leaves: SUBSET Player] records
  MaxPublish,    \* snapshots published
  MaxInvites

ASSUME RoomAssumption ==
  /\ Roommate \subseteq Player /\ Founder \in Roommate /\ MaxPublish \in Nat /\ MaxInvites \in Nat
  /\ \A s \in RoomSetups : s.drops \in [Player -> Nat]

VARIABLES
  seat,       \* seat[u]: the last roster u applied
  offers,     \* the users that hold an invitation
  command,    \* command[u]: the party command u waits for, and its target
  revision,   \* revision[u]: stateRevision
  lastState,  \* lastState[u]: the snapshot u has
  received,   \* received[u]: receivedSession and receivedRevision + 1
  drops, leavers, invites, published,
  heard,      \* the last snapshot the party was told
  missed      \* the members that may lack it

clientVars == <<seat, offers, command, revision, lastState, received>>
boundVars == <<drops, leavers, invites, published, heard, missed>>
roomVars == <<gatewayVars, clientVars, boundVars>>

None == [kind |-> "none", to |-> Nobody]

HostOf(s) == IF s.order = <<>> THEN Nobody ELSE Head(s.order)

IsHost(u) == HostOf(seat[u]) = u

Forgotten(u) == [received EXCEPT ![u].count = 0]

----------------------------------------------------------------------------
(* Commands: one at a time, answered by a roster that satisfies `check`.  *)

Satisfied(c, u, s) ==
  CASE c.kind = "create"  -> HostOf(s) = u
    [] c.kind = "invite"  -> c.to \in s.invited \cup Range(s.order)
    [] c.kind = "accept"  -> s.order # <<>>
    [] c.kind = "leave"   -> s.order = <<>>
    [] OTHER              -> TRUE

Issue(u, kind, to) ==
  /\ u \in online
  /\ command[u] = None
  /\ LET c == [kind |-> kind, to |-> to]
     IN  command' = [command EXCEPT ![u] =
                       IF Satisfied(c, u, seat[u]) THEN None ELSE c]
  /\ UNCHANGED <<seat, revision, lastState, received>>

Create(u) ==
  /\ u = Founder /\ order = <<>> /\ published = 0
  /\ Issue(u, "create", Nobody)
  /\ PartyCreate(u)
  /\ UNCHANGED <<offers, boundVars>>

\* Only who is not in the party is invited.
Invite(u, v) ==
  /\ invites > 0 /\ invites' = invites - 1
  /\ v # u /\ IsHost(u)
  /\ v \notin Range(seat[u].order) \cup seat[u].invited \cup Members
  /\ Issue(u, "invite", v)
  /\ PartyInvite(u, v)
  /\ UNCHANGED <<offers, drops, leavers, published, heard, missed>>

Accept(u) ==
  /\ u \in offers /\ offers' = offers \ {u}
  /\ Issue(u, "accept", Nobody)
  /\ PartyAccept(u)
  /\ UNCHANGED boundVars

Decline(u) ==
  /\ u \in offers /\ offers' = offers \ {u}
  /\ Issue(u, "decline", Nobody)
  /\ PartyDecline(u)
  /\ UNCHANGED boundVars

Leave(u) ==
  /\ u \in leavers /\ leavers' = leavers \ {u}
  /\ seat[u].order # <<>>
  /\ Issue(u, "leave", Nobody)
  /\ PartyLeave(u)
  /\ UNCHANGED <<offers, drops, invites, published, heard, missed>>

\* timeoutMs passes with nothing on its way that could answer the command.
Timeout(u) ==
  /\ command[u] # None
  /\ down[u] = <<>>
  /\ command' = [command EXCEPT ![u] = None]
  /\ UNCHANGED <<gatewayVars, seat, offers, revision, lastState, received,
                 boundVars>>

----------------------------------------------------------------------------
(* State.                                                                 *)

StateFrame(u, rev, snap) ==
  [type |-> "state", from |-> u, revision |-> rev, snapshot |-> snap]

\* publish: the party is told, then the host has the revision and its copy.
Publish(u) ==
  /\ published < MaxPublish
  /\ u \in online /\ IsHost(u)
  /\ published' = published + 1
  /\ down' = SendParty(down, u, StateFrame(u, revision[u] + 1, published'))
  /\ revision' = [revision EXCEPT ![u] = @ + 1]
  /\ lastState' = [lastState EXCEPT ![u] = published']
  /\ IF u \in Members
     THEN /\ heard' = published'
          /\ missed' = missed \cup (Player \ (online \cap Members))
     ELSE UNCHANGED <<heard, missed>>
  /\ UNCHANGED <<order, invited, online, seat, offers, command, received,
                 drops, leavers, invites>>

ResyncFrom(d, u, s) ==
  IF HostOf(s) \in {u, Nobody} THEN d
  ELSE SendTo(d, u, HostOf(s), [type |-> "resync", from |-> u])

SeatFrom(u, f) == [order |-> f.order, invited |-> f.invited, online |-> f.online]

\* Mutant: a new host is a new state.
ResetByHost(moved, newHost) == moved \/ newHost

ForgetsState(moved, newHost) == moved

ApplyRoster(u, f, d) ==
  LET s == SeatFrom(u, f)
      moved == (seat[u].order = <<>>) # (s.order = <<>>)
      newHost == HostOf(s) # HostOf(seat[u]) /\ HostOf(s) # Nobody
  IN  /\ seat' = [seat EXCEPT ![u] = s]
      /\ lastState' = [lastState EXCEPT ![u] = IF ForgetsState(moved, newHost) THEN 0 ELSE @]
      /\ received' = IF moved \/ newHost THEN Forgotten(u) ELSE received
      /\ revision' = [revision EXCEPT ![u] = IF newHost THEN 0 ELSE @]
      /\ down' = IF newHost THEN ResyncFrom(d, u, s) ELSE d
      /\ command' = [command EXCEPT ![u] = IF Satisfied(@, u, s) THEN None ELSE @]
      /\ missed' = IF moved THEN missed \cup {u} ELSE missed
      /\ UNCHANGED offers

\* A state of the host that is newer than the last one of its session.
Newer(u, f) ==
  /\ f.from = HostOf(seat[u])
  /\ \/ received[u].from # f.from
     \/ f.revision >= received[u].count

ApplyState(u, f, d) ==
  /\ IF Newer(u, f)
     THEN /\ received' = [received EXCEPT ![u] =
                            [from |-> f.from, count |-> f.revision + 1]]
          /\ lastState' = [lastState EXCEPT ![u] = f.snapshot]
          /\ missed' = IF f.snapshot = heard THEN missed \ {u} ELSE missed
     ELSE UNCHANGED <<received, lastState, missed>>
  /\ down' = d
  /\ UNCHANGED <<seat, offers, command, revision>>

\* The host repeats what it has to a member that asks.
ApplyResync(u, f, d) ==
  /\ down' = IF IsHost(u) /\ lastState[u] # 0 /\ f.from \in Range(seat[u].order)
             THEN SendTo(d, u, f.from,
                         StateFrame(u, revision[u], lastState[u]))
             ELSE d
  /\ UNCHANGED <<clientVars, missed>>

\* The connection is greeted: a member of a room asks for the snapshot.
ApplyHello(u, d) ==
  /\ received' = IF seat[u].order # <<>> THEN Forgotten(u) ELSE received
  /\ down' = ResyncFrom(d, u, seat[u])
  /\ UNCHANGED <<seat, offers, command, revision, lastState, missed>>

Receive(u) ==
  /\ down[u] # <<>>
  /\ LET f == Head(down[u])
         d == [down EXCEPT ![u] = Tail(@)]
     IN  CASE f.type = "party"  -> ApplyRoster(u, f, d)
           [] f.type = "state"  -> ApplyState(u, f, d)
           [] f.type = "resync" -> ApplyResync(u, f, d)
           [] f.type = "hello"  -> ApplyHello(u, d)
           [] f.type = "invite" ->
                /\ offers' = offers \cup {u}
                /\ down' = d
                /\ UNCHANGED <<seat, command, revision, lastState, received,
                               missed>>
           [] f.type = "error"  ->
                /\ command' = [command EXCEPT ![u] = None]
                /\ down' = d
                /\ UNCHANGED <<seat, offers, revision, lastState, received,
                               missed>>
  /\ UNCHANGED <<order, invited, online, drops, leavers, invites, published, heard>>

\* The connection breaks: the command is rejected, the roster is kept.
Disconnect(u) ==
  /\ drops[u] > 0
  /\ drops' = [drops EXCEPT ![u] = @ - 1]
  /\ GatewayDrop(u)
  /\ command' = [command EXCEPT ![u] = None]
  /\ missed' = missed \cup {u}
  /\ UNCHANGED <<seat, offers, revision, lastState, received, leavers, invites,
                 published, heard>>

Reconnect(u) ==
  /\ GatewayConnect(u)
  /\ UNCHANGED <<clientVars, boundVars>>

----------------------------------------------------------------------------

RoomInitGateway ==
  /\ order = <<>> /\ invited = {} /\ online = Roommate
  /\ down = [u \in Player |-> <<>>]

RoomInitClients ==
  /\ seat = [u \in Player |-> [order |-> <<>>, invited |-> {}, online |-> {}]]
  /\ offers = {}
  /\ command = [u \in Player |-> None]
  /\ revision = [u \in Player |-> 0]
  /\ lastState = [u \in Player |-> 0]
  /\ received = [u \in Player |-> [from |-> Nobody, count |-> 0]]
  /\ \E s \in RoomSetups : drops = s.drops /\ leavers = s.leaves
  /\ invites = MaxInvites
  /\ published = 0 /\ heard = 0
  /\ missed = {}

RoomInit == RoomInitGateway /\ RoomInitClients

RoomNext ==
  \E u \in Roommate :
    \/ Create(u) \/ Accept(u) \/ Decline(u) \/ Leave(u) \/ Timeout(u)
    \/ \E v \in Roommate : Invite(u, v)
    \/ Publish(u) \/ Receive(u) \/ Disconnect(u) \/ Reconnect(u)

RoomSpec == RoomInit /\ [][RoomNext]_roomVars

RoomFairness ==
  \A u \in Roommate :
    WF_roomVars(Receive(u)) /\ WF_roomVars(Reconnect(u))

----------------------------------------------------------------------------
(* Properties.                                                            *)

RoomTypeOK ==
  /\ order \in Seq(Player) /\ IsInjective(order)
  /\ invited \subseteq Player /\ online \subseteq Player
  /\ seat \in [Player -> [order : Seq(Player), invited : SUBSET Player,
                          online : SUBSET Player]]
  /\ offers \subseteq Player
  /\ \A u \in Player : command[u].kind \in {"none", "create", "invite",
                                           "accept", "leave"}
  /\ revision \in [Player -> 0..MaxPublish]
  /\ lastState \in [Player -> 0..MaxPublish]
  /\ received \in [Player -> [from : Player \cup {Nobody}, count : Nat]]
  /\ published \in 0..MaxPublish /\ heard \in 0..published /\ missed \subseteq Player

Pending(u) == SelectSeq(down[u], LAMBDA f : f.type = "party")

\* A member that is connected has the party in its seats, or on its way: no
\* join, leave, loss or succession escapes it (room.ts: the roster is replaced
\* whole; the gateway repeats it to who comes back).
RosterCatchesUp ==
  \A u \in online \cap Members :
    IF Pending(u) = <<>> THEN seat[u].order = order
    ELSE Last(Pending(u)).order = order

BecomesHost(u) == ~IsHost(u) /\ HostOf(seat'[u]) = u /\ seat[u].order # <<>>

\* Succession: whoever takes over without having missed a snapshot starts
\* from the last one that was published (room.ts applyRoster, publish).
SuccessorKnowsState ==
  [][\A u \in Player :
       (BecomesHost(u) /\ u \notin missed) => lastState'[u] = heard]_roomVars

Converged ==
  \A u \in Members : lastState[Leader] # 0 => lastState[u] = lastState[Leader]

\* In the end every member has the snapshot of the host: the one it was sent,
\* or the one it asked for after it joined or had a new host (room.ts resync).
MembersConverge == (\A u \in Player : drops[u] = 0) => <>[]Converged

\* The same where a member may lose its connection and come back.
ReconnectedConverge == <>[]Converged

\* The members of a room agree on its state in the end, whoever takes over (room.ts).
RoomPromise ==
  /\ []RoomTypeOK
  /\ SuccessorKnowsState
  /\ MembersConverge
=============================================================================
