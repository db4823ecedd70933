------------------------------ MODULE MatchRoom ------------------------------
(***************************************************************************)
(* Live matchmaking (packages/game-kit/src/matchmaking.ts find, formRoom): *)
(* matched players form one room in the lobby.  The first of them creates  *)
(* it and invites the others; an invitation may come before its addressee  *)
(* hears of the match.  The match socket is that of platform-client        *)
(* (match.ts), the party that of PartyGateway.                             *)
(***************************************************************************)
EXTENDS PartyGateway

CONSTANTS
  First_,         \* the lowest of the matched users
  MatchSetups     \* [drops: [Player -> Nat], deaf: SUBSET Player: whose match socket
                  \*  may break, slow: SUBSET Player: whose window may end early,
                  \*  calm: none of these]

ASSUME MatchAssumption ==
  /\ First_ \in Player
  /\ \A s \in MatchSetups : s.drops \in [Player -> Nat]

VARIABLES
  hunt,         \* hunt[u]: idle, seeking, forming, whole, partial, failed
  paired,       \* the service has matched the players
  early,        \* early[u]: who invited u while it was seeking
  answered,     \* answered[u]: whose invitations it has accepted
  table,        \* table[u]: the members of the roster it applied last
  errand,       \* errand[u]: the party command it waits for, and its target
  toInvite,     \* whom the first has yet to invite
  chance        \* the setup, with what is left of it

huntVars == <<hunt, paired, early, answered, table, errand, toInvite>>
matchVars == <<gatewayVars, huntVars, chance>>

Free == [kind |-> "none", to |-> Nobody]

Ends(u, how) == hunt' = [hunt EXCEPT ![u] = how]

----------------------------------------------------------------------------
(* find().                                                                *)

Finds(u) ==
  /\ hunt[u] = "idle" /\ u \in online
  /\ Ends(u, "seeking")
  /\ UNCHANGED <<gatewayVars, paired, early, answered, table, errand, toInvite, chance>>

Pairs ==
  /\ ~paired /\ \A u \in Player : hunt[u] = "seeking"
  /\ paired' = TRUE
  /\ UNCHANGED <<gatewayVars, hunt, early, answered, table, errand, toInvite, chance>>

\* The socket of the match breaks before its frame: find() rejects.
Unheard(u) ==
  /\ hunt[u] = "seeking" /\ u \in chance.deaf
  /\ Ends(u, "failed")
  /\ UNCHANGED <<gatewayVars, paired, early, answered, table, errand, toInvite, chance>>

\* check(): everyone is in the room.
Seated(members) == Player \subseteq members

\* Mutant: the invitations that came before the match are forgotten.
ForgetsEarly(u) == {}

Buffered_(u) == early[u]

Accepts_(u, from) ==
  /\ from \notin answered[u] /\ errand[u] = Free
  /\ answered' = [answered EXCEPT ![u] = @ \cup {from}]
  /\ errand' = [errand EXCEPT ![u] = [kind |-> "accept", to |-> from]]
  /\ PartyAccept(u)

\* The matched frame: the first creates the room, the others accept what has
\* come, or wait.
Matched(u) ==
  /\ hunt[u] = "seeking" /\ paired /\ u \in online
  /\ early' = [early EXCEPT ![u] = {}]
  /\ IF u = First_
     THEN /\ Ends(u, "forming")
          /\ errand' = [errand EXCEPT ![u] = [kind |-> "create", to |-> Nobody]]
          /\ toInvite' = Player \ {u}
          /\ PartyCreate(u) /\ UNCHANGED answered
     ELSE IF Buffered_(u) # {}
     THEN /\ Ends(u, "forming")
          /\ \E from \in Buffered_(u) : Accepts_(u, from)
          /\ UNCHANGED toInvite
     ELSE /\ Ends(u, IF Seated(table[u]) THEN "whole" ELSE "forming")
          /\ UNCHANGED <<gatewayVars, answered, errand, toInvite>>
  /\ UNCHANGED <<paired, table, chance>>

\* The first goes on as soon as a command is settled.
MayInvite(u) ==
  /\ u = First_ /\ hunt[u] = "forming" /\ errand[u] = Free
  /\ toInvite # {} /\ u \in table[u] /\ u \in online

InvitesNext(u) ==
  /\ MayInvite(u)
  /\ \E v \in toInvite :
       /\ toInvite' = toInvite \ {v}
       /\ errand' = [errand EXCEPT ![u] = [kind |-> "invite", to |-> v]]
       /\ PartyInvite(u, v)
  /\ UNCHANGED <<hunt, paired, early, answered, table, chance>>

----------------------------------------------------------------------------
(* What the lobby sends.                                                  *)

Done_(c, u, f) ==
  CASE c.kind = "create" -> Head(f.order) = u
    [] c.kind = "invite" -> c.to \in f.invited \cup Range(f.order)
    [] OTHER             -> TRUE

SeatedBy(u, f) == Seated(Range(f.order))

Roster(u, f) ==
  /\ table' = [table EXCEPT ![u] = Range(f.order)]
  /\ errand' = [errand EXCEPT ![u] =
                  IF f.order # <<>> /\ Done_(@, u, f) THEN Free ELSE @]
  /\ IF hunt[u] = "forming" /\ SeatedBy(u, f) THEN Ends(u, "whole") ELSE UNCHANGED hunt
  /\ UNCHANGED <<order, invited, online, paired, early, answered, toInvite>>

\* A refusal: without a room there is nothing to form; who cannot be invited,
\* or not join, is left out.
Refusal(u) ==
  /\ IF errand[u].kind = "create" THEN Ends(u, "failed") ELSE UNCHANGED hunt
  /\ errand' = [errand EXCEPT ![u] = Free]
  /\ UNCHANGED <<order, invited, online, paired, early, answered, table, toInvite>>

Welcomes(u, from) ==
  hunt[u] = "forming" /\ from \notin answered[u] /\ errand[u] = Free

\* The accept an invitation causes reaches the gateway at once.
Joins(u) ==
  IF u \in invited /\ order # <<>>
  THEN /\ order' = Append(order, u) /\ invited' = invited \ {u}
       /\ down' = Announce([down EXCEPT ![u] = Tail(@)], Append(order, u),
                           invited \ {u}, online)
  ELSE /\ down' = ErrorTo([down EXCEPT ![u] = Tail(@)], u)
       /\ UNCHANGED <<order, invited>>

\* An invitation is accepted, once; kept for later, while nobody is matched.
Invitation(u, from) ==
  IF Welcomes(u, from)
  THEN /\ answered' = [answered EXCEPT ![u] = @ \cup {from}]
       /\ errand' = [errand EXCEPT ![u] = [kind |-> "accept", to |-> from]]
       /\ Joins(u)
       /\ UNCHANGED <<online, hunt, paired, early, table, toInvite>>
  ELSE /\ early' = [early EXCEPT ![u] = IF hunt[u] = "seeking" THEN @ \cup {from} ELSE @]
       /\ down' = [down EXCEPT ![u] = Tail(@)]
       /\ UNCHANGED <<order, invited, online, hunt, paired, answered, table,
                      errand, toInvite>>

Hears(u) ==
  /\ down[u] # <<>> /\ ~MayInvite(u)
  /\ LET f == Head(down[u])
         d == [down EXCEPT ![u] = Tail(@)]
     IN  CASE f.type = "party"  -> Roster(u, f) /\ down' = d
           [] f.type = "error"  -> Refusal(u) /\ down' = d
           [] f.type = "invite" -> Invitation(u, f.from)
           [] OTHER -> down' = d /\ UNCHANGED <<order, invited, online, huntVars>>
  /\ UNCHANGED chance

----------------------------------------------------------------------------
(* Failures and time.                                                     *)

\* The lobby connection breaks: the command is rejected.
Breaks_(u) ==
  /\ chance.drops[u] > 0
  /\ chance' = [chance EXCEPT !.drops[u] = @ - 1]
  /\ GatewayDrop(u)
  /\ IF errand[u].kind = "create" THEN Ends(u, "failed") ELSE UNCHANGED hunt
  /\ errand' = [errand EXCEPT ![u] = Free]
  /\ UNCHANGED <<paired, early, answered, table, toInvite>>

Returns_(u) == GatewayConnect(u) /\ UNCHANGED <<huntVars, chance>>

\* A command that nothing on its way can answer times out.
ErrandTimeout(u) ==
  /\ errand[u] # Free /\ down[u] = <<>>
  /\ errand' = [errand EXCEPT ![u] = Free]
  /\ IF errand[u].kind = "create" THEN Ends(u, "failed") ELSE UNCHANGED hunt
  /\ UNCHANGED <<gatewayVars, paired, early, answered, table, toInvite, chance>>

\* Nothing more is to come for u but time.
Still == /\ \A v \in Player : /\ down[v] = <<>> /\ ~MayInvite(v) /\ errand[v] = Free
                              /\ ~(hunt[v] = "seeking" /\ paired)
         /\ online = Player

\* Thirty seconds are over: the room is what it is.
WindowEnds(u) ==
  /\ hunt[u] = "forming" /\ (Still \/ u \in chance.slow)
  /\ Ends(u, "partial")
  /\ UNCHANGED <<gatewayVars, paired, early, answered, table, errand, toInvite, chance>>

----------------------------------------------------------------------------

MatchInitGateway ==
  /\ order = <<>> /\ invited = {} /\ online = Player
  /\ down = [u \in Player |-> <<>>]

MatchInitKits ==
  /\ hunt = [u \in Player |-> "idle"] /\ paired = FALSE
  /\ early = [u \in Player |-> {}] /\ answered = [u \in Player |-> {}]
  /\ table = [u \in Player |-> {}] /\ errand = [u \in Player |-> Free]
  /\ toInvite = {}

MatchInit == chance \in MatchSetups /\ MatchInitGateway /\ MatchInitKits

MatchNext ==
  \/ Pairs
  \/ \E u \in Player :
       \/ Finds(u) \/ Unheard(u) \/ Matched(u) \/ InvitesNext(u) \/ Hears(u)
       \/ Breaks_(u) \/ Returns_(u) \/ ErrandTimeout(u) \/ WindowEnds(u)

MatchFairness ==
  \A u \in Player :
    /\ WF_matchVars(Matched(u) \/ InvitesNext(u) \/ Hears(u))
    /\ WF_matchVars(Returns_(u))
    /\ WF_matchVars(ErrandTimeout(u) \/ WindowEnds(u))

MatchSpec == MatchInit /\ [][MatchNext]_matchVars /\ MatchFairness

----------------------------------------------------------------------------
(* Properties.                                                            *)

MatchTypeOK ==
  /\ hunt \in [Player -> {"idle", "seeking", "forming", "whole", "partial", "failed"}]
  /\ \A u \in Player : errand[u] # Free => hunt[u] # "idle" /\ hunt[u] # "seeking"
  /\ toInvite \subseteq Player \ {First_}
  /\ order \in Seq(Player) /\ IsInjective(order)

\* Who is told that the room is whole is in the room of the first with all the
\* others, though not all may know it yet (matchmaking.ts check).
WholeIsTogether ==
  \A u \in Player : hunt[u] = "whole" => Members = Player /\ Leader = First_

\* A room is partial only because a connection broke or a window was short: no
\* order of invitations and matched frames loses a player (matchmaking.ts: the
\* buffer of early invitations, check).
PartialIsCaused ==
  chance.calm => \A u \in Player : hunt[u] \notin {"partial", "failed"}

\* Everyone who is matched has its answer.
EveryHuntEnds ==
  []<>(paired => \A u \in Player : hunt[u] \in {"whole", "partial", "failed"})

\* Matched players meet: each is answered, none is told of a room that is not whole, none
\* is lost without a cause (matchmaking.ts formRoom).
MatchPromise ==
  /\ [](MatchTypeOK /\ WholeIsTogether /\ PartialIsCaused)
  /\ EveryHuntEnds
=============================================================================
