-------------------------------- MODULE Turns --------------------------------
(***************************************************************************)
(* The turn game of game-kit (packages/game-kit/src/turns.ts): players in  *)
(* a room who append moves to a log in turn, download it when they come    *)
(* back, keep it in the save and end together.                             *)
(*                                                                         *)
(* A record's hash covers everything before it, so a record is its whole   *)
(* prefix; each chunk of a download holds one record.  A player is a       *)
(* record, and a handler maps the player and the frames of everybody to    *)
(* what they become.  The lane takes the frames in their order; while it   *)
(* writes to the save they wait.                                           *)
(***************************************************************************)
EXTENDS PartyGateway

CONSTANT TurnSetups  \* records: the players in their order (seats), whether
                     \* all know of the game (begun) and who is offline (away)
                     \* at first, whether the host ends it (ends) and it is
                     \* saved (persist); who but the host closes its page
                     \* (reloads); the bounds moves, drops, losses (of a
                     \* submit), saves (that fail) and slow (answers
                     \* that come too late)

TurnSetup_ ==
  [seats : Seq(Player), away : SUBSET Player, begun : BOOLEAN, ends : BOOLEAN,
   persist : BOOLEAN, moves : Nat, drops : [Player -> Nat], reloads : SUBSET Player,
   losses : Nat, saves : Nat, slow : Nat]

ASSUME TurnAssumption ==
  TurnSetups \subseteq TurnSetup_ /\
  \A s \in TurnSetups : s.seats # <<>> /\ Head(s.seats) \notin s.reloads

VARIABLES
  play,         \* play[u]: the game of u
  present,      \* present[u]: the members u believes to be online
  saved,        \* saved[u]: the game that u's save holds
  streams,      \* the downloads that are being answered
  moves, requests, faults,
  made          \* the logs that moves were submitted with

turnVars == <<gatewayVars, play, present, saved, streams, moves, requests, faults,
              made>>

NoLog == [none |-> TRUE]
Seats == faults.seats
Host == Seats[1]
PlayerAt(n) == Seats[(n % Len(Seats)) + 1]

NewGame == [log |-> <<>>, game |-> 0, frozen |-> FALSE, done |-> FALSE,
            request |-> 0, from |-> Nobody, replay |-> 0, assembly |-> NoLog,
            buffer |-> <<>>, finish |-> NoLog, dirty |-> FALSE,
            lane |-> "ready", gaveUp |-> FALSE]

NothingSaved == [game |-> 0, log |-> <<>>]

Strictly(s, t) == IsPrefix(s, t) /\ s # t

----------------------------------------------------------------------------
(* Handlers: from a player p and the frames d to <<player, frames>>.      *)

Failed(p) == [p EXCEPT !.frozen = TRUE, !.request = 0, !.assembly = NoLog,
                       !.buffer = <<>>]

\* A persisting game writes the log before its lane goes on.
Persisting(p) == IF faults.persist THEN [p EXCEPT !.dirty = TRUE, !.lane = "rows"]
                 ELSE p

\* The host, or the first player that is online, other than who asks.
Responder(requester, on) ==
  LET P == {i \in DOMAIN Seats : Seats[i] \in on \ {requester}}
  IN  IF P = {} THEN Nobody ELSE Seats[CHOOSE i \in P : \A j \in P : i <= j]

\* Without a connection the request fails, though it counts as made.
Refused(u, p) == u \notin online /\ p.request = 0 /\ Responder(u, present[u]) # Nobody

RequestLog(u, p, d) ==
  LET to == Responder(u, present[u])
      id == requests + 1
  IN  IF p.request # 0 THEN <<p, d>>
      ELSE IF to = Nobody THEN <<[p EXCEPT !.gaveUp = TRUE], d>>
      ELSE <<[p EXCEPT !.request = id, !.replay = id, !.from = to,
                       !.assembly = NoLog, !.buffer = <<>>],
             IF Refused(u, p) THEN d
             ELSE SendTo(d, u, to, [type |-> "log", from |-> u,
                                    game |-> p.game, id |-> id])>>

\* A frame that waits stays on the lane when the connection is lost.
Held(f) == [x \in DOMAIN f \cup {"held"} |-> IF x = "held" THEN TRUE ELSE f[x]]

Buffered(p, f) == [p EXCEPT !.buffer = Append(@, Held(f))]

\* Mutant: a gap is a divergence.
FailsOnGap(u, p, d, f) == <<Failed(p), d>>

OnGap(u, p, d, f) ==
  LET r == RequestLog(u, p, d)
  IN  IF Refused(u, p) THEN r ELSE <<Buffered(r[1], f), r[2]>>

\* accept: a move in its place, one that is known, one that leaves a gap.
AcceptTurn(u, p, d, f) ==
  LET n == Len(p.log)
      at == Len(f.log) - 1
  IN  IF f.game # p.game \/ p.frozen \/ p.done THEN <<p, d>>
      ELSE IF p.request # 0 THEN <<Buffered(p, f), d>>
      ELSE IF at < n
      THEN <<IF IsPrefix(f.log, p.log) THEN p ELSE Failed(p), d>>
      ELSE IF at > n THEN OnGap(u, p, d, f)
      ELSE IF Last(f.log).by = f.from /\ f.from = PlayerAt(n)
              /\ IsPrefix(p.log, f.log)
      THEN <<Persisting([p EXCEPT !.log = f.log]), d>>
      ELSE <<Failed(p), d>>

FinishLocal(p) ==
  LET q == [p EXCEPT !.done = TRUE]
  IN  IF q.dirty THEN Persisting(q) ELSE q

\* A complete download replaces the log if it extends it; the moves that came
\* meanwhile and the announced end follow, before anything else.
Commit(u, p, d) ==
  LET lg == p.assembly.log
      end == IF p.finish = NoLog THEN <<>>
             ELSE <<[type |-> "settle", log |-> p.finish.log, held |-> TRUE]>>
  IN  IF p.assembly.got # DOMAIN lg THEN <<p, d>>
      ELSE IF ~IsPrefix(p.log, lg) THEN <<Failed(p), d>>
      ELSE <<Persisting([p EXCEPT !.log = lg, !.request = 0,
                                  !.assembly = NoLog, !.buffer = <<>>,
                                  !.finish = NoLog]),
             [d EXCEPT ![u] = p.buffer \o end \o @]>>

Started(p, f) ==
  IF f.from # Host /\ f.from # p.from THEN p
  ELSE IF p.game \notin {0, f.game} THEN Failed(p)
  ELSE [p EXCEPT !.game = f.game]

StartFrame(u, game) == [type |-> "start", from |-> u, game |-> game]

Manifest(u, p, d, f) ==
  IF p.request = 0 \/ f.id # p.request \/ f.game # p.game THEN <<p, d>>
  ELSE Commit(u, [p EXCEPT !.assembly = [log |-> f.log, got |-> {}]], d)

Chunk(u, p, d, f) ==
  IF p.assembly = NoLog \/ f.id # p.request \/ f.game # p.game THEN <<p, d>>
  ELSE Commit(u, [p EXCEPT !.assembly.got = @ \cup {f.part}], d)

\* Mutant: an announced end does not wait for the download.
EndsAtOnce(u, p, d, f) ==
  IF f.game # p.game \/ p.frozen THEN <<p, d>> ELSE <<FinishLocal(p), d>>

Finished(u, p, d, f) ==
  IF f.game # p.game \/ p.frozen
     \/ (f.from # Host /\ ~(f.from = p.from /\ f.id = p.replay))
  THEN <<p, d>>
  ELSE IF p.request # 0 THEN <<[p EXCEPT !.finish = [log |-> f.log]], d>>
  ELSE IF Len(f.log) > Len(p.log)
  THEN LET r == RequestLog(u, p, d)
       IN  IF Refused(u, p) THEN r
           ELSE <<[r[1] EXCEPT !.finish = [log |-> f.log]], r[2]>>
  ELSE <<IF f.log = p.log THEN FinishLocal(p) ELSE Failed(p), d>>

Settled(p, f) ==
  IF p.frozen THEN p
  ELSE IF f.log = p.log THEN FinishLocal(p) ELSE Failed(p)

\* The answer to a request: the game, the manifest, and a stream of chunks
\* that runs beside the lane.
Answers(u, p, f) == /\ p.game # 0 /\ u \in online
                    /\ f.game \in {0, p.game}
                    /\ Responder(f.from, present[u]) = u

Answer(u, p, d, f) ==
  IF Answers(u, p, f)
  THEN <<p, SendTo(SendTo(d, u, f.from, StartFrame(u, p.game)), u, f.from,
                   [type |-> "manifest", from |-> u, game |-> p.game,
                    id |-> f.id, log |-> p.log])>>
  ELSE <<p, d>>

Handle(u, p, d, f) ==
  CASE f.type = "turn"     -> AcceptTurn(u, p, d, f)
    [] f.type = "log"      -> Answer(u, p, d, f)
    [] f.type = "start"    -> <<Started(p, f), d>>
    [] f.type = "manifest" -> Manifest(u, p, d, f)
    [] f.type = "chunk"    -> Chunk(u, p, d, f)
    [] f.type = "finish"   -> Finished(u, p, d, f)
    [] f.type = "settle"   -> <<Settled(p, f), d>>
    [] f.type = "hello"    -> IF p.game # 0 THEN RequestLog(u, p, d) ELSE <<p, d>>
    [] OTHER               -> <<p, d>>

----------------------------------------------------------------------------
(* Actions.                                                               *)

Become(u, r) == play' = [play EXCEPT ![u] = r[1]] /\ down' = r[2]

Counted(u) == requests' = requests +
                (IF play'[u].request \notin {0, play[u].request} THEN 1 ELSE 0)

TakeFrame(u) ==
  /\ down[u] # <<>>
  /\ play[u].lane = "ready"
  /\ LET f == Head(down[u])
     IN  /\ Become(u, Handle(u, play[u], [down EXCEPT ![u] = Tail(@)], f))
         /\ present' = IF f.type = "party" THEN [present EXCEPT ![u] = f.online]
                       ELSE present
         /\ streams' = IF f.type = "log" /\ Answers(u, play[u], f)
                       THEN streams \cup {[by |-> u, to |-> f.from, id |-> f.id,
                                           game |-> play[u].game,
                                           log |-> play[u].log, next |-> 1]}
                       ELSE streams
  /\ Counted(u)
  /\ UNCHANGED <<order, invited, online, saved, moves, faults, made>>

\* The next chunk; after the last one the end, if the game has ended.  While
\* the connection is down a send fails, and the stream with it.
Stream(s) ==
  /\ s \in streams
  /\ LET p == play[s.by]
         more == s.next <= Len(s.log)
     IN  /\ streams' = (streams \ {s}) \cup
                         IF more /\ s.by \in online
                         THEN {[s EXCEPT !.next = @ + 1]} ELSE {}
         /\ down' =
              IF s.by \notin online \/ (~more /\ ~p.done) THEN down
              ELSE SendTo(down, s.by, s.to,
                          IF more
                          THEN [type |-> "chunk", from |-> s.by, game |-> s.game,
                                id |-> s.id, part |-> s.next]
                          ELSE [type |-> "finish", from |-> s.by, game |-> s.game,
                                id |-> s.id, log |-> p.log])
  /\ UNCHANGED <<order, invited, online, play, present, saved, moves, requests,
                 faults, made>>

CanSubmit(u) ==
  LET p == play[u]
  IN  /\ p.lane = "ready" /\ ~p.frozen /\ ~p.done
      /\ p.game # 0 /\ p.request = 0
      /\ PlayerAt(Len(p.log)) = u
      /\ moves < faults.moves

Moved(u) == Append(play[u].log, [by |-> u, move |-> moves + 1])

Submit(u) ==
  /\ CanSubmit(u) /\ u \in online
  /\ moves' = moves + 1 /\ made' = made \cup {Moved(u)}
  /\ LET f == [type |-> "turn", from |-> u, game |-> play[u].game,
               log |-> Moved(u)]
     IN  Become(u, AcceptTurn(u, play[u], SendParty(down, u, f), f))
  /\ UNCHANGED <<order, invited, online, present, saved, streams, requests,
                 faults>>

\* What has arrived is on the lane and stays there, the moves that waited for
\* a download among it.
Arrived(u) ==
  {s \in {SubSeq(down[u], 1, k) : k \in 0..Len(down[u])} :
     \A i \in DOMAIN down[u] : "held" \in DOMAIN down[u][i] => i <= Len(s)}

\* The move is written to a connection that is lost already.
SubmitLost(u) ==
  /\ CanSubmit(u) /\ faults.losses > 0
  /\ moves' = moves + 1 /\ made' = made \cup {Moved(u)}
  /\ faults' = [faults EXCEPT !.losses = @ - 1]
  /\ \E s \in Arrived(u) : GatewayDropAfter(u, s)
  /\ play' = [play EXCEPT ![u] = Persisting([@ EXCEPT !.log = Moved(u)])]
  /\ UNCHANGED <<present, saved, streams, requests>>

Finish(u) ==
  /\ faults.ends
  /\ u = Host /\ u \in online
  /\ play[u].lane = "ready" /\ ~play[u].frozen /\ ~play[u].done
  /\ play[u].game # 0
  /\ Become(u, <<FinishLocal(play[u]),
                 SendParty(down, u, [type |-> "finish", from |-> u, id |-> 0,
                                     game |-> play[u].game,
                                     log |-> play[u].log])>>)
  /\ UNCHANGED <<order, invited, online, present, saved, streams, moves,
                 requests, faults, made>>

\* persist: immutable rows under a new revision, then the manifest.
SaveRows(u) ==
  /\ play[u].lane = "rows"
  /\ play' = [play EXCEPT ![u].lane = "manifest"]
  /\ UNCHANGED <<gatewayVars, present, saved, streams, moves, requests, faults,
                 made>>

SaveManifest(u) ==
  /\ play[u].lane = "manifest"
  /\ saved' = [saved EXCEPT ![u] = [game |-> play[u].game, log |-> play[u].log]]
  /\ play' = [play EXCEPT ![u].lane = "ready", ![u].dirty = FALSE]
  /\ UNCHANGED <<gatewayVars, present, streams, moves, requests, faults, made>>

\* The save is unavailable: the game goes on, a later write makes up for it.
SaveFails(u) ==
  /\ play[u].lane \in {"rows", "manifest"}
  /\ faults.saves > 0
  /\ faults' = [faults EXCEPT !.saves = @ - 1]
  /\ play' = [play EXCEPT ![u].lane = "ready"]
  /\ UNCHANGED <<gatewayVars, present, saved, streams, moves, requests, made>>

\* Something that could complete the log of u is on its way.
AnswerComes(u) ==
  \/ down[u] # <<>>
  \/ \E s \in streams : s.to = u
  \/ \E v \in Player : \E i \in DOMAIN down[v] :
       down[v][i].type = "log" /\ down[v][i].from = u

\* Thirty seconds without a complete log; an answer that comes later is not taken,
\* and there are as many of those as are slow.
LogTimeout(u) ==
  /\ play[u].request # 0
  /\ IF AnswerComes(u)
     THEN faults.slow > 0 /\ faults' = [faults EXCEPT !.slow = @ - 1]
     ELSE UNCHANGED faults
  /\ play' = [play EXCEPT ![u].request = 0, ![u].assembly = NoLog,
                          ![u].buffer = <<>>, ![u].gaveUp = TRUE]
  /\ UNCHANGED <<gatewayVars, present, saved, streams, moves, requests, made>>

DropPlayer(u) ==
  /\ faults.drops[u] > 0
  /\ faults' = [faults EXCEPT !.drops[u] = @ - 1]
  /\ \E s \in Arrived(u) : GatewayDropAfter(u, s)
  /\ UNCHANGED <<play, present, saved, streams, moves, requests, made>>

ReturnPlayer(u) ==
  /\ u \in Range(Seats) /\ play[u].lane # "closed"
  /\ GatewayConnect(u)
  /\ UNCHANGED <<play, present, saved, streams, moves, requests, faults, made>>

\* The page is closed: what was not saved is gone.
ClosePage(u) ==
  /\ u \in faults.reloads
  /\ faults' = [faults EXCEPT !.reloads = @ \ {u}]
  /\ GatewayDrop(u)
  /\ play' = [play EXCEPT ![u] = [NewGame EXCEPT !.lane = "closed"]]
  /\ streams' = {s \in streams : s.by # u}
  /\ UNCHANGED <<present, saved, moves, requests, made>>

\* A player that opens the game (again) restores the log of its save and asks
\* for the rest, if there is anybody to ask, and goes on with that log if not;
\* the greeting is not one of a running game.
OpenPage(u) ==
  /\ play[u].lane = "closed"
  /\ u \notin online
  /\ online' = online \cup {u}
  /\ present' = [present EXCEPT ![u] = online']
  /\ LET p == [NewGame EXCEPT !.log = saved[u].log, !.game = saved[u].game]
         d == Announce(down, order, invited, online')
         id == requests + 1
     IN  \E to \in {Responder(u, online')} :
           IF to = Nobody
           THEN /\ play' = [play EXCEPT ![u] = [p EXCEPT !.gaveUp = TRUE]]
                /\ down' = d
                /\ UNCHANGED requests
           ELSE /\ play' = [play EXCEPT ![u] =
                     [p EXCEPT !.request = id, !.replay = id, !.from = to]]
                /\ down' = SendTo(d, u, to, [type |-> "log", from |-> u,
                                             game |-> p.game, id |-> id])
                /\ requests' = id
  /\ UNCHANGED <<order, invited, saved, streams, moves, faults, made>>

----------------------------------------------------------------------------

\* The players are in the room and the host has begun; the others have opened
\* the game and asked for its log, which is how they learn of it.  A behaviour
\* may begin after that, when some have lost their connections.
TurnInitGateway ==
  LET asked == [i \in 1..Len(Seats) - 1 |->
                  [type |-> "log", from |-> Seats[i + 1], game |-> 0, id |-> i + 1]]
  IN  /\ order = Seats /\ invited = {}
      /\ online = Range(Seats) \ faults.away
      /\ down = [u \in Player |-> IF u = Host /\ ~faults.begun THEN asked ELSE <<>>]

TurnInitPages ==
  LET Of(u) == CHOOSE i \in DOMAIN Seats : Seats[i] = u
      begun == [NewGame EXCEPT !.game = 1]
  IN  /\ play = [u \in Player |->
                   IF u \notin Range(Seats) THEN NewGame
                   ELSE IF u = Host \/ faults.begun THEN begun
                   ELSE [NewGame EXCEPT !.request = Of(u), !.replay = Of(u),
                                        !.from = Host]]
      /\ present = [u \in Player |-> IF u \in online THEN online ELSE Range(Seats)]
      /\ saved = [u \in Player |-> NothingSaved]
      /\ streams = {}
      /\ moves = 0 /\ requests = Len(Seats) /\ made = {}

TurnInit == faults \in TurnSetups /\ TurnInitGateway /\ TurnInitPages

TurnNext ==
  \/ \E u \in Player :
       \/ TakeFrame(u) \/ Submit(u) \/ SubmitLost(u) \/ Finish(u)
       \/ SaveRows(u) \/ SaveManifest(u) \/ SaveFails(u) \/ LogTimeout(u)
       \/ DropPlayer(u) \/ ReturnPlayer(u) \/ ClosePage(u) \/ OpenPage(u)
  \/ \E s \in streams : Stream(s)

TurnSpec == TurnInit /\ [][TurnNext]_turnVars

TurnProgress(u) == TakeFrame(u) \/ SaveRows(u) \/ SaveManifest(u)

TurnFairness ==
  /\ \A u \in Player :
       /\ WF_turnVars(TurnProgress(u))
       /\ WF_turnVars(LogTimeout(u))
       /\ WF_turnVars(ReturnPlayer(u) \/ OpenPage(u))
       /\ WF_turnVars(\E s \in streams : s.by = u /\ Stream(s))

----------------------------------------------------------------------------
(* Properties.                                                            *)

TurnTypeOK ==
  /\ online \subseteq Player
  /\ \A u \in Player :
       /\ Len(play[u].log) <= moves
       /\ play[u].game \in Nat /\ play[u].request \in 0..requests
       /\ play[u].from \in Player \cup {Nobody}
       /\ play[u].lane \in {"ready", "rows", "manifest", "closed"}
       /\ play[u].frozen => play[u].buffer = <<>>
       /\ {play[u].frozen, play[u].done, play[u].dirty} \subseteq BOOLEAN
       /\ saved[u].game \in Nat /\ Len(saved[u].log) <= moves
  /\ moves \in 0..faults.moves

\* Two moves of one player for the same place of the game.
Twice(s, t) == Len(s) = Len(t) /\ Last(s).by = Last(t).by /\ s # t

Forked == \E s, t \in made : Twice(s, t)

\* The logs of any two players, and the logs in their saves, are the same moves as
\* far as they go.
OneGame ==
  \A u, v \in Player :
    \A s \in {play[u].log, saved[u].log}, t \in {play[v].log, saved[v].log} :
      IsPrefix(s, t) \/ IsPrefix(t, s)

\* Unless a player made two moves for a place of the game, there is one game, whatever
\* was lost, downloaded, buffered or restored (turns.ts:106-140).
LogsAgree == ~Forked => OneGame

\* Two players that have ended hold the same complete game, although it forked before
\* (turns.ts finish).  Of three, one that has heard nothing of the end may have moved
\* on, and who has ended downloads it.
EndsAgree ==
  Len(Seats) = 2 => \A u, v \in Player :
    play[u].done /\ play[v].done => play[u].log = play[v].log

Offered(u) ==
  IF Head(down[u]).type = "chunk" THEN play[u].assembly.log
  ELSE Head(down[u]).log

\* Who makes a second move for a place of the game found nobody to ask for its
\* log, or got no answer in time, or nobody has the first move but a player that
\* was itself downloading from it: what one holds in its buffer is not in its
\* answers.  Otherwise a player that reloads goes on where the game is (turns.ts
\* requestLog, replyLog, submit).
PlaysTwiceUnanswered ==
  [][\A s \in made' \ made, t \in made :
       Twice(s, t) =>
         LET u == Last(s).by
         IN  \/ play[u].gaveUp
             \/ \A v \in Player :
                  IsPrefix(t, play[v].log) => play[v].from = u]_turnVars

\* Nobody freezes over a move, unless there are two for its place: only a log that
\* is shorter than the player's own, from a peer that lacks its last moves, freezes
\* an honest game (turns.ts accept, commitAssembly).
FrozenByShorterLog ==
  [][\A u \in Player :
       ~Forked /\ ~play[u].frozen /\ play'[u].frozen =>
         Strictly(Offered(u), play[u].log)]_turnVars

\* A game that has ended takes no move: so submit and accept have it (turns.ts:96, 175),
\* but not the download of a log, of three players.
EndedTakesNoMove ==
  [][\A u \in Player :
       play[u].done /\ play'[u].done => play'[u].log = play[u].log]_turnVars

\* Without the exception, as the documentation has it.
HonestNeverFrozen == \A u \in Player : ~play[u].frozen

Behind(u) == Strictly(play[u].log, play[Host].log)

\* u lacks a move that it made itself.
Forgot(u) ==
  \E s \in made : Last(s).by = u /\ ~IsPrefix(s, play[u].log)

\* Of two players, one that lacks moves of the host gets them, unless the game of
\* one froze, a request ran out of time or found nobody to ask, or the host was
\* itself downloading from a player that had forgotten them (turns.ts requestLog,
\* replyLog).  (Of three, one may be answered by a player that is behind itself:
\* it learns of that with the next move, which leaves a gap.)
CatchesUp ==
  []<>(Len(Seats) = 2 => \A u \in Range(Seats) :
         Behind(u) =>
           \/ \E v \in {u, Host} : play[v].frozen \/ play[v].gaveUp
           \/ Forgot(u) /\ play[Host].from = u)

\* The players play one game and end with the same one (turns.ts).
TurnInvariant == TurnTypeOK /\ LogsAgree /\ EndsAgree

\* A player that lost moves gets them and goes on (turns.ts accept, requestLog,
\* commitAssembly).
TurnPromise == FrozenByShorterLog /\ PlaysTwiceUnanswered /\ CatchesUp
=============================================================================
