------------------------------ MODULE MCClients ------------------------------
(***************************************************************************)
(* The clients of the platform and of the stores, side by side: the socket *)
(* to a gateway, the session, and what game-kit, mail and push put on it;  *)
(* the Redis connection and subscriber, push frames, documents, logs, the  *)
(* event broker and asset downloads.                                       *)
(* A behaviour is one part's; the state of the others does not change.     *)
(***************************************************************************)
EXTENDS GatewaySocket, Session, Content, Inbox, Tickets, PushBinding,
        RedisSubscriber, RedisConnection, PushFrames, Documents, LogFlush,
        EventBroker, MCAssetBundle

CONSTANTS p1, p2, k1, k2, c1, c2, c3, w1, w2, w3, w4, v1

VARIABLE part

\* A lobby or a queue, with one retry or many; where every handshake is refused.
Sockets ==
  {[kind |-> "lobby", attempts |-> 1, refuses |-> FALSE],
   [kind |-> "q", attempts |-> 9, refuses |-> FALSE],
   [kind |-> "lobby", attempts |-> 9, refuses |-> TRUE],
   [kind |-> "q", attempts |-> 1, refuses |-> TRUE]}

SessionSetup(polled, adopted, failures, changes) ==
  [polls |-> polled, adopts |-> adopted, faults |-> failures, toggles |-> changes]

\* A session by itself, and one with a poller.
Sessions == {SessionSetup(FALSE, 2, 1, 0), SessionSetup(TRUE, 2, 0, 2),
             SessionSetup(FALSE, 1, 1, 2)}

ContentSetup(e, g, u, s, t, f) ==
  [edits |-> e, gets |-> g, subscribes |-> u, sessions |-> s, toggles |-> t,
   faults |-> f]
Contents == {ContentSetup(2, 1, 2, 3, 0, 0), ContentSetup(2, 0, 1, 2, 1, 1)}

InboxSetup(feed, listeners, page_, posts, claims, switches, naps, lost) ==
  [feed |-> feed, listeners |-> listeners, page |-> page_, posts |-> posts,
   claims |-> claims, switches |-> switches, naps |-> naps, lost |-> lost,
   cut |-> FALSE]

\* Two devices claim; one polls, naps or changes its player; it lists by pages.
Inboxes == {InboxSetup("mail", {}, 3, 2, 3, 1, 0, 1),
            InboxSetup("mail", {p1}, 3, 3, 0, 1, 1, 0),
            InboxSetup("mail", {p1}, 1, 3, 0, 1, 0, 0),
            InboxSetup("requests", {p1}, 3, 3, 1, 1, 0, 0)}
Recipients == <<0, 0, 1>>

Each(x, y) == [u \in Seeker |-> IF u = p1 THEN x ELSE y]
TicketSetup(s, c, r, l, n, refusals_, breaks, expiries) ==
  [submits |-> s, cancels |-> c, replies |-> r, looks |-> l, naps |-> n,
   refusals |-> refusals_, breaks |-> breaks, expiries |-> expiries]

\* A proposal and its replies; cancels and failures; sleep; a resubmission.
Hunters ==
  {TicketSetup(Each(1, 1), Each(0, 0), Each(1, 1), Each(0, 0), Each(0, 0), 0, 0, 0),
   TicketSetup(Each(2, 0), Each(1, 0), Each(0, 0), Each(0, 0), Each(0, 0), 1, 1, 0),
   TicketSetup(Each(1, 0), Each(0, 0), Each(0, 0), Each(2, 0), Each(1, 0), 0, 1, 1),
   TicketSetup(Each(2, 1), Each(0, 0), Each(1, 0), Each(0, 0), Each(0, 0), 0, 0, 0)}

Bindings == {[registers |-> 3, unregisters |-> 0, sessions |-> 3, faults |-> 0],
             [registers |-> 2, unregisters |-> 1, sessions |-> 2, faults |-> 1]}

Requests_ ==
  [c \in Call |-> [event |-> IF c = c2 THEN "unsubscribe" ELSE "subscribe",
                   channel |-> IF c = c3 THEN k2 ELSE k1]]
Trouble(drops, refused, timeouts, closes) ==
  [drops |-> drops, refusals |-> refused, timeouts |-> timeouts, closes |-> closes]
Subscribers == {Trouble(2, 0, 0, FALSE), Trouble(1, 1, 0, FALSE),
                Trouble(1, 0, 1, FALSE), Trouble(0, 0, 0, TRUE)}

\* Frames with letters of one to four bytes, empty strings and line ends in them.
L(n) == Letter(n)
Frames ==
  {<<f, g>> : f \in {<<<<L(1), L(1)>>, <<L(3)>>, <<CR, LF, L(2)>>>>,
                     <<<<L(1)>>, <<L(2)>>, <<Integer_>>>>,
                     <<<<L(1)>>, <<L(1)>>, <<L(4), CR, L(1)>>>>},
              g \in {<<<<L(1)>>, <<L(2)>>, <<>>, <<LF>>>>,
                     <<<<L(1)>>, <<L(1)>>, <<CR, LF, CR, LF>>>>}}

Edits ==
  [w \in Writer |->
     CASE w = w1 -> [do |-> "insert", key |-> k1, value |-> v1]
       [] w = w2 -> [do |-> "put", key |-> k1, value |-> Falsy]
       [] w = w3 -> [do |-> "insert", key |-> k2, value |-> v1]
       [] OTHER -> [do |-> "truncate", key |-> k2, value |-> v1]]
StoreOf(backend, ttl, lost, resent) ==
  [backend |-> backend, ttl |-> ttl, lost |-> lost, resent |-> resent]
Stores == {StoreOf("memory", 1, 0, 0), StoreOf("redis", 2, 1, 0), StoreOf("dynamodb", 1, 0, 0),
           StoreOf("s3", 0, 0, 1), StoreOf("plain", 0, 1, 0)}

Sky(drops, refused, forgets, timeouts) ==
  [drops |-> drops, refusals |-> refused, forgets |-> forgets, timeouts |-> timeouts]
Skies == {Sky(1, 1, 0, 1), Sky(0, 0, 1, 1), Sky(1, 0, 1, 0)}

Inkwell(w, f, r, p, s, x, g) ==
  [writes |-> w, flushes |-> f, renames |-> r, passes |-> p, spoils |-> s,
   faults |-> x, guarded |-> g]

\* Renames; flushes by time and by size; failures, and what nobody can serialize.
Inkwells == {Inkwell(4, 1, 1, 0, 0, 0, FALSE), Inkwell(3, 2, 0, 1, 0, 1, FALSE),
             Inkwell(4, 1, 0, 0, 0, 1, TRUE), Inkwell(2, 1, 0, 1, 1, 1, TRUE)}

Programme(adds, offs, fires, throws_) ==
  [adds |-> adds, offs |-> offs, fires |-> fires, throws |-> throws_]
Programmes == {Programme(3, 0, 2, 1), Programme(2, 1, 3, 0)}

clientsVars == <<part, socketVars, sessionVars, contentVars, inboxVars, ticketVars,
                 bindingVars, subscriberVars, frameVars, documentVars, assetVars,
                 redisVars, logVars, brokerVars>>

Parts == {"socket", "session", "content", "inbox", "tickets", "binding",
          "subscriber", "frames", "documents", "assets", "redis", "logs", "broker"}
Some(S) == CHOOSE s \in S : TRUE

ClientsInit ==
  /\ part \in Parts
  /\ IF part = "socket" THEN setup \in Sockets ELSE setup = Some(Sockets)
  /\ IF part = "session" THEN scene \in Sessions ELSE scene = Some(Sessions)
  /\ IF part = "content" THEN stock \in Contents ELSE stock = Some(Contents)
  /\ IF part = "inbox" THEN mail \in Inboxes ELSE mail = Some(Inboxes)
  /\ IF part = "tickets" THEN luck \in Hunters ELSE luck = Some(Hunters)
  /\ IF part = "binding" THEN supply \in Bindings ELSE supply = Some(Bindings)
  /\ IF part = "subscriber" THEN trouble \in Subscribers ELSE trouble = Some(Subscribers)
  /\ IF part = "frames" THEN pushed \in Frames ELSE pushed = Some(Frames)
  /\ IF part = "documents" THEN mishaps \in Stores ELSE mishaps = Some(Stores)
  /\ IF part = "assets" THEN site \in Assets ELSE site = Some(Assets)
  /\ IF part = "redis" THEN weather \in Skies ELSE weather = Some(Skies)
  /\ IF part = "logs" THEN ink \in Inkwells ELSE ink = Some(Inkwells)
  /\ IF part = "broker" THEN programme \in Programmes ELSE programme = Some(Programmes)
  /\ part # "session" => held = NoToken
  /\ SocketInit /\ SessionInit /\ ContentInit /\ InboxInit /\ TicketsInit
  /\ BindingInit /\ SubscriberInit /\ FramesInit /\ DocumentsInit /\ AssetInit
  /\ RedisInit /\ LogInit /\ BrokerInit

\* Whatever is not the part that runs rests.
OthersRest ==
  /\ part # "socket" => UNCHANGED socketVars
  /\ part # "session" => UNCHANGED sessionVars
  /\ part # "content" => UNCHANGED contentVars
  /\ part # "inbox" => UNCHANGED inboxVars
  /\ part # "tickets" => UNCHANGED ticketVars
  /\ part # "binding" => UNCHANGED bindingVars
  /\ part # "subscriber" => UNCHANGED subscriberVars
  /\ part # "frames" => UNCHANGED frameVars
  /\ part # "documents" => UNCHANGED documentVars
  /\ part # "assets" => UNCHANGED assetVars
  /\ part # "redis" => UNCHANGED redisVars
  /\ part # "logs" => UNCHANGED logVars
  /\ part # "broker" => UNCHANGED brokerVars

ClientsNext ==
  /\ UNCHANGED part
  /\ \/ part = "socket" /\ SocketNext
     \/ part = "session" /\ SessionNext
     \/ part = "content" /\ ContentNext
     \/ part = "inbox" /\ InboxNext
     \/ part = "tickets" /\ TicketsNext
     \/ part = "binding" /\ BindingNext
     \/ part = "subscriber" /\ SubscriberNext
     \/ part = "frames" /\ FramesNext
     \/ part = "documents" /\ DocumentsNext
     \/ part = "assets" /\ AssetNext
     \/ part = "redis" /\ RedisNext
     \/ part = "logs" /\ LogNext
     \/ part = "broker" /\ BrokerNext
  /\ OthersRest

\* The fairness of each part, while it is the one that runs.
ClientsFairness ==
  /\ WF_socketVars(part = "socket" /\ ReconnectTimer)
  /\ WF_socketVars(part = "socket" /\ HelloTimer)
  /\ \A s \in 1..MaxSockets : /\ WF_socketVars(part = "socket" /\ Report(s))
                             /\ WF_socketVars(part = "socket" /\ Handshake(s))
  /\ WF_sessionVars(part = "session" /\ Expiring)
  /\ WF_sessionVars(part = "session" /\ Expired)
  /\ WF_sessionVars(part = "session" /\ StorageDone)
  /\ WF_contentVars(part = "content" /\ RequestMoves)
  /\ WF_contentVars(part = "content" /\ TimerRefreshes)
  /\ \A d \in Device : /\ WF_inboxVars(part = "inbox" /\ Refreshes(d))
                       /\ WF_inboxVars(part = "inbox" /\ ~awake[d] /\ Naps(d))
  /\ \A u \in Seeker :
       /\ WF_ticketVars(part = "tickets" /\ \E r \in reads[u] :
                           GapOver(u, r) \/ ReadServed(u, r) \/ ReadEnds(u, r))
       /\ WF_ticketVars(part = "tickets" /\ \E c \in calls[u] :
                           CallServed(u, c) \/ CallEnds(u, c))
       /\ WF_ticketVars(part = "tickets" /\ TimerRings(u))
       /\ WF_ticketVars(part = "tickets" /\ Resumes(u))
  /\ WF_subscriberVars(part = "subscriber" /\ SocketSteps)
  /\ WF_redisVars(part = "redis" /\ RedisGoesOn)

ClientsSpec == ClientsInit /\ [][ClientsNext]_clientsVars /\ ClientsFairness
=============================================================================
