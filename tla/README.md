# tslib in TLA+

tslib is a monorepo of small TypeScript packages. Its core is a way to run
games, and other stateful actors, on functions that start, die and overlap:
messages are pushed to a queue in Redis, an invocation takes a lock on the
actor, drains the queue under that lock, keeps the lock alive with a heartbeat
and gives it back. Around it are the connections below, the game loop above, and
the clients that players run: a gateway socket, a session, saves, rooms, turn
games, matchmaking, mail, content, push, asset downloads. This directory holds
models of those parts, the TLC runs that check them and the TLAPS proofs about the
lock, the queues of actors and games, the game loop, the socket under every Redis
command and the push binding.

All paths below are relative to `src/packages/` unless they begin with `docs/`.

## 1. The system

| Part | State | Operations | Hard because |
|---|---|---|---|
| `actor-system`: lock interface, heartbeat, `eventLoop` | the token each lock object remembers; the key in Redis; the beat in flight; `lockLost` | `tryAcquire`, `renew`, `release`, `beat`, `poll` | leases lapse at any moment, a beat is in flight when the work ends, replies are lost, processes die |
| `actor-system`: `post`, `send`, `tryToProcess` | the queue; for every call its place in the drain, the messages of the pass, of the cycle and of the cycles before; the awaiter keys | `enqueue`, single and bulk consumption, notification, shift to a successor, waiting | check-then-act across awaits; a late answer; a message pushed after the last look at the queue |
| `actor-system-redis` | keys of lock, queue and awaiter | `SET NX PX` and token scripts, `RPUSH`+`EXPIRE`, `LRANGE`+`LTRIM`, `LPOP`, `LLEN` | two commands are not atomic; a command whose reply is lost may have been executed |
| `actor-system-lambda` | none between invocations | parse the event, drain, invoke a successor | the successor must find the lock free |
| `lambda-gamebase`: game actor | start event, queue, lock of one game | `handleActor`, `startActorLoop`, `readyCall` | duplicate invocations; a start event that is written before the lock and deleted under it |
| `lambda-gamebase`: gateway handlers | the mapping from connections to games | connect, message, disconnect | several round trips per event, retried events |
| `naive-socket` | work queue, socket, reconnect timer | `send`, `disconnect`, socket events | answers are matched by position; events of replaced sockets; timeouts after the write |
| `naive-redis` | AUTH in flight, subscriptions, the bytes of half a frame | commands over `naive-socket`, subscribe, restore | AUTH before everything after every reconnect; answers of a former connection; restores that outlive theirs |
| `gamebase-all-together` | users, connections, stage | wait, running and end stages; enter, leave | leaves of superseded connections arrive late |
| `gamebase-client` | socket, reconnect delay, handshake failures, peers | connect, close, send | late events, a close during a reconnect or inside a handler |
| `game-kit`: session, polling | token, clock, storage lane, epochs | adopt, restore, clear, refresh | answers for a session that is over; timers that lose their turn |
| `game-kit`: save | queue, versions, cached rows | update, flush, hydrate, claim | lost acknowledgements, merges, restarts |
| `game-kit`: room | roster, revision, last state, pending command | create, invite, accept, leave, publish, resync | succession, frames of a former host |
| `game-kit`: turns | move log, download, buffer, finish | submit, accept, download, end, restore | gaps, answers that are behind, an end that arrives before its moves |
| `game-kit`: matchmaking | ticket, polling; matched party | submit, cancel, reply; find and form a room | calls that cross, early invitations, windows |
| `game-kit`: mail, friends, content, push | what was told, the cached entry, the registration | poll, claim, read, register | sign-outs between two steps, devices that race |
| `repository` and its stores | versioned documents | read, edit, compare-and-set | concurrent editors, writes that are sent again, TTLs that are rounded |
| `asset-client` | what a download has written, its ETag | read, range, resume | the object is replaced between two requests |
| `logger-s3`, `event-broker` | buffer and chain of flushes, handler lists | write, flush; on, once, off, fire | a failed link of a chain, overlapping flushes and fires |
| the wire clients, `codec`, `logger`, `logger-slack`, the authorizers | none worth a model | build a request, parse an answer | nothing that a model checker reaches |

How they interact: a gateway handler pushes to the queue of a game
(`enqueueToActor`), the actor of the game flushes that queue by polling
(`eventLoop`), the game loop (`gamebase-all-together`) turns the polled
messages into enters, leaves and requests, and all Redis commands of one
process go through one `naive-redis` connection, hence one `naive-socket`,
which answers them in the order in which it wrote them. In a player's page, the
room and the turn game of `game-kit` speak through the lobby client of
`gamebase-client`; matchmaking hands the players it matched to a room; the
session ends everything that was started under it; saves, mail, content, tickets
and push go through the wire clients, whose calls may fail after they took effect.

What makes each part correct, and which properties say so, is the list
`hazards` of `PROJECT.json`, at the lines where it could go wrong.

## 2. The modules

| Module | Models | Instance for TLC |
|---|---|---|
| `ActorLease` | what a lock with a lease promises: an owner, who is working, and lapses | through `ActorLock` |
| `ActorLock` | `actor-system-redis/src/lock.ts`, `actor-system/src/lockHeartbeat.ts`, the lock part of `eventLoop.ts`, and the order in which one connection answers | `MCActorLock` |
| `ActorLock_proofs` | theorems about `ActorLock` | |
| `Mailbox` | what the queue of an actor promises, with no lock, owner or store | through the next two |
| `ActorProcess` | `actor-system/src/process.ts`, `post.ts`, `send.ts`, `awaiting.ts`, `enqueue.ts`, both awaiters, over the lease of `ActorLease` | `MCActorProcess` |
| `ActorProcess_proofs` | theorems about `ActorProcess` | |
| `GameActor` | `lambda-gamebase/src/actor`, with `poll` and the callback of `eventLoop.ts`, and the pushes of the gateway handlers, over the lease of `ActorLease` | `MCGameActor` |
| `GameActor_proofs` | theorems about `GameActor` | |
| `Party` | what the members of a game see of its loop | through `AllTogether` |
| `AllTogether` | `gamebase-all-together/src`, fed by the gateway handlers of `lambda-gamebase/src/handlers` | `MCAllTogether` |
| `AllTogether_proofs` | theorems about `AllTogether` | |
| `NaiveSocket` | `naive-socket/src/naive-socket.ts`, with a listener that greets like the AUTH of `naive-redis/src/connection.ts` | `MCNaiveSocket` |
| `NaiveSocket_proofs` | theorems about `NaiveSocket` | |
| `RedisConnection` | `naive-redis/src/connection.ts`, `send.ts`, with a password | `MCClients` |
| `RedisSubscriber` | `naive-redis/src/subscriber/createRedisSubscriber.ts` | `MCClients` |
| `PushFrames` | `naive-redis/src/subscriber/pushFrame.ts` | `MCClients` |
| `GatewaySocket` | `gamebase-client/src`: `gateway-socket.ts`, the lobby and game clients, `peer-map.ts` | `MCClients` |
| `Session` | `game-kit/src/session.ts`, `runtime.ts`, `polling.ts`, sign-in and sign-out of `index.ts` | `MCClients` |
| `Content` | `game-kit/src/content.ts` | `MCClients` |
| `Inbox` | `game-kit/src/mail.ts` and the requests of `friends.ts` | `MCClients` |
| `Tickets` | the deferred half of `game-kit/src/matchmaking.ts` | `MCClients` |
| `PushBinding` | `game-kit/src/push.ts` | `MCClients` |
| `PushBinding_proofs` | theorems about `PushBinding` | |
| `Documents` | `repository/src/document` over each backend (`repository-redis`, `-dynamodb`, `-s3`, in-memory, plain) | `MCClients` |
| `AssetBundle` | `asset-client/src/client.ts` | `MCAssetBundle`, `MCClients` |
| `LogFlush` | `logger-s3/src`: buffer, flush, Lambda wrapper | `MCClients` |
| `EventBroker` | `event-broker/src/event-broker.ts` | `MCClients` |
| `PartyGateway` | the party of the lobby gateway, as `test-support/game-kit-fakes.ts` has it | through the next three |
| `Room` | `game-kit/src/room.ts` | `MCKit` |
| `Turns` | `game-kit/src/turns.ts` | `MCKit` |
| `MatchRoom` | the live half of `game-kit/src/matchmaking.ts` (`find`, `formRoom`), the match socket of `platform-client` | `MCKit` |
| `Save` | `game-kit/src/save.ts`, the versions of `kvstore-client` | `MCKit` |
| `Kit_proofs` | theorems about `Save` and `Turns` | |

Composition is by refinement and by extension. `ActorLock` is detailed: every command to
Redis is issued, executed and answered in steps of its own, on a connection
that answers in order. It is shown to implement `ActorLease`, by TLC on a small
instance and by TLAPS for every one. `ActorProcess` and `GameActor` extend
`ActorLease`: for them the lock is an owner that may be taken only when there
is none, and a lapse that takes it away. Both are shown to implement
`Mailbox`, in the same two ways, and `AllTogether` to implement `Party`.
`Room`, `Turns` and `MatchRoom` extend `PartyGateway`, so the same lobby carries
their frames and loses them with a connection. `Session` holds the epochs that a
sign-out moves; the modules that live in a session (`Content`, `Inbox`, `Tickets`,
`PushBinding`) have generations of their own for it.

### ActorLock

`key` is the value of the Redis key; a random token is named by who minted it
and how many it minted before, which is what its randomness is for. `tokens` is
the map in `createRedisLock`, one per lock object (`ClientOf` says which
invocation uses which). `pc` follows an invocation from `tryAcquire` to
the release, `beat` what its heartbeat awaits. `pipe` is the order of the
commands on a connection: an urgent one (a renewal, a re-acquisition) overtakes
those that are not written yet. Actions: `TryAcquire`, `Acquired`, `Refused`
(`lock.ts`, and the two callers' reactions), `Finish`, `Released`,
`ReleaseFails` (the release and its second attempt), `Tick`, `Renewed`,
`RenewalRefused`, `Reacquired`, `GiveUp`, `BeatFails` (one beat), `Lapse`,
`Expire`, `Crash` (Redis and the process).

A command that fails for its caller has been executed or not: both outcomes are
in `AcquireFails`, `ReleaseFails` and `BeatFails`. What is abstracted: a
command that timed out executes, if it does, no later than its caller learns of
the failure.

### ActorProcess

`call` is the state of every call: the await it is in, whether `aliveMillis` has
run out, `lockLost`, the message or batch in its hands, the three sets of
handled messages that `tryToProcess` keeps (`local` per pass, `loop` per cycle,
`metas` per call), whether it will shift, and what it answered. `mode` is what
the deployment chose: the consumer (single or bulk) and the awaiter (Redis or
in-memory); it is chosen once, in the initial state, so one run checks all of
them. Every await of the code ends a step. Single mode is `Prepare`, `Size`,
`Peek`, `Handle`, `ResolveAct`, `Pop`; bulk mode `ReadAll`, `Trim`, `Handle`,
`ResolveAct`; both end in `Commit`, `NotifyCommit`, `Recheck`, `Wake`,
`LeaveDrain`, `ReleaseLock` and `Shift`. The actions named `...Throws` are the
same awaits failing. A message is named by the call that pushed it.

Not in it: the notifications of `Act` are awaited in the model where the code
lets them run along with the pop that follows. A heartbeat is in it as far as it can
change who has the lock: a renewal that is refused (`BeatRefused`, which drops the
token), and the re-acquisition that follows (`BeatAgain`, `BeatThrows`), each answered
whenever it is, also after the call has issued its release or has ended. `beating` has
the calls that await a re-acquisition, `token` those whose release will know the token of
the key. A renewal that succeeds or fails unanswered changes neither and is left to
`ActorLock`.

### GameActor

`inv` is the state of every invocation of `handleActor` for one game, `push`
that of every gateway handler that pushes, `queue`, `ttl` and `startEvent` what
Redis holds. A push is two commands and may fail between them; a poll is two
commands, and everything may happen between them. The game is opaque: it polls
as long as it likes and ends when it likes. `readyCall` is a step that may take
effect and yet fail. Its heartbeat has the steps of that of `ActorProcess`.

### NaiveSocket

`sock` holds the fields of `NaiveSocketImpl` and what the peer and the runtime
know of the current connection. The code is single threaded and its handlers call one
another, so each helper (`DoDisconnect`, `Connect`, `RetryToConnect`,
`DoNextSendWork`, `SendWork`, ...) is a function from the socket's state to the
next one, as the method is, and each call, timer, event or write callback is an
action that applies them. Connections are numbered; `open` has those that are
not destroyed. A reply carries no name: `wire` is what the peer has received and
will answer in order, `half` the request whose reply has come in part, and
`OnData` gives the reply to the head of the queue. The callback of a write
(`calls`) may run at any time, also when its socket was replaced. The options
open a socket or make `createConnection` throw (`valid`).

Not in it: the consumer of unsolicited data, the restart of a request's deadline
by a part of its reply, the options of TLS.

### AllTogether

`conn` is the socket of every connection, `mapping` the stored mapping of
connections to the game, `queue` what the handlers of `lambda-gamebase/src/handlers`
pushed. `pc`, `stage`, `alive` and `batch` are where `runGameAllTogether` is,
`connectedUsers` and `users` the game context (`users` has the `connectionId` of
members and observers), `rounds` and `ending` the repeats of the end. `over` is
what `isGameOver` answers: the game's callbacks may make it true. The loop is
sequential, and while it awaits something for a message the rest of the system only
pushes to the queue and closes sockets, so what it does for one message is one
action: `EntersAsObserver`, `Enters`, `EnterThrows`, `Leaves`, `Moves`; then
`RunFixedSteps` and `Announce`. `$connect` is two: it stores the mapping and queues the
enter (`Connect`), and its return lets the client in (`LetIn`), or refuses it
(`ConnectFails`). Between the two the connection is "connecting": the loop may take its
enter, fail to reach it and prune it, supersede it, or end. `tooLate` records who was let
in after that. `$default` and `$disconnect` are one action each, with a variant for
every place where they can fail. `setup` is the game that is
played: which clients come, the options, the bounds. It is chosen in the
initial state, so one run checks several small games instead of a large one.

It is shown to implement `Party`, which has no queue and no map: a place per
member, and a game that starts when everyone, or after the waiting time
enough of them, are there.

Not in it: the contents of announcements and snapshots; hooks are callbacks that
return or throw. A game that is over stays over.

### Save

`history[n]` has the value of every version that the server gave to a row, `live` the
rows that are there; `known`, `staged`, `disk` and `task` are what a device caches,
queues in memory, keeps in its adapter and has on its lane. A value is the set of the
updates it contains and a merge is their union, so an update that was overwritten is
one that a value lacks. Every await of `save.ts` ends a step: `Call` and `Claim`, `Read`,
`Form`, `Persist`, `SendOk`, `SendConflict`, `SendLost` (the row was written or not),
`Fetch`, `Recover`. `SignOut` closes the page; its request may still arrive
(`StrayArrives`). Policies (queue, merge, retries) are part of the setup.

### PartyGateway, Room, Turns, MatchRoom

`PartyGateway` is the server's half: `order` and `invited` of one party, who is
`online`, and `down[u]`, the frames on the way to a user, which a drop loses from some
point on (`GatewayDropAfter`). It follows the fake gateway of the tests, as the real one
is another repository. The three modules give each player what `game-kit` keeps and a
handler per frame.

`Room`: `seat` is the last roster applied, `command` the party command under way,
`revision`, `lastState`, `received` the numbers that order what the host publishes. A
frame of the gateway and the reaction of `applyRoster`, including the resync it asks
for, are one action (`Receive`).

`Turns`: `play[u]` has the log, the request and its assembly, the buffered moves, the
announced end and the state of the lane; `streams` are the downloads that are being
answered beside it. A record's hash covers its predecessors, so a record is its whole
prefix. Frames are taken in order while the lane is free (`TakeFrame`); saving takes two
steps of it (`SaveRows`, `SaveManifest`). `SubmitLost` is a move that is kept by its
player and reaches nobody. `LogTimeout`, `ClosePage` and `OpenPage` are the thirty
seconds and the reload from the save. The timeout may come while the answer is on its way
(`slow` bounds how often), and a page that opens with nobody to ask goes on with the log
of its save; either leaves `gaveUp`. `made` is the history of the logs that moves were
submitted with.

`MatchRoom`: `hunt[u]` follows `find` and `formRoom`, `early` the invitations that come
before the match is heard of, `errand` the party command under way.

### Session, Content, Inbox, Tickets, PushBinding

A generation is one session, or the time between two; the runtime moves it when a token
is adopted or cleared, and a step that began before compares it where the code does.

`Session`: `storageTail` is the promise chain of the token store, `syncs` the requests
for the server's time, `alarms` the two timers, `epoch`, `armed`, `flying`, `flight` the
poller. `Content`: one cache entry, the refresh that is pending, whether it was rearmed,
and `heard`, what the subscriber was told. `Inbox`: the box of several players and, per
device, the listing in progress (its pages), what it has seen, what it told, and the
claim in its two requests. `Tickets`: the ticket on the service and, per player, the
epoch, what is shown, reads and calls under way in any order. `PushBinding`: the
registrations of the service, the binding the kit believes in, and the lane of
registrations and cleanings with every request of theirs a step.

### GatewaySocket

One logical connection over numbered sockets. `wire[s]` is what the runtime has still to
report of socket `s`, `remote[s]` the gateway's end of it; `Report` is the socket handlers,
which compare the socket with the current one. A handler that calls `close()` is part of
the action that emitted the event. `peers` and `zone` are `peer-map.ts`.

### RedisConnection, RedisSubscriber, PushFrames

`RedisConnection`: the n-th connection sends AUTH n, urgently; `current` is the promise
that commands wait for, `verdict` what became of each AUTH; `outbox` is the socket's
queue, which outlives a connection. `RedisSubscriber`: `restoring[n]` is the restore of
connection n, `stream` what the server has said on this connection and the subscriber
has not heard. `PushFrames` is pure but for its buffer: a character is a record with its
UTF-8 length, lengths count bytes while the buffer counts characters, and a chunk ends
anywhere.

### Documents

`item` is what a backend stores, with the revision or ETag its condition compares;
`EditOf` is the writer's edit (insert, put, truncate). `Reads` and `Writes` are the two
requests of `editDocument`; `WritesUnheard` lost its answer, `WritesAndIsSentAgain` is the
SDK's retry, `Refused` a failed condition. Time passes in half seconds, because DynamoDB
rounds lifetimes to seconds; `Sweeps` is the store's own expiry.

### AssetBundle

`object` is the version that the CDN serves, whose units are <<version, position>>; `sink`
is what the caller has been given. Each request is a step (`Head_`, `First`, `Segments`,
`Whole`, `Chunk`, `OneAnswer`), and `Replaced` may come between any two. `site` says what
the host honours: ranges, `If-Range`, ETags that are strong, weak or missing.

### LogFlush, EventBroker

`LogFlush`: `batches` is the chain of promises, `appending` the keys of its first batch,
`strays` the appends that go on after their batch has failed. `Aggregate` cuts a buffer
into one body per key, the records of a key counted in their order (`CountedUp`).
`EventBroker`: each fire has its snapshot and awaits its handlers one after the other; what
they do to the broker is a call like any other. `soFar` is what was called; `CallsOf` are
the calls of a fire and `PlaceOf` the place of a call among them.

## 3. What the runs check

| Run | Module | Shows |
|---|---|---|
| `lock` | `MCActorLock` | the lock through two lapses, two lost commands and a crash |
| `lock_inflight` | `MCActorLock` | a disagreement with the code, see section 6 |
| `process_safety` | `MCActorProcess` | what the drain does whatever fails |
| `process_live` | `MCActorProcess` | that messages are handled and waits end |
| `process_stranded` | `MCActorProcess` | a disagreement with a comment |
| `game` | `MCGameActor` | a game, its queue, its start event and its announcement |
| `socket` | `MCNaiveSocket` | a queue of requests over connections that fail |
| `socket_replaced` | `MCNaiveSocket` | a disagreement with a comment |
| `together` | `MCAllTogether` | games, their members and their connections, to the end |
| `kit` | `MCKit` | saves, rooms, turn games and matched rooms of several players |
| `clients` | `MCClients` | the thirteen clients of services and stores, one at a time |
| `asset_resume` | `MCAssetBundle` | a disagreement with the README of `asset-client` |

A run checks a component's promises by the names below. `...Invariant` and
`...Promise` are conjunctions of named parts, an invariant of states the first, with
action and liveness parts the second; the parts, each with its own comment, are
listed under them. The type invariant of a module is one of the parts.

`lock`.

- `TypeOK`, `HolderKeepsKey`: an invocation that works, and whose lease did not lapse
  since it took the lock, is the one the key names, with the token its lock
  object remembers. So two invocations play one game only after a lapse.
- `ImplementsLease`: no invocation takes the key away from another one.
- `LostMeansTaken`: as long as no command is lost, the heartbeat gives a game
  up only when somebody else has it.
- `LockRecovers`: one failed release leaves nothing behind (`ReleaseMakesUp`); a lapse
  is followed by a new lease or by `lockLost`, however long the game goes on
  (`LapseIsSettled`); what a dead process left disappears (`OrphanIsFreed`); a call
  that retries gets the actor (`WaiterIsServed`).

Bounds: two invocations, because each property is about one invocation and
whoever took its key; two lapses, so that a re-acquired lease lapses again; two
lost commands, so that a release can fail for good; one crash. 

`process_safety`. One post, one send, one worker that runs out of time and shifts to a
successor; in both modes; a throw and a crash, or a lapse, after which a beat may throw
where one message is pushed (`LapseAlone`). Two messages are the least that have an order,
and four calls the least that have an owner, a waiter, a refused call and a successor.

- `ImplementsMailbox`: in single mode only the oldest message is handled, and
  only a handled one leaves the queue; in bulk mode a batch leaves the queue
  and is handled once or gone. Promised until a lease lapses.
- `DrainInvariant`: if nothing fails, each message is handled once, in order,
  across a shift (`HandledInOrder`); `post` and `send` answer true only for a message
  that was handled (policy Act) or whose pass was committed (policy Commit), a lapse
  notwithstanding (`AnswersAreTrue`).
- `SuccessorCanAcquire`: a shift comes after the release, and finds the lock free of the
  call that shifts, unless a lease has lapsed: then a beat that is under way at the release
  may have taken the lock again, and the successor is refused until that lease expires
  (section 6).

`process_live`. A post that waits without a timeout, a one-shot send that waits
with one, a worker that drains for ever and one that may replace it; one crash;
both modes and both awaiters.

- `EveryMessageHandled`: what was pushed is handled, whoever dies; in bulk mode
  unless somebody dies.
- `WaitsEnd`: a wait with a timeout ends (`WaitsReturn`); one without is woken when
  its message was handled (`HandledIsAnswered`).

`game`. Two invocations, one of which has a `callbackUrl`, two pushes; a failing round
trip, a crash and a failing push, or a lapse and one of the three (`FewFaults`).

- `ImplementsMailbox`: the inbound queue is at most once and in order, and a
  push between `LRANGE` and `LTRIM` survives. Promised until a lease lapses.
- `GameInvariant`: the queue key carries its TTL once no push is under way
  (`QueueHasTtl`).
- `GamePromise`: the lobby hears "ready" from the one that plays
  (`OnlyThePlayerIsReady`); what is queued during a game reaches it, though its push
  reported an error, unless the game ends (`EveryMoveArrives`); lock, start event and
  queue outlive no game (`EverythingDisappears`).

`socket`. A plain request with a timeout, an urgent one, a silent one, and a
greeting on every connection; one failure of a connection or of a write, one
disconnect, one reset, so up to four connections. One request of each kind is
enough for a request to be overtaken, answered late and left behind, and each
connection after the first is one more chance to confuse it with its
predecessor.

- `QueueInvariant`: a request is resolved with its own reply and no other's
  (`AnswersMatch`); at most one socket is open, none after a disconnect (`OneSocket`);
  the greeting precedes what the queue held from before (`GreetedFirst`).
- `RequestsSettle`: what was settled is not written again (`NotWrittenAfterwards`);
  every request is answered or fails (`EveryRequestSettles`).

`together`. Four games: both members come, one of them twice, and nothing fails (nor is
anybody pruned); a member comes twice and something fails; two members, and something fails;
a member and an observer in a simulation with fixed ticks. Two connections of one member
are what supersedes and leaves late; two members are what must not be confused with
one that is counted twice. An interval of two and a clock that goes to four allow a rest, a
step that is caught up and a backlog that is dropped.

- `ImplementsParty`: a member loses its place only to its own next connection, or by
  closing, unless a delivery or a drop failed; the game starts early only with all
  members, and late with enough.
- `LoopGoesOn`: as long as nothing fails, an open connection comes to be the
  one its member speaks through or is dropped, unless it was let in when the loop had
  already given it up (`tooLate`, section 6), and a closed one is unbound
  (`PresenceFollowsSockets`); every game ends, whatever fails (`GameEnds`).
- `BoundOnce`: the map of connections and the members agree, so nobody is counted twice.
- `BoundIsDropped`: who is bound at the end is dropped, though a drop fails, if it was let
  in before the drops.
- `SimulationFollowsClock`: fixed ticks are never ahead of the clock, and less than
  one behind, unless a backlog was dropped.

`kit` and `clients` check one part per behaviour: `part` is chosen in the initial state,
the others rest. They are products of nothing, so their states add up, and one run
explores parts that have the same kind of environment.

`kit`.

- `SaveInvariant`: an update that was accepted is in the adapter or was on the server
  (`AckedIsKept`); what a device believes of a row was so (`CachedIsReal`); a restart
  finds the queue that memory has (`QueueIsDurable`); a claim that was won made the
  row, and no other claim did unless a removal was called for (`WinnerHoldsTheRow`).
- `SavePromise`: no update overwrites what it had not read or merged, but for a rebased
  one (`OverwritesNothing`); where conflicts can be merged an accepted update reaches the
  server (`AckedReachesServer`).
- `RoomHolds`: the party is in the seats of who is connected, or on its way
  (`RosterCatchesUp`); who takes over with nothing missed starts from the last snapshot
  (`SuccessorKnowsState`); without drops all converge (`MembersConverge`).
- `TurnInvariant`: unless a player has made two moves for one place of the game (`Forked`),
  any two logs, in play or saved, are the same moves as far as they go (`LogsAgree`); and,
  forked or not, two players that have ended hold the same game (`EndsAgree`; of three it
  is not so, section 6).
- `TurnPromise`: a player makes a second move for a place only if it gave its request up
  (nobody to ask, or no answer in thirty seconds), or if nobody has the first one but a
  player that was itself downloading from it (`PlaysTwiceUnanswered`); but for such a
  move, only a log shorter than one's own freezes a game (`FrozenByShorterLog`); of two
  players, one that is behind catches up, with the exceptions that its comment names
  (`CatchesUp`).
- `MatchPromise`: who is told that the room is whole is in it with all others
  (`WholeIsTogether`); nobody is lost without a drop or a short window
  (`PartialIsCaused`); every hunt ends (`EveryHuntEnds`).

Bounds: two devices, two rows, three or four calls of both, one or two failures and one
sign-out: a lost acknowledgement, its recovery and the other device's write in between. A
room of two in three setups: a member that drops, a host that leaves, a host that drops.
Seven turn games: up to three moves, drops of one or both players, a lost move with an
answer that is late, a reload with a save that fails, with a late answer, and while the
other player is away, so that nobody can be asked; the game of three is the smallest in
which a move arrives that leaves a gap: the download of a player who comes back was
answered by one that is behind, and two moves are made. Three matched players, one of whom
may drop, be deaf to the match or slow.

`clients`.

- `SocketPromise`: what was closed stays closed, whatever handler closed it
  (`EndIsFinal`); refused handshakes end the client (`RefusalsAreBounded`); the peers
  shown are those of the gateway once its frames are applied (`ViewIsCurrent`);
  `connect()` answers (`ConnectAnswers`).
- `SessionPromise`: the clock is that of the session (`AnchorIsOwn`), storage ends up with
  its token (`StorageFollows`), one refresh of the poller at a time (`OneRefresh`), which
  never loses both timer and flight (`PollingGoesOn`); a synchronized session ends
  (`SessionEnds`).
- `ContentPromise`: `CacheIsOwn`, `ToldInOrder`, and `SubscriberCatchesUp`: each last
  edition is heard of, whatever request fails.
- `InboxPromise`: `ClaimedOnce`, `ToldOnce`, `ToldIsOwn`, and `ArrivalsAreTold` where the
  listing is one page.
- `TicketPromise`: one read at a time (`OneLookup`); a cancel leaves no ticket
  (`CancelLeavesNothing`); who saw a live ticket sees what becomes of it, unless requests
  crossed (`OutcomeIsShown`).
- `BindingInvariant`: what the kit believes in is served and of this session
  (`BoundIsServed`); once the lane is empty nothing else is left (`NothingIsLeft`).
- `SubscriberPromise`: on a restored connection the server has the channels that are
  meant (`SubscriptionsAgree`); who was told is served (`ResolvedIsServed`); a restore
  that outlived its connection harms nobody (`StaleRestoreIsHarmless`); channels come
  back after a loss (`SubscribedInTheEnd`).
- `ConnectionPromise`: AUTH is first on every connection (`AuthIsFirst`), one that failed
  does not leave its connection in use (`NotPoisoned`), one that is late does not take
  the next connection (`HealthySurvives`), every command settles (`CommandsSettle`).
- `ReadsWhatArrived`: frames are read as they were pushed, and as soon as they are whole.
- `DocumentPromise`: the document is its edits in their order (`ContentIsItsEdits`), each
  made once (`EditedOnce`), it lives its time (`LivesItsTime`), and a writer is refused
  only if somebody else wrote (`RefusedOnlyByOthers`).
- `AssetInvariant`: bytes of two objects are never spliced (`SinkIsOneObject`); a call
  that succeeds has all of one version that was served after it began (`DoneIsExact`);
  restarts have a cause (`RestartsAreCaused`).
- `LogInvariant`: an object holds its records once and in order (`StoredInOrder`); none is
  lost before an append fails (`NoRecordIsLost`); a flush that had something to flush and
  resolves has stored all that came before (`FlushCoversAll`); the stamp is that of the
  flush (`StampedWhenFlushed`).
- `BrokerInvariant`: a fire calls its snapshot in order (`SnapshotIsServed`); a `once`
  handler twice only by a fire that had begun before (`OnceUnlessOverlapping`).

Bounds: for each part several small setups, each with the failures that meet in it
(`MCClients` lists them), rather than one with all. Two players or devices wherever two
race, two or three generations of a session, four sockets and five Redis
connections, so that a late event may be taken for its successor's; three versions of a
file, the third as long as the first, which is what a length cannot tell apart; two
frames cut at every byte; four writers on one document per backend, with two keys; three
fires over three registrations.

The runs hold everything a component promises together, rather than one
property each, so that each of them is checked in every behaviour of the
component. Where a promise holds only under a condition (no lapse, no lost
command), the property names it, and a behaviour that breaks the condition is
still explored for the others.

## 4. Fairness

`ActorLock.Fairness`: commands are answered, timers fire, a waiting call wakes
up, an unrenewed lease expires. The code has a timeout on every command and
Redis expires keys, so weak fairness of each is what the runtime gives. Nothing
is assumed about the work; `WaiterIsServed` assumes `WorkEnds` in its statement.

`ActorProcess.Fairness`: the same, plus that callbacks return, which is the
contract of `onMessage`. `TryAcquire` and `Refused` need only weak fairness in
the configuration of the run, because a worker that drains for ever keeps the
lock and the others need not get it. Nothing makes a caller push, a process die
or a lease lapse.

`GameActor.Fairness`: the same. That a game ends is assumed only by
`EverythingDisappears` (`GamesEnd`), as strong fairness, since the game may end
between any two polls: its stages have time limits.

`AllTogether.Fairness`: the loop goes on, `$connect` returns and `$disconnect` runs. That
a stage runs out of time is assumed only by `GameEnds`, where `createTicker` sees to it; a
game that lasts for ever must still follow its sockets.

`NaiveSocket.Fairness`: a connection is made or fails, the peer answers what it
received, a close is reported, timers fire and the callbacks of silent writes run. It
does not say that a request times out: the queue has to get on without that.

`KitFairness` and `ClientsFairness` are those of the parts, each while its part is the
one that runs; they are written as weak fairness of groups of actions that compete.

- `Save`: a lane goes on with its next request, and a timer that was armed fires.
  Nothing makes a player update, sign out or come back.
- `Room`, `Turns`, `MatchRoom`: a frame that was delivered is taken, a lost connection
  is opened again (the lobby client retries without end), a download is answered or
  its thirty seconds pass, a stream goes on, a window ends. Nobody has to move.
- `GatewaySocket`: timers fire, and the runtime reports what happened to a socket.
- `Session`, `Content`, `Inbox`, `Tickets`: timers fire, a request is served and ends,
  with an answer or a failure, and an app that sleeps wakes up where a property is about
  what comes then.
- `RedisSubscriber`, `RedisConnection`: the server answers what it received, closed
  sockets are reported and opened again, commands time out.

A liveness property of these parts is of the form "again and again, what is owed has
been delivered" (`[]<>`), which holds also of a behaviour that stops for want of input.

## 5. What is proved

A theorem holds for every value of the constants that satisfies the assumption of
its module: any invocations, calls, messages, members, connections, tokens and
requests, as many as one likes, and any bounds on failures. Every invariant below was
first checked by TLC on the instance of its run.

### ActorLock_proofs (`LockAssumption`)

- `TypeCorrect`: `TypeOK` is an invariant. Inductive with the fact that an
  attempt to release is counted up to `ReleaseAttempts` (`AttemptInv`).
- `HolderIsExclusive`: `HolderKeepsKey` is an invariant, if every invocation has
  a lock object of its own (`OwnLocks`; `handleActor` creates the actor system
  per call). `HolderKeepsKey` alone is not inductive: a compare-and-delete in
  flight could name the key of a holder. `HolderInv` adds that the tokens a lock
  object remembers, and those named by a release in flight, were minted by its
  own invocation, that a release in flight names a token, that an invocation that
  does not work yet has no beat, and that a renewal in flight names the current
  token while the lease has not lapsed.
- `LockImplementsLease`: from the same invariant, every step of the lock is a
  step of `ActorLease` or a stutter.
- `LostToAnother`: `LostMeansTaken`, with `OwnLocks`. An invocation whose beat is refused
  must not find its own key there. `OwnKeyInv` says, as long as no command was
  lost, where a key that names an invocation can be: it is the token its lock object
  remembers, the one a renewal in flight names, and no re-acquisition is under way.

### ActorProcess_proofs (`ProcessAssumption`)

- `DrainIsCorrect`: `DrainInvariant` is an invariant. `AnswersAreTrue` needs `KnownIsTrue`:
  what a pass, a cycle and a call remember as handled was handled, what they remember
  as committed was committed, and whoever is resolved was told the truth; it does
  not need the lock, so it holds across lapses. `HandledInOrder` needs the lock: as long
  as no lease lapsed only the owner drains (`ExclusiveInv`), what it read is still
  the oldest part of the queue (`BatchInv`), each call is in the steps of the consumer
  it was given (`ModeInv`), and, as long as nothing failed, what was sent is what
  was handled followed by what is pending (`OrderInv`), where the head of the queue is
  no longer pending between its handler and its `LPOP`.
- `QueueIsMailbox`: from the same invariant, every step is one of `Mailbox`, at least once
  in single mode and at most once in bulk mode, as long as no lease lapsed.
- `ShiftFollowsRelease`: `SuccessorCanAcquire`. `ShiftInv` says, as long as no lease
  lapsed, that a call that drains or releases has the lock and its token, that no beat
  is on its way to a re-acquisition, since every renewal finds its key, and that a call
  that shifts is not the owner. With a lapse the last part is false, by a `BeatAgain` after
  the release.

### GameActor_proofs (`GameAssumption`)

- `QueueIsNotLeftBehind`: `GameInvariant`. Inductive with `AnnouncerInv`: only an
  invocation with a `callbackUrl` announces.
- `MovesAreHandledOnce`: every step is one of `Mailbox` at most once, from `GameInv`,
  which has the two halves of the argument of a drain: only the owner is in its
  loop, and what it read is still the oldest part of the queue when it trims it,
  although handlers push in between.
- `OnlyThePlayerAnnounces`: the safety half of `GamePromise`, from the same invariant.

### AllTogether_proofs (`PartyAssumption`)

- `TypeCorrect`: `TypeOK` is an invariant. Inductive with `LoopInv`: the pass has a
  message in hand while it is in `batch`, and a round is left while the end is
  announced or dropped, so that a pass never reads an empty batch and the
  countdown never runs below zero.
- `NobodyIsBoundTwice`: `BoundOnce` is an invariant. It is inductive with the types: an
  enter removes the connection it supersedes before it binds its own, a leave
  removes only the connection that its member has now, and a prune removes both sides.
- `TicksFollowClock`: `SimulationFollowsClock` is an invariant. Alone it is not
  inductive, because a rest that is owed could exceed what was not simulated.
  `ClockInv` accounts for all time: what passed is the steps made, the rest owed and
  the backlog dropped.
- `TheBoundAreDropped`: `BoundIsDropped` is an invariant. `DropInv` counts: a bound
  connection that is still open has cost every round so far a fault, so that one left
  after the last round had as many failures as rounds. A connection that is not let in
  cannot be dropped, nor need it be; one that is let in later is `tooLate`. It needs that
  whoever is bound was announced by an enter of its own member (`PartyInv`).
- `LoopImplementsParty`: every step is one of `Party` or a stutter. It rests on `PartyInv`
  and on `StageInv`, that the loop is past its stages when the game is at its end.

### NaiveSocket_proofs (`SocketAssumption`)

- `RepliesReachTheirRequest`: `QueueInvariant` is an invariant. A handler is a composition
  of functions of the socket's state, as the methods call each other, so the invariant
  is proved function by function, and in the middle of a handler only part of it holds. It has
  three parts. `Sound` is what always holds: a request is queued once, only the
  head may have been written, an answer is one's own, at most the last socket is
  open. `Linked` ties the connection to the queue: what is on the wire is the head, and a
  socket that is not connected has an unwritten head. `AliveOK` is that `disconnect`
  leaves nothing. That no more than `MaxConnections` sockets are needed is part of the
  induction: every connection but a live one was spent by a fault, a stop or a
  reset (`Used`, `Spent`).
- `SettledIsNotWritten`: the safety half of `RequestsSettle`, from the same invariant.

### PushBinding_proofs (`BindingAssumption`)

- `NothingElseIsBound`: `BindingInvariant` is an invariant. It speaks of an empty lane;
  `BindingInv` says for a lane with tasks who owes what: tasks are in the order of their
  sessions, a binding of a former session is owed to a cleaning behind it
  (`OwedInv`), the task under way works on what is bound (`HeadInv`), the service has
  nothing but what is bound or what a failure left (`ServiceInv`), and what is bound is
  served unless the task under way is at it (`ServedInv`).

### Kit_proofs (`SaveAssumption`, `TurnAssumption`)

- `AcceptedIsKept`: `SaveInvariant`. `SaveInv` says, of every device, that the queue in
  memory has the writes of the adapter in their order with at least their updates
  (`SameWrites`: a merge changes the value in memory before the adapter has it), that
  what the lane is to persist has every update the adapter would lose unless the server
  has had it (`Covers`), and that what it sends is the caller's own write or the head of
  the queue. `AckedIsKept` alone is not inductive: `flush` drops the head of the queue,
  and only `Covers` knows that the server had it. `WinnerHoldsTheRow` needs the server:
  a row that was there is there, unless its removal was called for (`ServerInv`).
- `UpdatesOverwriteNothing`: `OverwritesNothing`, the safety half of `SavePromise`, where
  nobody calls `store`, which gives a value of its own (`OnlyUpdates`). `OrderInv` says of
  the first write of a row in a queue that it expects a version the row has had, whose
  content it contains, and of a write behind another of its row that it contains the other
  one or does not expect the version the other will make (`PairOK`): a merge of the first
  raises what it expects to where the second no longer fits. It holds of the queue in
  memory, of the adapter and of what is about to be persisted, since a page may end
  between any two of them, and of the requests of pages that are gone.
- `PlayersPlayOneGame`: `TurnInvariant`, of any number of players who lose connections,
  submits and saves and are answered late, as long as no page is reloaded
  (`NobodyReloads`); and without the exception it makes for a game that forked
  (`OneGame`). `OneGame` alone is not inductive: two logs that agree may be extended by two
  different moves. `TurnInv` says that there is one game `W` of which every log is a
  prefix, in play, in a save, in a download, in the buffer of a player who waits for one,
  or in a frame on its way, and that each of its moves is in the log of the player who
  made it (`Kept`). So whoever may submit, since the next move by its own log is its own,
  has all of `W` already, and its move makes the game longer instead of forking it.
  `EndsAgree` needs, of two players, that the host ends first (`Ended`), and that an
  announced end that is still on its way is the other player's log, unless that one
  downloaded a move the player made meanwhile (`EndOK`, `Near`). A handler is a function
  from a player and the frames of everybody to what they become; `Turned` says what each
  of them may do, and one lemma (`TurnedIsPlayed`) that this keeps the invariant of all
  the others.

### Clients_proofs (assumptions of the five modules it extends)

- `AssetInvariantHolds`: `AssetInvariant`, on hosts that honour `If-Range`, or on any host
  if the files are encrypted and every version has its ETag (`HonoursIfRange`): elsewhere,
  the 416 of `asset_resume` (section 6) ends a plain download with bytes of a file that is
  gone. `AssetInv` says what a call knows of the object it reads, although it is replaced
  between any two requests: what the caller saved is the beginning of the version it names
  (`SavedInv`), an attempt took its length and its ETag from one version, a later one than
  the attempt before (`SeenInv`, from which the restarts are bounded), and the body under
  way was served since the call began, of the version that the sink has up to the
  next segment (`BodyInv`, `EmitInv`).
- `BrokerInvariantHolds`: `BrokerInvariant`. Registrations are told apart by their number,
  which grows along every list (`ListenInv`); a fire's calls are the first ones of its
  snapshot, in order, and no `once` registration of it had been called before it began
  (`FireInv`), because one that still listens was not called.
- `LogInvariantHolds`: `LogInvariant`. The buffer has the last records (`BufferInv`); the
  bodies of a key follow each other, its object, what is under way of the first batch and
  the batches behind it (`ChainInv`), and so do the appends that outlive a failure
  (`StraysInv`); what was taken from the buffer is stored or on its way, and what a flush
  waits for is on its way no later than in the batch that settles it (`LossInv`,
  `CoverInv`). That any set of places can be counted in order (`CountingOf`), which would
  be an induction, is proved by a least counterexample.
- `ConnectionsAreAuthenticated`: the safety of `ConnectionPromise`. `LinkInv` says of the
  connection that is up that it is the last one, began with its AUTH, and that this AUTH has
  not failed; `WaitInv` that a command waits only for an AUTH that is pending, and
  `OutboxInv` that a pending AUTH is in the queue of its socket. So an AUTH that outlived its
  socket fails without taking another one (`OnlyThePeerDrops`).
- `EditsAreNotLost`: the safety of `DocumentPromise`, for each backend, if what marks an
  absent token is no pair (`AbsentIsNoToken`). The core is `ConditionMeans`: a condition
  that holds makes sure that the document that was read is the one that is there. For a
  store whose token is a hash of the document it is so by the token; for a plain
  repository by the turns of its callers; for DynamoDB by `RevisionInv`: a revision names a
  writer and its attempt, and one revision was never given to two documents, although a
  write that the SDK sends again uses its revision twice. `FreshInv` (whoever was not
  touched has read what would be read now) gives `RefusedOnlyByOthers`. `MakeUp` states the
  fold of `ContentIsItsEdits` step by step: a list of contents, each made by one edit from
  the one before, whose last one is stored.

### What stays with TLC

- Liveness and what is stated with it: `LockRecovers`, `EveryMessageHandled`, `WaitsEnd`,
  `LoopGoesOn`, and the live halves of `GamePromise`, `SavePromise`, `RequestsSettle` and
  `ConnectionPromise`. They need fairness and ENABLED, which the provers do not treat.
- `ReadsWhatArrived`: `PushFrames` reads a buffer with a fold over its characters, and what
  a fold computes for every input is an induction over data. For the same reason
  `EditsAreNotLost` has `MakeUp` in the place of the fold of `ContentIsItsEdits`, and leaves
  out of `DocumentsTypeOK` that the keys of a document are its writers' (`Without` is a
  `SelectSeq`).
- `TurnInvariant` where pages are reloaded. A page that closes before its moves are saved
  forgets them, so that `Kept` does not hold: it may find nobody to ask, or be answered too
  late or by a player that is behind, and make its move again, another one, and the game
  forks (section 6). The run has the reloads, of two players, and checks that nothing else
  makes one play twice (`PlaysTwiceUnanswered`).
- The other `...Promise`s of the modules of `MCKit` and `MCClients`, their safety included.
  What they promise is of one session, one socket or one lane at a time, and half of it is
  liveness.

The constants are constrained by named assumptions in the modules that declare them,
which TLC evaluates in the runs.

## 6. Disagreements between code and text

- `lock_inflight` (`lockHeartbeat.ts:64`): stopping the heartbeat clears the
  timer, not the beat in flight. A renewal that is refused because the lock
  lapsed goes on to acquire the lock again after it was released. In
  `process.ts:183-187` it comes between the release and the shift: the successor is refused
  the lock, gives up, and the queue waits for the next call after the lease has expired.
  `SuccessorCanAcquire` therefore speaks of no lapse, and without `NoLapse` TLC refutes it.
- `process_stranded` (`process.ts:253`): a send that is refused by an owner who
  has already seen the queue empty leaves its message to nobody, although
  `awaiting.ts:42` expects another call to process it.
- `socket_replaced` (`naive-socket.ts:594`): a write whose socket was destroyed by
  `disconnect()` reports its failure after the next `send` opened a new socket;
  the callback does not compare sockets, and destroys the new one.
- `asset_resume` (`asset-client/src/client.ts:750`): a plain download is resumed after
  its file was replaced by one that is as long as what was written. A host that does not
  honour `If-Range` answers 416 with that length, and the old bytes are taken for the
  whole new file, although `README.md:136` says that any other object resets.

Three more that were found without a run of their own, in modules that define the
statement the code breaks:

- `StartEventHeld` (`handleActor.ts:147`, against `startActorLoop.ts:31-32`): the start
  event is written before the lock is taken; the previous invocation deletes it, and the
  next one plays a game that no member can connect to.
- `EveryConnectionIsDropped` (`runGameAllTogether.ts:218`, against lines 90-93): the end
  drops the keys of `connectedUsers`, where no observer is; its socket stays open.
- `EndedTakesNoMove` (`turns.ts:372`, against lines 96 and 175): a game that has finished
  takes no move from `submit` nor from `accept`, but `commitAssembly` does not look at
  `finished`. Of three players, the host ends the game while another one moves, loses its
  connection, asks for the log when it returns and is answered by the one that moved: its
  records and its final hash change behind the end it announced, and differ from those of
  the third. `EndsAgree` is therefore stated of two. This came out of the attempt to prove
  it of any number; TLC needs two moves and one drop to show it.

Other statements that the documentation makes more widely than the code keeps them are
defined beside the property that holds, and TLC refutes them:

- `NothingIsOverwritten` (`Save`): a queued write that is rebased behind a merge may
  overwrite what the merge brought; `OverwritesNothing` excepts it by name (`Rebased`).
- `HonestNeverFrozen` (`Turns`, `game-kit/README.md:118-131`): an honest player whose
  move was lost downloads a shorter log from a peer that lacks it, and freezes.
- `ReconnectedConverge` (`Room`): a member that comes back while the host is away asks
  in vain and may keep an old state.
- `ExpiringFiresOnce` (`Session`, `game-kit/README.md:57`): a token that is adopted
  again warns again.
- `AwaitedIsStored` (`LogFlush`, `logger-s3/README.md:5`): a flush that is awaited while
  the buffer is empty resolves though an earlier automatic flush is still appending.

Limits that the models reach and the properties therefore exclude by name:

- After a lapse, a re-acquisition whose reply was lost looks to the next beat
  like somebody else's lock (`lockHeartbeat.ts:75`).
- Two calls that share a lock object share its token of an actor, so the one
  whose lease lapsed can release the other's lock (`lock.ts:86`); `OwnLocks`
  excludes it.
- After a lapse, the late `LPOP` of the former owner removes a message that the
  new one has not handled (`process.ts:322`), and the late `LTRIM` of a former
  game trims the queue of the next (`queue.ts:96`), which may also have read the
  same batch.
- In bulk mode a crash loses the batch in hand (`process.ts:363`), as the README
  of `actor-system` says and the comment at `process.ts:108` does not.
- With the in-memory awaiter a `send` that is refused the lock may start to wait
  after its message was resolved, and wait for ever (`inMemory.ts:42`); a `post`
  begins to wait in time.
- An enter whose superseded connection is dropped by a transport that throws is
  abandoned half way, and the member has no connection (`processEnter.ts:66`); one whose
  drop fails without throwing leaves the old socket open, as nothing repeats it.
- A `$connect` that fails after it queued its enter binds the member to a connection
  that was refused (`handleConnect.ts:216`), until its next one enters.
- The loop may take the enter before `$connect` has returned (`handleConnect.ts:216-225`).
  If it then prunes the connection, because nothing can be sent to it yet, or drops it for
  the next one of its member, or has made its last drops, the client is let in
  afterwards: its socket is open, not bound, and nobody drops it (`tooLate`).
- A connection that sends nothing loses its mapping after the TTL, and its leave is
  never sent (`handleDisconnect.ts:54`).
- A fixed simulation makes one more step after a message ended the game
  (`doInStageRunning.ts:156`).
- A request whose write failed without leaving the process is written again on a
  new connection, once; when the process cannot tell, it may be executed twice
  (`naive-socket.ts:567`). With `connectionRetryInterval < 0` a connection that
  closes leaves its pending requests in the queue until the next `send`
  (`naive-socket.ts:406`), which `EveryRequestSettles` excludes by `Reconnects`.
- A handler that dies between `RPUSH` and `EXPIRE` leaves a key without a TTL
  (`queue.ts:61`).
- A room: who leaves and drops at once stays in the party; an error frame rejects
  whatever command is pending; a host that signs in again begins its revisions anew.
- Turn games: a hello while a request is under way asks for nothing, and one with a roster
  that is out of date finds nobody to ask. `CatchesUp` is stated for two players, as one of
  three may be answered by a player that is behind.
- A player that reloads from a save that lacks its last moves may move again where it has
  moved: if nobody is online to be asked (`turns.ts:253-256` returns, and `submit` at line
  659 goes on with the shorter log), if the thirty seconds pass while the answer is on its
  way (line 264), or if the host is itself downloading from it, so that the moves are in
  the host's buffer and not in its answer (line 291). Two different records for one place
  fork the game, and honest players freeze over a move. `Forked` excepts it from
  `LogsAgree` and `FrozenByShorterLog`, which TLC refutes without it, and
  `PlaysTwiceUnanswered` says that nothing else leads to it. A host that reloads
  does not ask for its log at all and may fork the game as well; the model does not reload
  the host (`TurnAssumption`).
- A request that ran out of time is not repeated: of two players, a submit that is lost and
  a host that gave up its own request leave both waiting for the other. `CatchesUp`
  excepts `gaveUp` of either.
- `close()` in the `connected` handler of the game client leaves the state "connected";
  a handler that closes during `disconnected` leaves a timer, which `open()` ignores.
- A restore while a clear is pending may adopt the old token; a storage that fails leaves
  a session without a clock.
- The confirmation timer of the subscriber rejects every waiter of its channel.
- A conditional PUT that the SDK sends again makes its edit twice (`EditedOnce` excepts
  `resent`); Redis reads swallow errors; a falsy value deletes; a plain repository needs
  callers that take turns.
- The recipe of `asset-client/README.md:120-150` with an offset and no saved ETag appends
  what it cannot compare.
- A letter posted behind the cursor of a listing of several pages is not told; an app that
  sleeps amid an emission loses the rest; a delete whose acknowledgement is lost loses the
  letter; a letter that is rewritten answers `already_claimed`.
- A status read that races with a submit publishes 404 or the old ticket and ends the
  polling; a POST that its DELETE overtakes leaves a ticket nobody follows. `crossed` and
  `quiet` record it.
- A search that is cancelled while its room forms leaves the player in the room.
- A cleaning of the push binding that fails is only logged: `left` keeps it.
- After one failed append the chain of `logger-s3` stays rejected
  (`logger.test.ts:270`); a record that does not serialize takes its batch along; an
  automatic flush that fails is an unhandled rejection, which ends the process unless it
  is guarded.


## 7. What is not modelled, and why

- Real time. A lapse, a timeout and an expiry may happen at any moment that the
  code does not exclude; the arithmetic of intervals (`handleActor.ts:157`)
  needs clocks.
- Rewrites of a request by `naive-socket` after a reconnect: a command of the
  actor modules is executed once or not at all.
- The `onPrepare` and `onCommit` hooks are callbacks that return or throw; what
  they store is the application's.
- Of the new parts: the wire formats of gateway frames and tickets, manifests and keys
  of asset bundles, content encodings, the conversion of DynamoDB and S3 items, the
  encoding of Redis commands. A frame, a version or a key is a value.
- Of turn games, a change of the host (on `hostChanged`, `turns.ts:562`, a new host
  announces the game and the others request its log) and a seat that leaves: no seat of
  `Turns` leaves the party.
- Of `game-kit`, the board, the friend commands, sending a letter and the profile cache:
  one request each, with no state between calls.
- Of `lambda-gamebase`, the validation and authorization of a request, the debug start and
  the transports in `network`.
- `codec`, `logger`, `logger-slack`, `auth-client`, `push-server`, the S3 bridge client
  (but for the append that `LogFlush` uses), `lambda-authorizer` and
  `lambda-authorizer-jwt`: conversions and I/O without state between calls.
- Naive sockets under `RedisConnection` and `RedisSubscriber`: only their queue is kept,
  with what `NaiveSocket` shows of it. The two clocks of a command's timeout are one.

## 8. What comes next

The safety of the remaining clients can be proved as that of `RedisConnection` was, one
module at a time: `RedisSubscriber` (`SubscriptionsAgree`), then `Session` (`AnchorIsOwn`,
`OneRefresh`) and `Room` (`SuccessorKnowsState`), whose invariants relate two pieces of
state and need little about sequences. `Tickets`, `Inbox` and `Content` follow from the
session's. The modules change with the code: a change of a mapped function is first a
change of its action, then of the run, then of the proof step that has its name.
