----------------------------- MODULE GameActor ------------------------------
(***************************************************************************)
(* One game: the invocations of handleActor that want to run it            *)
(* (lambda-gamebase/src/actor), each with the event loop of actor-system,  *)
(* and the gateway handlers that push messages for it.                     *)
(*                                                                         *)
(* An invocation stores the start event, takes the lock, announces that    *)
(* the game is ready, plays by polling the queue, deletes the start event  *)
(* and gives the lock back. poll is a flush, two commands: LRANGE and an   *)
(* LTRIM by the number of messages read. A push is two commands as well:   *)
(* RPUSH and EXPIRE.                                                       *)
(*                                                                         *)
(* The lock is the lease of ActorLease, which ActorLock is shown to        *)
(* implement. A message is named by the handler that pushes it.            *)
(***************************************************************************)
EXTENDS ActorLease, Sequences, Functions

CONSTANTS Announcing,  \* the invocations whose event has a callbackUrl
          Message,     \* what the gateway handlers push
          MaxThrows,   \* round trips of invocations that fail
          MaxCrashes,  \* invocations that die
          MaxPushFaults \* pushes that fail or whose handler dies

ASSUME GameAssumption ==
  /\ NoOwner \notin Process
  /\ Announcing \subseteq Process
  /\ MaxLapses \in Nat /\ MaxThrows \in Nat /\ MaxCrashes \in Nat
  /\ MaxPushFaults \in Nat

VARIABLES beating,     \* the invocations whose beat awaits the re-acquisition
          token,       \* the invocations whose release knows the token
          queue,       \* the list in the store
          ttl,         \* whether its key has a TTL
          startEvent,  \* the invocation that wrote the start event, if stored
          inv,         \* the state of every invocation
          push,        \* the state of every handler
          ready,       \* the invocations that announced the game (history)
          sent,        \* the messages in the order of the RPUSHes (history)
          handled,     \* the messages given to a gameMain, in order (history)
          throws, crashes, pushFaults   \* what may still go wrong

game == <<queue, ttl, startEvent>>
history == <<ready, sent, handled>>
budgets == <<throws, crashes, pushFaults>>
beats == <<beating, token>>
leaseVariables == <<leaseVars, beats>>
vars == <<leaseVariables, game, inv, push, history, budgets>>

\* Where an invocation awaits: between the acquisition and the end of its loop
\* it runs its heartbeat.
Looping == {"announce", "play", "lrange", "ltrim", "deliver", "clear"}
Ended == {"done", "refused", "failed", "crashed"}
Place == {"idle", "acquire", "release", "retry"} \cup Looping \cup Ended

TypeOK ==
  /\ owner \in Process \cup {NoOwner}
  /\ working = {p \in Process : inv[p].at \in Looping}
  /\ lapses \in 0..MaxLapses
  /\ beating \subseteq Process /\ token \subseteq Process
  /\ queue \in Seq(Message) /\ ttl \in BOOLEAN
  /\ queue = <<>> => ~ttl
  /\ startEvent \in Process \cup {NoOwner}
  /\ inv \in [Process -> [at : Place, lost : BOOLEAN, batch : Seq(Message)]]
  /\ push \in [Message -> {"idle", "expire", "done", "failed"}]
  /\ ready \subseteq Announcing
  /\ sent \in Seq(Message) /\ handled \in Seq(Message)
  /\ throws \in 0..MaxThrows /\ crashes \in 0..MaxCrashes
  /\ pushFaults \in 0..MaxPushFaults

Init ==
  /\ LeaseInit
  /\ beating = {} /\ token = {}
  /\ queue = <<>> /\ ttl = FALSE
  /\ startEvent = NoOwner
  /\ inv = [p \in Process |-> [at |-> "idle", lost |-> FALSE, batch |-> <<>>]]
  /\ push = [m \in Message |-> "idle"]
  /\ ready = {} /\ sent = <<>> /\ handled = <<>>
  /\ throws = MaxThrows /\ crashes = MaxCrashes /\ pushFaults = MaxPushFaults

Goto(p, place) == inv' = [inv EXCEPT ![p].at = place]

Fault == throws > 0 /\ throws' = throws - 1

\* An empty list has no key, and no TTL with it.
SetQueue(messages) ==
  /\ queue' = messages
  /\ ttl' = (ttl /\ messages # <<>>)

-----------------------------------------------------------------------------
(* The gateway handlers *)

\* RPUSH appends; a list that was empty gets a new key, without a TTL.
Push(m) ==
  /\ push[m] = "idle"
  /\ SetQueue(Append(queue, m))
  /\ sent' = Append(sent, m)
  /\ push' = [push EXCEPT ![m] = "expire"]
  /\ UNCHANGED <<leaseVariables, startEvent, inv, ready, handled, budgets>>

\* Mutant: EXPIRE is left out.
PushOnly(m) ==
  /\ push[m] = "expire"
  /\ push' = [push EXCEPT ![m] = "done"]
  /\ UNCHANGED <<leaseVariables, game, inv, history, budgets>>

\* EXPIRE sets the TTL of the key, if there still is one.
PushExpire(m) ==
  /\ push[m] = "expire"
  /\ ttl' = (queue # <<>>)
  /\ push' = [push EXCEPT ![m] = "done"]
  /\ UNCHANGED <<leaseVariables, queue, startEvent, inv, history, budgets>>

\* The handler dies, or sees an error, after the RPUSH was executed, or after
\* the EXPIRE was.
PushFails(m) ==
  /\ pushFaults > 0 /\ pushFaults' = pushFaults - 1
  /\ push' = [push EXCEPT ![m] = "failed"]
  /\ \/ /\ push[m] = "idle"
        /\ SetQueue(Append(queue, m))
        /\ sent' = Append(sent, m)
     \/ /\ push[m] = "expire"
        /\ ttl' \in {ttl, queue # <<>>}
        /\ UNCHANGED <<queue, sent>>
  /\ UNCHANGED <<leaseVariables, startEvent, inv, ready, handled, throws,
                 crashes>>

-----------------------------------------------------------------------------
(* The start of an invocation *)

\* SET of the start event, before the lock.
SaveStartEvent(p) ==
  /\ inv[p].at = "idle"
  /\ startEvent' = p
  /\ Goto(p, "acquire")
  /\ UNCHANGED <<leaseVariables, queue, ttl, push, history, budgets>>

SaveThrows(p) ==
  /\ inv[p].at = "idle"
  /\ Fault
  /\ startEvent' \in {p, startEvent}
  /\ Goto(p, "failed")
  /\ UNCHANGED <<leaseVariables, queue, ttl, push, history, crashes, pushFaults>>

\* The lock is taken; onAcquired is readyCall, or nothing.
AfterAcquire(p) == IF p \in Announcing THEN "announce" ELSE "play"

\* Mutant: the answer of tryAcquire is ignored.
TryAcquireIgnored(p) ==
  /\ inv[p].at = "acquire"
  /\ IF owner = NoOwner THEN Acquire(p) ELSE UNCHANGED leaseVars
  /\ token' = token \cup {p} /\ UNCHANGED beating
  /\ Goto(p, AfterAcquire(p))
  /\ UNCHANGED <<game, push, history, budgets>>

TryAcquire(p) ==
  /\ inv[p].at = "acquire"
  /\ Acquire(p)
  /\ token' = token \cup {p} /\ UNCHANGED beating
  /\ Goto(p, AfterAcquire(p))
  /\ UNCHANGED <<game, push, history, budgets>>

\* A duplicate: eventLoop answers false and the invocation ends.
Refused(p) ==
  /\ inv[p].at = "acquire"
  /\ owner # NoOwner
  /\ Goto(p, "refused")
  /\ UNCHANGED <<leaseVariables, game, push, history, budgets>>

AcquireThrows(p) ==
  /\ inv[p].at = "acquire"
  /\ Fault
  /\ Take(p) \/ UNCHANGED leaseVars
  /\ Goto(p, "failed")
  /\ UNCHANGED <<beats, game, push, history, crashes, pushFaults>>

\* readyCall: PUT to the lobby.
Announce(p) ==
  /\ inv[p].at = "announce"
  /\ ready' = ready \cup {p}
  /\ Goto(p, "play")
  /\ UNCHANGED <<leaseVariables, game, push, sent, handled, budgets>>

\* The lobby may have heard it all the same. The loop is never entered: the
\* finally block stops the heartbeat and releases the lock.
AnnounceThrows(p) ==
  /\ inv[p].at = "announce"
  /\ Fault
  /\ ready' \in {ready, ready \cup {p}}
  /\ Leave(p)
  /\ Goto(p, "release")
  /\ UNCHANGED <<beats, game, push, sent, handled, crashes, pushFaults>>

-----------------------------------------------------------------------------
(* The game *)

\* gameMain calls pollMessages, and poll flushes the queue.
Poll(p) ==
  /\ inv[p].at = "play"
  /\ ~inv[p].lost
  /\ Goto(p, "lrange")
  /\ UNCHANGED <<leaseVariables, game, push, history, budgets>>

\* gameMain returns, or throws, as it does when poll refuses.
GameEnds(p) ==
  /\ inv[p].at = "play"
  /\ Goto(p, "clear")
  /\ UNCHANGED <<leaseVariables, game, push, history, budgets>>

\* LRANGE 0 -1; an empty list is answered at once.
Read(p) ==
  /\ inv[p].at = "lrange"
  /\ inv' = [inv EXCEPT ![p] = IF queue = <<>> THEN [@ EXCEPT !.at = "play"]
                               ELSE [@ EXCEPT !.at = "ltrim", !.batch = queue]]
  /\ UNCHANGED <<leaseVariables, game, push, history, budgets>>

\* Mutant: DEL.
TrimmedAll(p) == <<>>

\* LTRIM by as many messages as were read.
Trimmed(p) == SubSeq(queue, Len(inv[p].batch) + 1, Len(queue))

Trim(p) ==
  /\ inv[p].at = "ltrim"
  /\ SetQueue(Trimmed(p))
  /\ Goto(p, "deliver")
  /\ UNCHANGED <<leaseVariables, startEvent, push, history, budgets>>

\* poll returns: the game has the batch.
Deliver(p) ==
  /\ inv[p].at = "deliver"
  /\ handled' = handled \o inv[p].batch
  /\ inv' = [inv EXCEPT ![p].at = "play", ![p].batch = <<>>]
  /\ UNCHANGED <<leaseVariables, game, push, ready, sent, budgets>>

\* A round trip of the flush fails, the LTRIM perhaps after it was executed:
\* poll throws into the game, which goes on or ends.
FlushThrows(p) ==
  /\ inv[p].at \in {"lrange", "ltrim"}
  /\ Fault
  /\ \/ UNCHANGED <<queue, ttl>>
     \/ inv[p].at = "ltrim" /\ SetQueue(Trimmed(p))
  /\ \E next \in {"play", "clear"} :
       inv' = [inv EXCEPT ![p].at = next, ![p].batch = <<>>]
  /\ UNCHANGED <<leaseVariables, startEvent, push, history, crashes, pushFaults>>

\* A renewal is answered: the key is not this invocation's, and its token is
\* dropped. The renewal of an invocation that has left its loop is still
\* answered, before its release is; the timer of the beats starts no other.
BeatRefused(p) ==
  /\ p \in working \/ (inv[p].at = "release" /\ p \in token)
  /\ p \notin beating /\ ~inv[p].lost
  /\ owner # p \/ p \notin token
  /\ beating' = beating \cup {p}
  /\ token' = token \ {p}
  /\ UNCHANGED <<leaseVars, game, inv, push, history, budgets>>

\* The re-acquisition that follows, wherever the invocation is by now: the
\* lock was free and is taken, or it is lost.
BeatAgain(p) ==
  /\ p \in beating
  /\ beating' = beating \ {p}
  /\ \/ /\ Take(p)
        /\ token' = IF p \in working THEN token \cup {p} ELSE token
        /\ UNCHANGED inv
     \/ /\ owner # NoOwner
        /\ inv' = [inv EXCEPT ![p].lost = TRUE]
        /\ UNCHANGED <<leaseVars, token>>
  /\ UNCHANGED <<game, push, history, budgets>>

\* It fails, executed or not; the next beat tries again.
BeatThrows(p) ==
  /\ p \in beating
  /\ Fault
  /\ Take(p) \/ UNCHANGED leaseVars
  /\ beating' = beating \ {p}
  /\ UNCHANGED <<token, game, inv, push, history, crashes, pushFaults>>

-----------------------------------------------------------------------------
(* The end of an invocation *)

\* DEL of the start event; then the heartbeat stops.
ClearStartEvent(p) ==
  /\ inv[p].at = "clear"
  /\ startEvent' = NoOwner
  /\ Leave(p)
  /\ Goto(p, "release")
  /\ UNCHANGED <<beats, queue, ttl, push, history, budgets>>

\* Its error is caught.
ClearThrows(p) ==
  /\ inv[p].at = "clear"
  /\ Fault
  /\ startEvent' \in {startEvent, NoOwner}
  /\ Leave(p)
  /\ Goto(p, "release")
  /\ UNCHANGED <<beats, queue, ttl, push, history, crashes, pushFaults>>

\* The compare-and-delete of lock.release, with the token it was issued with.
\* The second try may know the token that a beat brought in the meantime.
Deleted(p) ==
  owner = p /\ (p \in token \/ inv[p].at = "retry") /\ Release(p)

\* lock.release, tried again once.
ReleaseLock(p) ==
  /\ inv[p].at \in {"release", "retry"}
  /\ \/ Deleted(p)
     \/ ~(owner = p /\ p \in token) /\ UNCHANGED leaseVars
  /\ token' = token \ {p} /\ UNCHANGED beating
  /\ Goto(p, "done")
  /\ UNCHANGED <<game, push, history, budgets>>

ReleaseThrows(p) ==
  /\ inv[p].at \in {"release", "retry"}
  /\ Fault
  /\ Deleted(p) \/ UNCHANGED leaseVars
  /\ Goto(p, IF inv[p].at = "release" THEN "retry" ELSE "done")
  /\ UNCHANGED <<beats, game, push, history, crashes, pushFaults>>

-----------------------------------------------------------------------------
(* The environment *)

Crash(p) ==
  /\ inv[p].at \notin {"idle"} \cup Ended
  /\ crashes > 0 /\ crashes' = crashes - 1
  /\ inv' = [inv EXCEPT ![p].at = "crashed", ![p].batch = <<>>]
  /\ IF p \in working THEN Leave(p) ELSE UNCHANGED leaseVars
  /\ beating' = beating \ {p} /\ token' = token \ {p}
  /\ UNCHANGED <<game, push, history, throws, pushFaults>>

\* The lease of an owner that has ended expires.
LeaseExpires ==
  /\ owner # NoOwner
  /\ inv[owner].at \in Ended
  /\ Release(owner)
  /\ UNCHANGED <<beats, game, inv, push, history, budgets>>

LeaseLapses ==
  /\ Lapse
  /\ UNCHANGED <<beats, game, inv, push, history, budgets>>

\* No invocation is running.
AllEnded == \A p \in Process : inv[p].at \in {"idle"} \cup Ended

\* The TTL of the start event is the lifetime of its writer and a margin, so it
\* fires when nobody is running.
StartEventExpires ==
  /\ startEvent # NoOwner
  /\ AllEnded
  /\ startEvent' = NoOwner
  /\ UNCHANGED <<leaseVariables, queue, ttl, inv, push, history, budgets>>

\* A queue that nobody drains expires, if it has a TTL.
QueueExpires ==
  /\ ttl
  /\ AllEnded
  /\ SetQueue(<<>>)
  /\ UNCHANGED <<leaseVariables, startEvent, inv, push, history, budgets>>

-----------------------------------------------------------------------------

Next ==
  \/ \E p \in Process :
       \/ SaveStartEvent(p) \/ SaveThrows(p)
       \/ TryAcquire(p) \/ Refused(p) \/ AcquireThrows(p)
       \/ Announce(p) \/ AnnounceThrows(p)
       \/ Poll(p) \/ GameEnds(p) \/ Read(p) \/ Trim(p) \/ Deliver(p)
       \/ FlushThrows(p)
       \/ BeatRefused(p) \/ BeatAgain(p) \/ BeatThrows(p)
       \/ ClearStartEvent(p) \/ ClearThrows(p)
       \/ ReleaseLock(p) \/ ReleaseThrows(p)
       \/ Crash(p)
  \/ \E m \in Message : Push(m) \/ PushExpire(m) \/ PushFails(m)
  \/ LeaseExpires \/ LeaseLapses
  \/ StartEventExpires \/ QueueExpires

Spec == Init /\ [][Next]_vars

-----------------------------------------------------------------------------
(* Safety *)

\* While no lease lapses, the inbound queue is at most once: a batch leaves it
\* before the game has it, in order, and a batch that was lost never comes back
\* (eventLoop.ts:45-49).
NoLapse == lapses = MaxLapses
InHand == {p \in Process : inv[p].at = "deliver"}
Taken == IF InHand = {} THEN <<>> ELSE inv[CHOOSE p \in InHand : TRUE].batch
Mail == INSTANCE Mailbox
          WITH taken <- Taken, calm <- NoLapse, atMostOnce <- TRUE
ImplementsMailbox == Mail!MailSpec

\* The lobby hears "ready" only from the invocation that plays the game, while
\* no other one does (README of lambda-gamebase, lines 258-261).
OnlyThePlayerIsReady ==
  [][\A p \in Process :
       NoLapse /\ p \in ready' \ ready => owner = p /\ working = {p}]_vars

\* The key of the queue has a TTL, unless the handler that created it is about
\* to set it (queue.ts:26-32), or died before it did.
QueueHasTtl ==
  /\ queue # <<>>
  /\ pushFaults = MaxPushFaults /\ \A m \in Message : push[m] # "expire"
  => ttl

\* Members can connect to a game that is being played: its start event is
\* deleted when the game ends, and not before (startActorLoop.ts:31-32).
StartEventHeld ==
  \A p \in Process :
    inv[p].at \in {"play", "lrange", "ltrim", "deliver"} /\ owner = p
      => startEvent # NoOwner

-----------------------------------------------------------------------------
(* Liveness *)

\* Round trips end, timers fire and expired keys disappear. A game polls again
\* and again; nothing makes it end, an entry API invoke it, or a client send.
Fairness ==
  /\ \A p \in Process :
       /\ WF_vars(TryAcquire(p) \/ Refused(p))
       /\ WF_vars(Poll(p) \/ Read(p) \/ Trim(p) \/ Deliver(p))
       /\ WF_vars(Announce(p))
       /\ WF_vars(BeatRefused(p)) /\ WF_vars(BeatAgain(p))
       /\ WF_vars(ClearStartEvent(p)) /\ WF_vars(ReleaseLock(p))
  /\ \A m \in Message : WF_vars(PushExpire(m))
  /\ WF_vars(LeaseExpires)
  /\ WF_vars(StartEventExpires) /\ WF_vars(QueueExpires)

FairSpec == Spec /\ Fairness

\* What is queued while a game is played reaches it, unless that game ends
\* first (docs/game-actor.md:3), or a round trip of its poll fails.
EveryMoveArrives ==
  \A m \in Message :
    m \in Range(queue) /\ working # {}
      ~> \/ m \in Range(handled) \/ working = {}
         \/ throws < MaxThrows \/ lapses < MaxLapses

\* Every game comes to its end, as its stages have time limits and a poll
\* throws once the lock is lost.
GamesEnd == \A p \in Process : SF_vars(GameEnds(p))

\* A game that is over leaves nothing in the store: neither its lock, nor its
\* start event, nor a queue, unless a push failed before it set the TTL
\* (queue.ts:26-32).
EverythingDisappears ==
  GamesEnd =>
    <>[](/\ owner = NoOwner /\ startEvent = NoOwner
         /\ queue = <<>> \/ pushFaults < MaxPushFaults)

\* What Redis holds of a game is of a legal form, and its queue carries a TTL (queue.ts).
GameInvariant == TypeOK /\ QueueHasTtl

\* A game announced is the one that plays, it gets its moves, and it leaves nothing
\* behind (handleActor.ts, startActorLoop.ts).
GamePromise ==
  /\ OnlyThePlayerIsReady
  /\ EveryMoveArrives
  /\ EverythingDisappears
=============================================================================
