--------------------------- MODULE RedisSubscriber ---------------------------
(***************************************************************************)
(* The Redis connection in subscriber mode (naive-redis/src/subscriber/    *)
(* createRedisSubscriber.ts): it authenticates every connection, replays   *)
(* its channels on every one but the first, and tells its callers when the *)
(* server has confirmed.                                                   *)
(*                                                                         *)
(* The socket is what NaiveSocket shows of it: its queue outlives a        *)
(* connection, what is urgent goes first, a command that expects no        *)
(* response is done when it is written.  The server processes a command    *)
(* when it is written; what it says waits in the stream of the connection. *)
(***************************************************************************)
EXTENDS Naturals, Sequences, FiniteSets, SequencesExt

CONSTANTS
  Channel, Call,
  CallFor,          \* [Call -> [event: {"subscribe", "unsubscribe"}, channel]]
  Nothing,
  SubscriberSetups  \* [drops, refusals, timeouts, closes]: connections lost,
                    \* AUTHs refused, requests and confirmations that time
                    \* out, whether the owner closes the connection

ASSUME SubscriberAssumption ==
  /\ CallFor \in [Call -> [event : {"subscribe", "unsubscribe"}, channel : Channel]]
  /\ \A s \in SubscriberSetups :
       {s.drops, s.refusals, s.timeouts} \subseteq Nat /\ s.closes \in BOOLEAN

VARIABLES
  channels,     \* the set to be replayed
  waiters,      \* the calls that wait for a confirmation
  outcome,      \* outcome[c]: new, pending, resolved or rejected
  link,         \* the socket: down, up, or closed by its owner
  round,        \* `generation`: the number of connections
  queue,        \* what is to be written
  sent,         \* the AUTH at the head of the queue is written
  restoring,    \* restoring[n]: the restore of connection n
  served,       \* the channels the server has for this connection
  stream,       \* the confirmations on their way
  trouble       \* what is left of the setup

subscriberVars == <<channels, waiters, outcome, link, round, queue, sent,
                    restoring, served, stream, trouble>>

Round == 1..8

KeyOf(c) == CallFor[c]

Auth(n) == [cmd |-> "AUTH", channel |-> Nothing, by |-> n, call |-> Nothing]

Command(event, ch, n, c) == [cmd |-> event, channel |-> ch, by |-> n, call |-> c]

NoRestore == [at |-> "none", visited |-> {}]

----------------------------------------------------------------------------
(* Waiters.                                                               *)

\* settle: every waiter of an event on a channel, whoever caused it.
Waiting(event, ch) ==
  {c \in waiters : KeyOf(c) = [event |-> event, channel |-> ch]}

Ended(C, how) ==
  [c \in Call |-> IF c \in C /\ outcome[c] = "pending" THEN how ELSE outcome[c]]

----------------------------------------------------------------------------
(* The calls.                                                             *)

Invoke(c) ==
  /\ outcome[c] = "new" /\ link # "closed"
  /\ outcome' = [outcome EXCEPT ![c] = "pending"]
  /\ channels' = IF KeyOf(c).event = "subscribe"
                 THEN channels \cup {KeyOf(c).channel}
                 ELSE channels \ {KeyOf(c).channel}
  /\ waiters' = waiters \cup {c}
  /\ queue' = Append(queue, Command(KeyOf(c).event, KeyOf(c).channel, 0, c))
  /\ UNCHANGED <<link, round, sent, restoring, served, stream, trouble>>

\* disconnect: everything is forgotten, the socket does not come back.
Disconnects ==
  /\ link # "closed" /\ trouble.closes
  /\ link' = "closed"
  /\ channels' = {} /\ waiters' = {}
  /\ outcome' = Ended(waiters, "rejected")
  /\ queue' = <<>> /\ sent' = FALSE
  /\ served' = {} /\ stream' = <<>>
  /\ UNCHANGED <<round, restoring, trouble>>

----------------------------------------------------------------------------
(* The socket.                                                            *)

\* Connected: a restore of its own begins, whose AUTH goes before the queue.
Connects ==
  /\ link = "down" /\ round + 1 \in Round
  /\ queue # <<>> \/ round > 0
  /\ link' = "up" /\ round' = round + 1
  /\ queue' = <<Auth(round + 1)>> \o queue /\ sent' = FALSE
  /\ restoring' = [restoring EXCEPT ![round + 1].at = "auth"]
  /\ UNCHANGED <<channels, waiters, outcome, served, stream, trouble>>

Lost == link' = "down" /\ sent' = FALSE /\ served' = {} /\ stream' = <<>>

\* The connection is lost; the queue is kept for the next one.
Drops ==
  /\ link = "up" /\ trouble.drops > 0
  /\ trouble' = [trouble EXCEPT !.drops = @ - 1]
  /\ Lost
  /\ UNCHANGED <<channels, waiters, outcome, round, queue, restoring>>

\* A command is written: that is all its sender waits for.
WritesFrame ==
  /\ link = "up" /\ queue # <<>> /\ Head(queue).cmd # "AUTH"
  /\ queue' = Tail(queue)
  /\ served' = IF Head(queue).cmd = "subscribe"
               THEN served \cup {Head(queue).channel}
               ELSE served \ {Head(queue).channel}
  /\ stream' = Append(stream, [event |-> Head(queue).cmd,
                               channel |-> Head(queue).channel])
  /\ restoring' = IF Head(queue).by = 0 THEN restoring
                 ELSE [restoring EXCEPT ![Head(queue).by].at = "replay"]
  /\ UNCHANGED <<channels, waiters, outcome, link, round, sent, trouble>>

WritesAuth ==
  /\ link = "up" /\ queue # <<>> /\ Head(queue).cmd = "AUTH" /\ ~sent
  /\ sent' = TRUE
  /\ UNCHANGED <<channels, waiters, outcome, link, round, queue, restoring,
                 served, stream, trouble>>

----------------------------------------------------------------------------
(* Restoring.                                                             *)

\* Mutant: a restore that outlived its connection is taken seriously.
AnyOwner(n) == TRUE

Owns(n) == n = round

\* A restore fails.  That of the connection in hand rejects who waits and
\* resets the socket, which rejects what is queued; a stale one is discarded.
RestoreFails(n, q) ==
  /\ restoring' = [restoring EXCEPT ![n].at = "failed"]
  /\ IF Owns(n)
     THEN /\ outcome' = Ended(Call, "rejected") /\ waiters' = {}
          /\ queue' = <<>>
          /\ Lost
     ELSE /\ queue' = q
          /\ UNCHANGED <<outcome, waiters, link, served, stream>>

\* AUTH is answered on the connection in hand, for whichever restore sent it.
\* Only the second connection and later ones replay.
AuthOk ==
  /\ link = "up" /\ sent
  /\ sent' = FALSE /\ queue' = Tail(queue)
  /\ LET n == Head(queue).by
     IN  restoring' = [restoring EXCEPT ![n].at =
                        IF @ # "auth" THEN @
                        ELSE IF n = 1 \/ n # round THEN "done" ELSE "replay"]
  /\ UNCHANGED <<channels, waiters, outcome, link, round, served, stream, trouble>>

AuthRefused ==
  /\ link = "up" /\ sent /\ trouble.refusals > 0
  /\ trouble' = [trouble EXCEPT !.refusals = @ - 1]
  /\ IF restoring[Head(queue).by].at = "auth"
     THEN RestoreFails(Head(queue).by, Tail(queue)) /\ sent' = FALSE
     ELSE /\ queue' = Tail(queue) /\ sent' = FALSE
          /\ UNCHANGED <<outcome, waiters, link, served, stream, restoring>>
  /\ UNCHANGED <<channels, round>>

\* AUTH is not answered in time; it stays where it is until it is.
AuthTimesOut(n) ==
  /\ restoring[n].at = "auth" /\ trouble.timeouts > 0
  /\ trouble' = [trouble EXCEPT !.timeouts = @ - 1]
  /\ RestoreFails(n, queue)
  /\ IF Owns(n) THEN TRUE ELSE UNCHANGED sent
  /\ UNCHANGED <<channels, round>>

\* The loop over the set as it is now: one command at a time, each awaited.
Replays(n) ==
  /\ restoring[n].at = "replay"
  /\ LET left == channels \ restoring[n].visited
     IN  IF left = {}
         THEN restoring' = [restoring EXCEPT ![n].at = "done"] /\ UNCHANGED queue
         ELSE \E ch \in left :
                /\ restoring' = [restoring EXCEPT ![n] =
                     [at |-> "writing", visited |-> @.visited \cup {ch}]]
                /\ queue' = Append(queue, Command("subscribe", ch, n, Nothing))
  /\ UNCHANGED <<channels, waiters, outcome, link, round, sent, served, stream,
                 trouble>>

----------------------------------------------------------------------------
(* Confirmations and timers.                                              *)

Confirms ==
  /\ link = "up" /\ stream # <<>>
  /\ stream' = Tail(stream)
  /\ LET C == Waiting(Head(stream).event, Head(stream).channel)
     IN  waiters' = waiters \ C /\ outcome' = Ended(C, "resolved")
  /\ UNCHANGED <<channels, link, round, queue, sent, restoring, served, trouble>>

\* The timer of a confirmation ends the wait of every caller of its key.
ConfirmationTimesOut(c) ==
  /\ c \in waiters /\ trouble.timeouts > 0
  /\ trouble' = [trouble EXCEPT !.timeouts = @ - 1]
  /\ LET C == Waiting(KeyOf(c).event, KeyOf(c).channel)
     IN  waiters' = waiters \ C /\ outcome' = Ended(C, "rejected")
  /\ UNCHANGED <<channels, link, round, queue, sent, restoring, served, stream>>

\* A command is not written in time: it is dropped, its sender told.
WriteTimesOut(i) ==
  /\ queue[i].cmd # "AUTH" /\ trouble.timeouts > 0
  /\ trouble' = [trouble EXCEPT !.timeouts = @ - 1]
  /\ LET q == RemoveAt(queue, i)
     IN  IF queue[i].by # 0
         THEN RestoreFails(queue[i].by, q)
              /\ (IF Owns(queue[i].by) THEN TRUE ELSE UNCHANGED sent)
         ELSE /\ queue' = q
              /\ outcome' = Ended({queue[i].call}, "rejected")
              /\ UNCHANGED <<waiters, link, sent, served, stream, restoring>>
  /\ UNCHANGED <<channels, round>>

----------------------------------------------------------------------------

SubscriberInit ==
  /\ channels = {} /\ waiters = {}
  /\ outcome = [c \in Call |-> "new"]
  /\ link = "down" /\ round = 0 /\ queue = <<>> /\ sent = FALSE
  /\ restoring = [n \in Round |-> NoRestore]
  /\ served = {} /\ stream = <<>>
  /\ trouble \in SubscriberSetups

SocketSteps == Connects \/ WritesFrame \/ WritesAuth \/ AuthOk \/ Confirms
               \/ \E n \in Round : Replays(n)

SubscriberNext ==
  \/ \E c \in Call : Invoke(c) \/ ConfirmationTimesOut(c)
  \/ Connects \/ WritesFrame \/ WritesAuth \/ AuthOk \/ Confirms
  \/ Drops \/ AuthRefused \/ Disconnects
  \/ \E n \in Round : Replays(n) \/ AuthTimesOut(n)
  \/ \E i \in DOMAIN queue : WriteTimesOut(i)

SubscriberSpec == SubscriberInit /\ [][SubscriberNext]_subscriberVars

\* The socket reconnects and writes, the server answers.
SubscriberFairness == WF_subscriberVars(SocketSteps)

----------------------------------------------------------------------------
(* Properties.                                                            *)

SubscriberTypeOK ==
  /\ channels \subseteq Channel /\ served \subseteq Channel
  /\ waiters \subseteq Call
  /\ outcome \in [Call -> {"new", "pending", "resolved", "rejected"}]
  /\ link \in {"down", "up", "closed"} /\ round \in {0} \cup Round
  /\ sent => queue # <<>> /\ Head(queue).cmd = "AUTH"
  /\ link # "up" => served = {} /\ stream = <<>>
  /\ \A n \in Round :
       restoring[n].at \in {"none", "auth", "replay", "writing", "done", "failed"}

Restored == link = "up" /\ restoring[round].at = "done"

Unsettled(ch) == \E c \in Call : KeyOf(c).channel = ch /\ outcome[c] = "rejected"

\* Once a connection is restored and its queue is written, the server has the
\* channels the subscriber means to have, whatever was called, lost and
\* replayed in between; a channel somebody was told had failed is excepted.
SubscriptionsAgree ==
  Restored /\ queue = <<>> =>
    \A ch \in Channel : Unsettled(ch) \/ (ch \in served <=> ch \in channels)

\* The last word on a channel: who was told it is subscribed is, as long as
\* the connection lives and nobody calls for something else.
ResolvedIsServed ==
  \A c \in Call :
    /\ outcome[c] = "resolved" /\ KeyOf(c).event = "subscribe"
    /\ Restored
    /\ \A d \in Call : KeyOf(d).channel = KeyOf(c).channel =>
                         d = c \/ outcome[d] = "new"
    => KeyOf(c).channel \in served

\* A timer that fails a stale restore harms neither the connection in
\* hand nor who waits on it.
StaleRestoreIsHarmless ==
  [][(\E n \in Round : n # round /\ restoring[n].at # "failed"
                       /\ restoring'[n].at = "failed") =>
       link' = link /\ served' = served /\ outcome' = outcome]_subscriberVars

\* A channel is subscribed again after every loss.
SubscribedInTheEnd ==
  \A ch \in Channel : []<>(ch \in channels => ch \in served \/ Unsettled(ch))

\* Subscriptions survive every loss, and nobody is told of one that is not
\* (createRedisSubscriber.ts).
SubscriberPromise ==
  /\ [](SubscriberTypeOK /\ SubscriptionsAgree /\ ResolvedIsServed)
  /\ StaleRestoreIsHarmless
  /\ SubscribedInTheEnd
=============================================================================
