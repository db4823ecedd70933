---------------------------- MODULE NaiveSocket ----------------------------
(***************************************************************************)
(* One client of naive-socket: a queue of requests over one connection at  *)
(* a time, which is opened when it is needed and opened again when it      *)
(* closes. A reply carries no name: it is taken for the answer to the head *)
(* of the queue.                                                           *)
(*                                                                         *)
(* The code is single threaded; a handler of an event, or a call, is one   *)
(* step. What it does to the socket is a function of the socket's state.   *)
(* Connections are numbered. A destroyed one is gone for the peer, but the *)
(* callbacks of its writes may still run.                                  *)
(***************************************************************************)
EXTENDS Naturals, Sequences

CONSTANTS Request,    \* what the callers send
          Urgent,     \* the requests that are urgent
          Silent,     \* the requests with expectResponse = false
          Timed,      \* the requests with a timeout
          Greets,     \* the listener sends an urgent request on every connect
          Consumer,   \* onUnsolicitedData is set
          Reconnects, \* connectionRetryInterval >= 0
          MaxFaults,  \* connections and writes that fail
          MaxStops,   \* calls of disconnect
          MaxResets,  \* calls of reset
          Nobody      \* no request

ASSUME SocketAssumption ==
  /\ Urgent \subseteq Request /\ Silent \subseteq Request
  /\ Timed \subseteq Request
  /\ Greets \in BOOLEAN /\ Consumer \in BOOLEAN /\ Reconnects \in BOOLEAN
  /\ MaxFaults \in Nat /\ MaxStops \in Nat /\ MaxResets \in Nat
  /\ Request \cap Nat = {} /\ Nobody \notin Request \cup Nat

\* What the listener sends on the n-th connection is named n. Every connection
\* but the first replaces one that failed, was stopped or was reset.
MaxConnections == 1 + MaxFaults + MaxStops + MaxResets
Connection == 1..MaxConnections
Greeting == IF Greets THEN Connection ELSE {}
Work == Request \cup Greeting

VARIABLES sock,      \* the fields of NaiveSocketImpl, and what depends on them
          faults, stops, resets   \* what may still go wrong

vars == <<sock, faults, stops, resets>>

\* works: sendWorks.  work: what is known of each request.  alive, state: as
\* in the code.  n: the number of the last connection; it is the current one
\* unless state is Disconnected.  half: the request whose reply is half
\* received.  timers: the reconnect timers that are set.  calls: the write
\* callbacks that are awaited.  valid: the options do open a socket.
\* Of the current connection, ended: the peer has closed it;  wire: what the
\* peer has received and not answered;  first: what was written first on it
\* (history).  open: the connections that are not destroyed (history).
Settled == {"resolved", "rejected"}
WorkState == [st : {"new", "pending"} \cup Settled, written : BOOLEAN,
              resent : BOOLEAN, answer : Work \cup {Nobody}]

TypeOK ==
  /\ sock \in [works : Seq(Work), work : [Work -> WorkState],
               alive : BOOLEAN, valid : BOOLEAN,
               state : {"Disconnected", "Connecting", "Connected"},
               n : 0..MaxConnections, half : Work \cup {Nobody},
               timers : Nat, calls : SUBSET (Connection \X Work),
               ended : BOOLEAN, wire : Seq(Work),
               open : SUBSET Connection,
               first : Work \cup {Nobody}]
  /\ faults \in 0..MaxFaults /\ stops \in 0..MaxStops
  /\ resets \in 0..MaxResets

NewWork == [st |-> "new", written |-> FALSE, resent |-> FALSE,
            answer |-> Nobody]

Init ==
  /\ \E valid \in BOOLEAN :
       sock = [works |-> <<>>, work |-> [w \in Work |-> NewWork],
               alive |-> TRUE, valid |-> valid, state |-> "Disconnected",
               n |-> 0, half |-> Nobody, timers |-> 0, calls |-> {},
               ended |-> FALSE, wire |-> <<>>, open |-> {},
               first |-> Nobody]
  /\ faults = MaxFaults /\ stops = MaxStops /\ resets = MaxResets

-----------------------------------------------------------------------------
(* What the handlers are made of: s is the state they find *)

IsSettled(s, w) == s.work[w].st \in Settled
IsHead(s, w) == s.works # <<>> /\ Head(s.works) = w

\* A promise is settled once.
Settle(s, w, how, answer) ==
  IF IsSettled(s, w) THEN s
  ELSE [s EXCEPT !.work[w].st = how, !.work[w].answer = answer]

FailAllPendingWork(s) ==
  [s EXCEPT !.works = <<>>,
            !.work = [w \in Work |->
                        IF /\ w \in {s.works[i] : i \in DOMAIN s.works}
                           /\ ~IsSettled(s, w)
                          THEN [@[w] EXCEPT !.st = "rejected"] ELSE @[w]]]

\* Mutant: what was written to the dead socket still counts as written.
DoDisconnectWritten(s) ==
  [s EXCEPT !.state = "Disconnected", !.half = Nobody,
            !.ended = FALSE, !.wire = <<>>, !.open = @ \ {s.n}]

\* The socket is destroyed, the buffer emptied; what reached the dead socket
\* has to be written again.
DoDisconnect(s) ==
  [s EXCEPT !.state = "Disconnected", !.half = Nobody,
            !.work = [w \in Work |->
                        IF \E i \in DOMAIN s.works : s.works[i] = w
                          THEN [@[w] EXCEPT !.written = FALSE] ELSE @[w]],
            !.ended = FALSE, !.wire = <<>>, !.open = @ \ {s.n}]

\* A socket is opened, unless its options throw.
Connect(s) ==
  IF s.valid
    THEN [s EXCEPT !.state = "Connecting", !.n = @ + 1,
                   !.first = Nobody, !.open = @ \cup {s.n + 1}]
    ELSE [FailAllPendingWork(s) EXCEPT !.state = "Disconnected"]

RetryToConnect(s) ==
  LET t == DoDisconnect(s)
  IN IF (t.works = <<>> /\ ~Consumer) \/ ~Reconnects THEN t
     ELSE [t EXCEPT !.timers = @ + 1]

\* Requests that were settled by their timeout are dropped from the front.
Unsettled(s) ==
  LET waiting == {i \in DOMAIN s.works : ~IsSettled(s, s.works[i])}
      start == IF waiting = {} THEN Len(s.works) + 1
               ELSE CHOOSE i \in waiting : \A j \in waiting : i <= j
  IN [s EXCEPT !.works = SubSeq(@, start, Len(@))]

Write(s, w) ==
  [s EXCEPT !.work[w].written = TRUE,
            !.calls = @ \cup {<<s.n, w>>},
            !.wire = IF w \in Silent THEN @ ELSE Append(@, w),
            !.first = IF @ = Nobody THEN w ELSE @]

WriteNext(s) ==
  IF s.works = <<>> \/ s.work[Head(s.works)].written THEN s
  ELSE Write(s, Head(s.works))

DoNextSendWork(s) ==
  IF s.state = "Connecting" THEN s
  ELSE IF s.state = "Disconnected" THEN Connect(s)
  ELSE IF s.ended THEN Connect(DoDisconnect(s))
  ELSE WriteNext(Unsettled(s))

\* Mutant: an urgent request overtakes the one that was written, too.
InsertedFirst(s, w) == <<w>> \o s.works

\* An urgent request overtakes all but one that is written.
Inserted(s, w) ==
  IF w \notin Urgent \cup Greeting THEN Append(s.works, w)
  ELSE IF s.works # <<>> /\ s.work[Head(s.works)].written
    THEN <<Head(s.works), w>> \o Tail(s.works)
  ELSE <<w>> \o s.works

SendWork(s, w) ==
  LET t == [s EXCEPT !.alive = TRUE, !.works = Inserted(s, w),
                     !.work[w].st = "pending"]
  IN IF Len(t.works) = 1 THEN DoNextSendWork(t) ELSE t

-----------------------------------------------------------------------------
(* The calls *)

unchangedBudgets == UNCHANGED <<faults, stops, resets>>

Send(w) ==
  /\ w \in Request
  /\ sock.work[w].st = "new"
  /\ sock' = SendWork(sock, w)
  /\ unchangedBudgets

Disconnect ==
  /\ stops > 0 /\ stops' = stops - 1
  /\ sock' = FailAllPendingWork(DoDisconnect([sock EXCEPT !.alive = FALSE]))
  /\ UNCHANGED <<faults, resets>>

Reset ==
  /\ resets > 0 /\ resets' = resets - 1
  /\ sock' = RetryToConnect(FailAllPendingWork(sock))
  /\ UNCHANGED <<faults, stops>>

-----------------------------------------------------------------------------
(* The timers *)

\* The promise is rejected; the request stays where it is in the queue.
Timeout(w) ==
  /\ w \in Timed \cup Greeting
  /\ sock.work[w].st = "pending"
  /\ sock' = Settle(sock, w, "rejected", Nobody)
  /\ unchangedBudgets

TimerFires ==
  /\ sock.timers > 0
  /\ LET t == [sock EXCEPT !.timers = @ - 1]
     IN sock' = IF t.alive /\ t.state = "Disconnected" THEN Connect(t) ELSE t
  /\ unchangedBudgets

-----------------------------------------------------------------------------
(* The events of the current socket *)

\* The listener is told, and sends its greeting; then the queue goes on.
\* (\E over a singleton names a value; a LET is evaluated at every use.)
OnConnect ==
  /\ sock.state = "Connecting"
  /\ \E s \in {[sock EXCEPT !.state = "Connected"]} :
     \E t \in {IF Greets THEN SendWork(s, s.n) ELSE s} :
       sock' = DoNextSendWork(t)
  /\ unchangedBudgets

\* onClose, after a connection that could not be made, one the peer has
\* closed, or an error of the socket.
OnClose ==
  /\ \/ sock.ended /\ UNCHANGED faults
     \/ /\ sock.state # "Disconnected" /\ ~sock.ended
        /\ faults > 0 /\ faults' = faults - 1
  /\ sock' = IF sock.alive THEN RetryToConnect(sock) ELSE sock
  /\ UNCHANGED <<stops, resets>>

\* The peer closes; the event is not dispatched yet.
PeerEnds ==
  /\ sock.state = "Connected" /\ ~sock.ended
  /\ faults > 0 /\ faults' = faults - 1
  /\ sock' = [sock EXCEPT !.ended = TRUE]
  /\ UNCHANGED <<stops, resets>>

\* A first part of the reply to the oldest request on the wire arrives.
OnDataPartly ==
  /\ sock.state = "Connected" /\ ~sock.ended
  /\ sock.wire # <<>> /\ sock.half = Nobody
  /\ sock' = [sock EXCEPT !.half = Head(sock.wire)]
  /\ unchangedBudgets

\* The reply is complete, and the head of the queue claims it, whoever it is;
\* what nobody claims goes to the consumer, or is discarded.
OnData ==
  /\ sock.state = "Connected" /\ ~sock.ended
  /\ sock.wire # <<>>
  /\ \E s \in {[sock EXCEPT !.wire = Tail(@), !.half = Nobody]} :
       IF s.works = <<>> \/ Head(s.works) \in Silent THEN sock' = s
       ELSE \E t \in {Settle(s, Head(s.works), "resolved",
                             IF sock.half = Nobody THEN Head(sock.wire)
                             ELSE sock.half)} :
            \E u \in {[t EXCEPT !.works = Tail(@),
                                !.calls = {k \in @ : k[2] # Head(s.works)}]} :
              sock' = DoNextSendWork(u)
  /\ unchangedBudgets

-----------------------------------------------------------------------------
(* The callbacks of the writes; their socket may have been replaced *)

WithoutHead(s, w) ==
  IF IsHead(s, w) THEN [s EXCEPT !.works = Tail(@)] ELSE s

\* A silent request is settled by its write; for any other one, a write that
\* was done changes nothing.
WriteDone(c, w) ==
  /\ <<c, w>> \in sock.calls
  /\ w \in Silent
  /\ LET s == [sock EXCEPT !.calls = @ \ {<<c, w>>}]
         t == WithoutHead(Settle(s, w, "resolved", Nobody), w)
     IN sock' = IF IsHead(s, w) THEN DoNextSendWork(t) ELSE t
  /\ unchangedBudgets

\* A write that did not leave the process is tried once more on a new
\* connection; any other failure rejects the request.
WriteFails(c, w, nothingSent) ==
  /\ <<c, w>> \in sock.calls
  /\ faults > 0 /\ faults' = faults - 1
  /\ sock.work[w].st # "resolved"
  /\ LET s == [sock EXCEPT !.calls = @ \ {<<c, w>>}]
     IN sock' = IF nothingSent /\ ~s.work[w].resent /\ IsHead(s, w) /\ s.alive
                  THEN Connect(DoDisconnect([s EXCEPT !.work[w].resent = TRUE]))
                  ELSE RetryToConnect(
                         WithoutHead(Settle(s, w, "rejected", Nobody), w))
  /\ UNCHANGED <<stops, resets>>

-----------------------------------------------------------------------------

Next ==
  \/ \E w \in Work : Send(w) \/ Timeout(w)
  \/ Disconnect \/ Reset
  \/ TimerFires \/ OnConnect \/ OnClose \/ PeerEnds
  \/ OnDataPartly \/ OnData
  \/ \E c \in Connection, w \in Work :
       \/ WriteDone(c, w)
       \/ \E nothingSent \in BOOLEAN : WriteFails(c, w, nothingSent)

Spec == Init /\ [][Next]_vars

-----------------------------------------------------------------------------
(* Safety *)

\* A request is answered with its own reply, although replies have no name:
\* across timeouts, urgent requests and connections (naive-socket.ts:202-207).
AnswersMatch ==
  \A w \in Work :
    sock.work[w].st = "resolved" /\ w \notin Silent => sock.work[w].answer = w

\* There is one socket at most, and none after disconnect (naive-socket.ts:
\* 407-412, 523-527).
OneSocket ==
  /\ sock.open \subseteq {sock.n}
  /\ ~sock.alive => sock.open = {}

\* The greeting of the listener is the first thing written on a connection
\* (naive-redis/src/connection.ts:62-65).
GreetedFirst ==
  Greets => sock.first \in {Nobody, sock.n}

\* A request whose caller was answered, or told that it failed, is not written
\* any more (naive-socket.ts:558-561).
NotWrittenAfterwards ==
  [][\A w \in Work :
       IsSettled(sock, w) /\ sock'.work[w].written => sock.work[w].written]_vars

\* Only the current socket is destroyed by what happens to a socket
\* (naive-socket.ts:341-342).
ReplacedIsHarmless ==
  [][\A c \in Connection, w \in Work :
       /\ <<c, w>> \in sock.calls /\ <<c, w>> \notin sock'.calls
       /\ c # sock.n
       => sock.open \subseteq sock'.open]_vars

-----------------------------------------------------------------------------
(* Liveness *)

\* A connection is made or fails, the peer answers, timers fire, callbacks run
\* and a closed socket is reported. Nothing makes a request time out.
Fairness ==
  /\ WF_vars(OnConnect) /\ WF_vars(OnData)
  /\ WF_vars(OnClose /\ sock.ended)
  /\ WF_vars(TimerFires)
  /\ \A c \in Connection, w \in Silent : WF_vars(WriteDone(c, w))

FairSpec == Spec /\ Fairness

\* Every request is settled, whatever happens to its connections, if a closed
\* one is opened again (README of naive-socket).
EveryRequestSettles ==
  Reconnects =>
    \A w \in Request : sock.work[w].st = "pending" ~> IsSettled(sock, w)

\* One socket at a time, greeted first, whose answers go to who asked (naive-socket.ts).
QueueInvariant == TypeOK /\ AnswersMatch /\ OneSocket /\ GreetedFirst

\* Every request is settled, and then it is done with: it is not written again
\* (naive-socket.ts).
RequestsSettle == NotWrittenAfterwards /\ EveryRequestSettles
=============================================================================
