--------------------------- MODULE RedisConnection ---------------------------
(***************************************************************************)
(* A connection of naive-redis with a password: an urgent AUTH on every    *)
(* connect, commands that wait for it, and the way back from a connection  *)
(* the server does not know. Of naive-socket, only the queue is kept: see  *)
(* NaiveSocket. Connections are numbered, and the n-th sends the AUTH n.   *)
(***************************************************************************)
EXTENDS Naturals, Sequences, FiniteSets

CONSTANTS Query, MaxLinks,
          RedisSetups   \* [drops, refusals, forgets, timeouts]

ASSUME RedisAssumption ==
  /\ MaxLinks \in Nat \ {0} /\ Query \cap Nat = {}
  /\ RedisSetups \subseteq [drops : Nat, refusals : Nat, forgets : Nat, timeouts : Nat]

VARIABLES
  conn,         \* down, opening, or up
  serial,       \* the number of the last connection
  knows,        \* the server has accepted AUTH on this connection
  firstSent,       \* what was written first on it, or 0 (history)
  outbox,       \* the queue of the socket; its head is on the wire if headSent
  headSent,
  current,      \* connection.authenticated: the AUTH whose promise it is, or 0
  verdict,      \* what became of the promise of each AUTH
  orders,       \* of each command: [state, waits, tries]
  weather       \* the setup, with what is left of it

redisVars == <<conn, serial, knows, firstSent, outbox, headSent, current, verdict,
               orders, weather>>

Strikes(what) == weather[what] > 0 /\ weather' = [weather EXCEPT ![what] = @ - 1]

QueryEnds(c, how) == [orders EXCEPT ![c].state = how]
Entries(q) == {q[i] : i \in DOMAIN q}

----------------------------------------------------------------------------

\* A settled head, one that has timed out, is dropped before the next is written.
Pending(x) == IF x \in Query THEN orders'[x].state = "queued" ELSE verdict'[x] = "pending"
Unsettled_(q) ==
  LET open == {i \in DOMAIN q : Pending(q[i])}
  IN IF open = {} THEN <<>>
     ELSE SubSeq(q, CHOOSE i \in open : \A j \in open : i <= j, Len(q))

\* The next of q is written; `first` was written before.
WritesNext(q, first) ==
  LET rest == Unsettled_(q)
  IN /\ outbox' = rest /\ headSent' = (rest # <<>>)
     /\ firstSent' = IF first = 0 /\ rest # <<>> THEN rest[1] ELSE first

\* socket.send: an empty queue is written at once, or opens the socket.
Sends(c) ==
  IF conn = "up" /\ outbox = <<>>
  THEN WritesNext(<<c>>, firstSent) /\ UNCHANGED conn
  ELSE /\ outbox' = Append(outbox, c)
       /\ conn' = IF conn = "down" THEN "opening" ELSE conn
       /\ UNCHANGED <<headSent, firstSent>>

\* redisSend: it waits for the AUTH it finds; one that failed is not there any more.
SendCommand(c) ==
  /\ orders[c].state = "new"
  /\ IF current # 0 /\ verdict[current] = "pending"
     THEN /\ orders' = [orders EXCEPT ![c].state = "waits", ![c].waits = current]
          /\ UNCHANGED <<conn, outbox, headSent, firstSent>>
     ELSE orders' = QueryEnds(c, "queued") /\ Sends(c)
  /\ UNCHANGED <<serial, knows, current, verdict, weather>>

\* connection.authenticated was unset before AUTH is sent.
AuthFirst(n) == <<n>> \o outbox

\* onConnectionStateChanged
SocketOpens ==
  /\ conn = "opening" /\ serial < MaxLinks
  /\ conn' = "up" /\ serial' = serial + 1 /\ knows' = FALSE
  /\ verdict' = [verdict EXCEPT ![serial + 1] = "pending"]
  /\ current' = serial + 1
  /\ UNCHANGED <<orders, weather>>
  /\ WritesNext(AuthFirst(serial + 1), 0)

\* disconnect() rejects the queue, the AUTHs in it too.
AuthsLost(auths) ==
  [x \in DOMAIN verdict |-> IF x \in auths /\ verdict[x] = "pending" THEN "failed"
                            ELSE verdict[x]]

\* Who waits for an AUTH fails with it.
Rejected_(queue) ==
  [c \in Query |->
     IF \/ orders[c].state = "queued" /\ c \in queue
        \/ orders[c].state = "waits" /\ verdict'[orders[c].waits] = "failed"
     THEN [orders[c] EXCEPT !.state = "rejected"] ELSE orders[c]]

TearDown ==
  /\ current' = 0 /\ conn' = "down" /\ knows' = FALSE
  /\ outbox' = <<>> /\ headSent' = FALSE /\ UNCHANGED firstSent
  /\ verdict' = AuthsLost(Entries(outbox) \ Query)
  /\ orders' = Rejected_(Entries(outbox))

\* Mutant: whichever AUTH fails takes the socket with it.
AnyAuth(a) == TRUE

\* The promise of AUTH a is rejected, or false: is it the one of the current socket?
TakesSocket(a) == current = a

\* An AUTH that outlived its socket is its own business.
OnlyFails(a) ==
  /\ verdict' = [verdict EXCEPT ![a] = "failed"] /\ orders' = Rejected_({})
  /\ UNCHANGED <<current, conn, knows>>

\* AUTH is answered; who waited for it is sent, behind the queue.
WaitsFor(a) == {c \in Query : orders[c].state = "waits" /\ orders[c].waits = a}

OrdersOf(S) == {q \in [1..Cardinality(S) -> S] : Entries(q) = S}

AuthAnswered(ok) ==
  /\ conn = "up" /\ headSent /\ outbox[1] \notin Query
  /\ IF ok THEN UNCHANGED weather ELSE Strikes("refusals")
  /\ IF verdict[outbox[1]] # "pending"
     THEN /\ knows' = (knows \/ ok)
          /\ UNCHANGED <<conn, current, verdict, orders>>
          /\ WritesNext(Tail(outbox), firstSent)
     ELSE IF ok
     THEN /\ knows' = TRUE
          /\ verdict' = [verdict EXCEPT ![outbox[1]] = "ok"]
          /\ orders' = [c \in Query |-> IF c \in WaitsFor(outbox[1])
                                          THEN [orders[c] EXCEPT !.state = "queued"]
                                          ELSE orders[c]]
          /\ \E next \in OrdersOf(WaitsFor(outbox[1])) :
               WritesNext(Tail(outbox) \o next, firstSent)
          /\ UNCHANGED <<conn, current>>
     ELSE IF TakesSocket(outbox[1]) THEN TearDown
     ELSE OnlyFails(outbox[1]) /\ WritesNext(Tail(outbox), firstSent)
  /\ UNCHANGED serial

\* A timeout rejects the promise; the request keeps its place.
AuthExpires(a) ==
  /\ a \in Entries(outbox) \ Query /\ verdict[a] = "pending" /\ Strikes("timeouts")
  /\ IF TakesSocket(a) THEN TearDown
     ELSE OnlyFails(a) /\ UNCHANGED <<outbox, headSent, firstSent>>
  /\ UNCHANGED serial

CommandTimesOut(c) ==
  /\ c \in Entries(outbox) /\ orders[c].state = "queued" /\ Strikes("timeouts")
  /\ orders' = QueryEnds(c, "rejected")
  /\ UNCHANGED <<conn, serial, knows, firstSent, outbox, headSent, current, verdict>>

CommandAnswered ==
  /\ conn = "up" /\ headSent /\ outbox[1] \in Query /\ knows
  /\ LET c == outbox[1]
     IN orders' = IF orders[c].state = "queued" THEN QueryEnds(c, "done") ELSE orders
  /\ UNCHANGED <<conn, serial, knows, current, verdict, weather>>
  /\ WritesNext(Tail(outbox), firstSent)

\* -NOAUTH: the others die with the socket, and this one is sent once more, if there are
\* credentials. If it has timed out, nobody reads the answer.
AnsweredNoAuth ==
  /\ conn = "up" /\ headSent /\ outbox[1] \in Query /\ ~knows
  /\ LET c == outbox[1]
         left == Rejected_(Entries(outbox))
     IN IF orders[c].state # "queued"
        THEN /\ UNCHANGED <<conn, current, verdict, orders>>
             /\ WritesNext(Tail(outbox), firstSent)
        ELSE /\ current' = 0 /\ verdict' = AuthsLost(Entries(outbox) \ Query)
             /\ headSent' = FALSE /\ UNCHANGED firstSent
             /\ IF current # 0 /\ orders[c].tries = 0
                THEN /\ orders' = [left EXCEPT ![c] = [orders[c] EXCEPT !.tries = 1]]
                     /\ conn' = "opening" /\ outbox' = <<c>>
                ELSE /\ orders' = left
                     /\ conn' = "down" /\ outbox' = <<>>
  /\ UNCHANGED <<serial, knows, weather>>

\* The server forgets who is connected.
ServerForgets ==
  /\ conn = "up" /\ knows /\ Strikes("forgets")
  /\ knows' = FALSE
  /\ UNCHANGED <<conn, serial, firstSent, outbox, headSent, current, verdict, orders>>

\* The connection is lost: with work left it is opened again, and the head is
\* written again.
Drops_ ==
  /\ conn = "up" /\ Strikes("drops")
  /\ conn' = IF outbox = <<>> THEN "down" ELSE "opening"
  /\ headSent' = FALSE /\ knows' = FALSE
  /\ UNCHANGED <<serial, firstSent, outbox, current, verdict, orders>>

RedisInit ==
  /\ weather \in RedisSetups
  /\ conn = "down" /\ serial = 0 /\ knows = FALSE /\ firstSent = 0
  /\ outbox = <<>> /\ headSent = FALSE /\ current = 0
  /\ verdict = [a \in 1..MaxLinks |-> "none"]
  /\ orders = [c \in Query |-> [state |-> "new", waits |-> 0, tries |-> 0]]

RedisNext ==
  \/ \E c \in Query : SendCommand(c) \/ CommandTimesOut(c)
  \/ SocketOpens \/ CommandAnswered \/ AnsweredNoAuth \/ ServerForgets \/ Drops_
  \/ \E ok \in BOOLEAN : AuthAnswered(ok)
  \/ \E a \in 1..MaxLinks : AuthExpires(a)

\* The server answers, and the connection comes back.
RedisGoesOn == SocketOpens \/ AuthAnswered(TRUE) \/ CommandAnswered \/ AnsweredNoAuth

RedisSpec == RedisInit /\ [][RedisNext]_redisVars /\ WF_redisVars(RedisGoesOn)

----------------------------------------------------------------------------
(* Properties *)

\* The wire holds the head of the queue, and an AUTH is queued while its promise is.
ConnectionTypeOK ==
  /\ conn \in {"down", "opening", "up"} /\ {knows, headSent} \subseteq BOOLEAN
  /\ headSent => conn = "up" /\ outbox # <<>>
  /\ Entries(outbox) \subseteq Query \cup 1..serial
  /\ \A a \in 1..MaxLinks : verdict[a] = "pending" => a \in Entries(outbox)
  /\ current \in 0..serial
  /\ \A c \in Query : orders[c].state = "waits" => verdict[orders[c].waits] = "pending"

\* AUTH is the first request of every connection (connection.ts:65-69).
AuthIsFirst == conn = "up" => firstSent = serial

\* A connection whose AUTH has failed is not kept: it would answer -NOAUTH for ever
\* (connection.ts:88-96).
NotPoisoned == conn = "up" => verdict[serial] # "failed"

\* An AUTH that outlived its socket does not take the next one: a connection the server
\* knows goes only because the peer drops it (connection.ts:82-87).
HealthySurvives ==
  [][conn = "up" /\ knows /\ verdict[serial] = "ok" /\ conn' # "up"
       => weather'.drops < weather.drops]_redisVars
\* No command is left waiting, for AUTH or in the queue, whichever way its connection went
\* (send.ts:43-74).
CommandsSettle ==
  []<>(\A c \in Query : orders[c].state \notin {"waits", "queued"})

\* A connection is authenticated before it is used and not kept when that failed; each
\* command is settled (connection.ts, send.ts).
ConnectionPromise ==
  /\ [](ConnectionTypeOK /\ AuthIsFirst /\ NotPoisoned)
  /\ HealthySurvives
  /\ CommandsSettle
=============================================================================
