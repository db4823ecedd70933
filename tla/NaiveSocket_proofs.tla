------------------------- MODULE NaiveSocket_proofs -------------------------
(***************************************************************************)
(* Proofs about NaiveSocket, for any requests, any listener and any number *)
(* of failures, disconnects and resets.                                    *)
(*                                                                         *)
(* A handler is a composition of functions of the socket's state. What     *)
(* holds between two handlers does not hold between two of these: that a   *)
(* function keeps the queue SOUND, and how far it keeps what is known of   *)
(* the connection, are lemmas of their own.                                *)
(***************************************************************************)
EXTENDS NaiveSocket, WellFoundedInduction, TLAPS

-----------------------------------------------------------------------------
(* The inductive invariant *)

Sock == [works : Seq(Work), work : [Work -> WorkState],
         alive : BOOLEAN, valid : BOOLEAN,
         state : {"Disconnected", "Connecting", "Connected"},
         n : 0..MaxConnections, half : Work \cup {Nobody},
         timers : Nat, calls : SUBSET (Connection \X Work),
         ended : BOOLEAN, wire : Seq(Work),
         open : SUBSET Connection,
         first : Work \cup {Nobody}]

\* A queue holds a request once, none that was not sent, and only its head may
\* be written.
QueueOK(q, work) ==
  /\ \A i, j \in 1..Len(q) : q[i] = q[j] => i = j
  /\ \A i \in 1..Len(q) :
       work[q[i]].st # "new" /\ (work[q[i]].written => i = 1)

\* What holds of the requests, whatever the current connection.
Sound(s) ==
  /\ s \in Sock
  /\ QueueOK(s.works, s.work)
  /\ \A w \in Work : s.work[w].st = "new" => ~s.work[w].written
  /\ \A w \in Work :
       s.work[w].st = "resolved" /\ w \notin Silent => s.work[w].answer = w
  /\ \A k \in Greeting : k > s.n => s.work[k].st = "new"
  /\ \A k \in s.calls : s.work[k[2]].st # "new"
  /\ s.open \subseteq {s.n}
  /\ Greets => s.first \in {Nobody, s.n}

\* What is on the wire: nothing, or the head of the queue.
WireOK(s) ==
  /\ \/ s.wire = <<>>
     \/ /\ s.works # <<>> /\ s.wire = <<Head(s.works)>>
        /\ s.work[Head(s.works)].written /\ Head(s.works) \notin Silent
  /\ s.half # Nobody => s.wire # <<>> /\ s.half = Head(s.wire)

HeadUnwritten(s) == s.works # <<>> => ~s.work[Head(s.works)].written

\* The connection agrees with what the fields say of it.
Linked(s) ==
  /\ WireOK(s)
  /\ s.state # "Connected" => HeadUnwritten(s) /\ s.wire = <<>> /\ ~s.ended
  /\ s.state = "Disconnected" => s.open = {}
  /\ s.state # "Disconnected" => s.n > 0
  /\ s.state = "Connecting" =>
       s.first = Nobody /\ (Greets => s.work[s.n].st = "new")

\* After disconnect there is neither a queue nor a socket.
AliveOK(s) == ~s.alive => s.works = <<>> /\ s.state = "Disconnected"

Good(s) == Sound(s) /\ Linked(s) /\ AliveOK(s)

Greeted(s) == Greets /\ s.state = "Connected" => s.first = s.n

\* A connection that is up, or coming up, is one that may still be spent.
Live(s) == IF s.state # "Disconnected" /\ ~s.ended THEN 1 ELSE 0
Used(s) == s.n - Live(s)
Spent == (MaxFaults - faults) + (MaxStops - stops) + (MaxResets - resets)

SocketInv ==
  /\ TypeOK
  /\ Good(sock) /\ Greeted(sock)
  /\ Used(sock) <= Spent

\* No request that is settled is written by the step from s to t.
Spares(s, t) ==
  \A w \in Work :
    IsSettled(s, w) =>
      IsSettled(t, w) /\ (t.work[w].written => s.work[w].written)

-----------------------------------------------------------------------------
(* Helpers *)

LEMMA SockType ==
  ASSUME NEW s \in Sock
  PROVE  /\ s.works \in Seq(Work) /\ s.wire \in Seq(Work)
         /\ s.work \in [Work -> WorkState]
         /\ s.alive \in BOOLEAN /\ s.valid \in BOOLEAN /\ s.ended \in BOOLEAN
         /\ s.state \in {"Disconnected", "Connecting", "Connected"}
         /\ s.n \in 0..MaxConnections /\ s.timers \in Nat
         /\ s.half \in Work \cup {Nobody} /\ s.first \in Work \cup {Nobody}
         /\ s.calls \subseteq Connection \X Work /\ s.open \subseteq Connection
BY DEF Sock

LEMMA Limits ==
  /\ MaxConnections \in Nat /\ MaxConnections > 0
  /\ Nobody \notin Work
  /\ Greets => \A n \in Connection : n \in Greeting /\ n \in Work
  /\ Connection \subseteq Nat
BY SocketAssumption DEF MaxConnections, Connection, Work, Greeting

LEMMA NumbersOfSock ==
  ASSUME NEW s \in Sock
  PROVE  s.n \in Nat /\ s.n <= MaxConnections /\ (s.n > 0 => s.n \in Connection)
<1>1. s.n \in 0..MaxConnections
  BY SockType
<1> QED
  BY <1>1, Limits DEF Connection

LEMMA SparesTransitive ==
  ASSUME NEW s, NEW t, NEW u, Spares(s, t), Spares(t, u)
  PROVE  Spares(s, u)
BY DEF Spares

LEMMA SparesSame ==
  ASSUME NEW s, NEW t, t.work = s.work
  PROVE  Spares(s, t)
BY DEF Spares, IsSettled

-----------------------------------------------------------------------------
(* Disconnecting and connecting *)

LEMMA DoDisconnectFields ==
  ASSUME NEW s \in Sock
  PROVE  LET t == DoDisconnect(s) IN
         /\ t \in Sock
         /\ t.works = s.works /\ t.alive = s.alive /\ t.valid = s.valid
         /\ t.state = "Disconnected" /\ t.n = s.n /\ t.half = Nobody
         /\ t.timers = s.timers /\ t.calls = s.calls /\ t.ended = FALSE
         /\ t.wire = <<>> /\ t.open = s.open \ {s.n} /\ t.first = s.first
         /\ \A w \in Work :
              /\ t.work[w].st = s.work[w].st
              /\ t.work[w].answer = s.work[w].answer
              /\ t.work[w].written => s.work[w].written
              /\ \A i \in 1..Len(s.works) :
                   s.works[i] = w => ~t.work[w].written
<1> DEFINE inQueue(w) == \E i \in DOMAIN s.works : s.works[i] = w
           work == [w \in Work |-> IF inQueue(w)
                      THEN [s.work[w] EXCEPT !.written = FALSE] ELSE s.work[w]]
           t == [s EXCEPT !.state = "Disconnected", !.half = Nobody,
                          !.work = work,
                          !.ended = FALSE, !.wire = <<>>, !.open = s.open \ {s.n}]
<1>1. DoDisconnect(s) = t
  BY DEF DoDisconnect
<1>2. s.works \in Seq(Work) /\ s.work \in [Work -> WorkState]
  BY SockType
<1>3. work \in [Work -> WorkState]
  BY <1>2 DEF WorkState
<1>4. \A w \in Work :
        /\ work[w].st = s.work[w].st
        /\ work[w].answer = s.work[w].answer
        /\ work[w].written => s.work[w].written
        /\ \A i \in 1..Len(s.works) : s.works[i] = w => ~work[w].written
  BY <1>2 DEF WorkState
<1> HIDE DEF work
<1>5. <<>> \in Seq(Work)
  OBVIOUS
<1> DEFINE none == <<>>
<1> HIDE DEF none
<1>6. none \in Seq(Work)
  BY <1>5 DEF none
<1>7. t = [s EXCEPT !.state = "Disconnected", !.half = Nobody, !.work = work,
                    !.ended = FALSE, !.wire = none, !.open = s.open \ {s.n}]
  BY DEF none
<1>8. /\ t \in Sock
      /\ t.works = s.works /\ t.alive = s.alive /\ t.valid = s.valid
      /\ t.state = "Disconnected" /\ t.n = s.n /\ t.half = Nobody
      /\ t.timers = s.timers /\ t.calls = s.calls /\ t.ended = FALSE
      /\ t.wire = none /\ t.open = s.open \ {s.n} /\ t.first = s.first
      /\ t.work = work
  BY <1>3, <1>6, <1>7, ZenonT(60) DEF Sock
<1> QED
  BY <1>1, <1>4, <1>8 DEF none

LEMMA Elements ==
  ASSUME NEW q \in Seq(Work)
  PROVE  /\ \A i \in 1..Len(q) : q[i] \in Work
         /\ q # <<>> => /\ 1 \in 1..Len(q) /\ Head(q) = q[1] /\ Head(q) \in Work
                        /\ Tail(q) \in Seq(Work)
OBVIOUS

\* Whatever it was, the connection is gone afterwards, and the queue is sound.
LEMMA DoDisconnectSound ==
  ASSUME NEW s, Sound(s)
  PROVE  LET t == DoDisconnect(s) IN
         /\ Sound(t) /\ Linked(t) /\ t.state = "Disconnected"
         /\ t.n = s.n /\ t.works = s.works /\ t.alive = s.alive
         /\ t.valid = s.valid /\ Spares(s, t)
<1> DEFINE t == DoDisconnect(s)
<1>1. s \in Sock
  BY DEF Sound
<1>2. /\ t \in Sock
      /\ t.works = s.works /\ t.alive = s.alive /\ t.valid = s.valid
      /\ t.state = "Disconnected" /\ t.n = s.n /\ t.half = Nobody
      /\ t.ended = FALSE /\ t.wire = <<>> /\ t.open = s.open \ {s.n}
      /\ t.first = s.first /\ t.calls = s.calls
      /\ \A w \in Work :
           /\ t.work[w].st = s.work[w].st
           /\ t.work[w].answer = s.work[w].answer
           /\ t.work[w].written => s.work[w].written
           /\ \A i \in 1..Len(s.works) : s.works[i] = w => ~t.work[w].written
  BY <1>1, DoDisconnectFields
<1>3. s.works \in Seq(Work)
  BY <1>1, SockType
<1> HIDE DEF t
<1>4. Sound(t)
  <2>1. QueueOK(t.works, t.work)
    BY <1>2, <1>3, Elements DEF Sound, QueueOK
  <2>2. Greeting \subseteq Work
    BY DEF Work
  <2>3. \A k \in s.calls : k[2] \in Work
    BY <1>1, SockType
  <2> QED
    BY <1>2, <2>1, <2>2, <2>3 DEF Sound
<1>5. Linked(t)
  <2>1. HeadUnwritten(t)
    BY <1>2, <1>3, Elements DEF HeadUnwritten
  <2> QED
    BY <1>2, <2>1 DEF Sound, Linked, WireOK
<1>6. Spares(s, t)
  BY <1>2 DEF Spares, IsSettled
<1> QED
  BY <1>2, <1>4, <1>5, <1>6 DEF t

LEMMA FailAllFields ==
  ASSUME NEW s \in Sock
  PROVE  LET t == FailAllPendingWork(s) IN
         /\ t \in Sock
         /\ t.works = <<>>
         /\ t.alive = s.alive /\ t.valid = s.valid /\ t.state = s.state
         /\ t.n = s.n /\ t.half = s.half /\ t.timers = s.timers
         /\ t.calls = s.calls /\ t.ended = s.ended /\ t.wire = s.wire
         /\ t.open = s.open /\ t.first = s.first
         /\ \A w \in Work :
              /\ t.work[w].st = s.work[w].st \/
                   /\ t.work[w].st = "rejected" /\ ~IsSettled(s, w)
                   /\ \E i \in 1..Len(s.works) : s.works[i] = w
              /\ t.work[w].answer = s.work[w].answer
              /\ t.work[w].written = s.work[w].written
<1> DEFINE failed(w) == /\ w \in {s.works[i] : i \in DOMAIN s.works}
                        /\ ~IsSettled(s, w)
           work == [w \in Work |-> IF failed(w)
                      THEN [s.work[w] EXCEPT !.st = "rejected"] ELSE s.work[w]]
           none == <<>>
           t == [s EXCEPT !.works = none, !.work = work]
<1>1. FailAllPendingWork(s) = t
  BY DEF FailAllPendingWork
<1>2. s.works \in Seq(Work) /\ s.work \in [Work -> WorkState]
  BY SockType
<1>3. ASSUME NEW w \in Work
      PROVE  /\ work[w] \in WorkState
             /\ work[w].st = s.work[w].st \/
                   /\ work[w].st = "rejected" /\ ~IsSettled(s, w)
                   /\ \E i \in 1..Len(s.works) : s.works[i] = w
             /\ work[w].answer = s.work[w].answer
             /\ work[w].written = s.work[w].written
  <2>1. s.work[w] \in WorkState
    BY <1>2
  <2>2. CASE failed(w)
    <3>1. work[w] = [s.work[w] EXCEPT !.st = "rejected"]
      BY <2>2
    <3>2. ~IsSettled(s, w) /\ \E i \in 1..Len(s.works) : s.works[i] = w
      BY <1>2, <2>2
    <3> HIDE DEF work
    <3> QED
      BY <2>1, <3>1, <3>2 DEF WorkState, Settled
  <2>3. CASE ~failed(w)
    <3>1. work[w] = s.work[w]
      BY <2>3
    <3> QED
      BY <2>1, <3>1
  <2> QED
    BY <2>2, <2>3
<1>4. work \in [Work -> WorkState]
  BY <1>3
<1>5. none \in Seq(Work)
  OBVIOUS
<1> HIDE DEF work, none
<1>6. /\ t \in Sock
      /\ t.works = none /\ t.work = work
      /\ t.alive = s.alive /\ t.valid = s.valid /\ t.state = s.state
      /\ t.n = s.n /\ t.half = s.half /\ t.timers = s.timers
      /\ t.calls = s.calls /\ t.ended = s.ended /\ t.wire = s.wire
      /\ t.open = s.open /\ t.first = s.first
  BY <1>4, <1>5 DEF Sock
<1> HIDE DEF t
<1> QED
  BY <1>1, <1>3, <1>6 DEF none

LEMMA FailAllSound ==
  ASSUME NEW s, Sound(s)
  PROVE  LET t == FailAllPendingWork(s) IN
         /\ Sound(t) /\ t.works = <<>>
         /\ t.state = s.state /\ t.n = s.n /\ t.alive = s.alive
         /\ t.ended = s.ended /\ t.valid = s.valid
         /\ Linked(s) /\ s.state = "Disconnected" => Linked(t)
         /\ Spares(s, t)
<1> DEFINE t == FailAllPendingWork(s)
<1>1. s \in Sock
  BY DEF Sound
<1>2. /\ t \in Sock
      /\ t.works = <<>>
      /\ t.alive = s.alive /\ t.valid = s.valid /\ t.state = s.state
      /\ t.n = s.n /\ t.half = s.half /\ t.calls = s.calls
      /\ t.ended = s.ended /\ t.wire = s.wire
      /\ t.open = s.open /\ t.first = s.first
      /\ \A w \in Work :
           /\ t.work[w].st = s.work[w].st \/
                /\ t.work[w].st = "rejected" /\ ~IsSettled(s, w)
                /\ \E i \in 1..Len(s.works) : s.works[i] = w
           /\ t.work[w].answer = s.work[w].answer
           /\ t.work[w].written = s.work[w].written
  BY <1>1, FailAllFields
<1> HIDE DEF t
<1>3. \A w \in Work : t.work[w].st # s.work[w].st =>
        t.work[w].st = "rejected" /\ s.work[w].st # "new"
  BY <1>2 DEF Sound, QueueOK
<1>4. Sound(t)
  <2>1. QueueOK(t.works, t.work)
    BY <1>2 DEF QueueOK
  <2>2. Greeting \subseteq Work
    BY DEF Work
  <2>3. \A w \in Work : t.work[w].st = "new" => ~t.work[w].written
    BY <1>2, <1>3 DEF Sound
  <2>4. \A w \in Work :
       t.work[w].st = "resolved" /\ w \notin Silent => t.work[w].answer = w
    BY <1>2, <1>3 DEF Sound
  <2>5. \A k \in Greeting : k > t.n => t.work[k].st = "new"
    <3> SUFFICES ASSUME NEW k \in Greeting, k > t.n PROVE t.work[k].st = "new"
      OBVIOUS
    <3>1. k \in Work /\ s.work[k].st = "new"
      BY <1>2, <2>2 DEF Sound
    <3>2. \A i \in 1..Len(s.works) : s.works[i] # k
      BY <3>1 DEF Sound, QueueOK
    <3> QED
      BY <1>2, <3>1, <3>2
  <2>6. \A k \in t.calls : t.work[k[2]].st # "new"
    <3>1. \A k \in s.calls : k[2] \in Work
      BY <1>1, SockType
    <3> QED
      BY <1>2, <1>3, <3>1 DEF Sound
  <2> QED
    BY <1>2, <2>1, <2>3, <2>4, <2>5, <2>6 DEF Sound
<1>5. Linked(s) /\ s.state = "Disconnected" => Linked(t)
  BY <1>2 DEF Linked, WireOK, HeadUnwritten
<1>6. Spares(s, t)
  BY <1>2 DEF Spares, IsSettled, Settled
<1> QED
  BY <1>2, <1>4, <1>5, <1>6 DEF t

\* A connection costs one of those that are left; without valid options the
\* queue is failed instead.
LEMMA ConnectGood ==
  ASSUME NEW s, Sound(s), Linked(s), s.state = "Disconnected", s.alive,
         s.n < MaxConnections
  PROVE  LET t == Connect(s) IN
         /\ Good(t) /\ t.state # "Connected" /\ Used(t) = Used(s)
         /\ t.alive = s.alive /\ Spares(s, t)
<1>1. s \in Sock /\ s.n \in Nat /\ s.n <= MaxConnections
  BY NumbersOfSock DEF Sound
<1>2. CASE s.valid
  <2> DEFINE opened == s.open \cup {s.n + 1}
             t == [s EXCEPT !.state = "Connecting", !.n = s.n + 1,
                            !.first = Nobody, !.open = opened]
  <2>1. Connect(s) = t
    BY <1>2 DEF Connect
  <2>2. opened = {s.n + 1} /\ opened \subseteq Connection
    BY <1>1, Limits DEF Linked, Connection
  <2>3. s.n + 1 \in 0..MaxConnections
    BY <1>1, Limits
  <2> HIDE DEF opened
  <2>4. /\ t \in Sock
        /\ t.works = s.works /\ t.work = s.work /\ t.alive = s.alive
        /\ t.state = "Connecting" /\ t.n = s.n + 1 /\ t.half = s.half
        /\ t.calls = s.calls
        /\ t.ended = s.ended /\ t.wire = s.wire /\ t.open = opened
        /\ t.first = Nobody
    BY <1>1, <2>2, <2>3 DEF Sock
  <2> HIDE DEF t
  <2>5. Sound(t)
    <3>1. \A k \in Greeting : k > t.n => t.work[k].st = "new"
      <4>1. \A k \in Greeting : k \in Nat
        BY Limits DEF Greeting
      <4> QED
        BY <1>1, <2>4, <4>1 DEF Sound
    <3> QED
      BY <2>2, <2>4, <3>1 DEF Sound
  <2>6. Linked(t)
    <3>1. Greets => t.work[t.n].st = "new"
      <4>1. Greets => s.n + 1 \in Greeting
        BY <1>1, <2>2 DEF Greeting
      <4> QED
        BY <1>1, <2>4, <4>1 DEF Sound
    <3> QED
      BY <1>1, <2>4, <3>1 DEF Linked, WireOK, HeadUnwritten
  <2>7. AliveOK(t)
    BY <2>4 DEF AliveOK
  <2>8. Used(t) = Used(s)
    BY <1>1, <2>4 DEF Used, Live, Linked
  <2> QED
    BY <2>1, <2>4, <2>5, <2>6, <2>7, <2>8, SparesSame DEF Good
<1>3. CASE ~s.valid
  <2> DEFINE u == FailAllPendingWork(s)
             t == [u EXCEPT !.state = "Disconnected"]
  <2>1. Connect(s) = t
    BY <1>3 DEF Connect
  <2>2. /\ Sound(u) /\ u.works = <<>>
        /\ u.state = "Disconnected" /\ u.n = s.n /\ u.alive = s.alive
        /\ Linked(u) /\ Spares(s, u)
    BY FailAllSound
  <2>3. t = u
    BY <2>2 DEF Sound, Sock
  <2> HIDE DEF u, t
  <2> QED
    BY <2>1, <2>2, <2>3 DEF Good, AliveOK, Used, Live
<1> QED
  BY <1>1, <1>2, <1>3 DEF Sound, Sock

\* The connection is given up, and a timer set if there is reason to.
LEMMA RetrySound ==
  ASSUME NEW s, Sound(s)
  PROVE  LET t == RetryToConnect(s) IN
         /\ Sound(t) /\ Linked(t) /\ t.state = "Disconnected"
         /\ t.n = s.n /\ t.works = s.works /\ t.alive = s.alive
         /\ Spares(s, t)
<1> DEFINE u == DoDisconnect(s)
           t == RetryToConnect(s)
<1>1. /\ Sound(u) /\ Linked(u) /\ u.state = "Disconnected"
      /\ u.n = s.n /\ u.works = s.works /\ u.alive = s.alive
      /\ Spares(s, u)
  BY DoDisconnectSound
<1> HIDE DEF u
<1>2. t = u \/ t = [u EXCEPT !.timers = u.timers + 1]
  BY DEF RetryToConnect, u
<1>3. CASE t = u
  BY <1>1, <1>3
<1>4. CASE t = [u EXCEPT !.timers = u.timers + 1]
  <2>1. u \in Sock /\ u.timers \in Nat
    BY <1>1, SockType DEF Sound
  <2> HIDE DEF t
  <2>2. /\ t \in Sock
        /\ t.works = u.works /\ t.work = u.work /\ t.alive = u.alive
        /\ t.state = u.state /\ t.n = u.n /\ t.half = u.half
        /\ t.ended = u.ended /\ t.wire = u.wire /\ t.open = u.open
        /\ t.first = u.first /\ t.calls = u.calls
    BY <1>4, <2>1, SMTT(60) DEF Sock
  <2>3. Sound(t)
    BY <1>1, <2>2 DEF Sound
  <2>4. Linked(t)
    BY <1>1, <2>2 DEF Linked, WireOK, HeadUnwritten
  <2>5. Spares(u, t)
    BY <2>2, SparesSame
  <2>6. Spares(s, t)
    BY <1>1, <2>5, SparesTransitive
  <2> QED
    BY <1>1, <2>2, <2>3, <2>4, <2>6 DEF t
<1> QED
  BY <1>2, <1>3, <1>4

-----------------------------------------------------------------------------
(* Writing the next request *)

\* A set of values on which a well-founded relation acts has a minimal one.
LEMMA MinimalOf ==
  ASSUME NEW N, NEW R, IsWellFoundedOn(R, N), NEW S, S \subseteq N, S # {}
  PROVE  \E i \in S : \A j \in S : <<j, i>> \notin R
  BY WFMin, ZenonT(60)

\* A set of indices that is not empty has a least one.
LEMMA LeastOf ==
  ASSUME NEW S, S \subseteq Nat, S # {}
  PROVE  \E i \in S : \A j \in S : i <= j
<1>1. IsWellFoundedOn(OpToRel(<, Nat), Nat)
  BY NatLessThanWellFounded, Zenon
<1>2. \A j, k \in Nat : j < k => <<j, k>> \in OpToRel(<, Nat)
  BY DEF OpToRel
<1>3. PICK R : IsWellFoundedOn(R, Nat) /\ \A j, k \in Nat : j < k => <<j, k>> \in R
  BY <1>1, <1>2, Zenon
<1>4. PICK i \in S : \A j \in S : <<j, i>> \notin R
  BY <1>3, MinimalOf, ZenonT(60)
<1> HIDE <1>1, <1>2
<1>5. \A j \in S : ~(j < i)
  BY <1>3, <1>4
<1> QED
  BY <1>5

LEMMA Suffix ==
  ASSUME NEW q \in Seq(Work), NEW start \in 1..(Len(q) + 1)
  PROVE  LET r == SubSeq(q, start, Len(q)) IN
         /\ r \in Seq(Work) /\ Len(r) = Len(q) - start + 1
         /\ \A i \in 1..Len(r) : r[i] = q[start + i - 1]
         /\ start = 1 => r = q
OBVIOUS

LEMMA UnsettledFields ==
  ASSUME NEW s \in Sock
  PROVE  LET t == Unsettled(s) IN
         \E start \in 1..(Len(s.works) + 1) :
           /\ t.works = SubSeq(s.works, start, Len(s.works))
           /\ start <= Len(s.works) => ~IsSettled(s, s.works[start])
           /\ \A i \in 1..Len(s.works) : i < start => IsSettled(s, s.works[i])
           /\ t \in Sock
           /\ t.work = s.work /\ t.alive = s.alive /\ t.state = s.state
           /\ t.calls = s.calls
           /\ t.n = s.n /\ t.half = s.half /\ t.ended = s.ended
           /\ t.wire = s.wire /\ t.open = s.open /\ t.first = s.first
<1> DEFINE waiting == {i \in DOMAIN s.works : ~IsSettled(s, s.works[i])}
           start == IF waiting = {} THEN Len(s.works) + 1
                    ELSE CHOOSE i \in waiting : \A j \in waiting : i <= j
           rest == SubSeq(s.works, start, Len(s.works))
           t == [s EXCEPT !.works = rest]
<1>1. Unsettled(s) = t
  BY DEF Unsettled
<1>2. s.works \in Seq(Work) /\ DOMAIN s.works = 1..Len(s.works)
      /\ Len(s.works) \in Nat
  BY SockType
<1>3. waiting \subseteq Nat /\ waiting \subseteq 1..Len(s.works)
  BY <1>2
<1>4. /\ start \in 1..(Len(s.works) + 1)
      /\ start <= Len(s.works) => ~IsSettled(s, s.works[start])
      /\ \A i \in 1..Len(s.works) : i < start => IsSettled(s, s.works[i])
  <2>1. CASE waiting = {}
    <3>1. start = Len(s.works) + 1
      BY <2>1
    <3>2. \A i \in 1..Len(s.works) : IsSettled(s, s.works[i])
      BY <1>2, <2>1
    <3> HIDE DEF waiting, start
    <3> QED
      BY <1>2, <3>1, <3>2
  <2>2. CASE waiting # {}
    <3>1. \E i \in waiting : \A j \in waiting : i <= j
      BY <1>3, <2>2, LeastOf
    <3>2. start = CHOOSE i \in waiting : \A j \in waiting : i <= j
      BY <2>2
    <3>3. start \in waiting /\ \A j \in waiting : start <= j
      BY <3>1, <3>2, Zenon
    <3>4. ~IsSettled(s, s.works[start])
      BY <3>3
    <3>5. \A i \in 1..Len(s.works) : i \notin waiting => IsSettled(s, s.works[i])
      BY <1>2
    <3>6. \A i \in 1..Len(s.works) : i < start => i \notin waiting
      <4> HIDE DEF waiting, start
      <4> QED
        BY <1>2, <1>3, <3>3
    <3> HIDE DEF waiting, start
    <3> QED
      BY <1>2, <1>3, <3>3, <3>4, <3>5, <3>6
  <2> QED
    BY <2>1, <2>2
<1> HIDE DEF start, waiting
<1>5. rest \in Seq(Work)
  BY <1>2, <1>4, Suffix
<1>6. rest = SubSeq(s.works, start, Len(s.works))
  OBVIOUS
<1> HIDE DEF rest
<1>7. /\ t \in Sock
      /\ t.works = rest /\ t.calls = s.calls
      /\ t.work = s.work /\ t.alive = s.alive /\ t.state = s.state
      /\ t.n = s.n /\ t.half = s.half /\ t.ended = s.ended
      /\ t.wire = s.wire /\ t.open = s.open /\ t.first = s.first
  BY <1>5 DEF Sock
<1> HIDE DEF t
<1> QED
  BY <1>1, <1>4, <1>6, <1>7

\* The head of the queue is one that nothing prevents from being dropped
\* together with those after it, or that is not dropped.
MayGoOn(s) ==
  s.state = "Connected" /\ s.works # <<>> =>
    HeadUnwritten(s) \/ ~IsSettled(s, Head(s.works))

LEMMA UnsettledGood ==
  ASSUME NEW s, Good(s), s.state = "Connected", MayGoOn(s)
  PROVE  LET t == Unsettled(s) IN
         /\ Good(t) /\ t.state = "Connected" /\ t.n = s.n /\ t.ended = s.ended
         /\ t.first = s.first /\ t.work = s.work /\ t.alive = s.alive
         /\ t.works # <<>> => ~IsSettled(t, Head(t.works))
         /\ s.works # <<>> /\ ~IsSettled(s, Head(s.works)) => t.works = s.works
<1> DEFINE t == Unsettled(s)
           q == s.works
<1>1. s \in Sock /\ q \in Seq(Work) /\ Len(q) \in Nat
  BY SockType DEF Good, Sound
<1>2. PICK start \in 1..(Len(q) + 1) :
        /\ t.works = SubSeq(q, start, Len(q))
        /\ start <= Len(q) => ~IsSettled(s, q[start])
        /\ \A i \in 1..Len(q) : i < start => IsSettled(s, q[i])
        /\ t \in Sock /\ t.calls = s.calls
        /\ t.work = s.work /\ t.alive = s.alive /\ t.state = s.state
        /\ t.n = s.n /\ t.half = s.half /\ t.ended = s.ended
        /\ t.wire = s.wire /\ t.open = s.open /\ t.first = s.first
  BY <1>1, UnsettledFields
<1> HIDE DEF t
<1>3. /\ t.works \in Seq(Work) /\ Len(t.works) = Len(q) - start + 1
      /\ \A i \in 1..Len(t.works) : t.works[i] = q[start + i - 1]
      /\ start = 1 => t.works = q
  <2> DEFINE r == SubSeq(q, start, Len(q))
  <2>1. /\ r \in Seq(Work) /\ Len(r) = Len(q) - start + 1
        /\ \A i \in 1..Len(r) : r[i] = q[start + i - 1]
        /\ start = 1 => r = q
    BY <1>1, Suffix
  <2>2. t.works = r
    BY <1>2
  <2> HIDE DEF r
  <2> QED
    BY <2>1, <2>2
<1>4. q # <<>> /\ ~IsSettled(s, Head(q)) => start = 1
  <2> SUFFICES ASSUME q # <<>>, ~IsSettled(s, Head(q)) PROVE start = 1
    OBVIOUS
  <2>1. 1 \in 1..Len(q) /\ ~IsSettled(s, q[1])
    BY <1>1, Elements
  <2>2. ~(1 < start)
    BY <1>2, <2>1
  <2> QED
    BY <2>2
<1>5. QueueOK(t.works, t.work)
  <2>1. QueueOK(q, s.work)
    BY DEF Good, Sound
  <2>2. \A i \in 1..Len(t.works) : start + i - 1 \in 1..Len(q)
    BY <1>1, <1>3
  <2>3. \A i, j \in 1..Len(t.works) : start + i - 1 = start + j - 1 => i = j
    BY <1>1, <1>3
  <2>4. \A i \in 1..Len(t.works) : start + i - 1 = 1 => i = 1
    BY <1>1, <1>3
  <2> DEFINE r == t.works
  <2>5. t.work = s.work /\ \A i \in 1..Len(r) : r[i] = q[start + i - 1]
    BY <1>2, <1>3
  <2> HIDE DEF q, r
  <2>6. \A i, j \in 1..Len(r) : r[i] = r[j] => i = j
    BY <2>1, <2>2, <2>3, <2>5, ZenonT(60) DEF QueueOK, r
  <2>7. \A i \in 1..Len(r) :
          s.work[r[i]].st # "new" /\ (s.work[r[i]].written => i = 1)
    BY <2>1, <2>2, <2>4, <2>5, ZenonT(60) DEF QueueOK, r
  <2> QED
    BY <2>5, <2>6, <2>7 DEF QueueOK, r
<1>6. Sound(t)
  BY <1>2, <1>5 DEF Good, Sound
<1>7. t.works # <<>> => ~IsSettled(t, Head(t.works))
  <2> SUFFICES ASSUME t.works # <<>> PROVE ~IsSettled(t, Head(t.works))
    OBVIOUS
  <2>1. Head(t.works) = t.works[1] /\ 1 \in 1..Len(t.works)
    BY <1>3, Elements
  <2>2. t.works[1] = q[start] /\ start <= Len(q)
    BY <1>1, <1>3, <2>1
  <2> QED
    BY <1>2, <2>1, <2>2 DEF IsSettled
<1>8. Linked(t)
  <2>1. CASE start = 1
    BY <1>2, <1>3, <2>1 DEF Good, Linked, WireOK, HeadUnwritten
  <2>2. CASE start # 1
    <3>1. q # <<>>
      BY <1>1, <2>2
    <3>2. HeadUnwritten(s)
      BY <1>4, <2>2, <3>1 DEF MayGoOn
    <3>3. s.wire = <<>> /\ s.half = Nobody
      BY <3>1, <3>2 DEF Good, Linked, WireOK, HeadUnwritten
    <3> QED
      BY <1>2, <3>3 DEF Good, Linked, WireOK
  <2> QED
    BY <2>1, <2>2
<1>9. AliveOK(t)
  BY <1>2 DEF Good, AliveOK
<1> QED
  BY <1>2, <1>3, <1>4, <1>6, <1>7, <1>8, <1>9 DEF Good, t

LEMMA WriteFields ==
  ASSUME NEW s \in Sock, NEW w \in Work, s.n \in Connection
  PROVE  LET t == Write(s, w) IN
         /\ t \in Sock
         /\ t.works = s.works /\ t.alive = s.alive /\ t.state = s.state
         /\ t.n = s.n /\ t.half = s.half /\ t.ended = s.ended /\ t.open = s.open
         /\ t.wire = IF w \in Silent THEN s.wire ELSE Append(s.wire, w)
         /\ t.first = IF s.first = Nobody THEN w ELSE s.first
         /\ t.calls = s.calls \cup {<<s.n, w>>}
         /\ t.work[w].written
         /\ \A v \in Work :
              /\ t.work[v].st = s.work[v].st
              /\ t.work[v].answer = s.work[v].answer
              /\ v # w => t.work[v] = s.work[v]
<1> DEFINE work == [s.work EXCEPT ![w] = [s.work[w] EXCEPT !.written = TRUE]]
           calls == s.calls \cup {<<s.n, w>>}
           wire == IF w \in Silent THEN s.wire ELSE Append(s.wire, w)
           first == IF s.first = Nobody THEN w ELSE s.first
           t == [s EXCEPT !.work = work, !.calls = calls, !.wire = wire,
                          !.first = first]
<1>1. Write(s, w) = t
  BY DEF Write
<1>2. /\ s.work \in [Work -> WorkState] /\ s.wire \in Seq(Work)
      /\ s.calls \subseteq Connection \X Work /\ s.first \in Work \cup {Nobody}
  BY SockType
<1>3. /\ work \in [Work -> WorkState]
      /\ work[w].written
      /\ \A v \in Work :
              /\ work[v].st = s.work[v].st
              /\ work[v].answer = s.work[v].answer
              /\ v # w => work[v] = s.work[v]
  BY <1>2 DEF WorkState
<1>4. calls \in SUBSET (Connection \X Work)
  BY <1>2
<1>5. wire \in Seq(Work) /\ first \in Work \cup {Nobody}
  BY <1>2
<1>6. /\ wire = IF w \in Silent THEN s.wire ELSE Append(s.wire, w)
      /\ first = IF s.first = Nobody THEN w ELSE s.first
      /\ calls = s.calls \cup {<<s.n, w>>}
  OBVIOUS
<1> HIDE DEF work, calls, wire, first
<1>7. /\ t \in Sock
      /\ t.works = s.works /\ t.alive = s.alive /\ t.state = s.state
      /\ t.n = s.n /\ t.half = s.half /\ t.ended = s.ended /\ t.open = s.open
      /\ t.wire = wire /\ t.first = first /\ t.work = work
      /\ t.calls = calls
  BY <1>3, <1>4, <1>5 DEF Sock
<1> HIDE DEF t
<1> QED
  BY <1>1, <1>3, <1>6, <1>7

LEMMA OneOnTheWire ==
  ASSUME NEW w \in Work, NEW wire, wire = <<>>
  PROVE  Append(wire, w) = <<w>>
OBVIOUS

\* The greeting was written first on this connection, or is about to be.
Due(s) ==
  Greets /\ s.state = "Connected" =>
    \/ s.first = s.n
    \/ /\ s.first = Nobody /\ s.works # <<>> /\ Head(s.works) = s.n
       /\ HeadUnwritten(s) /\ ~IsSettled(s, s.n)

\* The head of the queue is written, if it was not.
LEMMA WriteNextGood ==
  ASSUME NEW s, Good(s), s.state = "Connected", Due(s),
         s.works # <<>> => ~IsSettled(s, Head(s.works))
  PROVE  LET t == WriteNext(s) IN
         /\ Good(t) /\ Greeted(t)
         /\ t.state = "Connected" /\ t.n = s.n /\ t.ended = s.ended
         /\ t.works = s.works /\ t.alive = s.alive /\ Spares(s, t)
         /\ t.works # <<>> => ~IsSettled(t, Head(t.works))
<1> DEFINE t == WriteNext(s)
           h == Head(s.works)
<1>1. s \in Sock /\ s.works \in Seq(Work) /\ s.n \in Nat /\ s.n \in Connection
  BY SockType, NumbersOfSock DEF Good, Sound, Linked
<1>2. CASE s.works = <<>> \/ ~HeadUnwritten(s)
  <2>1. t = s
    BY <1>2 DEF WriteNext, HeadUnwritten
  <2>2. Greeted(s)
    BY <1>2 DEF Due, Greeted
  <2> QED
    BY <2>1, <2>2, SparesSame
<1>3. CASE s.works # <<>> /\ HeadUnwritten(s)
  <2>1. t = Write(s, h) /\ ~s.work[h].written /\ ~IsSettled(s, h)
    BY <1>3 DEF WriteNext, HeadUnwritten
  <2>2. h \in Work /\ h = s.works[1] /\ 1 \in 1..Len(s.works)
    BY <1>1, <1>3, Elements
  <2> HIDE DEF h, t
  <2>3. /\ t \in Sock
        /\ t.works = s.works /\ t.alive = s.alive /\ t.state = s.state
        /\ t.n = s.n /\ t.half = s.half /\ t.ended = s.ended /\ t.open = s.open
        /\ t.wire = IF h \in Silent THEN s.wire ELSE Append(s.wire, h)
        /\ t.first = IF s.first = Nobody THEN h ELSE s.first
        /\ t.calls = s.calls \cup {<<s.n, h>>}
        /\ t.work[h].written
        /\ \A v \in Work :
             /\ t.work[v].st = s.work[v].st
             /\ t.work[v].answer = s.work[v].answer
             /\ v # h => t.work[v] = s.work[v]
    BY <1>1, <2>1, <2>2, WriteFields
  <2>4. s.wire = <<>> /\ s.half = Nobody
    BY <1>3 DEF Good, Linked, WireOK, HeadUnwritten
  <2>5. t.wire = IF h \in Silent THEN <<>> ELSE <<h>>
    BY <2>2, <2>3, <2>4, OneOnTheWire
  <2>6. Greets => t.first = t.n
    <3> SUFFICES ASSUME Greets PROVE t.first = t.n
      OBVIOUS
    <3>1. CASE s.first = s.n
      <4>1. s.n # Nobody
        BY <1>1, SocketAssumption
      <4> QED
        BY <2>3, <3>1, <4>1
    <3>2. CASE s.first = Nobody /\ h = s.n
      BY <2>3, <3>2
    <3> QED
      BY <3>1, <3>2 DEF Due, h
  <2>7. Sound(t)
    <3>1. QueueOK(t.works, t.work)
      <4>1. \A i \in 1..Len(s.works) :
              s.works[i] \in Work /\ (s.works[i] = h => i = 1)
        BY <1>1, <2>2, Elements DEF Good, Sound, QueueOK
      <4> QED
        BY <2>2, <2>3, <4>1, SMTT(60) DEF Good, Sound, QueueOK
    <3>2. s.work[h].st # "new"
      BY <2>2 DEF Good, Sound, QueueOK
    <3>3. Greeting \subseteq Work
      BY DEF Work
    <3>4. \A w \in Work : t.work[w].st = "new" => ~t.work[w].written
      BY <2>3, <3>2 DEF Good, Sound
    <3>5. \A k \in t.calls : t.work[k[2]].st # "new"
      <4>1. \A k \in s.calls : k[2] \in Work
        BY <1>1, SockType
      <4>2. <<s.n, h>>[2] = h
        OBVIOUS
      <4> QED
        BY <2>2, <2>3, <3>2, <4>1, <4>2 DEF Good, Sound
    <3> QED
      BY <2>3, <2>6, <3>1, <3>3, <3>4, <3>5 DEF Good, Sound
  <2>8. Linked(t)
    <3>1. Head(<<h>>) = h /\ <<h>> # <<>>
      OBVIOUS
    <3>2. WireOK(t)
      BY <1>3, <2>3, <2>4, <2>5 DEF WireOK, h
    <3> QED
      BY <1>1, <2>3, <3>2 DEF Good, Linked
  <2>9. AliveOK(t)
    BY <2>3 DEF Good, AliveOK
  <2>10. Spares(s, t)
    BY <2>1, <2>3, SMTT(60) DEF Spares, IsSettled
  <2>11. t.works # <<>> => ~IsSettled(t, Head(t.works))
    BY <2>1, <2>2, <2>3 DEF IsSettled, h
  <2> QED
    BY <2>3, <2>6, <2>7, <2>8, <2>9, <2>10, <2>11 DEF Good, Greeted, t
<1> QED
  BY <1>2, <1>3

\* The queue goes on: a connection is opened, or the next request written.
LEMMA DoNextGood ==
  ASSUME NEW s, Good(s), Due(s), MayGoOn(s), Used(s) < MaxConnections,
         s.state = "Disconnected" => s.alive
  PROVE  LET t == DoNextSendWork(s) IN
         /\ Good(t) /\ Greeted(t) /\ Used(t) = Used(s) /\ Spares(s, t)
         /\ MayGoOn(t) /\ t.alive = s.alive
<1> DEFINE t == DoNextSendWork(s)
<1>1. /\ s \in Sock /\ s.n \in Nat /\ s.n <= MaxConnections
      /\ s.state \in {"Disconnected", "Connecting", "Connected"}
      /\ MaxConnections \in Nat
  BY SockType, NumbersOfSock, Limits DEF Good, Sound
<1>2. CASE s.state = "Connecting"
  <2>1. t = s
    BY <1>2 DEF DoNextSendWork
  <2> QED
    BY <1>2, <2>1, SparesSame DEF Greeted, MayGoOn
<1>3. CASE s.state = "Disconnected"
  <2>1. t = Connect(s)
    BY <1>3 DEF DoNextSendWork
  <2>2. s.n < MaxConnections
    BY <1>1, <1>3 DEF Used, Live
  <2> QED
    BY <1>3, <2>1, <2>2, ConnectGood DEF Good, Greeted, MayGoOn
<1>4. CASE s.state = "Connected" /\ s.ended
  <2> DEFINE u == DoDisconnect(s)
  <2>1. t = Connect(u)
    BY <1>4 DEF DoNextSendWork
  <2>2. /\ Sound(u) /\ Linked(u) /\ u.state = "Disconnected"
        /\ u.n = s.n /\ u.alive = s.alive /\ Spares(s, u)
    BY DoDisconnectSound DEF Good
  <2> HIDE DEF u
  <2>3. u.alive
    BY <1>4, <2>2 DEF Good, AliveOK, Sound, Sock
  <2>4. u.n < MaxConnections /\ Used(u) = Used(s)
    BY <1>1, <1>4, <2>2 DEF Used, Live
  <2>5. /\ Good(t) /\ t.state # "Connected" /\ Used(t) = Used(u)
        /\ t.alive = u.alive /\ Spares(u, t)
    BY <2>1, <2>2, <2>3, <2>4, ConnectGood
  <2>6. Spares(s, t)
    BY <2>2, <2>5, SparesTransitive
  <2> QED
    BY <2>2, <2>4, <2>5, <2>6 DEF Greeted, MayGoOn
<1>5. CASE s.state = "Connected" /\ ~s.ended
  <2> DEFINE u == Unsettled(s)
  <2>1. t = WriteNext(u)
    BY <1>5 DEF DoNextSendWork
  <2>2. /\ Good(u) /\ u.state = "Connected" /\ u.n = s.n /\ u.ended = s.ended
        /\ u.first = s.first /\ u.work = s.work /\ u.alive = s.alive
        /\ u.works # <<>> => ~IsSettled(u, Head(u.works))
        /\ s.works # <<>> /\ ~IsSettled(s, Head(s.works)) => u.works = s.works
    BY <1>5, UnsettledGood
  <2> HIDE DEF u
  <2>3. Due(u)
    <3> SUFFICES ASSUME Greets, u.first # u.n
                 PROVE  /\ u.first = Nobody /\ u.works # <<>>
                        /\ Head(u.works) = u.n /\ HeadUnwritten(u)
                        /\ ~IsSettled(u, u.n)
      BY DEF Due
    <3>1. /\ s.first = Nobody /\ s.works # <<>> /\ Head(s.works) = s.n
          /\ HeadUnwritten(s) /\ ~IsSettled(s, s.n)
      BY <1>5, <2>2 DEF Due
    <3>2. u.works = s.works
      BY <2>2, <3>1
    <3> QED
      BY <2>2, <3>1, <3>2 DEF HeadUnwritten, IsSettled
  <2>4. /\ Good(t) /\ Greeted(t)
        /\ t.state = "Connected" /\ t.n = u.n /\ t.ended = u.ended
        /\ t.works = u.works /\ t.alive = u.alive /\ Spares(u, t)
        /\ t.works # <<>> => ~IsSettled(t, Head(t.works))
    BY <2>1, <2>2, <2>3, WriteNextGood
  <2>5. Spares(s, t)
    BY <2>2, <2>4, SparesSame, SparesTransitive
  <2> QED
    BY <1>5, <2>2, <2>4, <2>5 DEF Used, Live, MayGoOn
<1> QED
  BY <1>1, <1>2, <1>3, <1>4, <1>5

-----------------------------------------------------------------------------
(* Sending *)

LEMMA Placed ==
  ASSUME NEW q \in Seq(Work), NEW w \in Work
  PROVE  /\ LET r == Append(q, w) IN
              /\ r \in Seq(Work) /\ Len(r) = Len(q) + 1
              /\ \A i \in 1..Len(q) : r[i] = q[i]
              /\ r[Len(q) + 1] = w
         /\ LET r == <<w>> \o q IN
              /\ r \in Seq(Work) /\ Len(r) = Len(q) + 1
              /\ r[1] = w
              /\ \A i \in 1..Len(q) : r[i + 1] = q[i]
         /\ q # <<>> =>
              LET r == <<Head(q), w>> \o Tail(q) IN
                /\ r \in Seq(Work) /\ Len(r) = Len(q) + 1
                /\ r[1] = q[1] /\ r[2] = w
                /\ \A i \in 2..Len(q) : r[i + 1] = q[i]
OBVIOUS

\* A queue in which w was put somewhere: after the old head if that is written.
LEMMA PlacedOK ==
  ASSUME NEW q \in Seq(Work), NEW w \in Work, NEW r \in Seq(Work),
         NEW before, NEW after,
         QueueOK(q, before), before[w].st = "new", ~after[w].written,
         after[w].st = "pending",
         \A v \in Work : v # w => after[v] = before[v],
         NEW k \in 1..(Len(q) + 1), Len(r) = Len(q) + 1, r[k] = w,
         \A i \in 1..Len(q) : r[IF i < k THEN i ELSE i + 1] = q[i],
         k = 1 /\ q # <<>> => ~before[Head(q)].written
  PROVE  QueueOK(r, after)
<1> DEFINE old(i) == IF i < k THEN i ELSE i - 1
<1>1. Len(q) \in Nat /\ Len(r) \in Nat
  OBVIOUS
<1>2. ASSUME NEW i \in 1..Len(r), i # k
      PROVE  /\ old(i) \in 1..Len(q) /\ r[i] = q[old(i)]
             /\ old(i) = 1 => i = 1 \/ k = 1
  <2>1. old(i) \in 1..Len(q)
    BY <1>1, <1>2
  <2>2. (IF old(i) < k THEN old(i) ELSE old(i) + 1) = i
    BY <1>1, <1>2
  <2>3. old(i) = 1 => i = 1 \/ k = 1
    BY <1>1, <1>2
  <2> QED
    BY <2>1, <2>2, <2>3
<1>3. \A i \in 1..Len(q) : q[i] \in Work /\ q[i] # w
  BY Elements DEF QueueOK
<1>4. \A i, j \in 1..Len(r) : i # k /\ j # k /\ old(i) = old(j) => i = j
  BY <1>1
<1>5. k = 1 => \A i \in 1..Len(q) : ~before[q[i]].written
  <2> SUFFICES ASSUME k = 1, NEW i \in 1..Len(q), before[q[i]].written PROVE FALSE
    OBVIOUS
  <2>1. i = 1 /\ q # <<>> /\ Head(q) = q[1]
    BY Elements DEF QueueOK
  <2> QED
    BY <2>1
<1> HIDE DEF old
<1>6. ASSUME NEW i \in 1..Len(r), NEW j \in 1..Len(r), r[i] = r[j] PROVE i = j
  <2>1. CASE i = k \/ j = k
    BY <1>2, <1>3, <1>6, <2>1
  <2>2. CASE i # k /\ j # k
    <3>1. q[old(i)] = q[old(j)] /\ old(i) \in 1..Len(q) /\ old(j) \in 1..Len(q)
      BY <1>2, <1>6, <2>2
    <3>2. old(i) = old(j)
      BY <3>1 DEF QueueOK
    <3> QED
      BY <1>4, <2>2, <3>2
  <2> QED
    BY <2>1, <2>2
<1>7. ASSUME NEW i \in 1..Len(r)
      PROVE  after[r[i]].st # "new" /\ (after[r[i]].written => i = 1)
  <2>1. CASE i = k
    BY <2>1
  <2>2. CASE i # k
    <3>1. /\ old(i) \in 1..Len(q) /\ r[i] = q[old(i)]
          /\ old(i) = 1 => i = 1 \/ k = 1
      BY <1>2, <2>2
    <3>2. after[r[i]] = before[q[old(i)]]
      BY <1>3, <3>1
    <3>3. before[q[old(i)]].st # "new" /\ (before[q[old(i)]].written => old(i) = 1)
      BY <3>1 DEF QueueOK
    <3> QED
      BY <1>5, <3>1, <3>2, <3>3
  <2> QED
    BY <2>1, <2>2
<1> QED
  BY <1>6, <1>7 DEF QueueOK

\* The request that is inserted is new, and only the greeting of a connection
\* that has just come up may be its greeting.
MaySend(s, w) ==
  /\ w \in Work /\ s.work[w].st = "new"
  /\ \/ w \in Request /\ Greeted(s)
     \/ /\ w = s.n /\ Greets /\ s.state = "Connected" /\ s.first = Nobody
        /\ HeadUnwritten(s)

LEMMA InsertedOK ==
  ASSUME NEW s, Good(s), NEW w \in Work, s.work[w].st = "new",
         NEW after, after[w].st = "pending", ~after[w].written,
         \A v \in Work : v # w => after[v] = s.work[v]
  PROVE  LET r == Inserted(s, w) IN
         /\ r \in Seq(Work) /\ r # <<>> /\ QueueOK(r, after)
         /\ Len(r) = Len(s.works) + 1
         /\ \/ s.works # <<>> /\ Head(r) = Head(s.works) /\ Head(r) # w
            \/ Head(r) = w /\ HeadUnwritten(s)
         /\ w \in Greeting /\ HeadUnwritten(s) => Head(r) = w
<1> DEFINE q == s.works
           before == s.work
           r == Inserted(s, w)
<1>1. /\ q \in Seq(Work) /\ Len(q) \in Nat
      /\ QueueOK(q, before)
  BY SockType DEF Good, Sound
<1>6. before[w].st = "new" /\ \A v \in Work : v # w => after[v] = before[v]
  OBVIOUS
<1>2. q # <<>> => Head(q) = q[1] /\ 1 \in 1..Len(q) /\ Head(q) # w
  BY <1>1, Elements DEF QueueOK
<1>3. CASE w \notin Urgent \cup Greeting
  <2>1. r = Append(q, w)
    BY <1>3 DEF Inserted
  <2>2. /\ r \in Seq(Work) /\ Len(r) = Len(q) + 1
        /\ \A i \in 1..Len(q) : r[i] = q[i]
        /\ r[Len(q) + 1] = w
    BY <1>1, <2>1, Placed
  <2> HIDE DEF r
  <2> DEFINE k == Len(q) + 1
  <2>3. /\ k \in 1..(Len(q) + 1) /\ r[k] = w
        /\ \A i \in 1..Len(q) : r[IF i < k THEN i ELSE i + 1] = q[i]
        /\ k = 1 /\ q # <<>> => ~before[Head(q)].written
    BY <1>1, <2>2
  <2> HIDE DEF q, k, before
  <2>4. QueueOK(r, after)
    BY <1>1, <1>6, <2>2, <2>3, PlacedOK
  <2>5. r # <<>> /\ Head(r) = r[1]
    BY <1>1, <2>2
  <2>6. CASE q # <<>>
    BY <1>2, <1>3, <2>2, <2>4, <2>5, <2>6 DEF r, q
  <2>7. CASE q = <<>>
    <3>1. Len(q) = 0
      BY <2>7
    <3>2. Head(r) = w
      BY <2>2, <2>5, <3>1
    <3> QED
      BY <1>3, <2>2, <2>4, <2>5, <2>7, <3>2 DEF r, q, HeadUnwritten
  <2> QED
    BY <2>6, <2>7
<1>4. CASE /\ w \in Urgent \cup Greeting
           /\ q # <<>> /\ s.work[Head(q)].written
  <2>1. r = <<Head(q), w>> \o Tail(q)
    BY <1>4 DEF Inserted
  <2>2. /\ r \in Seq(Work) /\ Len(r) = Len(q) + 1
        /\ r[1] = q[1] /\ r[2] = w
        /\ \A i \in 2..Len(q) : r[i + 1] = q[i]
    BY <1>1, <1>4, <2>1, Placed
  <2> HIDE DEF r
  <2> DEFINE k == 2
  <2>3. /\ k \in 1..(Len(q) + 1) /\ r[k] = w /\ k # 1
        /\ \A i \in 1..Len(q) : r[IF i < k THEN i ELSE i + 1] = q[i]
    BY <1>1, <1>2, <1>4, <2>2
  <2> HIDE DEF q, k, before
  <2>4. QueueOK(r, after)
    BY <1>1, <1>6, <2>2, <2>3, PlacedOK, SMTT(60)
  <2>5. r # <<>> /\ Head(r) = r[1]
    BY <1>1, <2>2
  <2>6. ~HeadUnwritten(s)
    BY <1>4 DEF HeadUnwritten, q
  <2> QED
    BY <1>2, <1>4, <2>2, <2>4, <2>5, <2>6 DEF r, q
<1>5. CASE /\ w \in Urgent \cup Greeting
           /\ ~(q # <<>> /\ s.work[Head(q)].written)
  <2>1. r = <<w>> \o q
    BY <1>5 DEF Inserted
  <2>2. /\ r \in Seq(Work) /\ Len(r) = Len(q) + 1
        /\ r[1] = w /\ \A i \in 1..Len(q) : r[i + 1] = q[i]
    BY <1>1, <2>1, Placed
  <2> HIDE DEF r
  <2> DEFINE k == 1
  <2>3. /\ k \in 1..(Len(q) + 1) /\ r[k] = w
        /\ \A i \in 1..Len(q) : r[IF i < k THEN i ELSE i + 1] = q[i]
        /\ k = 1 /\ q # <<>> => ~before[Head(q)].written
    BY <1>1, <1>5, <2>2
  <2>4. HeadUnwritten(s)
    BY <1>5 DEF HeadUnwritten
  <2> HIDE DEF q, k, before
  <2>5. QueueOK(r, after)
    BY <1>1, <1>6, <2>2, <2>3, PlacedOK, ZenonT(60)
  <2>6. r # <<>> /\ Head(r) = r[1]
    BY <1>1, <2>2
  <2> QED
    BY <2>2, <2>4, <2>5, <2>6 DEF r, q
<1> QED
  BY <1>3, <1>4, <1>5

LEMMA SendWorkGood ==
  ASSUME NEW s, NEW w, Good(s), MaySend(s, w), Used(s) < MaxConnections
  PROVE  LET t == SendWork(s, w) IN
         /\ Good(t) /\ Due(t) /\ Used(t) = Used(s) /\ Spares(s, t) /\ t.alive
         /\ w \in Request => Greeted(t)
         /\ w \notin Request => MayGoOn(t)
<1> DEFINE work == [s.work EXCEPT ![w] = [s.work[w] EXCEPT !.st = "pending"]]
           queue == Inserted(s, w)
           t == [s EXCEPT !.alive = TRUE, !.works = queue, !.work = work]
           u == SendWork(s, w)
<1>1. u = IF Len(t.works) = 1 THEN DoNextSendWork(t) ELSE t
  BY DEF SendWork
<1>2. /\ s \in Sock /\ s.work \in [Work -> WorkState] /\ s.works \in Seq(Work)
      /\ w \in Work /\ s.n \in Nat /\ Len(s.works) \in Nat
      /\ s.work[w].st = "new" /\ ~s.work[w].written
  BY SockType, NumbersOfSock DEF Good, Sound, MaySend
<1>3. /\ work \in [Work -> WorkState]
      /\ work[w].st = "pending" /\ ~work[w].written
      /\ \A v \in Work : v # w => work[v] = s.work[v]
  BY <1>2 DEF WorkState
<1> HIDE DEF work
<1>4. /\ queue \in Seq(Work) /\ queue # <<>> /\ QueueOK(queue, work)
      /\ Len(queue) = Len(s.works) + 1
      /\ \/ s.works # <<>> /\ Head(queue) = Head(s.works) /\ Head(queue) # w
         \/ Head(queue) = w /\ HeadUnwritten(s)
      /\ w \in Greeting /\ HeadUnwritten(s) => Head(queue) = w
  BY <1>2, <1>3, InsertedOK
<1> HIDE DEF queue
<1>5. /\ t \in Sock
      /\ t.works = queue /\ t.work = work /\ t.alive = TRUE /\ t.state = s.state
      /\ t.n = s.n /\ t.half = s.half /\ t.ended = s.ended
      /\ t.wire = s.wire /\ t.open = s.open /\ t.first = s.first
      /\ t.calls = s.calls
  BY <1>2, <1>3, <1>4 DEF Sock
<1> HIDE DEF t, u
<1>6. \/ w \in Request /\ w \notin Nat /\ Greeted(s)
      \/ /\ w = s.n /\ w \in Greeting /\ Greets /\ s.state = "Connected"
         /\ s.first = Nobody /\ HeadUnwritten(s) /\ w \notin Request
  <2>1. \A k \in Greeting : k \in Nat
    BY Limits DEF Greeting
  <2>2. w \in Greeting \/ w \in Request
    BY DEF MaySend, Work
  <2>3. s.n \notin Request
    BY <1>2, SocketAssumption
  <2> QED
    BY <1>2, <2>1, <2>2, <2>3, SocketAssumption DEF MaySend
<1>7. Sound(t)
  <2>1. \A k \in Greeting : k > t.n => t.work[k].st = "new"
    <3> SUFFICES ASSUME NEW k \in Greeting, k > s.n PROVE work[k].st = "new"
      BY <1>5
    <3>1. k \in Work /\ k \in Nat /\ s.work[k].st = "new"
      BY Limits DEF Greeting, Work, Good, Sound
    <3>2. k # w
      BY <1>2, <1>6, <3>1
    <3> QED
      BY <1>3, <3>1, <3>2
  <2>2. /\ \A v \in Work : work[v].st = "new" => ~work[v].written
        /\ \A v \in Work :
             work[v].st = "resolved" /\ v \notin Silent => work[v].answer = v
    BY <1>3 DEF Good, Sound
  <2>3. \A k \in t.calls : t.work[k[2]].st # "new"
    <3>1. \A k \in s.calls : k[2] \in Work
      BY <1>2, SockType
    <3> QED
      BY <1>3, <1>5, <3>1 DEF Good, Sound
  <2> QED
    BY <1>4, <1>5, <2>1, <2>2, <2>3 DEF Good, Sound
<1>8. HeadUnwritten(s) => HeadUnwritten(t)
  <2>1. s.works # <<>> => Head(s.works) \in Work
    BY <1>2, Elements
  <2> QED
    BY <1>3, <1>4, <1>5, <2>1 DEF HeadUnwritten
<1>9. Linked(t)
  <2>1. WireOK(t)
    <3>1. CASE s.wire = <<>>
      BY <1>5, <3>1 DEF WireOK, Good, Linked
    <3>2. CASE s.wire # <<>>
      <4>1. s.works # <<>> /\ ~HeadUnwritten(s)
        BY <3>2 DEF WireOK, Good, Linked, HeadUnwritten
      <4>2. Head(queue) = Head(s.works) /\ Head(queue) # w /\ Head(s.works) \in Work
        BY <1>2, <1>4, <4>1, Elements
      <4> QED
        BY <1>3, <1>4, <1>5, <3>2, <4>2 DEF WireOK, Good, Linked
    <3> QED
      BY <3>1, <3>2
  <2>2. s.state = "Connecting" /\ Greets => t.work[s.n].st = "new"
    <3> SUFFICES ASSUME s.state = "Connecting", Greets PROVE work[s.n].st = "new"
      BY <1>5
    <3>1. s.work[s.n].st = "new" /\ s.n \in Work
      BY Limits, NumbersOfSock, <1>2 DEF Good, Linked
    <3>2. w # s.n
      BY <1>2, <1>6
    <3> QED
      BY <1>3, <3>1, <3>2
  <2> QED
    BY <1>5, <1>8, <2>1, <2>2 DEF Good, Linked
<1>10. AliveOK(t) /\ t.alive
  BY <1>5 DEF AliveOK
<1>11. Used(t) = Used(s)
  BY <1>5 DEF Used, Live
<1>12. Spares(s, t)
  BY <1>2, <1>3, <1>5 DEF Spares, IsSettled, Settled
<1>13. ~IsSettled(t, w)
  BY <1>3, <1>5 DEF IsSettled, Settled
<1>14. Due(t) /\ (w \in Request => Greeted(t))
  <2>1. CASE w \in Request /\ Greeted(s)
    BY <1>5, <2>1 DEF Due, Greeted
  <2>2. CASE w \notin Request
    <3>1. Head(t.works) = t.n /\ t.works # <<>> /\ t.first = Nobody /\ t.n = w
      BY <1>4, <1>5, <1>6, <2>2
    <3> QED
      BY <1>6, <1>8, <1>13, <2>2, <3>1 DEF Due
  <2> QED
    BY <1>6, <2>1, <2>2
<1>15. w \notin Request => MayGoOn(t)
  BY <1>6, <1>8 DEF MayGoOn
<1>16. CASE Len(t.works) # 1
  BY <1>1, <1>7, <1>9, <1>10, <1>11, <1>12, <1>14, <1>15, <1>16 DEF Good, u
<1>17. CASE Len(t.works) = 1
  <2>1. s.works = <<>>
    <3>1. Len(queue) = 1
      BY <1>5, <1>17
    <3> DEFINE l == Len(s.works)
    <3>3. l \in Nat /\ Len(queue) = l + 1
      BY <1>2, <1>4
    <3> HIDE DEF l
    <3>4. l = 0
      BY <3>1, <3>3
    <3>2. Len(s.works) = 0
      BY <3>4 DEF l
    <3> QED
      BY <1>2, <3>2
  <2>2. Head(t.works) = w
    BY <1>4, <1>5, <2>1
  <2>3. MayGoOn(t)
    BY <1>13, <2>2 DEF MayGoOn
  <2>4. /\ Good(u) /\ Greeted(u) /\ Used(u) = Used(t) /\ Spares(t, u)
        /\ MayGoOn(u) /\ u.alive = t.alive
    BY <1>1, <1>7, <1>9, <1>10, <1>11, <1>14, <1>17, <2>3, DoNextGood DEF Good
  <2>5. Spares(s, u)
    BY <1>12, <2>4, SparesTransitive
  <2> QED
    BY <1>10, <1>11, <2>4, <2>5 DEF Due, Greeted, u
<1> QED
  BY <1>16, <1>17

-----------------------------------------------------------------------------
(* Settling, and dropping the head *)

LEMMA SettleFields ==
  ASSUME NEW s \in Sock, NEW w \in Work, NEW how \in Settled,
         NEW answer \in Work \cup {Nobody}
  PROVE  LET t == Settle(s, w, how, answer) IN
         /\ t \in Sock
         /\ t.works = s.works /\ t.alive = s.alive /\ t.valid = s.valid
         /\ t.state = s.state /\ t.n = s.n /\ t.half = s.half
         /\ t.timers = s.timers /\ t.calls = s.calls /\ t.ended = s.ended
         /\ t.wire = s.wire /\ t.open = s.open /\ t.first = s.first
         /\ IsSettled(s, w) => t.work[w] = s.work[w]
         /\ ~IsSettled(s, w) =>
              t.work[w].st = how /\ t.work[w].answer = answer
         /\ t.work[w].written = s.work[w].written
         /\ IsSettled(t, w)
         /\ \A v \in Work : v # w => t.work[v] = s.work[v]
<1> DEFINE work == [s.work EXCEPT ![w] =
                      [s.work[w] EXCEPT !.st = how, !.answer = answer]]
           t == [s EXCEPT !.work = work]
<1>1. s.work \in [Work -> WorkState] /\ s.work[w] \in WorkState
  BY SockType
<1>2. CASE IsSettled(s, w)
  <2>1. Settle(s, w, how, answer) = s
    BY <1>2 DEF Settle
  <2> QED
    BY <1>2, <2>1
<1>3. CASE ~IsSettled(s, w)
  <2>1. Settle(s, w, how, answer) = t
    <3>1. Settle(s, w, how, answer) =
            [s EXCEPT !.work[w].st = how, !.work[w].answer = answer]
      BY <1>3 DEF Settle
    <3> QED
      BY <1>1, <3>1, ZenonT(60) DEF WorkState, Sock
  <2>2. /\ work \in [Work -> WorkState]
        /\ work[w].st = how /\ work[w].answer = answer
        /\ work[w].written = s.work[w].written
        /\ \A v \in Work : v # w => work[v] = s.work[v]
    BY <1>1 DEF WorkState
  <2> HIDE DEF work
  <2>3. /\ t \in Sock
        /\ t.works = s.works /\ t.alive = s.alive /\ t.valid = s.valid
        /\ t.state = s.state /\ t.n = s.n /\ t.half = s.half
        /\ t.timers = s.timers /\ t.calls = s.calls /\ t.ended = s.ended
        /\ t.wire = s.wire /\ t.open = s.open /\ t.first = s.first
        /\ t.work = work
    BY <2>2 DEF Sock
  <2> HIDE DEF t
  <2> QED
    BY <1>3, <2>1, <2>2, <2>3 DEF IsSettled
<1> QED
  BY <1>2, <1>3

\* What is settled is not a new request, and is settled with its own answer.
MaySettle(s, w, how, answer) ==
  /\ w \in Work /\ s.work[w].st # "new"
  /\ how \in Settled /\ answer \in Work \cup {Nobody}
  /\ how = "resolved" => w \in Silent \/ answer = w

LEMMA SettleSound ==
  ASSUME NEW s, NEW w, NEW how, NEW answer,
         Sound(s), MaySettle(s, w, how, answer)
  PROVE  LET t == Settle(s, w, how, answer) IN
         /\ Sound(t) /\ Spares(s, t) /\ IsSettled(t, w)
         /\ t.works = s.works /\ t.alive = s.alive /\ t.state = s.state
         /\ t.n = s.n /\ t.ended = s.ended /\ t.first = s.first
         /\ t.calls = s.calls /\ t.wire = s.wire /\ t.half = s.half
         /\ HeadUnwritten(s) => HeadUnwritten(t)
         /\ WireOK(s) => WireOK(t)
         /\ Linked(s) => Linked(t)
         /\ \A v \in Work : t.work[v].written = s.work[v].written
<1> DEFINE t == Settle(s, w, how, answer)
<1>1. /\ s \in Sock /\ w \in Work /\ how \in Settled
      /\ answer \in Work \cup {Nobody} /\ s.works \in Seq(Work) /\ s.n \in Nat
  BY SockType, NumbersOfSock DEF Sound, MaySettle
<1>2. /\ t \in Sock
      /\ t.works = s.works /\ t.alive = s.alive
      /\ t.state = s.state /\ t.n = s.n /\ t.half = s.half
      /\ t.calls = s.calls /\ t.ended = s.ended
      /\ t.wire = s.wire /\ t.open = s.open /\ t.first = s.first
      /\ IsSettled(s, w) => t.work[w] = s.work[w]
      /\ ~IsSettled(s, w) => t.work[w].st = how /\ t.work[w].answer = answer
      /\ t.work[w].written = s.work[w].written
      /\ IsSettled(t, w)
      /\ \A v \in Work : v # w => t.work[v] = s.work[v]
  BY <1>1, SettleFields
<1> HIDE DEF t
<1>3. /\ \A v \in Work : t.work[v].written = s.work[v].written
      /\ t.work[w].st # "new" /\ s.work[w].st # "new"
      /\ \A v \in Work : t.work[v].st = "new" <=> s.work[v].st = "new"
  BY <1>2 DEF MaySettle, IsSettled, Settled
<1>4. QueueOK(t.works, t.work)
  <2>1. \A i \in 1..Len(s.works) : s.works[i] \in Work
    BY <1>1, Elements
  <2> QED
    BY <1>2, <1>3, <2>1 DEF Sound, QueueOK
<1>5. Sound(t)
  <2>1. \A v \in Work :
       t.work[v].st = "resolved" /\ v \notin Silent => t.work[v].answer = v
    BY <1>2 DEF Sound, MaySettle, IsSettled
  <2>2. Greeting \subseteq Work
    BY DEF Work
  <2>3. \A k \in s.calls : k[2] \in Work
    BY <1>1, SockType
  <2> QED
    BY <1>2, <1>3, <1>4, <2>1, <2>2, <2>3 DEF Sound
<1>6. s.works # <<>> => Head(s.works) \in Work
  BY <1>1, Elements
<1>7. HeadUnwritten(s) => HeadUnwritten(t)
  BY <1>2, <1>3, <1>6 DEF HeadUnwritten
<1>8. WireOK(s) => WireOK(t)
  BY <1>2, <1>3, <1>6 DEF WireOK
<1>9. Linked(s) => Linked(t)
  <2>1. Greets /\ s.state = "Connecting" /\ Linked(s) => s.n \in Work
    BY <1>1, NumbersOfSock, Limits DEF Linked
  <2> QED
    BY <1>2, <1>3, <1>7, <1>8, <2>1 DEF Linked
<1>10. Spares(s, t)
  BY <1>2, <1>3 DEF Spares, IsSettled
<1> QED
  BY <1>2, <1>3, <1>5, <1>7, <1>8, <1>9, <1>10 DEF t

\* The queue without its head is sound, and its new head is not written.
LEMMA TailSound ==
  ASSUME NEW s, NEW t, Sound(s), s.works # <<>>, t \in Sock,
         t.works = Tail(s.works), t.work = s.work, t.n = s.n,
         t.calls \subseteq s.calls, t.open = s.open, t.first = s.first
  PROVE  Sound(t) /\ HeadUnwritten(t)
<1> DEFINE q == s.works
           r == t.works
<1>1. q \in Seq(Work) /\ q # <<>> /\ r = Tail(q) /\ t.work = s.work
  BY SockType DEF Sound
<1>2. QueueOK(q, s.work)
  BY DEF Sound
<1>3. /\ r \in Seq(Work) /\ Len(r) \in Nat /\ Len(q) = Len(r) + 1
      /\ \A i \in 1..Len(r) : r[i] = q[i + 1]
  <2> HIDE DEF q, r
  <2> QED
    BY <1>1
<1>4. \A i \in 1..Len(r) : i + 1 \in 1..Len(q) /\ i + 1 # 1
  <2> HIDE DEF q, r
  <2> QED
    BY <1>3
<1>5. \A i \in 1..Len(r) : s.work[r[i]].st # "new" /\ ~s.work[r[i]].written
  <2> HIDE DEF q, r
  <2> QED
    BY <1>2, <1>3, <1>4 DEF QueueOK
<1>6. \A i, j \in 1..Len(r) : r[i] = r[j] => i = j
  <2> HIDE DEF q, r
  <2>1. \A i, j \in 1..Len(r) : i + 1 = j + 1 => i = j
    BY <1>3
  <2> QED
    BY <1>2, <1>3, <1>4, <2>1, SMTT(60) DEF QueueOK
<1>7. QueueOK(t.works, t.work)
  BY <1>1, <1>5, <1>6 DEF QueueOK
<1>8. HeadUnwritten(t)
  BY <1>1, <1>3, <1>5, Elements DEF HeadUnwritten
<1>9. Sound(t)
  BY <1>7 DEF Sound
<1> QED
  BY <1>8, <1>9

LEMMA WithoutHeadFields ==
  ASSUME NEW s, NEW w, Sound(s)
  PROVE  LET t == WithoutHead(s, w) IN
         /\ Sound(t) /\ (IsHead(s, w) => HeadUnwritten(t))
         /\ t.work = s.work /\ t.alive = s.alive /\ t.state = s.state
         /\ t.n = s.n /\ t.half = s.half /\ t.ended = s.ended
         /\ t.wire = s.wire /\ t.open = s.open /\ t.first = s.first
         /\ ~IsHead(s, w) => t = s
         /\ s.works = <<>> => t.works = <<>>
<1> DEFINE t == WithoutHead(s, w)
<1>1. CASE ~IsHead(s, w)
  BY <1>1 DEF WithoutHead
<1>2. CASE IsHead(s, w)
  <2> DEFINE rest == Tail(s.works)
  <2>1. t = [s EXCEPT !.works = rest]
    BY <1>2 DEF WithoutHead
  <2>2. s \in Sock /\ s.works \in Seq(Work) /\ s.works # <<>>
    BY <1>2, SockType DEF Sound, IsHead
  <2>3. rest \in Seq(Work)
    BY <2>2, Elements
  <2> HIDE DEF rest, t
  <2>4. /\ t \in Sock /\ t.works = rest
        /\ t.work = s.work /\ t.alive = s.alive /\ t.state = s.state
        /\ t.n = s.n /\ t.half = s.half /\ t.ended = s.ended
        /\ t.wire = s.wire /\ t.open = s.open /\ t.first = s.first
        /\ t.calls = s.calls
    BY <2>1, <2>2, <2>3 DEF Sock
  <2>5. Sound(t) /\ HeadUnwritten(t)
    BY <2>2, <2>4, TailSound DEF rest
  <2> QED
    BY <1>2, <2>2, <2>4, <2>5 DEF t
<1> QED
  BY <1>1, <1>2

-----------------------------------------------------------------------------
(* The handlers: what the socket's state s is after one of them *)

\* The step from s to t may cost a number of connections, and writes nothing
\* that is settled.
StepOK(s, t, cost) ==
  Good(t) /\ Greeted(t) /\ Used(t) <= Used(s) + cost /\ Spares(s, t)

LEMMA UsedOfSock ==
  ASSUME NEW s, Good(s)
  PROVE  /\ s \in Sock /\ s.n \in Nat /\ s.n <= MaxConnections
         /\ Used(s) \in Nat /\ Used(s) <= s.n /\ s.n <= Used(s) + 1
         /\ (s.state = "Disconnected" \/ s.ended) => Used(s) = s.n
         /\ MaxConnections \in Nat
BY NumbersOfSock, Limits DEF Good, Sound, Linked, Used, Live

LEMMA DisconnectOK ==
  ASSUME NEW s, Good(s)
  PROVE  StepOK(s, FailAllPendingWork(DoDisconnect([s EXCEPT !.alive = FALSE])), 1)
<1> DEFINE u == [s EXCEPT !.alive = FALSE]
           v == DoDisconnect(u)
           t == FailAllPendingWork(v)
<1>1. /\ s \in Sock /\ Used(s) \in Nat /\ s.n <= Used(s) + 1
  BY UsedOfSock
<1>2. /\ u \in Sock
      /\ u.works = s.works /\ u.work = s.work /\ u.n = s.n /\ u.alive = FALSE
      /\ u.calls = s.calls /\ u.open = s.open /\ u.first = s.first
  BY <1>1 DEF Sock
<1> HIDE DEF u
<1>3. Sound(u) /\ Spares(s, u)
  BY <1>2, SparesSame DEF Good, Sound
<1>4. /\ Sound(v) /\ Linked(v) /\ v.state = "Disconnected"
      /\ v.n = u.n /\ v.alive = u.alive /\ Spares(u, v)
  BY <1>3, DoDisconnectSound
<1> HIDE DEF v
<1>5. /\ Sound(t) /\ t.works = <<>> /\ t.state = v.state /\ t.n = v.n
      /\ t.alive = v.alive /\ Linked(t) /\ Spares(v, t)
  BY <1>4, FailAllSound
<1> HIDE DEF t
<1>6. Spares(s, t)
  BY <1>3, <1>4, <1>5, SparesTransitive
<1>7. Good(t) /\ Greeted(t)
  BY <1>4, <1>5 DEF Good, AliveOK, Greeted
<1>8. Used(t) <= Used(s) + 1
  <2>1. t.n = s.n /\ t.state = "Disconnected"
    BY <1>2, <1>4, <1>5
  <2>2. Used(t) = t.n
    BY <1>7, <2>1, UsedOfSock
  <2> QED
    BY <1>1, <2>1, <2>2
<1> QED
  BY <1>6, <1>7, <1>8 DEF StepOK, t, v, u

\* Giving up the connection costs it, unless the peer has closed it before.
LEMMA RetryOK ==
  ASSUME NEW s, NEW u, Good(s), Sound(u), u.n = s.n, u.alive = s.alive,
         ~s.alive => u.works = <<>>, Spares(s, u)
  PROVE  LET t == RetryToConnect(u) IN
         StepOK(s, t, 1) /\ (s.ended => StepOK(s, t, 0))
<1> DEFINE t == RetryToConnect(u)
<1>1. /\ Sound(t) /\ Linked(t) /\ t.state = "Disconnected"
      /\ t.n = u.n /\ t.works = u.works /\ t.alive = u.alive /\ Spares(u, t)
  BY RetrySound
<1> HIDE DEF t
<1>2. Good(t) /\ Greeted(t)
  BY <1>1 DEF Good, AliveOK, Greeted
<1>3. Used(t) = s.n /\ Spares(s, t)
  BY <1>1, <1>2, UsedOfSock, SparesTransitive
<1>4. Used(s) \in Nat /\ s.n <= Used(s) + 1 /\ (s.ended => s.n <= Used(s) + 0)
  BY UsedOfSock
<1> QED
  BY <1>2, <1>3, <1>4 DEF StepOK, t

LEMMA ResetOK ==
  ASSUME NEW s, Good(s)
  PROVE  StepOK(s, RetryToConnect(FailAllPendingWork(s)), 1)
<1> DEFINE u == FailAllPendingWork(s)
<1>1. Sound(u) /\ u.works = <<>> /\ u.n = s.n /\ u.alive = s.alive /\ Spares(s, u)
  BY FailAllSound DEF Good
<1> HIDE DEF u
<1>2. StepOK(s, RetryToConnect(u), 1)
  BY <1>1, RetryOK
<1> QED
  BY <1>2 DEF u

LEMMA CloseOK ==
  ASSUME NEW s, Good(s)
  PROVE  LET t == RetryToConnect(s) IN
         StepOK(s, t, 1) /\ (s.ended => StepOK(s, t, 0))
<1>1. Sound(s) /\ Spares(s, s) /\ (~s.alive => s.works = <<>>)
  BY SparesSame DEF Good, AliveOK
<1> QED
  BY <1>1, RetryOK

LEMMA TimeoutOK ==
  ASSUME NEW s, Good(s), Greeted(s), NEW w \in Work, s.work[w].st = "pending"
  PROVE  StepOK(s, Settle(s, w, "rejected", Nobody), 0)
<1> DEFINE t == Settle(s, w, "rejected", Nobody)
<1>1. MaySettle(s, w, "rejected", Nobody)
  BY DEF MaySettle, Settled
<1>2. /\ Sound(t) /\ Spares(s, t) /\ Linked(t)
      /\ t.works = s.works /\ t.alive = s.alive /\ t.state = s.state
      /\ t.n = s.n /\ t.ended = s.ended /\ t.first = s.first
  BY <1>1, SettleSound DEF Good
<1> HIDE DEF t
<1>3. Used(t) = Used(s) /\ Used(s) \in Nat
  BY <1>2, UsedOfSock DEF Used, Live
<1> QED
  BY <1>2, <1>3 DEF StepOK, Good, AliveOK, Greeted, t

\* What is left of a step that changes neither the requests nor the queue.
LEMMA SameQueue ==
  ASSUME NEW s, NEW t, Sound(s), t \in Sock, t.works = s.works,
         t.n = s.n, t.calls \subseteq s.calls, t.open = s.open,
         t.first = s.first,
         \A w \in Work : /\ t.work[w].st = s.work[w].st
                         /\ t.work[w].written = s.work[w].written
                         /\ t.work[w].answer = s.work[w].answer
  PROVE  Sound(t) /\ Spares(s, t) /\ (HeadUnwritten(s) => HeadUnwritten(t))
<1>1. s \in Sock /\ s.works \in Seq(Work) /\ Greeting \subseteq Work
  BY SockType DEF Sound, Work
<1>2. \A i \in 1..Len(s.works) : s.works[i] \in Work
  BY <1>1, Elements
<1>3. \A k \in s.calls : k[2] \in Work
  BY <1>1, SockType
<1>4. QueueOK(t.works, t.work)
  BY <1>2 DEF Sound, QueueOK
<1>5. Sound(t)
  BY <1>1, <1>3, <1>4 DEF Sound
<1>6. Spares(s, t)
  BY DEF Spares, IsSettled
<1>7. HeadUnwritten(s) => HeadUnwritten(t)
  BY <1>1, Elements DEF HeadUnwritten
<1> QED
  BY <1>5, <1>6, <1>7

LEMMA TimerOK ==
  ASSUME NEW s, Good(s), Greeted(s), s.timers > 0, Used(s) < MaxConnections
  PROVE  LET u == [s EXCEPT !.timers = s.timers - 1]
             t == IF u.alive /\ u.state = "Disconnected" THEN Connect(u) ELSE u
         IN  StepOK(s, t, 0)
<1> DEFINE u == [s EXCEPT !.timers = s.timers - 1]
           t == IF u.alive /\ u.state = "Disconnected" THEN Connect(u) ELSE u
<1>1. s \in Sock /\ s.timers \in Nat /\ Used(s) \in Nat
  BY SockType, UsedOfSock
<1>2. /\ u \in Sock
      /\ u.works = s.works /\ u.work = s.work /\ u.n = s.n /\ u.alive = s.alive
      /\ u.calls = s.calls /\ u.open = s.open /\ u.first = s.first
      /\ u.state = s.state /\ u.half = s.half /\ u.ended = s.ended
      /\ u.wire = s.wire
  BY <1>1, SMTT(60) DEF Sock
<1> HIDE DEF u
<1>3. Sound(u) /\ Spares(s, u)
  BY <1>2, SameQueue DEF Good
<1>4. Linked(u) /\ AliveOK(u) /\ Used(u) = Used(s) /\ Greeted(u)
  BY <1>2 DEF Good, Linked, WireOK, HeadUnwritten, AliveOK, Used, Live, Greeted
<1>5. CASE u.alive /\ u.state = "Disconnected"
  <2>1. u.n < MaxConnections
    BY <1>3, <1>4, <1>5, UsedOfSock DEF Good
  <2>2. /\ Good(t) /\ t.state # "Connected" /\ Used(t) = Used(u) /\ Spares(u, t)
    BY <1>3, <1>4, <1>5, <2>1, ConnectGood
  <2> HIDE DEF t
  <2> QED
    BY <1>1, <1>3, <1>4, <2>2, SparesTransitive DEF StepOK, Greeted, t, u
<1>6. CASE ~(u.alive /\ u.state = "Disconnected")
  <2>1. t = u
    BY <1>6
  <2> HIDE DEF t
  <2> QED
    BY <1>1, <1>3, <1>4, <2>1 DEF StepOK, Good, t, u
<1> QED
  BY <1>5, <1>6

\* The connection is up: the greeting goes first.
LEMMA OnConnectOK ==
  ASSUME NEW s, Good(s), s.state = "Connecting", Used(s) < MaxConnections
  PROVE  LET u == [s EXCEPT !.state = "Connected"]
             v == IF Greets THEN SendWork(u, u.n) ELSE u
         IN  StepOK(s, DoNextSendWork(v), 0)
<1> DEFINE u == [s EXCEPT !.state = "Connected"]
           v == IF Greets THEN SendWork(u, u.n) ELSE u
           t == DoNextSendWork(v)
<1>1. /\ s \in Sock /\ s.n \in Nat /\ s.n > 0 /\ s.alive /\ Used(s) \in Nat
      /\ s.first = Nobody /\ HeadUnwritten(s) /\ s.wire = <<>> /\ ~s.ended
  BY UsedOfSock, SockType DEF Good, Linked, AliveOK
<1>2. /\ u \in Sock
      /\ u.works = s.works /\ u.work = s.work /\ u.n = s.n /\ u.alive = s.alive
      /\ u.calls = s.calls /\ u.open = s.open /\ u.first = s.first
      /\ u.state = "Connected" /\ u.half = s.half /\ u.ended = s.ended
      /\ u.wire = s.wire
  BY <1>1 DEF Sock
<1> HIDE DEF u
<1>3. Sound(u) /\ Spares(s, u) /\ HeadUnwritten(u)
  BY <1>1, <1>2, SameQueue DEF Good
<1>4. Good(u) /\ Used(u) = Used(s)
  BY <1>1, <1>2, <1>3 DEF Good, Linked, WireOK, AliveOK, Used, Live
<1>5. /\ Good(v) /\ Due(v) /\ MayGoOn(v) /\ Used(v) = Used(u) /\ Spares(u, v)
      /\ v.alive
  <2>1. CASE Greets
    <3>1. u.n \in Work /\ u.n \in Greeting
      BY <1>1, <1>2, <2>1, NumbersOfSock, Limits
    <3>2. u.n \notin Request
      BY <1>1, <1>2, SocketAssumption
    <3>3. u.work[u.n].st = "new"
      BY <1>2, <2>1 DEF Good, Linked
    <3>4. MaySend(u, u.n)
      BY <1>1, <1>2, <1>3, <2>1, <3>1, <3>3 DEF MaySend
    <3> DEFINE k == u.n
    <3>5. k \notin Request /\ MaySend(u, k) /\ v = SendWork(u, k)
      BY <2>1, <3>2, <3>4
    <3> HIDE DEF k, v
    <3> QED
      BY <1>4, <3>5, SendWorkGood
  <2>2. CASE ~Greets
    <3>1. v = u
      BY <2>2
    <3> HIDE DEF v
    <3> QED
      BY <1>1, <1>2, <1>3, <1>4, <2>2, <3>1, SparesSame DEF Due, MayGoOn
  <2> QED
    BY <2>1, <2>2
<1> HIDE DEF v
<1>6. /\ Good(t) /\ Greeted(t) /\ Used(t) = Used(v) /\ Spares(v, t)
  BY <1>4, <1>5, DoNextGood
<1> HIDE DEF t
<1>7. Spares(s, t)
  BY <1>3, <1>5, <1>6, SparesTransitive
<1> QED
  BY <1>1, <1>4, <1>5, <1>6, <1>7 DEF StepOK, t, v, u

LEMMA PeerEndsOK ==
  ASSUME NEW s, Good(s), Greeted(s), s.state = "Connected", ~s.ended
  PROVE  StepOK(s, [s EXCEPT !.ended = TRUE], 1)
<1> DEFINE t == [s EXCEPT !.ended = TRUE]
<1>1. s \in Sock /\ Used(s) \in Nat /\ s.n <= Used(s) + 1
  BY UsedOfSock
<1>2. /\ t \in Sock
      /\ t.works = s.works /\ t.work = s.work /\ t.n = s.n /\ t.alive = s.alive
      /\ t.calls = s.calls /\ t.open = s.open /\ t.first = s.first
      /\ t.state = s.state /\ t.half = s.half /\ t.ended /\ t.wire = s.wire
  BY <1>1 DEF Sock
<1> HIDE DEF t
<1>3. Sound(t) /\ Spares(s, t)
  BY <1>2, SameQueue DEF Good
<1>4. Good(t) /\ Greeted(t)
  BY <1>2, <1>3 DEF Good, Linked, WireOK, HeadUnwritten, AliveOK, Greeted
<1>5. Used(t) = s.n
  BY <1>2, <1>4, UsedOfSock
<1> QED
  BY <1>1, <1>3, <1>4, <1>5 DEF StepOK, t

LEMMA DataPartlyOK ==
  ASSUME NEW s, Good(s), Greeted(s), s.wire # <<>>
  PROVE  StepOK(s, [s EXCEPT !.half = Head(s.wire)], 0)
<1> DEFINE h == Head(s.wire)
           t == [s EXCEPT !.half = h]
<1>1. s \in Sock /\ Used(s) \in Nat /\ s.wire \in Seq(Work)
  BY UsedOfSock, SockType
<1>2. h \in Work
  BY <1>1, Elements
<1>3. h = Head(s.wire)
  OBVIOUS
<1> HIDE DEF h
<1>4. /\ t \in Sock
      /\ t.works = s.works /\ t.work = s.work /\ t.n = s.n /\ t.alive = s.alive
      /\ t.calls = s.calls /\ t.open = s.open /\ t.first = s.first
      /\ t.state = s.state /\ t.half = h /\ t.ended = s.ended /\ t.wire = s.wire
  BY <1>1, <1>2 DEF Sock
<1> HIDE DEF t
<1>5. Sound(t) /\ Spares(s, t)
  BY <1>4, SameQueue DEF Good
<1>6. Good(t) /\ Greeted(t)
  BY <1>3, <1>4, <1>5 DEF Good, Linked, WireOK, HeadUnwritten, AliveOK, Greeted
<1>7. Used(t) = Used(s)
  BY <1>4 DEF Used, Live
<1> QED
  BY <1>1, <1>5, <1>6, <1>7 DEF StepOK, t, h

\* Whoever claims the reply is the one it was sent to.
LEMMA ReplyIsForHead ==
  ASSUME NEW s, Good(s), s.wire # <<>>
  PROVE  /\ s.works # <<>> /\ Head(s.works) \notin Silent
         /\ Head(s.wire) = Head(s.works) /\ Tail(s.wire) = <<>>
         /\ s.half = Nobody \/ s.half = Head(s.works)
         /\ Head(s.works) \in Work /\ s.work[Head(s.works)].st # "new"
<1>1. s.works # <<>> /\ s.wire = <<Head(s.works)>> /\ Head(s.works) \notin Silent
  BY DEF Good, Linked, WireOK
<1>2. Head(s.wire) = Head(s.works) /\ Tail(s.wire) = <<>>
  BY <1>1
<1>3. s.half = Nobody \/ s.half = Head(s.works)
  BY <1>2 DEF Good, Linked, WireOK
<1>4. s.works \in Seq(Work)
  BY SockType DEF Good, Sound
<1>5. /\ Head(s.works) \in Work /\ Head(s.works) = s.works[1]
      /\ 1 \in 1..Len(s.works)
  BY <1>1, <1>4, Elements
<1>6. s.work[Head(s.works)].st # "new"
  BY <1>5 DEF Good, Sound, QueueOK
<1> QED
  BY <1>1, <1>2, <1>3, <1>5, <1>6

LEMMA DataOK ==
  ASSUME NEW s, Good(s), Greeted(s), s.state = "Connected", ~s.ended,
         s.wire # <<>>, Used(s) < MaxConnections
  PROVE  LET a == [s EXCEPT !.wire = Tail(s.wire), !.half = Nobody]
             h == Head(a.works)
             b == Settle(a, h, "resolved",
                         IF s.half = Nobody THEN Head(s.wire) ELSE s.half)
             c == [b EXCEPT !.works = Tail(b.works),
                            !.calls = {k \in b.calls : k[2] # h}]
         IN  StepOK(s, DoNextSendWork(c), 0)
<1> DEFINE none == <<>>
           h == Head(s.works)
           a == [s EXCEPT !.wire = none, !.half = Nobody]
           b == Settle(a, h, "resolved", h)
           rest == Tail(b.works)
           calls == {k \in b.calls : k[2] # h}
           c == [b EXCEPT !.works = rest, !.calls = calls]
           t == DoNextSendWork(c)
<1>1. /\ s.works # <<>> /\ h \notin Silent
      /\ Head(s.wire) = h /\ Tail(s.wire) = none
      /\ s.half = Nobody \/ s.half = h
      /\ h \in Work /\ s.work[h].st # "new"
  BY ReplyIsForHead
<1>2. (IF s.half = Nobody THEN Head(s.wire) ELSE s.half) = h
  BY <1>1
<1>3. none \in Seq(Work)
  OBVIOUS
<1>4. /\ s \in Sock /\ Used(s) \in Nat /\ s.alive
  BY UsedOfSock, SockType DEF Good, AliveOK
<1> HIDE DEF none, h
<1>5. /\ a \in Sock
      /\ a.works = s.works /\ a.work = s.work /\ a.n = s.n /\ a.alive = s.alive
      /\ a.calls = s.calls /\ a.open = s.open /\ a.first = s.first
      /\ a.state = s.state /\ a.half = Nobody /\ a.ended = s.ended
      /\ a.wire = none
  BY <1>3, <1>4 DEF Sock
<1> HIDE DEF a
<1>6. Sound(a) /\ Spares(s, a)
  BY <1>5, SameQueue DEF Good
<1>7. MaySettle(a, h, "resolved", h)
  BY <1>1, <1>5 DEF MaySettle, Settled
<1>8. /\ Sound(b) /\ Spares(a, b)
      /\ b.works = a.works /\ b.alive = a.alive /\ b.state = a.state
      /\ b.n = a.n /\ b.ended = a.ended /\ b.first = a.first
      /\ b.calls = a.calls /\ b.wire = a.wire /\ b.half = a.half
  BY <1>6, <1>7, SettleSound
<1> HIDE DEF b
<1>9. b \in Sock /\ b.works \in Seq(Work) /\ b.calls \subseteq Connection \X Work
  BY <1>8, SockType DEF Sound
<1>10. rest \in Seq(Work)
  BY <1>1, <1>5, <1>8, <1>9, Elements
<1>11. calls \subseteq b.calls
  OBVIOUS
<1>12. rest = Tail(b.works)
  OBVIOUS
<1> HIDE DEF rest, calls
<1>13. /\ c \in Sock
       /\ c.works = rest /\ c.work = b.work /\ c.n = b.n /\ c.alive = b.alive
       /\ c.calls = calls /\ c.open = b.open /\ c.first = b.first
       /\ c.state = b.state /\ c.half = b.half /\ c.ended = b.ended
       /\ c.wire = b.wire
  BY <1>9, <1>10, <1>11 DEF Sock
<1> HIDE DEF c
<1>14. Sound(c) /\ HeadUnwritten(c)
  BY <1>1, <1>5, <1>8, <1>11, <1>12, <1>13, TailSound
<1>15. Spares(s, c)
  <2>1. Spares(b, c)
    BY <1>13, SparesSame
  <2> QED
    BY <1>6, <1>8, <2>1, SparesTransitive
<1>16. /\ c.state = "Connected" /\ c.n = s.n /\ c.alive = s.alive
       /\ c.first = s.first /\ c.wire = none /\ c.half = Nobody
       /\ c.ended = s.ended
  BY <1>5, <1>8, <1>13
<1>17. Good(c)
  BY <1>4, <1>14, <1>16 DEF Good, Linked, WireOK, AliveOK, none
<1>18. Due(c) /\ MayGoOn(c) /\ Used(c) = Used(s)
  BY <1>14, <1>16 DEF Due, MayGoOn, Greeted, Used, Live
<1>19. Good(t) /\ Greeted(t) /\ Used(t) = Used(c) /\ Spares(c, t)
  BY <1>4, <1>16, <1>17, <1>18, DoNextGood
<1> HIDE DEF t
<1>20. StepOK(s, t, 0)
  BY <1>4, <1>15, <1>18, <1>19, SparesTransitive DEF StepOK
<1>21. a = [s EXCEPT !.wire = Tail(s.wire), !.half = Nobody]
  BY <1>1 DEF a
<1> QED
  BY <1>2, <1>5, <1>20, <1>21, ZenonT(60) DEF t, c, rest, calls, b, h

\* The callback of a write, whether of this connection or of an earlier one.
LEMMA CallGone ==
  ASSUME NEW s, Good(s), NEW c, NEW w \in Work, <<c, w>> \in s.calls
  PROVE  LET a == [s EXCEPT !.calls = s.calls \ {<<c, w>>}] IN
         /\ Good(a) /\ Spares(s, a) /\ a.work[w].st # "new"
         /\ a.works = s.works /\ a.work = s.work /\ a.alive = s.alive
         /\ a.state = s.state /\ a.n = s.n /\ a.ended = s.ended
         /\ a.first = s.first /\ a.wire = s.wire /\ a.half = s.half
<1> DEFINE calls == s.calls \ {<<c, w>>}
           a == [s EXCEPT !.calls = calls]
<1>1. s \in Sock /\ s.calls \subseteq Connection \X Work
  BY SockType DEF Good, Sound
<1>2. calls \subseteq s.calls
  OBVIOUS
<1> HIDE DEF calls
<1>3. /\ a \in Sock
      /\ a.works = s.works /\ a.work = s.work /\ a.n = s.n /\ a.alive = s.alive
      /\ a.calls = calls /\ a.open = s.open /\ a.first = s.first
      /\ a.state = s.state /\ a.half = s.half /\ a.ended = s.ended
      /\ a.wire = s.wire
  BY <1>1, <1>2 DEF Sock
<1> HIDE DEF a
<1>4. Sound(a) /\ Spares(s, a)
  BY <1>2, <1>3, SameQueue DEF Good
<1>5. Good(a)
  BY <1>3, <1>4 DEF Good, Linked, WireOK, HeadUnwritten, AliveOK
<1>6. s.work[w].st # "new"
  <2>1. <<c, w>>[2] = w
    OBVIOUS
  <2> QED
    BY <2>1 DEF Good, Sound
<1> QED
  BY <1>3, <1>4, <1>5, <1>6 DEF a, calls

LEMMA WriteDoneOK ==
  ASSUME NEW s, Good(s), Greeted(s), Used(s) < MaxConnections,
         NEW c, NEW w \in Work, <<c, w>> \in s.calls, w \in Silent
  PROVE  LET a == [s EXCEPT !.calls = s.calls \ {<<c, w>>}]
             b == WithoutHead(Settle(a, w, "resolved", Nobody), w)
         IN  StepOK(s, IF IsHead(a, w) THEN DoNextSendWork(b) ELSE b, 0)
<1> DEFINE a == [s EXCEPT !.calls = s.calls \ {<<c, w>>}]
           d == Settle(a, w, "resolved", Nobody)
           b == WithoutHead(d, w)
           t == IF IsHead(a, w) THEN DoNextSendWork(b) ELSE b
<1>1. /\ Good(a) /\ Spares(s, a) /\ a.work[w].st # "new"
      /\ a.alive = s.alive
      /\ a.state = s.state /\ a.n = s.n /\ a.ended = s.ended
      /\ a.first = s.first
  BY CallGone
<1> HIDE DEF a
<1>2. MaySettle(a, w, "resolved", Nobody)
  BY <1>1 DEF MaySettle, Settled
<1>3. /\ Sound(d) /\ Spares(a, d) /\ Linked(d)
      /\ d.works = a.works /\ d.alive = a.alive /\ d.state = a.state
      /\ d.n = a.n /\ d.ended = a.ended /\ d.first = a.first
      /\ d.wire = a.wire /\ d.half = a.half
  BY <1>1, <1>2, SettleSound DEF Good
<1> HIDE DEF d
<1>4. IsHead(d, w) <=> IsHead(a, w)
  BY <1>3 DEF IsHead
<1>5. /\ Sound(b) /\ (IsHead(d, w) => HeadUnwritten(b))
      /\ b.work = d.work /\ b.alive = d.alive /\ b.state = d.state
      /\ b.n = d.n /\ b.half = d.half /\ b.ended = d.ended
      /\ b.wire = d.wire /\ b.open = d.open /\ b.first = d.first
      /\ ~IsHead(d, w) => b = d
      /\ d.works = <<>> => b.works = <<>>
  BY <1>3, WithoutHeadFields
<1> HIDE DEF b
<1>6. Spares(s, b)
  <2>1. Spares(d, b)
    BY <1>5, SparesSame
  <2> QED
    BY <1>1, <1>3, <2>1, SparesTransitive
<1>7. Linked(b)
  <2>1. CASE IsHead(d, w)
    <3>1. d.wire = <<>> /\ d.half = Nobody
      BY <1>3, <2>1 DEF Linked, WireOK, IsHead
    <3> QED
      BY <1>3, <1>5, <2>1, <3>1 DEF Linked, WireOK
  <2>2. CASE ~IsHead(d, w)
    BY <1>3, <1>5, <2>2
  <2> QED
    BY <2>1, <2>2
<1>8. AliveOK(b)
  BY <1>1, <1>3, <1>5 DEF Good, AliveOK
<1>9. Used(b) = Used(s) /\ Greeted(b) /\ Used(s) \in Nat
  BY <1>1, <1>3, <1>5, UsedOfSock DEF Used, Live, Greeted
<1>10. CASE IsHead(a, w)
  <2>1. t = DoNextSendWork(b)
    BY <1>10
  <2>2. b.alive
    <3>1. a.works # <<>> /\ a.alive \in BOOLEAN
      BY <1>1, <1>10, SockType DEF IsHead, Good, Sound
    <3> QED
      BY <1>1, <1>3, <1>5, <3>1 DEF Good, AliveOK
  <2>3. Due(b) /\ MayGoOn(b)
    BY <1>4, <1>5, <1>9, <1>10 DEF Due, MayGoOn, Greeted
  <2> HIDE DEF t
  <2>4. Good(t) /\ Greeted(t) /\ Used(t) = Used(b) /\ Spares(b, t)
    BY <1>5, <1>7, <1>8, <1>9, <2>1, <2>2, <2>3, DoNextGood DEF Good
  <2> QED
    BY <1>6, <1>9, <2>4, SparesTransitive DEF StepOK, t, b, d, a
<1>11. CASE ~IsHead(a, w)
  <2>1. t = b
    BY <1>11
  <2> HIDE DEF t
  <2> QED
    BY <1>5, <1>6, <1>7, <1>8, <1>9, <2>1 DEF StepOK, Good, t, b, d, a
<1> QED
  BY <1>10, <1>11

\* The write is tried again on a connection of its own.
LEMMA ResendOK ==
  ASSUME NEW s, Good(s), s.n < MaxConnections, s.alive, NEW w \in Work
  PROVE  StepOK(s, Connect(DoDisconnect([s EXCEPT !.work[w].resent = TRUE])), 1)
<1> DEFINE work == [s.work EXCEPT ![w] = [s.work[w] EXCEPT !.resent = TRUE]]
           a == [s EXCEPT !.work = work]
           b == DoDisconnect(a)
           t == Connect(b)
<1>1. /\ s \in Sock /\ s.work \in [Work -> WorkState] /\ Used(s) \in Nat
      /\ s.n \in Nat /\ s.n <= Used(s) + 1
  BY UsedOfSock, SockType
<1>2. /\ work \in [Work -> WorkState]
      /\ \A v \in Work : /\ work[v].st = s.work[v].st
                         /\ work[v].written = s.work[v].written
                         /\ work[v].answer = s.work[v].answer
  BY <1>1 DEF WorkState
<1>3. [s EXCEPT !.work[w].resent = TRUE] = a
  OBVIOUS
<1> HIDE DEF work
<1>4. /\ a \in Sock
      /\ a.works = s.works /\ a.work = work /\ a.n = s.n /\ a.alive = s.alive
      /\ a.calls = s.calls /\ a.open = s.open /\ a.first = s.first
  BY <1>1, <1>2 DEF Sock
<1> HIDE DEF a
<1>5. Sound(a) /\ Spares(s, a)
  BY <1>2, <1>4, SameQueue DEF Good
<1>6. /\ Sound(b) /\ Linked(b) /\ b.state = "Disconnected"
      /\ b.n = a.n /\ b.alive = a.alive /\ Spares(a, b)
  BY <1>5, DoDisconnectSound
<1> HIDE DEF b
<1>7. /\ Good(t) /\ t.state # "Connected" /\ Used(t) = Used(b) /\ Spares(b, t)
  BY <1>4, <1>6, ConnectGood
<1> HIDE DEF t
<1>8. Used(b) = s.n
  BY <1>4, <1>6, <1>1 DEF Used, Live
<1>9. Greeted(t)
  BY <1>7 DEF Greeted
<1>10. StepOK(s, t, 1)
  BY <1>1, <1>5, <1>6, <1>7, <1>8, <1>9, SparesTransitive DEF StepOK
<1> QED
  BY <1>3, <1>10 DEF t, b

LEMMA WriteFailsOK ==
  ASSUME NEW s, Good(s), s.n < MaxConnections,
         NEW c, NEW w \in Work, <<c, w>> \in s.calls
  PROVE  LET a == [s EXCEPT !.calls = s.calls \ {<<c, w>>}] IN
         /\ a.alive => StepOK(s, Connect(DoDisconnect(
                                    [a EXCEPT !.work[w].resent = TRUE])), 1)
         /\ StepOK(s, RetryToConnect(WithoutHead(
                         Settle(a, w, "rejected", Nobody), w)), 1)
<1> DEFINE a == [s EXCEPT !.calls = s.calls \ {<<c, w>>}]
           d == Settle(a, w, "rejected", Nobody)
           b == WithoutHead(d, w)
<1>1. /\ Good(a) /\ Spares(s, a) /\ a.work[w].st # "new"
      /\ a.alive = s.alive /\ a.state = s.state /\ a.n = s.n
      /\ a.ended = s.ended
  BY CallGone
<1> HIDE DEF a
<1>2. Used(a) = Used(s)
  BY <1>1 DEF Used, Live
<1>3. ASSUME NEW t, StepOK(a, t, 1) PROVE StepOK(s, t, 1)
  BY <1>1, <1>2, <1>3, SparesTransitive DEF StepOK
<1>4. a.alive =>
        StepOK(a, Connect(DoDisconnect([a EXCEPT !.work[w].resent = TRUE])), 1)
  BY <1>1, ResendOK
<1>5. MaySettle(a, w, "rejected", Nobody)
  BY <1>1 DEF MaySettle, Settled
<1>6. /\ Sound(d) /\ Spares(a, d)
      /\ d.works = a.works /\ d.alive = a.alive /\ d.n = a.n
  BY <1>1, <1>5, SettleSound DEF Good
<1> HIDE DEF d
<1>7. /\ Sound(b) /\ b.work = d.work /\ b.alive = d.alive /\ b.n = d.n
      /\ d.works = <<>> => b.works = <<>>
  BY <1>6, WithoutHeadFields
<1> HIDE DEF b
<1>8. Spares(a, b)
  BY <1>6, <1>7, SparesSame, SparesTransitive
<1>9. ~a.alive => b.works = <<>>
  BY <1>1, <1>6, <1>7 DEF Good, AliveOK
<1>10. StepOK(a, RetryToConnect(b), 1)
  BY <1>1, <1>6, <1>7, <1>8, <1>9, RetryOK
<1> QED
  BY <1>3, <1>4, <1>10 DEF b, d, a

-----------------------------------------------------------------------------
(* The invariant is inductive *)

LEMMA InitIsGood == Init => SocketInv
<1> SUFFICES ASSUME Init PROVE SocketInv
  OBVIOUS
<1> DEFINE none == <<>>
           work == [w \in Work |-> NewWork]
<1>1. PICK valid \in BOOLEAN :
        sock = [works |-> none, work |-> work,
                alive |-> TRUE, valid |-> valid, state |-> "Disconnected",
                n |-> 0, half |-> Nobody, timers |-> 0, calls |-> {},
                ended |-> FALSE, wire |-> none, open |-> {},
                first |-> Nobody]
  BY DEF Init
<1>2. none \in Seq(Work) /\ Len(none) = 0
  OBVIOUS
<1>3. /\ work \in [Work -> WorkState]
      /\ \A w \in Work : work[w].st = "new" /\ ~work[w].written
  BY DEF NewWork, WorkState
<1>4. 0 \in 0..MaxConnections
  BY Limits
<1> HIDE DEF none, work
<1>5. /\ sock \in Sock
      /\ sock.works = none /\ sock.work = work /\ sock.alive
      /\ sock.state = "Disconnected" /\ sock.n = 0 /\ sock.half = Nobody
      /\ sock.calls = {} /\ ~sock.ended /\ sock.wire = none /\ sock.open = {}
      /\ sock.first = Nobody
  BY <1>1, <1>2, <1>3, <1>4 DEF Sock
<1>6. Sound(sock)
  <2>1. QueueOK(none, work)
    BY <1>2 DEF QueueOK
  <2> QED
    BY <1>3, <1>5, <2>1 DEF Sound, Work
<1>7. Linked(sock) /\ AliveOK(sock) /\ Greeted(sock)
  BY <1>5 DEF Linked, WireOK, HeadUnwritten, AliveOK, Greeted, none
<1>8. Used(sock) <= Spent
  BY <1>5, SocketAssumption DEF Used, Live, Spent, Init
<1>9. TypeOK
  BY <1>5, SocketAssumption DEF TypeOK, Sock, Init
<1> QED
  BY <1>6, <1>7, <1>8, <1>9 DEF SocketInv, Good

\* There is a connection left for whatever has to be opened.
LEMMA Room ==
  ASSUME SocketInv
  PROVE  /\ Good(sock) /\ Greeted(sock) /\ sock \in Sock
         /\ Used(sock) \in Nat /\ Used(sock) <= Spent /\ Spent \in Nat
         /\ Used(sock) < MaxConnections
         /\ faults > 0 => sock.n < MaxConnections
         /\ faults \in 0..MaxFaults /\ stops \in 0..MaxStops
         /\ resets \in 0..MaxResets
<1>1. /\ Used(sock) \in Nat /\ sock \in Sock /\ sock.n \in Nat
      /\ sock.n <= Used(sock) + 1
  BY UsedOfSock DEF SocketInv
<1> DEFINE used == Used(sock)
           n == sock.n
<1>2. /\ faults \in 0..MaxFaults /\ stops \in 0..MaxStops
      /\ resets \in 0..MaxResets /\ used <= Spent
      /\ used \in Nat /\ n \in Nat /\ n <= used + 1
  BY <1>1 DEF SocketInv, TypeOK
<1> HIDE DEF used, n
<1>3. /\ Spent \in Nat /\ used < MaxConnections
      /\ faults > 0 => n < MaxConnections
  BY <1>2, SocketAssumption DEF Spent, MaxConnections
<1> QED
  BY <1>1, <1>2, <1>3 DEF SocketInv, used, n

\* How a step is put together from what it does to the socket and its cost.
LEMMA StepKeeps ==
  ASSUME SocketInv, NEW cost \in Nat, StepOK(sock, sock', cost),
         faults' \in 0..MaxFaults, stops' \in 0..MaxStops,
         resets' \in 0..MaxResets, Spent' = Spent + cost
  PROVE  SocketInv' /\ Spares(sock, sock')
<1>1. Used(sock) \in Nat /\ Used(sock) <= Spent /\ Spent \in Nat
  BY Room
<1>2. Good(sock') /\ Greeted(sock') /\ Used(sock') <= Used(sock) + cost
      /\ Spares(sock, sock') /\ Used(sock') \in Nat
  BY UsedOfSock DEF StepOK
<1>3. sock' \in Sock
  BY <1>2 DEF Good, Sound
<1>4. TypeOK'
  BY <1>3 DEF TypeOK, Sock
<1>5. Used(sock') <= Spent'
  BY <1>1, <1>2
<1> QED
  BY <1>2, <1>4, <1>5 DEF SocketInv

\* What a step may cost.
Costs(cost) ==
  /\ faults' \in 0..MaxFaults /\ stops' \in 0..MaxStops
  /\ resets' \in 0..MaxResets /\ Spent' = Spent + cost

LEMMA CostsOf ==
  ASSUME SocketInv
  PROVE  /\ unchangedBudgets => Costs(0)
         /\ faults > 0 /\ faults' = faults - 1 /\ UNCHANGED <<stops, resets>>
              => Costs(1)
         /\ stops > 0 /\ stops' = stops - 1 /\ UNCHANGED <<faults, resets>>
              => Costs(1)
         /\ resets > 0 /\ resets' = resets - 1 /\ UNCHANGED <<faults, stops>>
              => Costs(1)
BY Room, SocketAssumption DEF Costs, Spent, unchangedBudgets

LEMMA StepIsOK ==
  ASSUME SocketInv, [Next]_vars
  PROVE  SocketInv' /\ Spares(sock, sock')
<1>1. /\ Good(sock) /\ Greeted(sock) /\ sock \in Sock
      /\ Used(sock) \in Nat /\ Used(sock) < MaxConnections
      /\ faults > 0 => sock.n < MaxConnections
  BY Room
<1> SUFFICES \E cost \in Nat : StepOK(sock, sock', cost) /\ Costs(cost)
  BY StepKeeps DEF Costs
<1>2. unchangedBudgets => Costs(0)
  BY CostsOf
<1>3. CASE UNCHANGED vars
  <2>1. sock' = sock /\ unchangedBudgets
    BY <1>3 DEF vars, unchangedBudgets
  <2>2. StepOK(sock, sock', 0)
    BY <1>1, <2>1, SparesSame DEF StepOK
  <2> QED
    BY <1>2, <2>1, <2>2
<1>4. ASSUME NEW w \in Work, Send(w) PROVE \E cost \in Nat : StepOK(sock, sock', cost) /\ Costs(cost)
  <2>1. /\ MaySend(sock, w) /\ sock' = SendWork(sock, w) /\ w \in Request
        /\ unchangedBudgets
    BY <1>1, <1>4 DEF Send, MaySend
  <2>2. /\ Good(sock') /\ Used(sock') = Used(sock) /\ Spares(sock, sock')
        /\ Greeted(sock')
    BY <1>1, <2>1, SendWorkGood
  <2>3. StepOK(sock, sock', 0)
    BY <1>1, <2>2 DEF StepOK
  <2> QED
    BY <1>2, <2>1, <2>3
<1>5. ASSUME NEW w \in Work, Timeout(w) PROVE \E cost \in Nat : StepOK(sock, sock', cost) /\ Costs(cost)
  <2>1. StepOK(sock, sock', 0) /\ unchangedBudgets
    BY <1>1, <1>5, TimeoutOK DEF Timeout
  <2> QED
    BY <1>2, <2>1
<1>6. CASE Disconnect
  <2>1. StepOK(sock, sock', 1)
    BY <1>1, <1>6, DisconnectOK DEF Disconnect
  <2>2. Costs(1)
    BY <1>6, CostsOf DEF Disconnect
  <2> QED
    BY <2>1, <2>2
<1>7. CASE Reset
  <2>1. StepOK(sock, sock', 1)
    BY <1>1, <1>7, ResetOK DEF Reset
  <2>2. Costs(1)
    BY <1>7, CostsOf DEF Reset
  <2> QED
    BY <2>1, <2>2
<1>8. CASE TimerFires
  <2>1. StepOK(sock, sock', 0) /\ unchangedBudgets
    BY <1>1, <1>8, TimerOK DEF TimerFires
  <2> QED
    BY <1>2, <2>1
<1>9. CASE OnConnect
  <2> DEFINE u == [sock EXCEPT !.state = "Connected"]
             v == IF Greets THEN SendWork(u, u.n) ELSE u
  <2>1. sock' = DoNextSendWork(v)
    BY <1>9 DEF OnConnect
  <2>2. sock.state = "Connecting" /\ unchangedBudgets
    BY <1>9 DEF OnConnect
  <2>3. StepOK(sock, DoNextSendWork(v), 0)
    BY <1>1, <2>2, OnConnectOK
  <2> HIDE DEF v
  <2> QED
    BY <1>2, <2>1, <2>2, <2>3
<1>10. CASE OnClose
  <2>1. CASE sock.alive
    <3>1. sock' = RetryToConnect(sock)
      BY <1>10, <2>1 DEF OnClose
    <3>2. StepOK(sock, sock', 1) /\ (sock.ended => StepOK(sock, sock', 0))
      BY <1>1, <3>1, CloseOK
    <3>3. (sock.ended /\ Costs(0)) \/ Costs(1)
      BY <1>2, <1>10, CostsOf DEF OnClose, unchangedBudgets
    <3> QED
      BY <3>2, <3>3
  <2>2. CASE ~sock.alive
    <3>1. sock.state = "Disconnected" /\ ~sock.ended
      BY <1>1, <2>2 DEF Good, AliveOK, Linked
    <3> QED
      BY <1>10, <3>1 DEF OnClose
  <2> QED
    BY <2>1, <2>2
<1>11. CASE PeerEnds
  <2>1. StepOK(sock, sock', 1)
    BY <1>1, <1>11, PeerEndsOK DEF PeerEnds
  <2>2. Costs(1)
    BY <1>11, CostsOf DEF PeerEnds
  <2> QED
    BY <2>1, <2>2
<1>12. CASE OnDataPartly
  <2>1. StepOK(sock, sock', 0) /\ unchangedBudgets
    BY <1>1, <1>12, DataPartlyOK DEF OnDataPartly
  <2> QED
    BY <1>2, <2>1
<1>13. CASE OnData
  <2> DEFINE a == [sock EXCEPT !.wire = Tail(sock.wire), !.half = Nobody]
             h == Head(a.works)
             b == Settle(a, h, "resolved",
                         IF sock.half = Nobody THEN Head(sock.wire) ELSE sock.half)
             c == [b EXCEPT !.works = Tail(b.works),
                            !.calls = {k \in b.calls : k[2] # h}]
  <2>1. /\ sock.state = "Connected" /\ ~sock.ended /\ sock.wire # <<>>
        /\ unchangedBudgets
    BY <1>13 DEF OnData
  <2>2. sock.works # <<>> /\ Head(sock.works) \notin Silent
    BY <1>1, <2>1, ReplyIsForHead
  <2>3. a.works = sock.works
    BY <1>1 DEF Sock
  <2>4. sock' = IF a.works = <<>> \/ h \in Silent THEN a ELSE DoNextSendWork(c)
    BY <1>13, ZenonT(60) DEF OnData
  <2>5. StepOK(sock, DoNextSendWork(c), 0)
    BY <1>1, <2>1, DataOK
  <2> HIDE DEF c, b
  <2>6. sock' = DoNextSendWork(c)
    BY <2>2, <2>3, <2>4
  <2> QED
    BY <1>2, <2>1, <2>5, <2>6
<1>14. ASSUME NEW c \in Connection, NEW w \in Work, WriteDone(c, w)
       PROVE \E cost \in Nat : StepOK(sock, sock', cost) /\ Costs(cost)
  <2>1. StepOK(sock, sock', 0) /\ unchangedBudgets
    BY <1>1, <1>14, WriteDoneOK DEF WriteDone
  <2> QED
    BY <1>2, <2>1
<1>15. ASSUME NEW c \in Connection, NEW w \in Work, NEW nothingSent \in BOOLEAN,
              WriteFails(c, w, nothingSent)
       PROVE \E cost \in Nat : StepOK(sock, sock', cost) /\ Costs(cost)
  <2> DEFINE a == [sock EXCEPT !.calls = sock.calls \ {<<c, w>>}]
             again == nothingSent /\ ~a.work[w].resent /\ IsHead(a, w) /\ a.alive
             t == Connect(DoDisconnect([a EXCEPT !.work[w].resent = TRUE]))
             u == RetryToConnect(WithoutHead(Settle(a, w, "rejected", Nobody), w))
  <2>1. /\ <<c, w>> \in sock.calls /\ faults > 0
        /\ sock' = IF again THEN t ELSE u
    BY <1>15 DEF WriteFails
  <2>2. (a.alive => StepOK(sock, t, 1)) /\ StepOK(sock, u, 1)
    BY <1>1, <2>1, WriteFailsOK
  <2>3. again => a.alive
    OBVIOUS
  <2> HIDE DEF t, u, again
  <2>4. StepOK(sock, sock', 1)
    BY <2>1, <2>2, <2>3
  <2>5. Costs(1)
    BY <1>15, CostsOf DEF WriteFails
  <2> QED
    BY <2>4, <2>5
<1> QED
  BY <1>3, <1>4, <1>5, <1>6, <1>7, <1>8, <1>9, <1>10, <1>11, <1>12, <1>13,
     <1>14, <1>15 DEF Next

-----------------------------------------------------------------------------
(* The theorems *)

\* naive-socket.ts. The invariant holds in every reachable state.
LEMMA SocketInvariant == Spec => []SocketInv
<1>1. Init => SocketInv
  BY InitIsGood
<1>2. SocketInv /\ [Next]_vars => SocketInv'
  BY StepIsOK
<1> QED
  BY <1>1, <1>2, PTL DEF Spec

\* Across timeouts, urgent requests, resets and connections, a request is
\* answered with its own reply, there is one socket at most, and the greeting
\* is the first thing on it (naive-socket.ts:202-207, 407-412, 523-527).
THEOREM RepliesReachTheirRequest == Spec => []QueueInvariant
<1>1. SocketInv => QueueInvariant
  BY DEF SocketInv, Good, Sound, AliveOK, Linked, QueueInvariant, AnswersMatch,
         OneSocket, GreetedFirst
<1> QED
  BY <1>1, SocketInvariant, PTL

\* A request whose caller was answered, or told that it failed, is not written
\* any more: the safety part of RequestsSettle (naive-socket.ts:558-561).
THEOREM SettledIsNotWritten == Spec => NotWrittenAfterwards
<1>1. SocketInv /\ [Next]_vars =>
        [\A w \in Work :
           IsSettled(sock, w) /\ sock'.work[w].written => sock.work[w].written]_vars
  BY StepIsOK DEF Spares
<1> QED
  BY <1>1, SocketInvariant, PTL DEF Spec, NotWrittenAfterwards

=============================================================================
