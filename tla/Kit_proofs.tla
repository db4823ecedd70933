---------------------------- MODULE Kit_proofs ----------------------------
(***************************************************************************)
(* Proofs about Save, for any devices, rows and calls, any policies and    *)
(* any number of failures and sign-outs, and about Turns, for any players. *)
(*                                                                         *)
(* What a device accepted is in its adapter or was on the server: SaveInv  *)
(* says that the queue in memory covers the one in the adapter, and that   *)
(* what the lane is about to write covers both.                            *)
(*                                                                         *)
(* What an update overwrites it contains: OrderInv says what every write   *)
(* of a queue has seen, and what it may expect behind the one before it.   *)
(*                                                                         *)
(* The players of a turn game play one game: TurnInv says that every log,  *)
(* in play, saved or on its way, is a prefix of it, and that each move is  *)
(* in the log of who made it, so nobody else makes the next one.           *)
(***************************************************************************)
EXTENDS Save, Turns, SequenceTheorems, WellFoundedInduction, TLAPS

-----------------------------------------------------------------------------
(* The inductive invariant *)

\* What a value is made of are updates of its row.
Named(v, n) == v \subseteq Update /\ \A u \in v : CallOf[u].name = n

WriteOK(w) ==
  /\ w \in Writes /\ w.id \in called /\ CallOf[w.id].name = w.name
  /\ Named(w.value, w.name)
  /\ w.kind = "remove" => CallOf[w.id].kind = "remove" /\ w.value = {}
  /\ w.kind = "store" => w.id \in w.value

QueueOK(q) == q \in Seq(Writes) /\ \A i \in 1..Len(q) : WriteOK(q[i])

Removed(n) == \E r \in called : CallOf[r].name = n /\ CallOf[r].kind = "remove"

\* A row that was there is there, unless its removal was called for.
ServerInv ==
  /\ history \in [Name -> Seq(SUBSET Update)] /\ live \subseteq Name
  /\ \A n \in Name :
       /\ \A i \in 1..Len(history[n]) : Named(history[n][i], n)
       /\ n \in live => Len(history[n]) > 0
       /\ n \notin live /\ Len(history[n]) > 0 => Removed(n)

ClaimInv ==
  \A u \in won :
    /\ u \in called /\ Len(history[CallOf[u].name]) > 0
    /\ Removed(CallOf[u].name) \/ history[CallOf[u].name][1] = {u}

Rows == [read : BOOLEAN, value : SUBSET Update, version : Nat]

\* What a device believes of a row was so.
IsReal(k, n) ==
  /\ k \in Rows /\ Named(k.value, n)
  /\ k.version > 0 => k.version <= Len(history[n])
                      /\ history[n][k.version] = k.value

RowInv(d) == \A n \in Name : IsReal(known[d][n], n)

\* The queue in memory has the writes of the adapter, whose values may have
\* been merged since.
SameWrites(q, r) ==
  /\ Len(q) = Len(r)
  /\ \A i \in 1..Len(q) : q[i].id = r[i].id /\ r[i].value \subseteq q[i].value

QueueInv(d) ==
  /\ QueueOK(staged[d]) /\ QueueOK(disk[d])
  /\ d \in hydrated => policy.queue /\ SameWrites(staged[d], disk[d])

\* The server has had an update; a queue has one.
Had(u) ==
  \E i \in 1..Len(history[CallOf[u].name]) : u \in history[CallOf[u].name][i]
In(u, q) == \E i \in 1..Len(q) : u \in q[i].value

\* No update of the adapter is lost by the queue that is to replace it.
Covers(d, q) == \A u \in Update : In(u, disk[d]) => Had(u) \/ In(u, q)

CallTasks == [step : {"read", "form"}, id : Update]
LaneTasks == [step : {"recover", "send", "fetch"}, write : Writes,
              attempt : Nat, then : {"caller", "flush"}]
PersistTasks == [step : {"persist"}, write : Writes, attempt : Nat,
                 next : Seq(Writes), then : {"caller", "flush", "resend"}]

CallOK(d) ==
  /\ task[d] \in CallTasks /\ task[d].id \in called
  /\ CallOf[task[d].id].by = d

\* What is sent is the caller's write, or the head of the queue.
LaneOK(d) ==
  /\ task[d] \in LaneTasks /\ WriteOK(task[d].write)
  /\ task[d].step = "fetch" => task[d].write.kind = "store"
  /\ task[d].then = "caller" =>
       task[d].step # "recover" /\ CallOf[task[d].write.id].by = d
  /\ task[d].then = "flush" =>
       policy.queue /\ staged[d] # <<>> /\ staged[d][1] = task[d].write

PersistOK(d) ==
  /\ task[d] \in PersistTasks /\ policy.queue
  /\ WriteOK(task[d].write) /\ QueueOK(task[d].next)
  /\ Covers(d, task[d].next)
  /\ task[d].then = "caller" =>
       /\ CallOf[task[d].write.id].by = d
       /\ \E i \in 1..Len(task[d].next) : task[d].next[i] = task[d].write
  /\ task[d].then = "resend" =>
       task[d].next # <<>> /\ task[d].next[1] = task[d].write

TaskInv(d) ==
  /\ policy.queue /\ task[d] # Idle => d \in hydrated
  /\ task[d] = Idle \/ CallOK(d) \/ LaneOK(d) \/ PersistOK(d)

DeviceInv(d) == RowInv(d) /\ QueueInv(d) /\ TaskInv(d)

StrayInv == \A w \in stray : WriteOK(w)

KeptInv ==
  /\ acked \subseteq called
  /\ \A u \in acked :
       CallOf[u].kind # "remove" => Had(u) \/ In(u, disk[CallOf[u].by])

CountInv ==
  /\ policy \in SaveSetups /\ hydrated \subseteq Device
  /\ known \in [Device -> [Name -> Rows]]
  /\ staged \in [Device -> Seq(Writes)] /\ disk \in [Device -> Seq(Writes)]
  /\ DOMAIN task = Device
  /\ called \subseteq Update
  /\ saveFaults \in 0..policy.faults /\ signOuts \in 0..policy.signOuts

SaveInv ==
  /\ CountInv /\ ServerInv /\ ClaimInv /\ StrayInv /\ KeptInv
  /\ \A d \in Device : DeviceInv(d)

-----------------------------------------------------------------------------
(* Sequences of writes *)

\* A set of values on which a well-founded relation acts has a minimal one.
LEMMA MinimalOf ==
  ASSUME NEW N, NEW R, IsWellFoundedOn(R, N), NEW S, S \subseteq N, S # {}
  PROVE  \E i \in S : \A j \in S : <<j, i>> \notin R
  BY WFMin, ZenonT(60)

\* A set of indices that is not empty has a least one.
LEMMA LeastOf ==
  ASSUME NEW S, S \subseteq Nat, S # {}
  PROVE  \E i \in S : \A j \in S : i <= j
<1>1. IsWellFoundedOn(OpToRel(<, Nat), Nat)
  BY NatLessThanWellFounded, Zenon
<1>2. \A j, k \in Nat : j < k => <<j, k>> \in OpToRel(<, Nat)
  BY DEF OpToRel
<1>3. PICK R : IsWellFoundedOn(R, Nat) /\ \A j, k \in Nat : j < k => <<j, k>> \in R
  BY <1>1, <1>2, Zenon
<1>4. PICK i \in S : \A j \in S : <<j, i>> \notin R
  BY <1>3, MinimalOf, ZenonT(60)
<1> HIDE <1>1, <1>2
<1>5. \A j \in S : ~(j < i)
  BY <1>3, <1>4
<1> QED
  BY <1>5

LEMMA GreatestOf ==
  ASSUME NEW n \in Nat, NEW S, S \subseteq 1..n, S # {}
  PROVE  \E i \in S : \A j \in S : j <= i
<1> DEFINE T == {n - i : i \in S}
<1>1. \A i \in S : n - i \in Nat
  OBVIOUS
<1>1a. T \subseteq Nat /\ T # {}
  BY <1>1
<1> HIDE DEF T
<1>2. PICK k \in T : \A l \in T : k <= l
  BY <1>1a, LeastOf
<1>3. PICK i \in S : k = n - i
  BY DEF T
<1>4. \A j \in S : n - i <= n - j
  BY <1>2, <1>3 DEF T
<1> QED
  BY <1>4

LEMMA BehindAll ==
  ASSUME NEW q \in Seq(Writes), NEW w \in Writes
  PROVE  LET r == Append(q, w)
         IN  /\ r \in Seq(Writes) /\ Len(r) = Len(q) + 1
             /\ r # <<>> /\ r[Len(q) + 1] = w
             /\ \A i \in 1..Len(q) : r[i] = q[i]
OBVIOUS

LEMMA WithoutFirst ==
  ASSUME NEW q \in Seq(Writes), q # <<>>
  PROVE  LET r == Tail(q)
         IN  /\ r \in Seq(Writes) /\ Len(r) = Len(q) - 1
             /\ \A i \in 1..Len(r) : r[i] = q[i + 1] /\ i + 1 \in 1..Len(q)
OBVIOUS

LEMMA WithFirst ==
  ASSUME NEW q \in Seq(Writes), q # <<>>, NEW w \in Writes
  PROVE  LET r == [q EXCEPT ![1] = w]
         IN  /\ r \in Seq(Writes) /\ Len(r) = Len(q) /\ r # <<>>
             /\ r[1] = w /\ 1 \in 1..Len(q)
             /\ \A i \in 1..Len(q) : i # 1 => r[i] = q[i]
OBVIOUS

LEMMA Nonempty ==
  ASSUME NEW q \in Seq(Writes)
  PROVE  q # <<>> <=> Len(q) > 0
OBVIOUS

\* A rebase changes what a write expects, and nothing else.
LEMMA RebaseKeeps ==
  ASSUME NEW q \in Seq(Writes), NEW n \in Name, NEW v \in Nat
  PROVE  /\ Rebase(q, n, v) \in Seq(Writes)
         /\ Len(Rebase(q, n, v)) = Len(q)
         /\ \A i \in 1..Len(q) :
              \E w \in Writes :
                /\ Rebase(q, n, v)[i] = w /\ w.id = q[i].id /\ w.name = q[i].name
                /\ w.kind = q[i].kind /\ w.value = q[i].value
<1> DEFINE I == {i \in 1..Len(q) : q[i].name = n}
           first == CHOOSE i \in I : \A j \in I : i <= j
           r == [q EXCEPT ![first] = OnVersion(@, v)]
<1>1. Rebase(q, n, v) = IF I = {} THEN q ELSE r
  BY DEF Rebase
<1>2. \A i \in 1..Len(q) : q[i] \in Writes
  OBVIOUS
<1> HIDE DEF I, first
<1>3. \A i \in 1..Len(q) : r[i] = IF i = first THEN OnVersion(q[i], v) ELSE q[i]
  OBVIOUS
<1>4. DOMAIN r = 1..Len(q)
  OBVIOUS
<1> HIDE DEF r
<1>5. \A i \in 1..Len(q) :
        /\ r[i] \in Writes /\ r[i].id = q[i].id /\ r[i].name = q[i].name
        /\ r[i].kind = q[i].kind /\ r[i].value = q[i].value
  <2> SUFFICES ASSUME NEW i \in 1..Len(q)
               PROVE  /\ r[i] \in Writes /\ r[i].id = q[i].id
                      /\ r[i].name = q[i].name
                      /\ r[i].kind = q[i].kind /\ r[i].value = q[i].value
    OBVIOUS
  <2>1. CASE i = first
    <3> DEFINE b == q[i].rebased \/ v # q[i].expected
    <3>1. b \in BOOLEAN
      BY <1>2 DEF Writes
    <3>2. r[i] = [q[i] EXCEPT !.expected = v, !.rebased = b]
      BY <1>3, <2>1 DEF OnVersion
    <3> HIDE DEF b
    <3> QED
      BY <1>2, <3>1, <3>2 DEF Writes
  <2>2. CASE i # first
    BY <1>2, <1>3, <2>2
  <2> QED
    BY <2>1, <2>2
<1>6. r \in Seq(Writes) /\ Len(r) = Len(q)
  <2>1. r = [i \in 1..Len(q) |-> r[i]]
    BY <1>4 DEF r
  <2>2. r \in [1..Len(q) -> Writes]
    BY <1>5, <2>1
  <2> QED
    BY <2>2
<1>7. CASE I = {}
  BY <1>1, <1>2, <1>7
<1>8. CASE I # {}
  BY <1>1, <1>5, <1>6, <1>8
<1> QED
  BY <1>7, <1>8

-----------------------------------------------------------------------------
(* The server *)

Grows ==
  /\ called \subseteq called'
  /\ \A n \in Name :
       /\ Len(history[n]) <= Len(history'[n])
       /\ \A i \in 1..Len(history[n]) : history'[n][i] = history[n][i]

\* A step leaves the rows alone, stores a value, or makes a removal that was
\* called for.
Stores(n, v) ==
  /\ history' = [history EXCEPT ![n] = Append(@, v)]
  /\ live' = live \cup {n}
ServerStep ==
  \/ UNCHANGED <<history, live>>
  \/ \E n \in Name, v \in SUBSET Update : Named(v, n) /\ Stores(n, v)
  \/ \E n \in Name : /\ live' = live \ {n} /\ Removed(n)
                     /\ UNCHANGED history

LEMMA HistoryTypes ==
  ASSUME ServerInv, NEW n \in Name
  PROVE  /\ history[n] \in Seq(SUBSET Update) /\ Len(history[n]) \in Nat
         /\ \A i \in 1..Len(history[n]) : history[n][i] \in SUBSET Update
BY DEF ServerInv

LEMMA OneMore ==
  ASSUME ServerInv, NEW n \in Name, NEW v \in SUBSET Update, Stores(n, v)
  PROVE  /\ history' \in [Name -> Seq(SUBSET Update)]
         /\ Len(history'[n]) = Len(history[n]) + 1
         /\ history'[n][Len(history[n]) + 1] = v
         /\ \A i \in 1..Len(history[n]) : history'[n][i] = history[n][i]
         /\ \A m \in Name : m # n => history'[m] = history[m]
<1>1. history \in [Name -> Seq(SUBSET Update)]
  BY DEF ServerInv
<1>2. history' = [history EXCEPT ![n] = Append(history[n], v)]
  BY DEF Stores
<1> DEFINE h == Append(history[n], v)
<1>3. /\ h \in Seq(SUBSET Update) /\ Len(h) = Len(history[n]) + 1
      /\ h[Len(history[n]) + 1] = v
      /\ \A i \in 1..Len(history[n]) : h[i] = history[n][i]
  BY <1>1
<1> HIDE DEF h
<1>4. history' = [history EXCEPT ![n] = h]
  BY <1>2 DEF h
<1> QED
  BY <1>1, <1>3, <1>4

LEMMA ServerStepIsOK ==
  ASSUME ServerInv, ServerStep, called \subseteq called'
  PROVE  ServerInv' /\ Grows
<1>1. CASE UNCHANGED <<history, live>>
  BY <1>1, HistoryTypes DEF ServerInv, Grows, Removed
<1>2. ASSUME NEW n \in Name, NEW v \in SUBSET Update, Named(v, n), Stores(n, v)
      PROVE  ServerInv' /\ Grows
  <2>1. /\ history' \in [Name -> Seq(SUBSET Update)]
        /\ Len(history'[n]) = Len(history[n]) + 1
        /\ history'[n][Len(history[n]) + 1] = v
        /\ \A i \in 1..Len(history[n]) : history'[n][i] = history[n][i]
        /\ \A m \in Name : m # n => history'[m] = history[m]
    BY <1>2, OneMore
  <2>2. live' = live \cup {n}
    BY <1>2 DEF Stores
  <2>3. \A m \in Name : Len(history[m]) \in Nat
    BY HistoryTypes
  <2>4. Grows
    BY <2>1, <2>3 DEF Grows
  <2>5. \A i \in 1..Len(history'[n]) : Named(history'[n][i], n)
    <3> SUFFICES ASSUME NEW i \in 1..Len(history'[n]) PROVE Named(history'[n][i], n)
      OBVIOUS
    <3>1. CASE i = Len(history[n]) + 1
      BY <1>2, <2>1, <3>1
    <3>2. CASE i # Len(history[n]) + 1
      <4>1. i \in 1..Len(history[n])
        BY <2>1, <2>3, <3>2
      <4> QED
        BY <2>1, <4>1 DEF ServerInv
    <3> QED
      BY <3>1, <3>2
  <2>6. \A m \in Name : \A i \in 1..Len(history'[m]) : Named(history'[m][i], m)
    BY <2>1, <2>5 DEF ServerInv
  <2>7. live' \subseteq Name
    BY <2>2 DEF ServerInv
  <2>8. \A m \in Name : /\ m \in live' => Len(history'[m]) > 0
                        /\ m \notin live' /\ Len(history'[m]) > 0 => Removed(m)'
    <3> SUFFICES ASSUME NEW m \in Name
                 PROVE  /\ m \in live' => Len(history'[m]) > 0
                        /\ m \notin live' /\ Len(history'[m]) > 0 => Removed(m)'
      OBVIOUS
    <3>1. CASE m = n
      BY <2>1, <2>2, <2>3, <3>1
    <3>2. CASE m # n
      BY <2>1, <2>2, <3>2 DEF ServerInv, Removed
    <3> QED
      BY <3>1, <3>2
  <2> QED
    BY <2>1, <2>4, <2>6, <2>7, <2>8 DEF ServerInv, Named
<1>3. ASSUME NEW n \in Name, live' = live \ {n}, Removed(n), UNCHANGED history
      PROVE  ServerInv' /\ Grows
  BY <1>3, HistoryTypes DEF ServerInv, Grows, Removed
<1> QED
  BY <1>1, <1>2, <1>3 DEF ServerStep

\* What was had stays had, what is legal stays legal.
LEMMA HadStays ==
  ASSUME Grows, ServerInv, ServerInv', NEW u \in Update, Had(u)
  PROVE  Had(u)'
<1>1. CallOf[u].name \in Name
  BY SaveAssumption
<1>2. /\ Len(history[CallOf[u].name]) \in Nat /\ Len(history'[CallOf[u].name]) \in Nat
  BY <1>1 DEF ServerInv
<1> QED
  BY <1>1, <1>2 DEF Grows, Had

LEMMA WriteStays ==
  ASSUME Grows, NEW w, WriteOK(w)
  PROVE  WriteOK(w)'
BY DEF Grows, WriteOK, Named

LEMMA QueueStays ==
  ASSUME Grows, NEW q, QueueOK(q)
  PROVE  QueueOK(q)'
BY DEF Grows, QueueOK, WriteOK, Named

LEMMA RowStays ==
  ASSUME Grows, ServerInv, ServerInv', NEW n \in Name, NEW k, IsReal(k, n)
  PROVE  IsReal(k, n)'
<1>1. Len(history[n]) \in Nat /\ Len(history'[n]) \in Nat
  BY DEF ServerInv
<1>2. k.version \in Nat
  BY DEF IsReal, Rows
<1> QED
  BY <1>1, <1>2 DEF Grows, IsReal, Named

-----------------------------------------------------------------------------
(* A device that a step does not touch *)

LEMMA CallFacts ==
  ASSUME NEW u \in Update
  PROVE  /\ CallOf[u].by \in Device /\ CallOf[u].name \in Name
         /\ CallOf[u].kind \in CallKinds
BY SaveAssumption

LEMMA RowsStay ==
  ASSUME Grows, ServerInv, ServerInv', NEW d \in Device, RowInv(d),
         known'[d] = known[d]
  PROVE  RowInv(d)'
BY RowStays DEF RowInv

LEMMA QueuesStay ==
  ASSUME Grows, NEW d \in Device, QueueInv(d), staged'[d] = staged[d],
         disk'[d] = disk[d], d \in hydrated' => d \in hydrated, policy' = policy
  PROVE  QueueInv(d)'
<1>1. QueueOK(staged[d])' /\ QueueOK(disk[d])'
  <2>1. \A q : QueueOK(q) => QueueOK(q)'
    BY QueueStays
  <2> DEFINE s == staged[d]
             k == disk[d]
  <2>2. QueueOK(s) /\ QueueOK(k) /\ staged'[d] = s /\ disk'[d] = k
    BY DEF QueueInv
  <2> QED
    BY <2>1, <2>2 DEF QueueOK, WriteOK, Named, Grows
<1> QED
  BY <1>1 DEF QueueInv, SameWrites

LEMMA CoversStays ==
  ASSUME Grows, ServerInv, ServerInv', NEW d \in Device, disk'[d] = disk[d],
         NEW q, Covers(d, q)
  PROVE  Covers(d, q)'
BY HadStays DEF Covers, In

LEMMA TaskStays ==
  ASSUME Grows, ServerInv, ServerInv', NEW d \in Device, TaskInv(d),
         task'[d] = task[d], staged'[d] = staged[d], disk'[d] = disk[d],
         d \in hydrated => d \in hydrated', policy' = policy
  PROVE  TaskInv(d)'
<1>1. CallOK(d) => CallOK(d)'
  BY DEF CallOK, Grows
<1>2. LaneOK(d) => LaneOK(d)'
  BY WriteStays DEF LaneOK
<1>3. PersistOK(d) => PersistOK(d)'
  BY WriteStays, QueueStays, CoversStays DEF PersistOK
<1> QED
  BY <1>1, <1>2, <1>3 DEF TaskInv

LEMMA DeviceStays ==
  ASSUME Grows, ServerInv, ServerInv', NEW d \in Device, DeviceInv(d),
         known'[d] = known[d], task'[d] = task[d], staged'[d] = staged[d],
         disk'[d] = disk[d], d \in hydrated <=> d \in hydrated', policy' = policy
  PROVE  DeviceInv(d)'
BY RowsStay, QueuesStay, TaskStays DEF DeviceInv

-----------------------------------------------------------------------------
(* What was accepted, and what was won *)

\* What the adapter of a device loses, the server has had.
KeepsAll ==
  \A d \in Device, u \in Update : In(u, disk[d]) => Had(u)' \/ In(u, disk'[d])

LEMMA KeptStep ==
  ASSUME CountInv, ServerInv, ServerInv', Grows, KeptInv, KeepsAll,
         \A u \in acked' \ acked :
           /\ u \in called'
           /\ CallOf[u].kind # "remove" => Had(u)' \/ In(u, disk'[CallOf[u].by])
  PROVE  KeptInv'
<1>1. acked' \subseteq called'
  BY DEF KeptInv, Grows
<1>2. ASSUME NEW u \in acked', CallOf[u].kind # "remove"
      PROVE  Had(u)' \/ In(u, disk'[CallOf[u].by])
  <2>1. CASE u \in acked
    <3>1. u \in Update
      BY <2>1 DEF KeptInv, CountInv
    <3>2. CASE Had(u)
      BY <3>1, <3>2, HadStays
    <3>3. CASE In(u, disk[CallOf[u].by])
      BY <3>1, <3>3, CallFacts DEF KeepsAll
    <3> QED
      BY <1>2, <2>1, <3>2, <3>3 DEF KeptInv
  <2> QED
    BY <1>2, <2>1
<1> QED
  BY <1>1, <1>2 DEF KeptInv, Had, In

LEMMA ClaimStep ==
  ASSUME CountInv, ServerInv, ServerInv', Grows, ClaimInv,
         \A u \in won' \ won :
           /\ u \in called' /\ Len(history'[CallOf[u].name]) > 0
           /\ Removed(CallOf[u].name) \/ history'[CallOf[u].name][1] = {u}
  PROVE  ClaimInv'
<1> SUFFICES ASSUME NEW u \in won'
             PROVE  /\ u \in called' /\ Len(history'[CallOf[u].name]) > 0
                    /\ \/ Removed(CallOf[u].name)'
                       \/ history'[CallOf[u].name][1] = {u}
  BY DEF ClaimInv, Removed
<1>1. \A n : Removed(n) => Removed(n)'
  BY DEF Removed, Grows
<1>2. CASE u \in won
  <2>1. u \in Update /\ CallOf[u].name \in Name
    BY <1>2, CallFacts DEF ClaimInv, CountInv
  <2>2. /\ Len(history[CallOf[u].name]) \in Nat
        /\ Len(history'[CallOf[u].name]) \in Nat
    BY <2>1 DEF ServerInv
  <2> QED
    BY <1>1, <1>2, <2>1, <2>2, SMTT(60) DEF ClaimInv, Grows
<1> QED
  BY <1>1, <1>2

-----------------------------------------------------------------------------
(* The write of a call *)

LEMMA OverlayIsQueued ==
  ASSUME NEW d \in Device, NEW n \in Name, QueueInv(d), Staged(d, n)
  PROVE  WriteOK(Overlay(d, n)) /\ Overlay(d, n).name = n
<1>1. QueuedAt(d, n) # {} /\ QueuedAt(d, n) \subseteq 1..Len(staged[d])
  BY DEF Staged, QueuedAt
<1>2. Len(staged[d]) \in Nat
  BY DEF QueueInv, QueueOK
<1>3. \E i \in QueuedAt(d, n) : \A j \in QueuedAt(d, n) : j <= i
  BY <1>1, <1>2, GreatestOf
<1>4. PICK i \in QueuedAt(d, n) : Overlay(d, n) = staged[d][i]
  BY <1>3 DEF Overlay
<1> QED
  BY <1>1, <1>4 DEF QueuedAt, QueueInv, QueueOK

LEMMA ItemIsOK ==
  ASSUME NEW d \in Device, NEW u \in Update, RowInv(d), QueueInv(d)
  PROVE  LET w == ItemOf(d, u)
         IN  /\ w \in Writes /\ w.id = u /\ w.name = CallOf[u].name
             /\ Named(w.value, w.name)
             /\ w.kind = "remove" => CallOf[u].kind = "remove" /\ w.value = {}
             /\ w.kind = "store" => u \in w.value
<1> DEFINE n == CallOf[u].name
           k == CallOf[u].kind
           base == Base(d, n)
           e == Expected(d, n)
<1>1. n \in Name
  BY CallFacts
<1>2. Named(base, n) /\ e \in Nat
  <2>1. CASE Staged(d, n)
    <3>1. WriteOK(Overlay(d, n)) /\ Overlay(d, n).name = n
      BY <1>1, <2>1, OverlayIsQueued
    <3>2. Named(Overlay(d, n).value, n) /\ Overlay(d, n).expected \in Nat
      BY <3>1 DEF WriteOK, Writes
    <3> QED
      BY <2>1, <3>2 DEF Base, Expected
  <2>2. CASE ~Staged(d, n)
    BY <1>1, <2>2 DEF Base, Expected, RowInv, IsReal, Rows
  <2> QED
    BY <2>1, <2>2
<1> DEFINE kind == IF k = "remove" THEN "remove" ELSE "store"
           value == CASE k = "update" -> base \cup {u}
                      [] k = "remove" -> {}
                      [] OTHER -> {u}
<1>3. ItemOf(d, u) = [id |-> u, name |-> n, kind |-> kind, value |-> value,
                      expected |-> e, rebased |-> FALSE]
  BY DEF ItemOf
<1>4. /\ Named(value, n)
      /\ kind = "remove" => k = "remove" /\ value = {}
      /\ kind = "store" => u \in value
      /\ kind \in {"store", "remove"}
  BY <1>2 DEF Named
<1> HIDE DEF kind, value, base, e
<1>5. value \subseteq Update
  BY <1>4 DEF Named
<1> QED
  BY <1>1, <1>2, <1>3, <1>4, <1>5 DEF Writes

-----------------------------------------------------------------------------
(* What comes to be on the lane *)

\* Steps of the lane of d leave the other devices alone.
Elsewhere(d) ==
  /\ policy' = policy
  /\ \A e \in Device \ {d} :
       /\ known'[e] = known[e] /\ staged'[e] = staged[e] /\ disk'[e] = disk[e]
       /\ task'[e] = task[e] /\ (e \in hydrated <=> e \in hydrated')

LEMMA Assemble ==
  ASSUME SaveInv, NEW d \in Device, Grows, ServerInv', Elsewhere(d), CountInv',
         ClaimInv', StrayInv', KeptInv', DeviceInv(d)'
  PROVE  SaveInv'
<1>1. \A e \in Device \ {d} : DeviceInv(e)'
  BY DeviceStays DEF Elsewhere, SaveInv
<1> QED
  BY <1>1 DEF SaveInv

LEMMA PersistTask ==
  ASSUME NEW w \in Writes, NEW q \in Seq(Writes), NEW a \in Nat,
         NEW then \in {"caller", "flush", "resend"}
  PROVE  \E t \in PersistTasks :
           /\ t = [step |-> "persist", write |-> w, attempt |-> a, next |-> q,
                   then |-> then]
           /\ t.write = w /\ t.next = q /\ t.then = then /\ t.attempt = a
<1> DEFINE t == [step |-> "persist", write |-> w, attempt |-> a, next |-> q,
                 then |-> then]
<1>1. /\ t \in PersistTasks
      /\ t.write = w /\ t.next = q /\ t.then = then /\ t.attempt = a
  BY DEF PersistTasks
<1>2. t = [step |-> "persist", write |-> w, attempt |-> a, next |-> q,
           then |-> then]
  OBVIOUS
<1> HIDE DEF t
<1> QED
  BY <1>1, <1>2

LEMMA LaneTask ==
  ASSUME NEW w \in Writes, NEW step \in {"recover", "send", "fetch"},
         NEW a \in Nat, NEW then \in {"caller", "flush"}
  PROVE  \E t \in LaneTasks :
           /\ t = [step |-> step, write |-> w, attempt |-> a, then |-> then]
           /\ t.write = w /\ t.step = step /\ t.then = then /\ t.attempt = a
<1> DEFINE t == [step |-> step, write |-> w, attempt |-> a, then |-> then]
<1>1. /\ t \in LaneTasks
      /\ t.write = w /\ t.step = step /\ t.then = then /\ t.attempt = a
  BY DEF LaneTasks
<1>2. t = [step |-> step, write |-> w, attempt |-> a, then |-> then]
  OBVIOUS
<1> HIDE DEF t
<1> QED
  BY <1>1, <1>2

LEMMA PersistIsOK ==
  ASSUME NEW d \in Device, policy' = policy, policy.queue, d \in hydrated',
         NEW t \in PersistTasks, task'[d] = t,
         WriteOK(t.write)', QueueOK(t.next)', Covers(d, t.next)',
         t.then = "caller" =>
           /\ CallOf[t.write.id].by = d
           /\ \E i \in 1..Len(t.next) : t.next[i] = t.write,
         t.then = "resend" => t.next # <<>> /\ t.next[1] = t.write
  PROVE  TaskInv(d)'
BY DEF TaskInv, PersistOK

LEMMA LaneIsOK ==
  ASSUME NEW d \in Device, policy' = policy, policy.queue => d \in hydrated',
         NEW t \in LaneTasks, task'[d] = t, WriteOK(t.write)',
         t.step = "fetch" => t.write.kind = "store",
         t.then = "caller" => t.step # "recover" /\ CallOf[t.write.id].by = d,
         t.then = "flush" =>
           policy.queue /\ staged'[d] # <<>> /\ staged'[d][1] = t.write
  PROVE  TaskInv(d)'
BY DEF TaskInv, LaneOK

LEMMA IdleIsOK ==
  ASSUME NEW d \in Device, task'[d] = Idle
  PROVE  TaskInv(d)'
BY DEF TaskInv

\* What is on the lane of a device, by its step.
LEMMA TaskCases ==
  ASSUME NEW d \in Device, TaskInv(d)
  PROVE  /\ task[d].step # "idle" /\ policy.queue => d \in hydrated
         /\ task[d].step \in {"read", "form"} => CallOK(d)
         /\ task[d].step \in {"recover", "send", "fetch"} => LaneOK(d)
         /\ task[d].step = "persist" => PersistOK(d)
<1>1. task[d] = Idle => task[d].step = "idle"
  BY DEF Idle
<1>2. CallOK(d) => task[d].step \in {"read", "form"}
  BY DEF CallOK, CallTasks
<1>3. LaneOK(d) => task[d].step \in {"recover", "send", "fetch"}
  BY DEF LaneOK, LaneTasks
<1>4. PersistOK(d) => task[d].step = "persist"
  BY DEF PersistOK, PersistTasks
<1> QED
  BY <1>1, <1>2, <1>3, <1>4 DEF TaskInv

\* A step of one device, from what it does to the server, to its own state and
\* to what was accepted.
LEMMA StepIsOK ==
  ASSUME SaveInv, NEW d \in Device, Elsewhere(d), Grows, ServerInv', CountInv',
         DeviceInv(d)', won' = won, \A w \in stray' \ stray : WriteOK(w),
         \A u \in Update : In(u, disk[d]) => Had(u)' \/ In(u, disk'[d]),
         \A u \in acked' \ acked :
           /\ u \in called'
           /\ CallOf[u].kind # "remove" => Had(u)' \/ In(u, disk'[CallOf[u].by])
  PROVE  SaveInv'
<1>1. KeepsAll
  BY DEF KeepsAll, Elsewhere
<1>2. KeptInv'
  BY <1>1, KeptStep DEF SaveInv
<1>3. ClaimInv'
  BY ClaimStep DEF SaveInv
<1>4. StrayInv'
  BY WriteStays DEF StrayInv, SaveInv
<1> QED
  BY <1>2, <1>3, <1>4, Assemble

\* A step that changes no more than the task of d.
LEMMA TaskStep ==
  ASSUME SaveInv, NEW d \in Device,
         UNCHANGED <<policy, history, live, known, staged, disk, hydrated,
                     stray, acked, won, signOuts>>,
         saveFaults' \in 0..saveFaults, called \subseteq called',
         called' \subseteq Update, NEW t, task' = [task EXCEPT ![d] = t],
         TaskInv(d)'
  PROVE  SaveInv'
<1>1. Grows /\ ServerInv'
  BY ServerStepIsOK DEF ServerStep, SaveInv
<1>2. CountInv'
  BY SaveAssumption DEF SaveInv, CountInv
<1>3. Elsewhere(d)
  BY DEF Elsewhere, SaveInv, CountInv
<1>4. RowInv(d)' /\ QueueInv(d)'
  BY <1>1, RowsStay, QueuesStay DEF SaveInv, DeviceInv
<1>5. \A u \in Update : In(u, disk[d]) => In(u, disk'[d])
  OBVIOUS
<1> QED
  BY <1>1, <1>2, <1>3, <1>4, <1>5, StepIsOK DEF DeviceInv

\* A write that waits behind the queue.
LEMMA Appended ==
  ASSUME SaveInv, NEW d \in Device, NEW w \in Writes, Grows,
         UNCHANGED <<policy, staged, disk, hydrated>>, policy.queue,
         d \in hydrated, WriteOK(w)', CallOf[w.id].by = d,
         PersistNext(d, w, Append(staged[d], w), "caller")
  PROVE  TaskInv(d)' /\ \E t : task' = [task EXCEPT ![d] = t]
<1>1. staged[d] \in Seq(Writes) /\ QueueOK(staged[d])
  BY DEF QueueInv, QueueOK, SaveInv, DeviceInv
<1>2. PICK q : /\ q = Append(staged[d], w)
               /\ q \in Seq(Writes) /\ Len(q) = Len(staged[d]) + 1
               /\ q # <<>> /\ q[Len(staged[d]) + 1] = w
               /\ \A i \in 1..Len(staged[d]) : q[i] = staged[d][i]
  <2> DEFINE q == Append(staged[d], w)
  <2>1. /\ q \in Seq(Writes) /\ Len(q) = Len(staged[d]) + 1
        /\ q # <<>> /\ q[Len(staged[d]) + 1] = w
        /\ \A i \in 1..Len(staged[d]) : q[i] = staged[d][i]
    BY <1>1, BehindAll
  <2>2. q = Append(staged[d], w)
    OBVIOUS
  <2> HIDE DEF q
  <2> QED
    BY <2>1, <2>2, SMTT(60)
<1>3. task' = [task EXCEPT ![d] = [step |-> "persist", write |-> w,
                 attempt |-> 0, next |-> q, then |-> "caller"]]
  BY <1>2 DEF PersistNext
<1>4. Len(staged[d]) \in Nat
  BY <1>1
<1>5. QueueOK(q)'
  <2>1. \A i \in 1..Len(staged[d]) : WriteOK(q[i])
    BY <1>1, <1>2 DEF QueueOK
  <2>2. \A i \in 1..Len(q) : i \in 1..Len(staged[d]) \/ q[i] = w
    BY <1>2, <1>4
  <2>3. \A i \in 1..Len(q) : WriteOK(q[i])'
    BY <2>1, <2>2, WriteStays
  <2> QED
    BY <1>2, <2>3 DEF QueueOK
<1>6. Covers(d, q)'
  <2>1. SameWrites(staged[d], disk[d])
    BY DEF QueueInv, SaveInv, DeviceInv
  <2>2. \A i \in 1..Len(disk[d]) : i \in 1..Len(q) /\ disk[d][i].value \subseteq q[i].value
    BY <1>2, <1>4, <2>1 DEF SameWrites
  <2> QED
    BY <2>2 DEF Covers, In
<1>7. \E i \in 1..Len(q) : q[i] = w
  BY <1>2, <1>4
<1>8. PICK t \in PersistTasks :
        /\ t = [step |-> "persist", write |-> w, attempt |-> 0, next |-> q,
                then |-> "caller"]
        /\ t.write = w /\ t.next = q /\ t.then = "caller"
  <2>1. q \in Seq(Writes) /\ w \in Writes
    BY <1>2
  <2>2. "caller" \in {"caller", "flush", "resend"} /\ 0 \in Nat
    OBVIOUS
  <2> QED
    BY ONLY <2>1, <2>2, PersistTask
<1>9. task'[d] = t
  BY <1>3, <1>8 DEF SaveInv, CountInv
<1>10. TaskInv(d)'
  BY <1>5, <1>6, <1>7, <1>8, <1>9, PersistIsOK
<1> QED
  BY <1>3, <1>10

LEMMA WriteTask ==
  ASSUME SaveInv, NEW d \in Device, NEW u \in Update, Grows,
         UNCHANGED <<policy, history, known, staged, disk, hydrated>>,
         u \in called', CallOf[u].by = d, policy.queue => d \in hydrated,
         Write(d, u)
  PROVE  TaskInv(d)' /\ \E t : task' = [task EXCEPT ![d] = t]
<1>1. RowInv(d) /\ QueueInv(d) /\ DOMAIN task = Device
  BY DEF SaveInv, DeviceInv, CountInv
<1>2. PICK w : /\ w = ItemOf(d, u) /\ w \in Writes /\ w.id = u
               /\ w.name = CallOf[u].name /\ Named(w.value, w.name)
               /\ w.kind = "remove" => CallOf[u].kind = "remove" /\ w.value = {}
               /\ w.kind = "store" => u \in w.value
  BY <1>1, ItemIsOK
<1>3. WriteOK(w)'
  BY <1>2 DEF WriteOK, Named
<1>4. CASE policy.queue /\ staged[d] # <<>>
  <2>1. PersistNext(d, w, Append(staged[d], w), "caller")
    BY <1>2, <1>4 DEF Write
  <2> QED
    BY <1>2, <1>3, <1>4, <2>1, Appended
<1>5. CASE ~(policy.queue /\ staged[d] # <<>>)
  <2>1. task' = [task EXCEPT ![d] = [step |-> "send", write |-> w,
                   attempt |-> 0, then |-> "caller"]]
    BY <1>2, <1>5 DEF Write, OnLane
  <2>2. PICK t \in LaneTasks :
          /\ t = [step |-> "send", write |-> w, attempt |-> 0, then |-> "caller"]
          /\ t.write = w /\ t.step = "send" /\ t.then = "caller"
    BY <1>2, LaneTask
  <2>3. task'[d] = t
    BY <1>1, <2>1, <2>2
  <2>4. TaskInv(d)'
    BY <1>2, <1>3, <2>2, <2>3, LaneIsOK
  <2> QED
    BY <2>1, <2>4
<1> QED
  BY <1>4, <1>5

-----------------------------------------------------------------------------
(* The steps that send nothing *)

LEMMA NothingSent ==
  ASSUME SaveInv, UNCHANGED <<history, live>>, called \subseteq called'
  PROVE  Grows /\ ServerInv'
BY ServerStepIsOK DEF ServerStep, SaveInv

LEMMA CallStep ==
  ASSUME SaveInv, NEW d \in Device, NEW u \in Update, Call(d, u)
  PROVE  SaveInv'
<1>1. /\ CallOf[u].by = d
      /\ policy.queue => d \in hydrated
      /\ called' = called \cup {u}
      /\ UNCHANGED <<policy, history, live, known, staged, disk, hydrated, stray,
                     acked, won, saveFaults, signOuts>>
  BY DEF Call
<1>2. Grows
  BY <1>1, NothingSent
<1>3. TaskInv(d)' /\ \E t : task' = [task EXCEPT ![d] = t]
  <2>1. CASE MustRead(d, u)
    <3> DEFINE t == [step |-> "read", id |-> u]
    <3>1. task' = [task EXCEPT ![d] = t]
      BY <2>1 DEF Call
    <3>2. t \in CallTasks /\ t.id = u
      BY DEF CallTasks
    <3> HIDE DEF t
    <3>3. task'[d] = t
      BY <3>1 DEF SaveInv, CountInv
    <3>4. TaskInv(d)'
      BY <1>1, <3>2, <3>3 DEF TaskInv, CallOK
    <3> QED
      BY <3>1, <3>4
  <2>2. CASE ~MustRead(d, u)
    <3>1. Write(d, u)
      BY <2>2 DEF Call
    <3> QED
      BY <1>1, <1>2, <3>1, WriteTask
  <2> QED
    BY <2>1, <2>2
<1>4. saveFaults' \in 0..saveFaults /\ called' \subseteq Update
  BY <1>1, SaveAssumption DEF SaveInv, CountInv
<1> QED
  BY <1>1, <1>3, <1>4, TaskStep

LEMMA FormStep ==
  ASSUME SaveInv, NEW d \in Device, Form(d)
  PROVE  SaveInv'
<1>1. /\ task[d].step = "form"
      /\ Write(d, task[d].id)
      /\ UNCHANGED <<policy, history, live, known, staged, disk, hydrated, stray,
                     called, acked, won, saveFaults, signOuts>>
  BY DEF Form
<1>2. Grows
  BY <1>1, NothingSent
<1>3. CallOK(d) /\ (policy.queue => d \in hydrated)
  BY <1>1, TaskCases DEF SaveInv, DeviceInv
<1>4. PICK u \in Update : u = task[d].id /\ u \in called /\ CallOf[u].by = d
  BY <1>3 DEF CallOK, CallTasks
<1>5. Write(d, u)
  BY <1>1, <1>4
<1>6. TaskInv(d)' /\ \E t : task' = [task EXCEPT ![d] = t]
  BY <1>1, <1>2, <1>3, <1>4, <1>5, WriteTask
<1>7. saveFaults' \in 0..saveFaults /\ called' \subseteq Update
  BY <1>1, SaveAssumption DEF SaveInv, CountInv
<1> QED
  BY <1>1, <1>6, <1>7, TaskStep

\* The lane is free again, and nothing else has changed.
LEMMA DoneStep ==
  ASSUME SaveInv, NEW d \in Device, Done(d),
         UNCHANGED <<policy, history, live, known, staged, disk, hydrated, stray,
                     called, acked, won, signOuts>>,
         saveFaults' \in 0..saveFaults
  PROVE  SaveInv'
<1>1. task' = [task EXCEPT ![d] = Idle]
  BY DEF Done
<1>2. task'[d] = Idle
  BY <1>1 DEF SaveInv, CountInv
<1>3. called' \subseteq Update
  BY DEF SaveInv, CountInv
<1> QED
  BY <1>1, <1>2, <1>3, IdleIsOK, TaskStep

LEMMA FaultSpent ==
  ASSUME SaveInv
  PROVE  /\ Lost => saveFaults' \in 0..saveFaults
         /\ UNCHANGED saveFaults => saveFaults' \in 0..saveFaults
BY SaveAssumption DEF SaveInv, CountInv, Lost

LEMMA PersistFailsStep ==
  ASSUME SaveInv, NEW d \in Device, PersistFails(d)
  PROVE  SaveInv'
BY FaultSpent, DoneStep DEF PersistFails

LEMMA SendConflictStep ==
  ASSUME SaveInv, NEW d \in Device, SendConflict(d)
  PROVE  SaveInv'
<1>1. /\ task[d].step = "send"
      /\ \/ /\ task' = [task EXCEPT ![d].step = "fetch"]
            /\ task[d].write.kind = "store"
         \/ Done(d)
      /\ UNCHANGED <<policy, history, live, known, staged, disk, hydrated, stray,
                     called, acked, won, saveFaults, signOuts>>
  BY DEF SendConflict
<1>2. CASE Done(d)
  BY <1>1, <1>2, FaultSpent, DoneStep
<1>3. CASE /\ task' = [task EXCEPT ![d].step = "fetch"]
           /\ task[d].write.kind = "store"
  <2>1. LaneOK(d) /\ (policy.queue => d \in hydrated) /\ DOMAIN task = Device
    BY <1>1, TaskCases DEF SaveInv, DeviceInv, CountInv
  <2>2. PICK t : t = [task[d] EXCEPT !.step = "fetch"]
    OBVIOUS
  <2>3. /\ t \in LaneTasks /\ t.write = task[d].write /\ t.then = task[d].then
        /\ t.step = "fetch"
    BY <2>1, <2>2 DEF LaneOK, LaneTasks
  <2>4. task' = [task EXCEPT ![d] = t] /\ task'[d] = t
    BY <1>3, <2>1, <2>2
  <2>5. Grows
    BY <1>1, NothingSent
  <2>6. WriteOK(t.write)'
    BY <2>1, <2>3, <2>5, WriteStays DEF LaneOK
  <2>7. TaskInv(d)'
    BY <1>1, <1>3, <2>1, <2>3, <2>4, <2>6, LaneIsOK DEF LaneOK
  <2> QED
    BY <1>1, <2>4, <2>7, FaultSpent, TaskStep DEF SaveInv, CountInv
<1> QED
  BY <1>1, <1>2, <1>3

\* A flush starts with the head of the queue.
LEMMA FlushIsOK ==
  ASSUME NEW d \in Device, policy' = policy, policy.queue, d \in hydrated',
         NEW q \in Seq(Writes), q # <<>>, QueueOK(q)', staged'[d] = q,
         task'[d] = FlushHead(q)
  PROVE  TaskInv(d)'
<1>1. PICK w \in Writes : w = Head(q) /\ w = q[1] /\ 1 \in 1..Len(q)
  OBVIOUS
<1>2. "recover" \in {"recover", "send", "fetch"} /\ 0 \in Nat
      /\ "flush" \in {"caller", "flush"}
  OBVIOUS
<1>3. PICK t \in LaneTasks :
        /\ t = [step |-> "recover", write |-> w, attempt |-> 0, then |-> "flush"]
        /\ t.write = w /\ t.step = "recover" /\ t.then = "flush"
  BY ONLY <1>2, LaneTask, w \in Writes
<1>4. task'[d] = t
  BY <1>1, <1>3 DEF FlushHead, OnLane
<1>5. WriteOK(w)'
  BY <1>1 DEF QueueOK
<1> QED
  BY <1>1, <1>3, <1>4, <1>5, LaneIsOK

LEMMA FlushStep ==
  ASSUME SaveInv, NEW d \in Device, Flush(d)
  PROVE  SaveInv'
<1>1. /\ policy.queue /\ d \in hydrated /\ staged[d] # <<>>
      /\ task' = [task EXCEPT ![d] = FlushHead(staged[d])]
      /\ UNCHANGED <<policy, history, live, known, staged, disk, hydrated, stray,
                     called, acked, won, saveFaults, signOuts>>
  BY DEF Flush
<1>2. Grows
  BY <1>1, NothingSent
<1>3. PICK q : q = staged[d] /\ q \in Seq(Writes) /\ QueueOK(q) /\ q # <<>>
  BY <1>1 DEF SaveInv, DeviceInv, QueueInv, QueueOK
<1>4. QueueOK(q)'
  BY <1>2, <1>3, QueueStays
<1>5. staged'[d] = q /\ task'[d] = FlushHead(q)
  BY <1>1, <1>3 DEF SaveInv, CountInv
<1>6. TaskInv(d)'
  BY <1>1, <1>3, <1>4, <1>5, FlushIsOK
<1> QED
  BY <1>1, <1>6, FaultSpent, TaskStep DEF SaveInv, CountInv

LEMMA HydrateStep ==
  ASSUME SaveInv, NEW d \in Device, Hydrate(d)
  PROVE  SaveInv'
<1>1. /\ task[d] = Idle /\ policy.queue
      /\ hydrated' = hydrated \cup {d}
      /\ staged' = [staged EXCEPT ![d] = disk[d]]
      /\ UNCHANGED <<policy, history, live, known, disk, task, stray, called,
                     acked, won, saveFaults, signOuts>>
  BY DEF Hydrate
<1>2. Grows /\ ServerInv'
  BY <1>1, NothingSent
<1>3. staged'[d] = disk[d]
  BY <1>1 DEF SaveInv, CountInv
<1>4. CountInv'
  BY <1>1 DEF SaveInv, CountInv
<1>5. Elsewhere(d)
  BY <1>1 DEF Elsewhere, SaveInv, CountInv
<1>6. QueueOK(disk[d])
  BY DEF SaveInv, DeviceInv, QueueInv
<1>7. QueueInv(d)'
  <2>1. QueueOK(disk[d])'
    BY <1>1, <1>6 DEF QueueOK, WriteOK
  <2> QED
    BY <1>1, <1>3, <2>1 DEF QueueInv, SameWrites
<1>8. TaskInv(d)'
  BY <1>1, IdleIsOK
<1>9. RowInv(d)'
  BY <1>1, <1>2, RowsStay DEF SaveInv, DeviceInv
<1>10. \A u \in Update : In(u, disk[d]) => In(u, disk'[d])
  BY <1>1
<1> QED
  BY <1>1, <1>2, <1>4, <1>5, <1>7, <1>8, <1>9, <1>10, StepIsOK DEF DeviceInv

LEMMA RowIsReal ==
  ASSUME ServerInv, NEW n \in Name
  PROVE  IsReal(Row(n), n)
<1>1. Len(history[n]) \in Nat
  BY DEF ServerInv
<1>2. CASE n \in live
  <2>1. Len(history[n]) \in 1..Len(history[n])
    BY <1>1, <1>2 DEF ServerInv
  <2> QED
    BY <1>2, <2>1 DEF ServerInv, IsReal, Row, Rows, Version, Named
<1>3. CASE n \notin live
  BY <1>3 DEF IsReal, Row, Rows, Named
<1> QED
  BY <1>2, <1>3

\* A row that is read, or written, replaces what the device believed of it.
LEMMA RowReplaced ==
  ASSUME SaveInv, NEW d \in Device, NEW n \in Name, NEW k, Grows, ServerInv',
         known' = [known EXCEPT ![d][n] = k], IsReal(k, n)'
  PROVE  /\ RowInv(d)' /\ known' \in [Device -> [Name -> Rows]]
         /\ \A e \in Device \ {d} : known'[e] = known[e]
<1>1. known \in [Device -> [Name -> Rows]] /\ k \in Rows
  BY DEF SaveInv, CountInv, IsReal
<1>2. /\ known' \in [Device -> [Name -> Rows]]
      /\ \A e \in Device \ {d} : known'[e] = known[e]
      /\ known'[d][n] = k
      /\ \A m \in Name : m # n => known'[d][m] = known[d][m]
  BY <1>1
<1>3. ASSUME NEW m \in Name, m # n PROVE IsReal(known[d][m], m)'
  <2>1. PICK r : r = known[d][m]
    OBVIOUS
  <2>2. IsReal(r, m)'
    BY <2>1, RowStays DEF SaveInv, DeviceInv, RowInv
  <2>3. known'[d][m] = r
    BY <1>2, <1>3, <2>1
  <2> QED
    BY <2>2, <2>3
<1>4. ASSUME NEW m \in Name PROVE IsReal(known[d][m], m)'
  <2>1. CASE m = n
    BY <1>2, <2>1, SMTT(60)
  <2> QED
    BY <1>3, <2>1
<1> QED
  BY <1>2, <1>4 DEF RowInv

LEMMA ReadStep ==
  ASSUME SaveInv, NEW d \in Device, Read(d)
  PROVE  SaveInv'
<1>1. /\ task[d].step = "read"
      /\ UNCHANGED <<policy, history, live, staged, disk, hydrated, stray,
                     called, acked, won, signOuts>>
  BY DEF Read
<1>2. Grows /\ ServerInv'
  BY <1>1, NothingSent
<1>3. CallOK(d) /\ (policy.queue => d \in hydrated) /\ DOMAIN task = Device
  BY <1>1, TaskCases DEF SaveInv, DeviceInv, CountInv
<1>4. PICK u \in Update : u = task[d].id /\ u \in called /\ CallOf[u].by = d
  BY <1>3 DEF CallOK, CallTasks
<1>5. CallOf[u].name \in Name
  BY CallFacts
<1> DEFINE t == [step |-> "form", id |-> u]
<1>6. ASSUME task' = [task EXCEPT ![d] = t]
      PROVE  TaskInv(d)'
  <2>1. t \in CallTasks /\ t.id = u
    BY DEF CallTasks
  <2> HIDE DEF t
  <2>2. task'[d] = t
    BY <1>3, <1>6
  <2> QED
    BY <1>1, <1>3, <1>4, <2>1, <2>2 DEF TaskInv, CallOK
<1>7. CASE /\ known' = [known EXCEPT ![d][CallOf[u].name] = Row(CallOf[u].name)]
           /\ task' = [task EXCEPT ![d] = t]
           /\ UNCHANGED saveFaults
  <2>1. PICK k : k = Row(CallOf[u].name)
    OBVIOUS
  <2>2. IsReal(k, CallOf[u].name)'
    BY <1>2, <1>5, <2>1, RowIsReal, RowStays DEF SaveInv
  <2>3. /\ RowInv(d)' /\ known' \in [Device -> [Name -> Rows]]
        /\ \A e \in Device \ {d} : known'[e] = known[e]
    BY <1>2, <1>5, <1>7, <2>1, <2>2, RowReplaced
  <2>4. CountInv'
    BY <1>1, <1>7, <2>3 DEF SaveInv, CountInv
  <2>5. QueueInv(d)'
    BY <1>1, <1>2, QueuesStay DEF SaveInv, DeviceInv
  <2>6. Elsewhere(d)
    BY <1>1, <1>3, <1>7, <2>3 DEF Elsewhere
  <2>7. \A v \in Update : In(v, disk[d]) => In(v, disk'[d])
    BY <1>1
  <2> QED
    BY <1>1, <1>2, <1>6, <1>7, <2>3, <2>4, <2>5, <2>6, <2>7, StepIsOK DEF DeviceInv
<1>8. CASE Lost /\ UNCHANGED known
  <2>1. \/ task' = [task EXCEPT ![d] = t]
        \/ Done(d)
    BY <1>1, <1>4, <1>8 DEF Read, Done
  <2>2. CASE task' = [task EXCEPT ![d] = t]
    <3>1. PICK s : s = t
      OBVIOUS
    <3>2. task' = [task EXCEPT ![d] = s]
      BY <2>2, <3>1
    <3> HIDE DEF t
    <3> QED
      BY <1>1, <1>6, <1>8, <2>2, <3>2, FaultSpent, TaskStep DEF SaveInv, CountInv
  <2>3. CASE Done(d)
    BY <1>1, <1>8, <2>3, FaultSpent, DoneStep
  <2> QED
    BY <2>1, <2>2, <2>3, SMTT(60)
<1> QED
  BY <1>4, <1>7, <1>8 DEF Read

\* A write that could not be made waits behind the queue, or fails.
LEMMA UnavailableIsOK ==
  ASSUME SaveInv, NEW d \in Device, Grows, LaneOK(d),
         policy.queue => d \in hydrated, Unavailable(d),
         UNCHANGED <<policy, staged, disk, hydrated>>
  PROVE  TaskInv(d)' /\ \E t : task' = [task EXCEPT ![d] = t]
<1>1. CASE task[d].then = "caller" /\ policy.queue
  <2>1. PICK w \in Writes : w = task[d].write /\ WriteOK(w) /\ CallOf[w.id].by = d
    BY <1>1 DEF LaneOK, LaneTasks
  <2>2. WriteOK(w)'
    BY <2>1, WriteStays
  <2>3. PersistNext(d, w, Append(staged[d], w), "caller")
    BY <1>1, <2>1 DEF Unavailable
  <2> QED
    BY <1>1, <2>1, <2>2, <2>3, Appended
<1>2. CASE ~(task[d].then = "caller" /\ policy.queue)
  <2>1. task' = [task EXCEPT ![d] = Idle]
    BY <1>2 DEF Unavailable, Done
  <2>2. task'[d] = Idle
    BY <2>1 DEF SaveInv, CountInv
  <2> QED
    BY <2>1, <2>2, IdleIsOK
<1> QED
  BY <1>1, <1>2

\* The head of the queue was done: without it, the queue covers the adapter.
LEMMA SettledIsCovered ==
  ASSUME SaveInv, NEW d \in Device, Grows, ServerInv', NEW w \in Writes,
         NEW v \in Nat, LaneOK(d), task[d].write = w, task[d].then = "flush",
         policy.queue, d \in hydrated, WriteOK(w)',
         UNCHANGED <<policy, staged, disk, hydrated>>,
         \A u \in w.value : Had(u)',
         PersistNext(d, w, Rebase(Tail(staged[d]), w.name, v), "flush")
  PROVE  TaskInv(d)' /\ \E t : task' = [task EXCEPT ![d] = t]
<1>1. PICK s : s = staged[d] /\ s \in Seq(Writes) /\ s # <<>> /\ QueueOK(s)
               /\ s[1] = w /\ SameWrites(s, disk[d])
  BY DEF SaveInv, DeviceInv, QueueInv, QueueOK, LaneOK
<1>2. w.name \in Name
  BY SMTT(60) DEF Writes
<1>3. PICK r : r = Tail(s) /\ r \in Seq(Writes) /\ Len(r) = Len(s) - 1
               /\ \A i \in 1..Len(r) : r[i] = s[i + 1] /\ i + 1 \in 1..Len(s)
  <2> DEFINE r == Tail(s)
  <2>1. /\ r \in Seq(Writes) /\ Len(r) = Len(s) - 1
        /\ \A i \in 1..Len(r) : r[i] = s[i + 1] /\ i + 1 \in 1..Len(s)
    BY <1>1, WithoutFirst
  <2>2. r = Tail(s)
    OBVIOUS
  <2> HIDE DEF r
  <2> QED
    BY <2>1, <2>2
<1>4. PICK q : /\ q = Rebase(r, w.name, v) /\ q \in Seq(Writes) /\ Len(q) = Len(r)
               /\ \A i \in 1..Len(r) :
                    \E x \in Writes :
                      /\ q[i] = x /\ x.id = r[i].id /\ x.name = r[i].name
                      /\ x.kind = r[i].kind /\ x.value = r[i].value
  <2>1. \A x \in Seq(Writes), n \in Name :
          /\ Rebase(x, n, v) \in Seq(Writes) /\ Len(Rebase(x, n, v)) = Len(x)
          /\ \A i \in 1..Len(x) :
               \E y \in Writes :
                 /\ Rebase(x, n, v)[i] = y /\ y.id = x[i].id /\ y.name = x[i].name
                 /\ y.kind = x[i].kind /\ y.value = x[i].value
    BY RebaseKeeps
  <2>2. r \in Seq(Writes)
    BY <1>3
  <2> QED
    BY ONLY <1>2, <2>1, <2>2
<1>5. \A i \in 1..Len(q) : WriteOK(q[i])
  <2> SUFFICES ASSUME NEW i \in 1..Len(q) PROVE WriteOK(q[i])
    OBVIOUS
  <2>1. PICK y : y = r[i] /\ WriteOK(y)
    BY <1>1, <1>3, <1>4 DEF QueueOK
  <2>2. PICK x \in Writes : /\ q[i] = x /\ x.id = y.id /\ x.name = y.name
                            /\ x.kind = y.kind /\ x.value = y.value
    BY <1>4, <2>1
  <2> QED
    BY <2>1, <2>2 DEF WriteOK
<1>6. QueueOK(q)'
  BY <1>4, <1>5, QueueStays DEF QueueOK
<1>7. Covers(d, q)'
  <2> SUFFICES ASSUME NEW u \in Update, In(u, disk[d])
               PROVE  Had(u)' \/ In(u, q)
    BY DEF Covers, In
  <2>1. PICK i \in 1..Len(disk[d]) : u \in disk[d][i].value
    BY DEF In
  <2>2. i \in 1..Len(s) /\ u \in s[i].value /\ Len(s) \in Nat
    BY <1>1, <2>1 DEF SameWrites
  <2>3. CASE i = 1
    BY <1>1, <2>2, <2>3
  <2>4. CASE i # 1
    <3>1. i - 1 \in 1..Len(r) /\ (i - 1) + 1 = i
      BY <1>3, <2>2, <2>4
    <3>2. PICK j \in 1..Len(r) : j + 1 = i
      BY <3>1
    <3>3. u \in q[j].value /\ j \in 1..Len(q)
      BY <1>3, <1>4, <2>2, <3>2
    <3> QED
      BY <3>3 DEF In
  <2> QED
    BY <2>3, <2>4
<1>8. "flush" \in {"caller", "flush", "resend"} /\ 0 \in Nat /\ q \in Seq(Writes)
  BY <1>4
<1>9. PICK t \in PersistTasks :
        /\ t = [step |-> "persist", write |-> w, attempt |-> 0, next |-> q,
                then |-> "flush"]
        /\ t.write = w /\ t.next = q /\ t.then = "flush"
  BY ONLY <1>8, PersistTask, w \in Writes
<1>10. task' = [task EXCEPT ![d] = t]
  BY <1>1, <1>3, <1>4, <1>9 DEF PersistNext
<1>11. task'[d] = t
  BY <1>10 DEF SaveInv, CountInv
<1>12. TaskInv(d)'
  BY <1>6, <1>7, <1>9, <1>11, PersistIsOK
<1> QED
  BY <1>10, <1>12

-----------------------------------------------------------------------------
(* Requests *)

\* A step of the lane that leaves the queue, the adapter and the strays alone.
LEMMA LaneStep ==
  ASSUME SaveInv, NEW d \in Device, Grows, ServerInv',
         UNCHANGED <<policy, staged, disk, hydrated, stray, called, won, signOuts>>,
         saveFaults' \in 0..saveFaults,
         TaskInv(d)' /\ \E t : task' = [task EXCEPT ![d] = t],
         \/ UNCHANGED known
         \/ \E n \in Name, k \in Rows :
              known' = [known EXCEPT ![d][n] = k] /\ IsReal(k, n)',
         \A u \in acked' \ acked :
           /\ u \in called
           /\ CallOf[u].kind # "remove" => Had(u)' \/ In(u, disk[CallOf[u].by])
  PROVE  SaveInv'
<1>1. /\ RowInv(d)' /\ known' \in [Device -> [Name -> Rows]]
      /\ \A e \in Device \ {d} : known'[e] = known[e]
  <2>1. CASE UNCHANGED known
    BY <2>1, RowsStay DEF SaveInv, DeviceInv, CountInv
  <2>2. CASE \E n \in Name, k \in Rows :
               known' = [known EXCEPT ![d][n] = k] /\ IsReal(k, n)'
    BY <2>2, RowReplaced
  <2> QED
    BY <2>1, <2>2
<1>2. QueueInv(d)'
  BY QueuesStay DEF SaveInv, DeviceInv
<1>3. CountInv'
  <2>1. saveFaults' \in 0..policy.faults
    BY SaveAssumption DEF SaveInv, CountInv
  <2>2. DOMAIN task' = Device
    BY DEF SaveInv, CountInv
  <2> QED
    BY <1>1, <2>1, <2>2 DEF SaveInv, CountInv
<1>4. Elsewhere(d)
  BY <1>1 DEF Elsewhere, SaveInv, CountInv
<1>5. \A u \in Update : In(u, disk[d]) => In(u, disk'[d])
  OBVIOUS
<1> QED
  BY <1>1, <1>2, <1>3, <1>4, <1>5, StepIsOK DEF DeviceInv

\* What a store has written was had from then on.
LEMMA StoredIsHad ==
  ASSUME ServerInv, NEW n \in Name, NEW v \in SUBSET Update, Named(v, n),
         Stores(n, v), NEW u \in v
  PROVE  Had(u)'
<1>1. CallOf[u].name = n
  BY DEF Named
<1>2. Len(history[n]) \in Nat
  BY DEF ServerInv
<1>3. Len(history'[n]) = Len(history[n]) + 1 /\ history'[n][Len(history[n]) + 1] = v
  BY OneMore
<1> QED
  BY <1>1, <1>2, <1>3 DEF Had

\* What the answer to a write is.
LEMMA SettleIsOK ==
  ASSUME SaveInv, NEW d \in Device, Grows, ServerInv', LaneOK(d),
         policy.queue => d \in hydrated,
         UNCHANGED <<policy, staged, disk, hydrated>>, NEW w \in Writes,
         w = task[d].write, NEW v \in Nat, \A u \in w.value : Had(u)',
         Settle(d, w, v)
  PROVE  /\ TaskInv(d)' /\ \E t : task' = [task EXCEPT ![d] = t]
         /\ \A u \in acked' \ acked :
              /\ u \in called
              /\ CallOf[u].kind # "remove" => Had(u)'
<1>1. WriteOK(w) /\ WriteOK(w)'
  BY WriteStays DEF LaneOK
<1>2. CASE task[d].then = "caller"
  <2>1. task' = [task EXCEPT ![d] = Idle] /\ acked' = acked \cup {w.id}
    BY <1>2 DEF Settle, Done
  <2>2. task'[d] = Idle
    BY <2>1 DEF SaveInv, CountInv
  <2>3. w.kind \in {"store", "remove"}
    BY DEF Writes
  <2>4. w.id \in called /\ (CallOf[w.id].kind # "remove" => Had(w.id)')
    BY <1>1, <2>3 DEF WriteOK
  <2>5. TaskInv(d)'
    BY <2>2, IdleIsOK
  <2> QED
    BY <2>1, <2>4, <2>5
<1>3. CASE task[d].then # "caller"
  <2>1. task[d].then = "flush" /\ policy.queue
    BY <1>3 DEF LaneOK, LaneTasks
  <2>2. /\ PersistNext(d, w, Rebase(Tail(staged[d]), w.name, v), "flush")
        /\ UNCHANGED acked
    BY <1>3 DEF Settle
  <2> QED
    BY <1>1, <2>1, <2>2, SettledIsCovered
<1> QED
  BY <1>2, <1>3

LEMMA SendOkStep ==
  ASSUME SaveInv, NEW d \in Device, SendOk(d)
  PROVE  SaveInv'
<1>1. /\ task[d].step = "send"
      /\ UNCHANGED <<policy, staged, disk, hydrated, stray, called, won,
                     saveFaults, signOuts>>
  BY DEF SendOk
<1>2. LaneOK(d) /\ (policy.queue => d \in hydrated) /\ DOMAIN task = Device
  BY <1>1, TaskCases DEF SaveInv, DeviceInv, CountInv
<1>3. PICK w \in Writes : w = task[d].write /\ WriteOK(w)
  BY <1>2 DEF LaneOK, LaneTasks
<1>4. w.name \in Name /\ w.value \subseteq Update /\ Named(w.value, w.name)
      /\ w.kind \in {"store", "remove"}
  BY <1>3 DEF Writes, WriteOK
<1>5. CASE w.kind = "store"
  <2>1. /\ StoreRow(w)
        /\ known' = [known EXCEPT ![d][w.name] =
             [read |-> TRUE, value |-> w.value, version |-> Version(w.name) + 1]]
        /\ Settle(d, w, Version(w.name) + 1)
    BY <1>3, <1>5 DEF SendOk, Served
  <2>2. Stores(w.name, w.value)
    BY <2>1 DEF StoreRow, Stores
  <2>3. Grows /\ ServerInv'
    BY <1>1, <1>4, <2>2, ServerStepIsOK DEF ServerStep, SaveInv
  <2>4. \A u \in w.value : Had(u)'
    BY <1>4, <2>2, StoredIsHad DEF SaveInv
  <2>5. Version(w.name) + 1 \in Nat
    BY <1>4, HistoryTypes DEF Version, SaveInv
  <2>6. /\ TaskInv(d)' /\ \E t : task' = [task EXCEPT ![d] = t]
        /\ \A u \in acked' \ acked :
             u \in called /\ (CallOf[u].kind # "remove" => Had(u)')
    BY <1>1, <1>2, <1>3, <2>1, <2>3, <2>4, <2>5, SettleIsOK
  <2>7. \E k \in Rows :
          known' = [known EXCEPT ![d][w.name] = k] /\ IsReal(k, w.name)'
    <3>1. PICK k : k = [read |-> TRUE, value |-> w.value,
                        version |-> Len(history[w.name]) + 1]
      OBVIOUS
    <3>2. k \in Rows /\ k.value = w.value /\ k.version = Len(history[w.name]) + 1
      BY <1>4, <2>5, <3>1 DEF Rows, Version
    <3>3. /\ Len(history'[w.name]) = Len(history[w.name]) + 1
          /\ history'[w.name][Len(history[w.name]) + 1] = w.value
      BY <1>4, <2>2, OneMore DEF SaveInv
    <3>4. IsReal(k, w.name)'
      BY <1>4, <2>5, <3>2, <3>3 DEF IsReal, Named, Version
    <3>5. known' = [known EXCEPT ![d][w.name] = k]
      BY <2>1, <3>1 DEF Version
    <3> QED
      BY <3>2, <3>4, <3>5
  <2> QED
    BY <1>1, <1>4, <2>3, <2>6, <2>7, FaultSpent, LaneStep
<1>6. CASE w.kind = "remove"
  <2>1. /\ DeleteRow(w) \/ UNCHANGED <<history, live>>
        /\ known' = [known EXCEPT ![d][w.name] = [NotRead EXCEPT !.read = TRUE]]
        /\ Settle(d, w, [NotRead EXCEPT !.read = TRUE].version)
    BY <1>3, <1>6 DEF SendOk, Served
  <2>2. Removed(w.name) /\ w.value = {}
    BY <1>3, <1>6 DEF WriteOK, Removed
  <2>3. Grows /\ ServerInv'
    BY <1>1, <1>4, <2>1, <2>2, ServerStepIsOK DEF ServerStep, DeleteRow, SaveInv
  <2>4. PICK k : k = [NotRead EXCEPT !.read = TRUE]
    OBVIOUS
  <2>5. k \in Rows /\ k.value = {} /\ k.version = 0
    BY <2>4 DEF Rows, NotRead
  <2>6. Settle(d, w, 0)
    BY <2>1, <2>4, <2>5
  <2>7. /\ TaskInv(d)' /\ \E t : task' = [task EXCEPT ![d] = t]
        /\ \A u \in acked' \ acked :
             u \in called /\ (CallOf[u].kind # "remove" => Had(u)')
    BY <1>1, <1>2, <1>3, <2>2, <2>3, <2>6, SettleIsOK
  <2>8. IsReal(k, w.name)'
    BY <2>5 DEF IsReal, Named
  <2>9. \E n \in Name, l \in Rows : known' = [known EXCEPT ![d][n] = l] /\ IsReal(l, n)'
    BY <1>4, <2>1, <2>4, <2>5, <2>8
  <2> QED
    BY <1>1, <2>3, <2>7, <2>9, FaultSpent, LaneStep
<1> QED
  BY <1>4, <1>5, <1>6

LEMMA RecoverStep ==
  ASSUME SaveInv, NEW d \in Device, Recover(d)
  PROVE  SaveInv'
<1>1. /\ task[d].step = "recover"
      /\ UNCHANGED <<policy, history, live, staged, disk, hydrated, stray, called,
                     won, signOuts>>
  BY DEF Recover
<1>2. Grows /\ ServerInv'
  BY <1>1, NothingSent
<1>3. LaneOK(d) /\ (policy.queue => d \in hydrated) /\ DOMAIN task = Device
  BY <1>1, TaskCases DEF SaveInv, DeviceInv, CountInv
<1>4. PICK w \in Writes : w = task[d].write /\ WriteOK(w)
  BY <1>3 DEF LaneOK, LaneTasks
<1>5. w.name \in Name /\ w.kind \in {"store", "remove"} /\ Named(w.value, w.name)
  BY <1>4 DEF Writes, WriteOK
<1>6. CASE /\ Recognised(w) /\ UNCHANGED saveFaults
           /\ known' = [known EXCEPT ![d][w.name] = Row(w.name)]
           /\ Settle(d, w, Row(w.name).version)
  <2>1. \A u \in w.value : Had(u)'
    <3> SUFFICES ASSUME NEW u \in w.value PROVE Had(u)
      BY <1>1 DEF Had
    <3>1. w.kind = "store"
      BY <1>4, <1>5 DEF WriteOK
    <3>2. w.name \in live /\ history[w.name][Len(history[w.name])] = w.value
      BY <1>6, <3>1 DEF Recognised, Version
    <3>3. Len(history[w.name]) \in 1..Len(history[w.name])
      BY <1>5, <3>2, HistoryTypes DEF SaveInv, ServerInv
    <3>4. CallOf[u].name = w.name
      BY <1>5 DEF Named
    <3> QED
      BY <3>2, <3>3, <3>4 DEF Had
  <2>2. PICK k : k = Row(w.name)
    OBVIOUS
  <2>3. IsReal(k, w.name)
    BY <1>5, <2>2, RowIsReal DEF SaveInv
  <2>4. k \in Rows /\ IsReal(k, w.name)' /\ k.version \in Nat
    BY <1>2, <1>5, <2>3, RowStays DEF IsReal, Rows, SaveInv
  <2>5. /\ TaskInv(d)' /\ \E t : task' = [task EXCEPT ![d] = t]
        /\ \A u \in acked' \ acked :
             u \in called /\ (CallOf[u].kind # "remove" => Had(u)')
    BY <1>1, <1>2, <1>3, <1>4, <1>6, <2>1, <2>2, <2>4, SettleIsOK
  <2>6. \E n \in Name, l \in Rows : known' = [known EXCEPT ![d][n] = l] /\ IsReal(l, n)'
    BY <1>5, <1>6, <2>2, <2>4
  <2> QED
    BY <1>1, <1>2, <1>6, <2>5, <2>6, FaultSpent, LaneStep
<1>7. CASE task' = [task EXCEPT ![d].step = "send"] /\ UNCHANGED <<known, acked, saveFaults>>
  <2>1. PICK t : t = [task[d] EXCEPT !.step = "send"]
    OBVIOUS
  <2>2. /\ t \in LaneTasks /\ t.write = task[d].write /\ t.then = task[d].then
        /\ t.step = "send"
    BY <1>3, <2>1 DEF LaneOK, LaneTasks
  <2>3. task' = [task EXCEPT ![d] = t] /\ task'[d] = t
    BY <1>3, <1>7, <2>1
  <2>4. WriteOK(t.write)'
    BY <1>2, <1>3, <2>2, WriteStays DEF LaneOK
  <2>5. TaskInv(d)'
    BY <1>1, <1>3, <2>2, <2>3, <2>4, LaneIsOK DEF LaneOK
  <2> QED
    BY <1>1, <1>7, <2>3, <2>5, FaultSpent, TaskStep DEF SaveInv, CountInv
<1>8. CASE Lost /\ Done(d) /\ UNCHANGED <<known, acked>>
  BY <1>1, <1>8, FaultSpent, DoneStep
<1> QED
  BY <1>4, <1>6, <1>7, <1>8 DEF Recover

LEMMA SendLostStep ==
  ASSUME SaveInv, NEW d \in Device, SendLost(d)
  PROVE  SaveInv'
<1>1. /\ task[d].step = "send" /\ Lost /\ Unavailable(d)
      /\ UNCHANGED <<policy, known, staged, disk, hydrated, stray, called, acked,
                     won, signOuts>>
  BY DEF SendLost
<1>2. LaneOK(d) /\ (policy.queue => d \in hydrated)
  BY <1>1, TaskCases DEF SaveInv, DeviceInv
<1>3. PICK w \in Writes : w = task[d].write /\ WriteOK(w)
  BY <1>2 DEF LaneOK, LaneTasks
<1>4. w.name \in Name /\ w.value \in SUBSET Update /\ w.kind \in {"store", "remove"}
  BY <1>3 DEF Writes
<1>5. Served(w) \/ UNCHANGED <<history, live>>
  BY <1>3 DEF SendLost
<1>6. Served(w) => ServerStep
  <2>1. w.kind = "store" /\ Served(w) => Stores(w.name, w.value)
    BY DEF Served, StoreRow, Stores
  <2>2. w.kind = "remove" => Removed(w.name)
    BY <1>3 DEF WriteOK, Removed
  <2> QED
    BY <1>3, <1>4, <2>1, <2>2 DEF ServerStep, Served, DeleteRow, WriteOK
<1>7. Grows /\ ServerInv'
  BY <1>1, <1>5, <1>6, ServerStepIsOK DEF ServerStep, SaveInv
<1>8. TaskInv(d)' /\ \E t : task' = [task EXCEPT ![d] = t]
  BY <1>1, <1>2, <1>7, UnavailableIsOK
<1> QED
  BY <1>1, <1>7, <1>8, FaultSpent, LaneStep

\* What is there is merged into the write; a queued write keeps it.
LEMMA MergedIsOK ==
  ASSUME ServerInv, NEW w \in Writes, WriteOK(w), w.kind = "store"
  PROVE  /\ WriteOK(Merged(w)) /\ Merged(w).id = w.id
         /\ w.value \subseteq Merged(w).value /\ Merged(w).kind = "store"
<1> DEFINE m == Merged(w)
<1>1. w.name \in Name
  BY DEF Writes
<1>2. PICK k : k = Row(w.name) /\ k \in Rows /\ Named(k.value, w.name)
  BY <1>1, RowIsReal DEF IsReal
<1>3. m = [w EXCEPT !.value = @ \cup k.value,
                    !.expected = k.version, !.rebased = FALSE]
  BY <1>2 DEF Merged
<1> HIDE DEF m
<1>4. /\ m.id = w.id /\ m.name = w.name /\ m.kind = w.kind
      /\ m.value = w.value \cup k.value
      /\ m \in Writes
  BY <1>2, <1>3 DEF Writes, Rows
<1>5. WriteOK(m)
  BY <1>2, <1>4 DEF WriteOK, Named
<1> QED
  BY <1>4, <1>5 DEF m

LEMMA SameCovers ==
  ASSUME NEW d \in Device, NEW q, SameWrites(q, disk[d])
  PROVE  Covers(d, q)
BY DEF Covers, In, SameWrites

LEMMA FetchStep ==
  ASSUME SaveInv, NEW d \in Device, Fetch(d)
  PROVE  SaveInv'
<1>1. /\ task[d].step = "fetch"
      /\ UNCHANGED <<policy, history, live, known, disk, hydrated, stray, called,
                     acked, won, signOuts>>
  BY DEF Fetch
<1>2. Grows /\ ServerInv'
  BY <1>1, NothingSent
<1>3. LaneOK(d) /\ (policy.queue => d \in hydrated) /\ DOMAIN task = Device
  BY <1>1, TaskCases DEF SaveInv, DeviceInv, CountInv
<1>4. PICK w \in Writes : w = task[d].write /\ WriteOK(w) /\ w.kind = "store"
  BY <1>1, <1>3 DEF LaneOK, LaneTasks
<1>5. PICK m \in Writes : /\ m = Merged(w) /\ WriteOK(m) /\ m.id = w.id
                          /\ w.value \subseteq m.value /\ m.kind = "store"
  BY <1>4, MergedIsOK DEF SaveInv, WriteOK
<1>6. WriteOK(m)'
  BY <1>2, <1>5, WriteStays
<1>7. PICK a \in Nat : a = task[d].attempt + 1
  BY <1>3 DEF LaneOK, LaneTasks
<1>8. CASE task[d].then = "flush" /\ ~(Lost /\ Unavailable(d) /\ UNCHANGED staged)
  <2>1. /\ staged' = [staged EXCEPT ![d][1] = m]
        /\ task' = [task EXCEPT ![d] =
             [step |-> "persist", write |-> m, attempt |-> @.attempt + 1,
              next |-> staged'[d], then |-> "resend"]]
        /\ UNCHANGED saveFaults
    BY <1>4, <1>5, <1>8 DEF Fetch
  <2>2. PICK s : /\ s = staged[d] /\ s \in Seq(Writes) /\ s # <<>> /\ s[1] = w
                 /\ QueueOK(s) /\ policy.queue
    BY <1>3, <1>4, <1>8 DEF LaneOK, SaveInv, DeviceInv, QueueInv, QueueOK
  <2>3. PICK q : /\ q = [s EXCEPT ![1] = m]
                 /\ q \in Seq(Writes) /\ Len(q) = Len(s) /\ q # <<>>
                 /\ q[1] = m /\ 1 \in 1..Len(s)
                 /\ \A i \in 1..Len(s) : i # 1 => q[i] = s[i]
    <3> DEFINE q == [s EXCEPT ![1] = m]
    <3>1. /\ q \in Seq(Writes) /\ Len(q) = Len(s) /\ q # <<>>
          /\ q[1] = m /\ 1 \in 1..Len(s)
          /\ \A i \in 1..Len(s) : i # 1 => q[i] = s[i]
      BY <2>2, WithFirst
    <3>2. q = [s EXCEPT ![1] = m]
      OBVIOUS
    <3> HIDE DEF q
    <3> QED
      BY <3>1, <3>2
  <2>4. /\ staged'[d] = q /\ \A e \in Device \ {d} : staged'[e] = staged[e]
        /\ staged' \in [Device -> Seq(Writes)]
    <3>1. staged' = [staged EXCEPT ![d] = q]
      BY <2>1, <2>2, <2>3
    <3>2. staged \in [Device -> Seq(Writes)] /\ q \in Seq(Writes)
      BY <2>3 DEF SaveInv, CountInv
    <3> QED
      BY <3>1, <3>2
  <2>5. \A i \in 1..Len(q) : WriteOK(q[i])
    <3> SUFFICES ASSUME NEW i \in 1..Len(q) PROVE WriteOK(q[i])
      OBVIOUS
    <3>1. CASE i = 1
      BY <1>5, <2>3, <3>1
    <3>2. CASE i # 1
      BY <2>2, <2>3, <3>2 DEF QueueOK
    <3> QED
      BY <3>1, <3>2
  <2>6. QueueOK(q)'
    BY <1>2, <2>3, <2>5, QueueStays DEF QueueOK
  <2>7. SameWrites(q, disk[d])
    <3>1. SameWrites(s, disk[d])
      BY <1>3, <2>2 DEF SaveInv, DeviceInv, QueueInv
    <3>2. \A i \in 1..Len(q) : q[i].id = s[i].id /\ s[i].value \subseteq q[i].value
      BY <1>5, <2>2, <2>3, SMTT(60)
    <3> QED
      BY <2>3, <3>1, <3>2 DEF SameWrites
  <2>8. QueueInv(d)'
    <3>1. QueueOK(disk[d])'
      BY <1>1, <1>2 DEF QueueOK, WriteOK, SaveInv, DeviceInv, QueueInv
    <3> QED
      BY <1>1, <2>2, <2>4, <2>6, <2>7, <3>1 DEF QueueInv, SameWrites, QueueOK, WriteOK
  <2>9. "resend" \in {"caller", "flush", "resend"} /\ q \in Seq(Writes)
    BY <2>3
  <2>10. PICK t \in PersistTasks :
           /\ t = [step |-> "persist", write |-> m, attempt |-> a, next |-> q,
                   then |-> "resend"]
           /\ t.write = m /\ t.next = q /\ t.then = "resend"
    BY ONLY <2>9, PersistTask, m \in Writes, a \in Nat
  <2>11. task' = [task EXCEPT ![d] = t]
    BY <1>3, <1>7, <2>1, <2>4, <2>10
  <2>18. task'[d] = t
    BY <1>3, <2>11
  <2>12. Covers(d, q)'
    BY <1>1, <2>7, SameCovers DEF Covers, In, Had
  <2>13. TaskInv(d)'
    <3>1. t.write = m /\ t.next = q /\ t.then = "resend"
      BY <2>10
    <3>2. d \in hydrated' /\ policy' = policy
      BY <1>1, <1>3, <2>2
    <3>3. q # <<>> /\ q[1] = m
      BY <2>3
    <3> QED
      BY <1>6, <2>2, <2>6, <2>18, <2>12, <3>1, <3>2, <3>3, PersistIsOK
  <2>14. RowInv(d)'
    BY <1>1, <1>2, RowsStay DEF SaveInv, DeviceInv
  <2>15. CountInv'
    BY <1>1, <2>1, <2>4, <2>11 DEF SaveInv, CountInv
  <2>16. Elsewhere(d)
    BY <1>1, <1>3, <2>4, <2>11 DEF Elsewhere
  <2>17. \A u \in Update : In(u, disk[d]) => In(u, disk'[d])
    BY <1>1
  <2> QED
    BY <1>1, <1>2, <2>8, <2>13, <2>14, <2>15, <2>16, <2>17, StepIsOK DEF DeviceInv
<1>9. CASE task[d].then # "flush" /\ ~(Lost /\ Unavailable(d) /\ UNCHANGED staged)
  <2>1. /\ task' = [task EXCEPT ![d] =
             [step |-> "send", write |-> m, attempt |-> @.attempt + 1,
              then |-> "caller"]]
        /\ UNCHANGED <<staged, saveFaults>>
    BY <1>4, <1>5, <1>9 DEF Fetch
  <2>2. "send" \in {"recover", "send", "fetch"} /\ "caller" \in {"caller", "flush"}
    OBVIOUS
  <2>3. PICK t \in LaneTasks :
          /\ t = [step |-> "send", write |-> m, attempt |-> a, then |-> "caller"]
          /\ t.write = m /\ t.step = "send" /\ t.then = "caller"
    BY ONLY <2>2, LaneTask, m \in Writes, a \in Nat
  <2>4. task' = [task EXCEPT ![d] = t] /\ task'[d] = t
    BY <1>3, <1>7, <2>1, <2>3
  <2>5. CallOf[m.id].by = d
    BY <1>3, <1>4, <1>5, <1>9 DEF LaneOK, LaneTasks
  <2>6. TaskInv(d)'
    BY <1>1, <1>3, <1>6, <2>1, <2>3, <2>4, <2>5, LaneIsOK
  <2> QED
    BY <1>1, <2>1, <2>4, <2>6, FaultSpent, TaskStep DEF SaveInv, CountInv
<1>10. CASE Lost /\ Unavailable(d) /\ UNCHANGED staged
  BY <1>1, <1>2, <1>3, <1>10, FaultSpent, UnavailableIsOK, LaneStep
<1> QED
  BY <1>8, <1>9, <1>10

-----------------------------------------------------------------------------
(* The adapter, and the end of a page *)

LEMMA PersistTaskIsOK ==
  ASSUME SaveInv, NEW d \in Device, Persist(d), Grows, PersistOK(d),
         d \in hydrated, NEW q \in Seq(Writes), q = task[d].next, QueueOK(q)',
         staged'[d] = q, policy' = policy, hydrated' = hydrated
  PROVE  TaskInv(d)' /\ \E t : task' = [task EXCEPT ![d] = t]
<1>1. DOMAIN task = Device /\ policy.queue
  BY DEF SaveInv, CountInv, PersistOK
<1>2. ASSUME task' = [task EXCEPT ![d] = Idle]
      PROVE  TaskInv(d)'
  BY <1>1, <1>2, IdleIsOK
<1>3. CASE task[d].then = "caller"
  BY <1>2, <1>3 DEF Persist, Done
<1>4. CASE task[d].then = "flush"
  <2>1. PICK foreground \in BOOLEAN :
          task' = [task EXCEPT ![d] = IF foreground THEN FlushHead(q) ELSE Idle]
    BY <1>4 DEF Persist
  <2>2. CASE foreground /\ q # <<>>
    <3>1. task'[d] = FlushHead(q)
      BY <1>1, <2>1, <2>2
    <3> QED
      BY <1>1, <2>1, <2>2, <3>1, FlushIsOK
  <2>3. CASE ~(foreground /\ q # <<>>)
    <3>1. task' = [task EXCEPT ![d] = Idle]
      BY <2>1, <2>3 DEF FlushHead
    <3> QED
      BY <1>2, <3>1
  <2> QED
    BY <2>2, <2>3
<1>5. CASE task[d].then = "resend"
  <2>1. PICK w \in Writes : /\ w = task[d].write /\ WriteOK(w) /\ w = q[1]
                            /\ q # <<>>
    BY <1>5 DEF PersistOK, PersistTasks
  <2>2. PICK a \in Nat : a = task[d].attempt
    BY DEF PersistOK, PersistTasks
  <2>3. "send" \in {"recover", "send", "fetch"} /\ "flush" \in {"caller", "flush"}
    OBVIOUS
  <2>4. PICK t \in LaneTasks :
          /\ t = [step |-> "send", write |-> w, attempt |-> a, then |-> "flush"]
          /\ t.write = w /\ t.step = "send" /\ t.then = "flush"
    BY ONLY <2>3, LaneTask, w \in Writes, a \in Nat
  <2>5. task' = [task EXCEPT ![d] = t]
    BY <1>5, <2>1, <2>2, <2>4 DEF Persist
  <2>6. task'[d] = t /\ WriteOK(w)'
    BY <1>1, <2>1, <2>5, WriteStays
  <2>7. TaskInv(d)'
    BY <1>1, <2>1, <2>4, <2>6, LaneIsOK
  <2> QED
    BY <2>5, <2>7
<1> QED
  BY <1>3, <1>4, <1>5 DEF PersistOK, PersistTasks

LEMMA PersistStep ==
  ASSUME SaveInv, NEW d \in Device, Persist(d)
  PROVE  SaveInv'
<1>1. /\ task[d].step = "persist"
      /\ disk' = [disk EXCEPT ![d] = task[d].next]
      /\ staged' = [staged EXCEPT ![d] = task[d].next]
      /\ UNCHANGED <<policy, history, live, known, hydrated, stray, called, won,
                     saveFaults, signOuts>>
  BY DEF Persist
<1>2. Grows /\ ServerInv'
  BY <1>1, NothingSent
<1>3. PersistOK(d) /\ (policy.queue => d \in hydrated) /\ DOMAIN task = Device
  BY <1>1, TaskCases DEF SaveInv, DeviceInv, CountInv
<1>4. policy.queue /\ d \in hydrated
  BY <1>3 DEF PersistOK
<1>5. PICK q \in Seq(Writes) : q = task[d].next /\ QueueOK(q) /\ Covers(d, q)
  BY <1>3 DEF PersistOK, PersistTasks
<1>6. /\ disk'[d] = q /\ staged'[d] = q
      /\ \A e \in Device \ {d} : disk'[e] = disk[e] /\ staged'[e] = staged[e]
      /\ disk' \in [Device -> Seq(Writes)] /\ staged' \in [Device -> Seq(Writes)]
  BY <1>1, <1>5 DEF SaveInv, CountInv
<1>7. QueueOK(q)'
  BY <1>2, <1>5, QueueStays
<1>8. TaskInv(d)' /\ \E t : task' = [task EXCEPT ![d] = t]
  BY <1>1, <1>2, <1>3, <1>4, <1>5, <1>6, <1>7, PersistTaskIsOK
<1>9. QueueInv(d)'
  <2>1. QueueOK(staged[d])' /\ QueueOK(disk[d])'
    BY <1>6, <1>7 DEF QueueOK, WriteOK
  <2> QED
    BY <1>1, <1>4, <1>6, <2>1 DEF QueueInv, SameWrites
<1>10. RowInv(d)'
  BY <1>1, <1>2, RowsStay DEF SaveInv, DeviceInv
<1>11. CountInv'
  BY <1>1, <1>6, <1>8 DEF SaveInv, CountInv
<1>12. Elsewhere(d)
  BY <1>1, <1>6, <1>8 DEF Elsewhere, SaveInv, CountInv
<1>13. \A u \in Update : In(u, disk[d]) => Had(u)' \/ In(u, disk'[d])
  BY <1>1, <1>5, <1>6 DEF Covers, Had
<1>14. ASSUME NEW u \in acked' \ acked
       PROVE  /\ u \in called'
              /\ CallOf[u].kind # "remove" => In(u, disk'[CallOf[u].by])
  <2>1. task[d].then = "caller" /\ acked' = acked \cup {task[d].write.id}
    BY <1>3, <1>14 DEF Persist, PersistOK, PersistTasks
  <2>2. PICK w : w = task[d].write /\ WriteOK(w) /\ CallOf[w.id].by = d
                 /\ \E i \in 1..Len(q) : q[i] = w
    BY <1>3, <1>5, <2>1 DEF PersistOK
  <2>3. u = w.id /\ w.kind \in {"store", "remove"}
    BY <1>14, <2>1, <2>2 DEF WriteOK, Writes
  <2>4. u \in called' /\ CallOf[u].by = d
    BY <1>1, <2>2, <2>3 DEF WriteOK
  <2>5. CallOf[u].kind # "remove" => In(u, q)
    BY <2>2, <2>3 DEF WriteOK, In
  <2> QED
    BY <1>6, <2>4, <2>5
<1> QED
  BY <1>1, <1>2, <1>8, <1>9, <1>10, <1>11, <1>12, <1>13, <1>14, StepIsOK
     DEF DeviceInv

LEMMA SignOutStep ==
  ASSUME SaveInv, NEW d \in Device, SignOut(d)
  PROVE  SaveInv'
<1> DEFINE none == <<>>
<1>1. /\ known' = [known EXCEPT ![d] = [n \in Name |-> NotRead]]
      /\ staged' = [staged EXCEPT ![d] = none]
      /\ hydrated' = hydrated \ {d}
      /\ task' = [task EXCEPT ![d] = Idle]
      /\ UNCHANGED <<policy, history, live, called, acked, won, saveFaults>>
  BY DEF SignOut, Done
<1>2. signOuts > 0 /\ signOuts' = signOuts - 1
  BY DEF SignOut
<1>3. Grows /\ ServerInv'
  BY <1>1, NothingSent
<1>4. none \in Seq(Writes) /\ Len(none) = 0
  OBVIOUS
<1> HIDE DEF none
<1>5. /\ known' \in [Device -> [Name -> Rows]] /\ staged' \in [Device -> Seq(Writes)]
      /\ DOMAIN task' = Device /\ staged'[d] = none /\ task'[d] = Idle
      /\ \A n \in Name : known'[d][n] = NotRead
      /\ \A e \in Device \ {d} : known'[e] = known[e] /\ staged'[e] = staged[e]
                                 /\ task'[e] = task[e]
  <2>1. NotRead \in Rows
    BY DEF NotRead, Rows
  <2> HIDE DEF NotRead
  <2>2. PICK r : /\ r = [n \in Name |-> NotRead] /\ r \in [Name -> Rows]
                 /\ \A n \in Name : r[n] = NotRead
    <3> DEFINE r == [n \in Name |-> NotRead]
    <3>1. r \in [Name -> Rows] /\ \A n \in Name : r[n] = NotRead
      BY <2>1
    <3>2. r = [n \in Name |-> NotRead]
      OBVIOUS
    <3> HIDE DEF r
    <3> QED
      BY <3>1, <3>2
  <2>3. known' = [known EXCEPT ![d] = r] /\ known \in [Device -> [Name -> Rows]]
    BY <1>1, <2>2 DEF SaveInv, CountInv
  <2>4. /\ known' \in [Device -> [Name -> Rows]] /\ known'[d] = r
        /\ \A e \in Device \ {d} : known'[e] = known[e]
    BY <2>2, <2>3
  <2>5. /\ staged' \in [Device -> Seq(Writes)] /\ staged'[d] = none
        /\ \A e \in Device \ {d} : staged'[e] = staged[e]
    BY <1>1, <1>4 DEF SaveInv, CountInv
  <2>6. /\ DOMAIN task' = Device /\ task'[d] = Idle
        /\ \A e \in Device \ {d} : task'[e] = task[e]
    BY <1>1 DEF SaveInv, CountInv
  <2> QED
    BY <2>2, <2>4, <2>5, <2>6
<1>6. /\ disk' \in [Device -> Seq(Writes)] /\ QueueOK(disk'[d])
      /\ \A e \in Device \ {d} : disk'[e] = disk[e]
      /\ \A u \in Update : In(u, disk[d]) => Had(u)' \/ In(u, disk'[d])
  <2>1. CASE UNCHANGED disk
    BY <2>1 DEF SaveInv, CountInv, DeviceInv, QueueInv
  <2>2. CASE task[d].step = "persist" /\ disk' = [disk EXCEPT ![d] = task[d].next]
    <3>1. PersistOK(d)
      BY <2>2, TaskCases DEF SaveInv, DeviceInv
    <3>2. PICK q \in Seq(Writes) : q = task[d].next /\ QueueOK(q) /\ Covers(d, q)
      BY <3>1 DEF PersistOK, PersistTasks
    <3>3. /\ disk'[d] = q /\ disk' \in [Device -> Seq(Writes)]
          /\ \A e \in Device \ {d} : disk'[e] = disk[e]
      BY <2>2, <3>2 DEF SaveInv, CountInv
    <3> QED
      BY <1>1, <3>2, <3>3 DEF Covers, Had
  <2> QED
    BY <2>1, <2>2 DEF SignOut
<1>7. \A w \in stray' \ stray : WriteOK(w)
  <2>1. CASE UNCHANGED stray
    BY <2>1
  <2>2. CASE task[d].step = "send" /\ stray' = stray \cup {task[d].write}
    BY <2>2, TaskCases DEF SaveInv, DeviceInv, LaneOK
  <2> QED
    BY <2>1, <2>2 DEF SignOut
<1>8. RowInv(d)'
  BY <1>5 DEF RowInv, IsReal, NotRead, Rows, Named
<1>9. QueueInv(d)'
  <2>1. QueueOK(none)'
    BY <1>4 DEF QueueOK, none
  <2>2. QueueOK(disk[d])'
    BY <1>1, <1>6 DEF QueueOK, WriteOK
  <2>3. QueueOK(staged[d])'
    BY <1>4, <1>5 DEF QueueOK
  <2> QED
    BY <1>1, <2>2, <2>3 DEF QueueInv
<1>10. TaskInv(d)'
  BY <1>5, IdleIsOK
<1>11. CountInv'
  BY <1>1, <1>2, <1>5, <1>6, SaveAssumption DEF SaveInv, CountInv
<1>12. Elsewhere(d)
  BY <1>1, <1>5, <1>6 DEF Elsewhere
<1> QED
  BY <1>1, <1>3, <1>6, <1>7, <1>8, <1>9, <1>10, <1>11, <1>12, StepIsOK
     DEF DeviceInv

-----------------------------------------------------------------------------
(* Steps that touch no device *)

LEMMA ServedIsStep ==
  ASSUME NEW w, WriteOK(w), Served(w)
  PROVE  ServerStep
<1>1. w.name \in Name /\ w.value \in SUBSET Update /\ w.kind \in {"store", "remove"}
  BY DEF WriteOK, Writes
<1>2. w.kind = "store" => Stores(w.name, w.value)
  BY DEF Served, StoreRow, Stores
<1>3. w.kind = "remove" => Removed(w.name)
  BY DEF WriteOK, Removed
<1> QED
  BY <1>1, <1>2, <1>3 DEF ServerStep, Served, DeleteRow, WriteOK

LEMMA StrayStep ==
  ASSUME SaveInv, NEW w \in stray, StrayArrives(w)
  PROVE  SaveInv'
<1>1. /\ stray' = stray \ {w}
      /\ Served(w) \/ UNCHANGED <<history, live>>
      /\ UNCHANGED <<policy, known, staged, disk, hydrated, task, called, acked,
                     won, saveFaults, signOuts>>
  BY DEF StrayArrives
<1>2. ServerStep
  BY <1>1, ServedIsStep DEF ServerStep, SaveInv, StrayInv
<1>3. Grows /\ ServerInv'
  BY <1>1, <1>2, ServerStepIsOK DEF SaveInv
<1>4. \A d \in Device : DeviceInv(d)'
  BY <1>1, <1>3, DeviceStays DEF SaveInv
<1>5. KeptInv'
  BY <1>1, <1>3, KeptStep DEF SaveInv, KeepsAll, In
<1>6. ClaimInv'
  BY <1>1, <1>3, ClaimStep DEF SaveInv
<1>7. StrayInv'
  BY <1>1, <1>3, WriteStays DEF SaveInv, StrayInv
<1>8. CountInv'
  BY <1>1 DEF SaveInv, CountInv
<1> QED
  BY <1>3, <1>4, <1>5, <1>6, <1>7, <1>8 DEF SaveInv

\* A row that is made by a claim is the first of its name, unless there was a
\* removal.
LEMMA ClaimCallStep ==
  ASSUME SaveInv, NEW d \in Device, NEW u \in Update, Claim(d, u)
  PROVE  SaveInv'
<1> DEFINE n == CallOf[u].name
<1>1. /\ called' = called \cup {u}
      /\ saveFaults' \in 0..saveFaults
      /\ UNCHANGED <<policy, known, staged, disk, hydrated, task, stray, acked,
                     signOuts>>
      /\ \/ UNCHANGED <<history, live, won>>
         \/ n \notin live /\ Stores(n, {u}) /\ won' \subseteq won \cup {u}
  <2>1. PICK lost \in BOOLEAN, arrives \in BOOLEAN :
          /\ lost => saveFaults > 0
          /\ saveFaults' = saveFaults - (IF lost THEN 1 ELSE 0)
          /\ LET w == [name |-> n, value |-> {u}, expected |-> 0]
                 there == arrives /\ Accepts(w)
             IN  /\ IF there THEN StoreRow(w) ELSE UNCHANGED <<history, live>>
                 /\ won' = IF there /\ ~lost THEN won \cup {u} ELSE won
    BY DEF Claim
  <2>2. saveFaults' \in 0..saveFaults
    BY <2>1, SaveAssumption DEF SaveInv, CountInv
  <2> DEFINE w == [name |-> n, value |-> {u}, expected |-> 0]
  <2>3. Accepts(w) => n \notin live
    <3>1. n \in live => Version(n) > 0
      BY DEF SaveInv, ServerInv, Version
    <3> QED
      BY <3>1 DEF Accepts
  <2>4. StoreRow(w) => Stores(n, {u})
    BY DEF StoreRow, Stores
  <2>5. \/ UNCHANGED <<history, live, won>>
        \/ Accepts(w) /\ StoreRow(w) /\ won' \subseteq won \cup {u}
    BY <2>1
  <2>6. /\ called' = called \cup {u}
        /\ UNCHANGED <<policy, known, staged, disk, hydrated, task, stray, acked,
                       signOuts>>
    BY DEF Claim
  <2> HIDE DEF w
  <2> QED
    BY <2>2, <2>3, <2>4, <2>5, <2>6
<1>2. n \in Name /\ Named({u}, n)
  BY CallFacts DEF Named
<1>3. ServerStep
  BY <1>1, <1>2 DEF ServerStep
<1>4. Grows /\ ServerInv'
  BY <1>1, <1>3, ServerStepIsOK DEF SaveInv
<1>5. \A e \in Device : DeviceInv(e)'
  BY <1>1, <1>4, DeviceStays DEF SaveInv
<1>6. KeptInv'
  BY <1>1, <1>4, KeptStep DEF SaveInv, KeepsAll, In
<1>7. \A v \in won' \ won :
        /\ v \in called' /\ Len(history'[CallOf[v].name]) > 0
        /\ Removed(CallOf[v].name) \/ history'[CallOf[v].name][1] = {v}
  <2> SUFFICES ASSUME NEW v \in won' \ won
               PROVE  /\ v \in called' /\ Len(history'[CallOf[v].name]) > 0
                      /\ \/ Removed(CallOf[v].name)
                         \/ history'[CallOf[v].name][1] = {v}
    OBVIOUS
  <2>1. v = u /\ n \notin live /\ Stores(n, {u})
    BY <1>1
  <2>2. /\ Len(history'[n]) = Len(history[n]) + 1
        /\ history'[n][Len(history[n]) + 1] = {u}
    BY <1>2, <2>1, OneMore DEF SaveInv
  <2>3. Len(history[n]) \in Nat
    BY <1>2, HistoryTypes DEF SaveInv
  <2>4. Len(history[n]) > 0 => Removed(n)
    BY <1>2, <2>1 DEF SaveInv, ServerInv
  <2> HIDE DEF n
  <2>5. Len(history'[n]) > 0 /\ (Removed(n) \/ history'[n][1] = {u})
    BY <2>2, <2>3, <2>4
  <2> QED
    BY <1>1, <2>1, <2>5 DEF n
<1>8. ClaimInv'
  BY <1>4, <1>7, ClaimStep DEF SaveInv
<1>9. StrayInv'
  BY <1>1, <1>4, WriteStays DEF SaveInv, StrayInv
<1>10. CountInv'
  BY <1>1, SaveAssumption, SMTT(60) DEF SaveInv, CountInv
<1> QED
  BY <1>4, <1>5, <1>6, <1>8, <1>9, <1>10 DEF SaveInv

-----------------------------------------------------------------------------
(* The invariant *)

LEMMA SaveStart == SaveInit => SaveInv
<1> SUFFICES ASSUME SaveInit
             PROVE  SaveInv
  OBVIOUS
<1> DEFINE none == <<>>
<1>1. none \in Seq(Writes) /\ none \in Seq(SUBSET Update) /\ Len(none) = 0
  OBVIOUS
<1>2. /\ history = [n \in Name |-> none]
      /\ staged = [d \in Device |-> none] /\ disk = [d \in Device |-> none]
  BY DEF SaveInit
<1> HIDE DEF none
<1>3. ServerInv
  BY <1>1, <1>2 DEF SaveInit, ServerInv
<1>4. ClaimInv /\ StrayInv /\ KeptInv
  BY DEF SaveInit, ClaimInv, StrayInv, KeptInv
<1>5. NotRead \in Rows /\ \A n \in Name : IsReal(NotRead, n)
  BY DEF NotRead, Rows, IsReal, Named
<1>6. CountInv
  BY <1>1, <1>2, <1>5, SaveAssumption DEF SaveInit, CountInv
<1>7. \A d \in Device : DeviceInv(d)
  BY <1>1, <1>2, <1>5
     DEF SaveInit, DeviceInv, RowInv, QueueInv, QueueOK, TaskInv
<1> QED
  BY <1>3, <1>4, <1>6, <1>7 DEF SaveInv

LEMMA SaveStutters ==
  ASSUME SaveInv, UNCHANGED saveVars
  PROVE  SaveInv'
<1>1. /\ UNCHANGED <<policy, history, live, known, staged, disk, hydrated, task,
                     stray, called, acked, won, saveFaults, signOuts>>
  BY DEF saveVars
<1>2. Grows /\ ServerInv'
  BY <1>1, NothingSent
<1>3. \A d \in Device : DeviceInv(d)'
  BY <1>1, <1>2, DeviceStays DEF SaveInv
<1>4. KeptInv' /\ ClaimInv' /\ StrayInv' /\ CountInv'
  BY <1>1 DEF SaveInv, KeptInv, Had, In, ClaimInv, Removed, StrayInv, WriteOK,
              Named, CountInv
<1> QED
  BY <1>2, <1>3, <1>4 DEF SaveInv

LEMMA SaveSteps == SaveInv /\ [SaveNext]_saveVars => SaveInv'
<1> SUFFICES ASSUME SaveInv, [SaveNext]_saveVars
             PROVE  SaveInv'
  OBVIOUS
<1>1. CASE UNCHANGED saveVars
  BY <1>1, SaveStutters
<1>2. ASSUME NEW d \in Device, NEW u \in Update, Call(d, u) \/ Claim(d, u)
      PROVE  SaveInv'
  BY <1>2, CallStep, ClaimCallStep
<1>3. ASSUME NEW d \in Device, Hydrate(d) \/ Flush(d) \/ SignOut(d)
      PROVE  SaveInv'
  BY <1>3, HydrateStep, FlushStep, SignOutStep
<1>4. ASSUME NEW d \in Device, Lane(d)
      PROVE  SaveInv'
  BY <1>4, ReadStep, FormStep, RecoverStep, SendOkStep, SendLostStep,
     SendConflictStep, FetchStep, PersistStep, PersistFailsStep DEF Lane
<1>5. ASSUME NEW w \in stray, StrayArrives(w)
      PROVE  SaveInv'
  BY <1>5, StrayStep
<1> QED
  BY <1>1, <1>2, <1>3, <1>4, <1>5 DEF SaveNext

-----------------------------------------------------------------------------
(* What the invariant says *)

LEMMA RangeOf ==
  ASSUME NEW q
  PROVE  /\ \A i \in DOMAIN q : q[i] \in Range(q)
         /\ \A x \in Range(q) : \E i \in DOMAIN q : x = q[i]
BY DEF Range

LEMMA TypesAreKept ==
  ASSUME SaveInv
  PROVE  SaveTypeOK
<1>1. \A d \in Device : Range(staged[d]) \cup Range(disk[d]) \subseteq Writes
  <2> SUFFICES ASSUME NEW d \in Device
               PROVE  Range(staged[d]) \cup Range(disk[d]) \subseteq Writes
    OBVIOUS
  <2>1. staged[d] \in Seq(Writes) /\ disk[d] \in Seq(Writes)
    BY DEF SaveInv, CountInv
  <2> QED
    BY <2>1, RangeOf
<1>2. \A d \in Device : task[d].step \in {"idle", "read", "form", "recover",
                                         "send", "fetch", "persist"}
  BY DEF SaveInv, DeviceInv, TaskInv, Idle, CallOK, CallTasks, LaneOK, LaneTasks,
         PersistOK, PersistTasks
<1>3. stray \subseteq Writes
  BY DEF SaveInv, StrayInv, WriteOK
<1> QED
  BY <1>1, <1>2, <1>3
     DEF SaveTypeOK, SaveInv, CountInv, ServerInv, KeptInv, ClaimInv, Rows

LEMMA AcceptedAreKept ==
  ASSUME SaveInv
  PROVE  AckedIsKept
<1> SUFFICES ASSUME NEW u \in acked, CallOf[u].kind # "remove"
             PROVE  \/ \E v \in Range(history[CallOf[u].name]) : u \in v
                    \/ \E w \in Range(disk[CallOf[u].by]) : u \in w.value
  BY DEF AckedIsKept
<1>1. u \in Update /\ CallOf[u].name \in Name /\ CallOf[u].by \in Device
  BY CallFacts DEF SaveInv, KeptInv, CountInv
<1>2. Had(u) \/ In(u, disk[CallOf[u].by])
  BY DEF SaveInv, KeptInv
<1>3. /\ DOMAIN history[CallOf[u].name] = 1..Len(history[CallOf[u].name])
      /\ DOMAIN disk[CallOf[u].by] = 1..Len(disk[CallOf[u].by])
  BY <1>1 DEF SaveInv, ServerInv, CountInv
<1> QED
  BY <1>2, <1>3, RangeOf DEF Had, In

LEMMA QueuesAreDurable ==
  ASSUME SaveInv
  PROVE  QueueIsDurable
<1> SUFFICES ASSUME NEW d \in hydrated
             PROVE  [i \in DOMAIN staged[d] |-> staged[d][i].id] =
                      [i \in DOMAIN disk[d] |-> disk[d][i].id]
  BY DEF QueueIsDurable
<1>1. d \in Device /\ SameWrites(staged[d], disk[d])
  BY DEF SaveInv, CountInv, DeviceInv, QueueInv
<1>2. /\ DOMAIN staged[d] = 1..Len(staged[d])
      /\ DOMAIN disk[d] = 1..Len(disk[d])
  BY <1>1 DEF SaveInv, CountInv
<1> QED
  BY <1>1, <1>2 DEF SameWrites

LEMMA SaveHolds ==
  ASSUME SaveInv
  PROVE  SaveInvariant
<1>1. CachedIsReal
  BY DEF CachedIsReal, SaveInv, DeviceInv, RowInv, IsReal, Version
<1>2. WinnerHoldsTheRow
  BY DEF WinnerHoldsTheRow, SaveInv, ClaimInv, Removed
<1> QED
  BY <1>1, <1>2, TypesAreKept, AcceptedAreKept, QueuesAreDurable DEF SaveInvariant

\* What a device accepted is in its adapter or has been on the server, what it
\* believes of a row was so at that version, the queue in memory is what a
\* restart would find, and a claim that was won made the row: through merges,
\* rebased writes, lost answers, writes the adapter refuses, sign-outs at any
\* point and requests that arrive after them (save.ts).
THEOREM AcceptedIsKept == SaveSpec => []SaveInvariant
<1>1. SaveInit => SaveInv
  BY SaveStart
<1>2. SaveInv /\ [SaveNext]_saveVars => SaveInv'
  BY SaveSteps
<1>3. SaveInv => SaveInvariant
  BY SaveHolds
<1> QED
  BY <1>1, <1>2, <1>3, PTL DEF SaveSpec

-----------------------------------------------------------------------------
(* What a write has seen of its row *)

\* The version that a row has at least, the next time somebody finds it.
High(n) == IF n \in live THEN Version(n) ELSE Version(n) + 1

\* A write that may be sent: it expects a version that was, and contains what
\* it is to overwrite.
FirstOK(w) ==
  /\ w.expected <= Version(w.name)
  /\ w.kind = "store" /\ ~w.rebased /\ w.expected > 0 =>
       history[w.name][w.expected] \subseteq w.value

\* A write x behind a write w of its row: unless it contains what w stores, it
\* does not expect the version that w will make.
PairOK(w, x) ==
  /\ w.kind = "remove" => x.expected = 0
  /\ x.expected <= w.expected + 1 \/ x.expected <= High(x.name)
  /\ x.kind = "store" /\ ~x.rebased =>
       \/ w.value \subseteq x.value
       \/ w.expected >= x.expected
       \/ High(x.name) > x.expected

FirstAt(q, i) == \A k \in 1..Len(q) : k < i => q[k].name # q[i].name

Adjacent(q, i, j) ==
  /\ i < j /\ q[i].name = q[j].name
  /\ \A k \in 1..Len(q) : i < k /\ k < j => q[k].name # q[i].name

OrderOK(q) ==
  /\ \A i \in 1..Len(q) : FirstAt(q, i) => FirstOK(q[i])
  /\ \A i, j \in 1..Len(q) : Adjacent(q, i, j) => PairOK(q[i], q[j])

\* What the lane is to write is in order.  A caller's write has nothing queued
\* before it; a write that is merged was refused by a later version.
OrderTask(d) ==
  /\ task[d].step = "persist" => OrderOK(task[d].next)
  /\ task[d].step \in {"recover", "send", "fetch"} =>
       /\ FirstOK(task[d].write)
       /\ task[d].then = "caller" => staged[d] = <<>>
  /\ task[d].step = "fetch" =>
       task[d].write.expected < High(task[d].write.name)
  /\ task[d].step \in {"read", "form"} => CallOf[task[d].id].kind # "claim"

DeviceOrder(d) ==
  /\ OrderOK(staged[d]) /\ OrderOK(disk[d])
  /\ ~policy.queue => staged[d] = <<>>
  /\ OrderTask(d)

OrderInv ==
  /\ \A d \in Device : DeviceOrder(d)
  /\ \A w \in stray : FirstOK(w)

\* Every value is formed from the one that was read: `store` gives its own.
OnlyUpdates == \A u \in Update : CallOf[u].kind # "store"

Later ==
  /\ Grows /\ ServerInv /\ ServerInv'
  /\ \A n \in Name :
       High(n) \in Nat /\ High(n)' \in Nat /\ High(n) <= High(n)'

\* A step of the server leaves every row as late as it was, or later.
LEMMA ItIsLater ==
  ASSUME SaveInv, ServerStep, called \subseteq called'
  PROVE  Later
<1>1. ServerInv /\ ServerInv' /\ Grows
  BY ServerStepIsOK DEF SaveInv
<1>2. \A n \in Name : /\ Len(history[n]) \in Nat /\ Len(history'[n]) \in Nat
                      /\ Len(history[n]) <= Len(history'[n])
  BY <1>1 DEF ServerInv, Grows
<1>3. \A n \in Name : n \in live' /\ n \notin live =>
        Len(history'[n]) > Len(history[n])
  <2> SUFFICES ASSUME NEW n \in Name, n \in live', n \notin live
               PROVE  Len(history'[n]) > Len(history[n])
    OBVIOUS
  <2>1. PICK m \in Name, v \in SUBSET Update : Stores(m, v)
    BY DEF ServerStep
  <2>2. m = n
    BY <2>1 DEF Stores
  <2> QED
    BY <1>1, <1>2, <2>1, <2>2, OneMore
<1> QED
  BY <1>1, <1>2, <1>3 DEF Later, High, Version

LEMMA FirstStays ==
  ASSUME Later, NEW w \in Writes, FirstOK(w)
  PROVE  FirstOK(w)'
<1>1. w.name \in Name /\ w.expected \in Nat
  BY DEF Writes
<1>2. /\ Len(history[w.name]) \in Nat /\ Len(history'[w.name]) \in Nat
      /\ Len(history[w.name]) <= Len(history'[w.name])
      /\ \A i \in 1..Len(history[w.name]) :
           history'[w.name][i] = history[w.name][i]
  BY <1>1 DEF Later, ServerInv, Grows
<1> QED
  BY <1>1, <1>2, SMTT(60) DEF FirstOK, Version

LEMMA PairStays ==
  ASSUME Later, NEW w \in Writes, NEW x \in Writes, PairOK(w, x)
  PROVE  PairOK(w, x)'
<1>1. x.name \in Name /\ w.expected \in Nat /\ x.expected \in Nat
  BY DEF Writes
<1>2. PICK h \in Nat : h = High(x.name)
  BY <1>1 DEF Later
<1>3. PICK k \in Nat : k = High(x.name)' /\ h <= k
  BY <1>1, <1>2 DEF Later
<1> QED
  BY <1>1, <1>2, <1>3 DEF PairOK

LEMMA OrderStays ==
  ASSUME Later, NEW q \in Seq(Writes), OrderOK(q)
  PROVE  OrderOK(q)'
<1>1. \A i \in 1..Len(q) : q[i] \in Writes
  OBVIOUS
<1>2. \A i \in 1..Len(q) : FirstAt(q, i) => FirstOK(q[i])'
  BY <1>1, FirstStays DEF OrderOK
<1>3. \A i, j \in 1..Len(q) : Adjacent(q, i, j) => PairOK(q[i], q[j])'
  BY <1>1, PairStays DEF OrderOK
<1> QED
  BY <1>2, <1>3 DEF OrderOK, FirstAt, Adjacent

\* A device whose queue and lane a step does not touch.
LEMMA OrderElsewhere ==
  ASSUME SaveInv, Later, NEW e \in Device, DeviceOrder(e), policy' = policy,
         staged'[e] = staged[e], disk'[e] = disk[e], task'[e] = task[e]
  PROVE  DeviceOrder(e)'
<1>1. PICK s \in Seq(Writes), k \in Seq(Writes) : s = staged[e] /\ k = disk[e]
  BY DEF SaveInv, CountInv
<1>2. OrderOK(s)' /\ OrderOK(k)'
  BY <1>1, OrderStays DEF DeviceOrder
<1>3. ASSUME task[e].step = "persist"
      PROVE  OrderOK(task[e].next)'
  <2>1. PersistOK(e)
    BY <1>3, TaskCases DEF SaveInv, DeviceInv
  <2>2. PICK q \in Seq(Writes) : q = task[e].next
    BY <2>1 DEF PersistOK, PersistTasks
  <2>3. OrderOK(q)'
    BY <1>3, <2>2, OrderStays DEF DeviceOrder, OrderTask
  <2> QED
    BY <2>2, <2>3
<1>4. ASSUME task[e].step \in {"recover", "send", "fetch"}
      PROVE  /\ FirstOK(task[e].write)'
             /\ task[e].then = "caller" => staged[e] = <<>>
             /\ task[e].step = "fetch" =>
                  task[e].write.expected < High(task[e].write.name)'
  <2>1. LaneOK(e)
    BY <1>4, TaskCases DEF SaveInv, DeviceInv
  <2>2. PICK w \in Writes : w = task[e].write
    BY <2>1 DEF LaneOK, LaneTasks
  <2>3. FirstOK(w)'
    BY <1>4, <2>2, FirstStays DEF DeviceOrder, OrderTask
  <2>4. w.name \in Name /\ w.expected \in Nat
    BY DEF Writes
  <2>5. w.expected < High(w.name) => w.expected < High(w.name)'
    BY <2>4 DEF Later
  <2> QED
    BY <1>4, <2>2, <2>3, <2>5 DEF DeviceOrder, OrderTask
<1>5. OrderTask(e)'
  BY <1>3, <1>4 DEF OrderTask, DeviceOrder
<1>6. OrderOK(staged[e])' /\ OrderOK(disk[e])'
  BY <1>1, <1>2
<1> QED
  BY <1>5, <1>6 DEF DeviceOrder

LEMMA StraysStay ==
  ASSUME SaveInv, OrderInv, Later, \A w \in stray' \ stray : FirstOK(w)'
  PROVE  \A w \in stray' : FirstOK(w)'
BY FirstStays DEF OrderInv, SaveInv, StrayInv, WriteOK

LEMMA OrderStep ==
  ASSUME SaveInv, OrderInv, Later, NEW d \in Device, policy' = policy,
         \A e \in Device \ {d} : /\ staged'[e] = staged[e] /\ disk'[e] = disk[e]
                                 /\ task'[e] = task[e],
         DeviceOrder(d)', \A w \in stray' \ stray : FirstOK(w)'
  PROVE  OrderInv'
<1>1. \A e \in Device \ {d} : DeviceOrder(e)'
  BY OrderElsewhere DEF OrderInv
<1>2. \A w \in stray' : FirstOK(w)'
  BY StraysStay
<1> QED
  BY <1>1, <1>2 DEF OrderInv

\* A step of the lane that leaves the queue and the adapter alone.
LEMMA OrderLane ==
  ASSUME SaveInv, OrderInv, Later, NEW d \in Device,
         UNCHANGED <<policy, staged, disk>>, stray' \subseteq stray,
         NEW t, task' = [task EXCEPT ![d] = t], OrderTask(d)'
  PROVE  OrderInv'
<1>1. PICK s \in Seq(Writes), k \in Seq(Writes) : s = staged[d] /\ k = disk[d]
  BY DEF SaveInv, CountInv
<1>2. OrderOK(s)' /\ OrderOK(k)'
  BY <1>1, OrderStays DEF OrderInv, DeviceOrder
<1>3. DeviceOrder(d)'
  BY <1>1, <1>2 DEF DeviceOrder, OrderInv
<1>4. DOMAIN task = Device
  BY DEF SaveInv, CountInv
<1>5. \A e \in Device \ {d} : task'[e] = task[e]
  BY <1>4
<1> QED
  BY <1>3, <1>5, OrderStep

\* A step that leaves every queue and lane alone.
LEMMA OrderServer ==
  ASSUME SaveInv, OrderInv, Later, UNCHANGED <<policy, staged, disk, task>>,
         stray' \subseteq stray
  PROVE  OrderInv'
<1>1. \A e \in Device : DeviceOrder(e)'
  BY OrderElsewhere DEF OrderInv
<1>2. \A w \in stray' : FirstOK(w)'
  BY StraysStay
<1> QED
  BY <1>1, <1>2 DEF OrderInv

LEMMA IdleOrder ==
  ASSUME NEW d \in Device, task'[d] = Idle
  PROVE  OrderTask(d)'
BY DEF OrderTask, Idle

LEMMA CallOrder ==
  ASSUME NEW d \in Device, task'[d].step \in {"read", "form"},
         CallOf[task'[d].id].kind # "claim"
  PROVE  OrderTask(d)'
BY DEF OrderTask

LEMMA PersistOrder ==
  ASSUME NEW d \in Device, task'[d].step = "persist", NEW q, task'[d].next = q,
         OrderOK(q)'
  PROVE  OrderTask(d)'
BY DEF OrderTask

LEMMA SentOrder ==
  ASSUME NEW d \in Device, task'[d].step \in {"recover", "send"},
         NEW w, task'[d].write = w, FirstOK(w)',
         task'[d].then = "caller" => staged'[d] = <<>>
  PROVE  OrderTask(d)'
BY DEF OrderTask

\* A write that is appended is behind the last one of its row.
LEMMA AppendOrder ==
  ASSUME NEW q \in Seq(Writes), NEW w \in Writes, OrderOK(q),
         (\A i \in 1..Len(q) : q[i].name # w.name) => FirstOK(w),
         \A i \in 1..Len(q) :
           /\ q[i].name = w.name
           /\ \A k \in 1..Len(q) : i < k => q[k].name # w.name
           => PairOK(q[i], w)
  PROVE  OrderOK(Append(q, w))
<1> DEFINE r == Append(q, w)
<1>1. /\ r \in Seq(Writes) /\ Len(r) = Len(q) + 1 /\ r[Len(q) + 1] = w
      /\ \A i \in 1..Len(q) : r[i] = q[i]
  BY BehindAll
<1>2. Len(q) \in Nat
  OBVIOUS
<1> HIDE DEF r
<1>3. \A i \in 1..Len(r) : i \in 1..Len(q) \/ i = Len(q) + 1
  BY <1>1, <1>2
<1>4. \A i \in 1..Len(q) : i \in 1..Len(r) /\ i < Len(q) + 1
  BY <1>1, <1>2
<1>5. ASSUME NEW i \in 1..Len(r), FirstAt(r, i)
      PROVE  FirstOK(r[i])
  <2>1. CASE i \in 1..Len(q)
    BY <1>1, <1>4, <1>5, <2>1 DEF FirstAt, OrderOK
  <2>2. CASE i = Len(q) + 1
    BY <1>1, <1>4, <1>5, <2>2 DEF FirstAt
  <2> QED
    BY <1>3, <2>1, <2>2
<1>6. ASSUME NEW i \in 1..Len(r), NEW j \in 1..Len(r), Adjacent(r, i, j)
      PROVE  PairOK(r[i], r[j])
  <2>1. i \in 1..Len(q)
    BY <1>1, <1>2, <1>6 DEF Adjacent
  <2>2. CASE j \in 1..Len(q)
    BY <1>1, <1>4, <1>6, <2>1, <2>2 DEF Adjacent, OrderOK
  <2>3. CASE j = Len(q) + 1
    <3>1. q[i].name = w.name /\ \A k \in 1..Len(q) : i < k => q[k].name # w.name
      BY <1>1, <1>4, <1>6, <2>1, <2>3 DEF Adjacent
    <3> QED
      BY <1>1, <2>1, <2>3, <3>1
  <2> QED
    BY <1>3, <2>2, <2>3
<1> QED
  BY <1>5, <1>6 DEF OrderOK, r

\* An update contains what its device believes of the row, and expects it.
LEMMA ItemOrder ==
  ASSUME SaveInv, OrderInv, OnlyUpdates, NEW d \in Device, NEW u \in Update,
         CallOf[u].kind # "claim"
  PROVE  /\ staged[d] = <<>> => FirstOK(ItemOf(d, u))
         /\ OrderOK(Append(staged[d], ItemOf(d, u)))
<1> DEFINE n == CallOf[u].name
<1>1. n \in Name /\ CallOf[u].kind \in {"update", "remove"}
  BY CallFacts DEF OnlyUpdates, CallKinds
<1>2. RowInv(d) /\ QueueInv(d)
  BY DEF SaveInv, DeviceInv
<1>3. PICK w \in Writes : w = ItemOf(d, u)
  BY <1>2, ItemIsOK
<1>4. /\ w.name = n /\ w.expected = Expected(d, n) /\ w.rebased = FALSE
      /\ w.kind = "store" => w.value = Base(d, n) \cup {u}
      /\ w.kind \in {"store", "remove"}
  BY <1>1, <1>3 DEF ItemOf
<1> HIDE DEF n
<1>5. ASSUME ~Staged(d, n)
      PROVE  FirstOK(w)
  <2>1. PICK k : k = known[d][n] /\ IsReal(k, n)
    BY <1>1, <1>2 DEF RowInv
  <2>2. w.expected = k.version /\ (w.kind = "store" => k.value \subseteq w.value)
    BY <1>4, <1>5, <2>1 DEF Expected, Base
  <2>3. k.version \in Nat /\ Len(history[n]) \in Nat
    BY <1>1, <2>1, HistoryTypes DEF IsReal, Rows, SaveInv
  <2> QED
    BY <1>4, <2>1, <2>2, <2>3 DEF FirstOK, IsReal, Version
<1>6. PICK q \in Seq(Writes) : q = staged[d] /\ OrderOK(q) /\ Len(q) \in Nat
  BY DEF SaveInv, CountInv, OrderInv, DeviceOrder
<1>7. ASSUME NEW i \in 1..Len(q), q[i].name = n,
             \A k \in 1..Len(q) : i < k => q[k].name # n
      PROVE  PairOK(q[i], w)
  <2>1. QueuedAt(d, n) = {k \in 1..Len(q) : q[k].name = n}
    BY <1>6 DEF QueuedAt
  <2>2. i \in QueuedAt(d, n) /\ \A k \in QueuedAt(d, n) : k <= i
    BY <1>6, <1>7, <2>1
  <2>3. \A j \in QueuedAt(d, n) : (\A k \in QueuedAt(d, n) : k <= j) => j = i
    BY <1>6, <2>1, <2>2
  <2>4. (CHOOSE j \in QueuedAt(d, n) : \A k \in QueuedAt(d, n) : k <= j) = i
    BY <2>2, <2>3
  <2>5. PICK o \in Writes : o = q[i] /\ o = Overlay(d, n)
    <3>1. Overlay(d, n) = staged[d][i]
      BY <2>4, Zenon DEF Overlay
    <3>2. q[i] \in Writes
      OBVIOUS
    <3> QED
      BY <1>6, <3>1, <3>2
  <2>6. Staged(d, n)
    BY <2>2 DEF Staged
  <2>7. /\ w.expected = IF o.kind = "remove" THEN 0 ELSE o.expected + 1
        /\ w.kind = "store" => o.value \subseteq w.value
    BY <1>4, <2>5, <2>6 DEF Expected, Base
  <2>8. o.expected \in Nat /\ o.kind \in {"store", "remove"}
    BY DEF Writes
  <2> QED
    BY <2>5, <2>7, <2>8 DEF PairOK
<1>8. ASSUME \A i \in 1..Len(q) : q[i].name # n
      PROVE  FirstOK(w)
  BY <1>5, <1>6, <1>8 DEF Staged, QueuedAt
<1>9. OrderOK(Append(q, w))
  BY <1>4, <1>6, <1>7, <1>8, AppendOrder
<1>10. staged[d] = <<>> => FirstOK(w)
  BY <1>6, <1>8
<1> QED
  BY <1>3, <1>6, <1>9, <1>10

\* The caller's write goes to the server, or behind the queue.
LEMMA QueuedOrder ==
  ASSUME SaveInv, Later, NEW d \in Device, NEW w \in Writes,
         OrderOK(Append(staged[d], w)),
         PersistNext(d, w, Append(staged[d], w), "caller")
  PROVE  OrderTask(d)' /\ \E t : task' = [task EXCEPT ![d] = t]
<1>1. PICK q \in Seq(Writes) : q = Append(staged[d], w)
  BY BehindAll DEF SaveInv, CountInv
<1>2. OrderOK(q)'
  BY <1>1, OrderStays
<1>3. PICK t : t = [step |-> "persist", write |-> w, attempt |-> 0, next |-> q,
                    then |-> "caller"]
  OBVIOUS
<1>4. task' = [task EXCEPT ![d] = t] /\ task'[d] = t
  BY <1>1, <1>3 DEF PersistNext, SaveInv, CountInv
<1>5. t.step = "persist" /\ t.next = q
  BY <1>3
<1> QED
  BY <1>2, <1>4, <1>5, PersistOrder

LEMMA WriteOrder ==
  ASSUME SaveInv, OrderInv, OnlyUpdates, Later, NEW d \in Device,
         NEW u \in Update, CallOf[u].kind # "claim", UNCHANGED staged, Write(d, u)
  PROVE  OrderTask(d)' /\ \E t : task' = [task EXCEPT ![d] = t]
<1>1. PICK w \in Writes : w = ItemOf(d, u)
  BY ItemIsOK DEF SaveInv, DeviceInv
<1>2. /\ staged[d] = <<>> => FirstOK(w)
      /\ OrderOK(Append(staged[d], w))
  BY <1>1, ItemOrder
<1>3. CASE policy.queue /\ staged[d] # <<>>
  <2>1. PersistNext(d, w, Append(staged[d], w), "caller")
    BY <1>1, <1>3 DEF Write
  <2> QED
    BY <1>2, <2>1, QueuedOrder
<1>4. CASE ~(policy.queue /\ staged[d] # <<>>)
  <2>1. staged[d] = <<>>
    BY <1>4 DEF OrderInv, DeviceOrder
  <2>2. PICK t : t = [step |-> "send", write |-> w, attempt |-> 0,
                      then |-> "caller"]
    OBVIOUS
  <2>3. task' = [task EXCEPT ![d] = t] /\ task'[d] = t
    BY <1>1, <1>4, <2>2 DEF Write, OnLane, SaveInv, CountInv
  <2>4. t.step = "send" /\ t.write = w
    BY <2>2
  <2>5. FirstOK(w)'
    BY <1>2, <2>1, FirstStays
  <2> QED
    BY <2>1, <2>3, <2>4, <2>5, SentOrder
<1> QED
  BY <1>3, <1>4

LEMMA UnavailableOrder ==
  ASSUME SaveInv, OrderInv, Later, NEW d \in Device, UNCHANGED staged,
         task[d].step \in {"recover", "send", "fetch"}, Unavailable(d)
  PROVE  OrderTask(d)' /\ \E t : task' = [task EXCEPT ![d] = t]
<1>1. LaneOK(d)
  BY TaskCases DEF SaveInv, DeviceInv
<1>2. PICK w \in Writes : w = task[d].write /\ FirstOK(w)
  BY <1>1 DEF LaneOK, LaneTasks, OrderInv, DeviceOrder, OrderTask
<1>3. CASE task[d].then = "caller" /\ policy.queue
  <2>1. PICK q \in Seq(Writes) : q = staged[d] /\ q = <<>> /\ OrderOK(q)
    BY <1>3 DEF OrderInv, DeviceOrder, OrderTask, SaveInv, CountInv
  <2>2. \A i \in 1..Len(q) : FALSE
    BY <2>1
  <2>3. OrderOK(Append(q, w))
    <3>1. q \in Seq(Writes) /\ w \in Writes /\ OrderOK(q) /\ FirstOK(w)
      BY <1>2, <2>1
    <3>2. \A i \in 1..Len(q) :
            /\ q[i].name = w.name
            /\ \A k \in 1..Len(q) : i < k => q[k].name # w.name
            => PairOK(q[i], w)
      BY <2>2
    <3> QED
      BY ONLY <3>1, <3>2, AppendOrder
  <2>4. PersistNext(d, w, Append(staged[d], w), "caller")
    BY <1>2, <1>3 DEF Unavailable
  <2> QED
    BY <2>1, <2>3, <2>4, QueuedOrder
<1>4. CASE ~(task[d].then = "caller" /\ policy.queue)
  <2>1. task' = [task EXCEPT ![d] = Idle]
    BY <1>4 DEF Unavailable, Done
  <2>2. task'[d] = Idle
    BY <2>1 DEF SaveInv, CountInv
  <2> QED
    BY <2>1, <2>2, IdleOrder
<1> QED
  BY <1>3, <1>4

-----------------------------------------------------------------------------
(* The head of the queue took effect *)

\* What was behind w may be sent once it is told the version w has made.
Hands(w, v) ==
  \A x \in Writes : x.name = w.name /\ PairOK(w, x) =>
    /\ FirstOK(OnVersion(x, v))'
    /\ \A y \in Writes : y.name = x.name /\ PairOK(x, y) =>
         PairOK(OnVersion(x, v), y)'

LEMMA OnVersionIs ==
  ASSUME NEW x \in Writes, NEW v \in Nat
  PROVE  \E r \in Writes :
           /\ r = OnVersion(x, v) /\ r.id = x.id /\ r.name = x.name
           /\ r.kind = x.kind /\ r.value = x.value /\ r.expected = v
           /\ r.rebased <=> x.rebased \/ v # x.expected
<1> DEFINE b == x.rebased \/ v # x.expected
           r == OnVersion(x, v)
<1>1. b \in BOOLEAN
  BY DEF Writes
<1>2. r = [x EXCEPT !.expected = v, !.rebased = b]
  BY DEF OnVersion
<1>3. b <=> x.rebased \/ v # x.expected
  OBVIOUS
<1> HIDE DEF b, r
<1>4. /\ r.id = x.id /\ r.name = x.name /\ r.kind = x.kind
      /\ r.value = x.value /\ r.expected = v /\ r.rebased = b
      /\ r \in Writes
  BY <1>1, <1>2 DEF Writes
<1>5. r.rebased <=> x.rebased \/ v # x.expected
  BY <1>3, <1>4
<1>6. r = OnVersion(x, v)
  BY DEF r
<1> QED
  BY <1>4, <1>5, <1>6

\* The version is one the row has had, with the value of w, that w did not
\* wait for.
LEMMA StoreHands ==
  ASSUME Later, NEW w \in Writes, w.kind = "store", NEW v \in Nat,
         v = Len(history'[w.name]), v > 0, history'[w.name][v] = w.value,
         High(w.name) <= v, w.expected < v
  PROVE  Hands(w, v)
<1> SUFFICES ASSUME NEW x \in Writes, x.name = w.name, PairOK(w, x)
             PROVE  /\ FirstOK(OnVersion(x, v))'
                    /\ \A y \in Writes : y.name = x.name /\ PairOK(x, y) =>
                         PairOK(OnVersion(x, v), y)'
  BY DEF Hands
<1>1. /\ w.name \in Name /\ w.expected \in Nat
      /\ x.expected \in Nat /\ x.kind \in {"store", "remove"}
      /\ x \in Writes /\ v \in Nat
  BY DEF Writes
<1>2. PICK h \in Nat : h = High(w.name) /\ h <= v
  BY <1>1 DEF Later
<1>3. x.expected <= v
  BY <1>1, <1>2 DEF PairOK
<1>4. x.kind = "store" /\ ~x.rebased /\ x.expected = v => w.value \subseteq x.value
  BY <1>1, <1>2 DEF PairOK
<1>5. PICK r \in Writes :
        /\ r = OnVersion(x, v) /\ r.name = x.name
        /\ r.kind = x.kind /\ r.value = x.value /\ r.expected = v
        /\ r.rebased <=> x.rebased \/ v # x.expected
  BY ONLY <1>1, OnVersionIs, SMTT(60)
<1>6. FirstOK(r)'
  BY <1>4, <1>5 DEF FirstOK, Version
<1>7. ASSUME NEW y \in Writes, y.name = x.name, PairOK(x, y)
      PROVE  PairOK(r, y)'
  <2>1. y.expected \in Nat
    BY DEF Writes
  <2>2. PICK k \in Nat : k = High(w.name)' /\ h <= k
    BY <1>1, <1>2 DEF Later
  <2>3. r.kind = "remove" => y.expected = 0
    BY <1>5, <1>7 DEF PairOK
  <2>4. y.expected <= v + 1 \/ y.expected <= k
    BY <1>1, <1>2, <1>3, <1>7, <2>1, <2>2 DEF PairOK
  <2>5. y.kind = "store" /\ ~y.rebased =>
          r.value \subseteq y.value \/ v >= y.expected \/ k > y.expected
    BY <1>1, <1>2, <1>3, <1>5, <1>7, <2>1, <2>2, SMTT(60) DEF PairOK
  <2> QED
    BY <1>5, <1>7, <2>2, <2>3, <2>4, <2>5 DEF PairOK
<1> QED
  BY <1>5, <1>6, <1>7

\* Behind a removal a write expects nothing.
LEMMA RemoveHands ==
  ASSUME Later, NEW w \in Writes, w.kind = "remove", NEW v \in Nat, v = 0
  PROVE  Hands(w, v)
<1> SUFFICES ASSUME NEW x \in Writes, x.name = w.name, PairOK(w, x)
             PROVE  /\ FirstOK(OnVersion(x, v))'
                    /\ \A y \in Writes : y.name = x.name /\ PairOK(x, y) =>
                         PairOK(OnVersion(x, v), y)'
  BY DEF Hands
<1>1. x.expected = 0 /\ x \in Writes /\ v \in Nat
  BY DEF PairOK
<1>2. PICK r \in Writes :
        /\ r = OnVersion(x, v) /\ r.name = x.name
        /\ r.kind = x.kind /\ r.value = x.value /\ r.expected = v
        /\ r.rebased <=> x.rebased \/ v # x.expected
  BY ONLY <1>1, OnVersionIs
<1>3. FirstOK(r)'
  <2>1. r.name \in Name
    BY DEF Writes
  <2>2. Len(history'[r.name]) \in Nat
    BY <2>1 DEF Later, ServerInv
  <2> QED
    BY <1>2, <2>2 DEF FirstOK, Version
<1>4. ASSUME NEW y \in Writes, PairOK(x, y)
      PROVE  PairOK(r, y)'
  <2>1. PairOK(x, y)'
    BY <1>4, PairStays
  <2> QED
    BY <1>1, <1>2, <2>1 DEF PairOK
<1> QED
  BY <1>2, <1>3, <1>4

\* A rebase is told to the first write of the name, and to no other.
LEMMA RebaseIs ==
  ASSUME NEW q \in Seq(Writes), NEW n \in Name, NEW v \in Nat,
         NEW i \in 1..Len(q)
  PROVE  Rebase(q, n, v)[i] =
           IF q[i].name = n /\ FirstAt(q, i) THEN OnVersion(q[i], v) ELSE q[i]
<1> DEFINE I == {k \in 1..Len(q) : q[k].name = n}
           first == CHOOSE k \in I : \A j \in I : k <= j
           r == [q EXCEPT ![first] = OnVersion(@, v)]
<1>1. Rebase(q, n, v) = IF I = {} THEN q ELSE r
  BY DEF Rebase
<1>2. I \subseteq Nat /\ Len(q) \in Nat
  OBVIOUS
<1>3. I # {} => first \in I /\ \A j \in I : first <= j
  BY <1>2, LeastOf
<1> HIDE DEF first
<1>4. r[i] = IF i = first THEN OnVersion(q[i], v) ELSE q[i]
  OBVIOUS
<1>5. I # {} => (i = first <=> q[i].name = n /\ FirstAt(q, i))
  BY <1>2, <1>3 DEF FirstAt
<1>6. I = {} => q[i].name # n
  <2>1. q[i].name = n => i \in I
    BY Zenon
  <2>2. QED
    BY <2>1
<1> QED
  BY <1>1, <1>4, <1>5, <1>6

\* The queue without its head, rebased.
LEMMA RebaseOrder ==
  ASSUME Later, NEW q \in Seq(Writes), q # <<>>, OrderOK(q), NEW w \in Writes,
         w = q[1], NEW v \in Nat, Hands(w, v), NEW n, n = w.name
  PROVE  /\ Rebase(Tail(q), n, v) \in Seq(Writes)
         /\ OrderOK(Rebase(Tail(q), n, v))'
<1>1. PICK t \in Seq(Writes) :
        /\ t = Tail(q) /\ Len(t) = Len(q) - 1
        /\ \A i \in 1..Len(t) : t[i] = q[i + 1] /\ i + 1 \in 1..Len(q)
  BY WithoutFirst
<1>2. n \in Name /\ Len(t) \in Nat /\ Len(q) \in Nat
  BY DEF Writes
<1>3. PICK r : r = Rebase(t, n, v)
  OBVIOUS
<1>4. /\ r \in Seq(Writes) /\ Len(r) = Len(t)
      /\ \A i \in 1..Len(t) : r[i].name = t[i].name
  BY <1>2, <1>3, RebaseKeeps
<1>5. \A i \in 1..Len(t) :
        r[i] = IF t[i].name = n /\ FirstAt(t, i) THEN OnVersion(t[i], v) ELSE t[i]
  BY <1>2, <1>3, RebaseIs
<1>6. \A i \in 1..Len(t) : t[i] \in Writes
  OBVIOUS
<1>7. \A k \in 1..Len(q) : k = 1 \/ \E l \in 1..Len(t) : k = l + 1 /\ t[l] = q[k]
  <2> SUFFICES ASSUME NEW k \in 1..Len(q), k # 1
               PROVE  \E l \in 1..Len(t) : k = l + 1 /\ t[l] = q[k]
    OBVIOUS
  <2>1. k - 1 \in 1..Len(t) /\ k = (k - 1) + 1
    BY <1>1, <1>2
  <2> QED
    BY <1>1, <2>1
<1>8. ASSUME NEW i \in 1..Len(t), t[i].name = n, FirstAt(t, i)
      PROVE  PairOK(w, t[i])
  <2>1. ASSUME NEW k \in 1..Len(q), 1 < k, k < i + 1
        PROVE  q[k].name # n
    <3>1. PICK l \in 1..Len(t) : k = l + 1 /\ t[l] = q[k]
      BY <1>7, <2>1
    <3>2. l < i
      BY <1>2, <2>1, <3>1
    <3> QED
      BY <1>8, <3>1, <3>2 DEF FirstAt
  <2>2. 1 \in 1..Len(q) /\ i + 1 \in 1..Len(q) /\ 1 < i + 1
    BY <1>1, <1>2
  <2>3. Adjacent(q, 1, i + 1)
    BY <1>1, <1>8, <2>1, <2>2 DEF Adjacent
  <2> QED
    BY <1>1, <2>2, <2>3 DEF OrderOK
<1>9. ASSUME NEW i \in 1..Len(t), t[i].name # n, FirstAt(t, i)
      PROVE  FirstOK(t[i])
  <2>1. ASSUME NEW k \in 1..Len(q), k < i + 1
        PROVE  q[k].name # t[i].name
    <3>1. CASE k = 1
      BY <1>9, <3>1
    <3>2. CASE k # 1
      <4>1. PICK l \in 1..Len(t) : k = l + 1 /\ t[l] = q[k]
        BY <1>7, <3>2
      <4>2. l < i
        BY <1>2, <2>1, <4>1
      <4> QED
        BY <1>9, <4>1, <4>2 DEF FirstAt
    <3> QED
      BY <3>1, <3>2
  <2>2. FirstAt(q, i + 1) /\ i + 1 \in 1..Len(q)
    BY <1>1, <2>1 DEF FirstAt
  <2> QED
    BY <1>1, <2>2 DEF OrderOK
<1>10. ASSUME NEW i \in 1..Len(t), NEW j \in 1..Len(t), Adjacent(t, i, j)
       PROVE  PairOK(t[i], t[j]) /\ ~FirstAt(t, j)
  <2>1. ASSUME NEW k \in 1..Len(q), i + 1 < k, k < j + 1
        PROVE  q[k].name # t[i].name
    <3>1. PICK l \in 1..Len(t) : k = l + 1 /\ t[l] = q[k]
      BY <1>2, <1>7, <2>1
    <3>2. i < l /\ l < j
      BY <1>2, <2>1, <3>1
    <3> QED
      BY <1>10, <3>1, <3>2 DEF Adjacent
  <2>2. /\ i + 1 \in 1..Len(q) /\ j + 1 \in 1..Len(q) /\ i + 1 < j + 1
        /\ q[i + 1] = t[i] /\ q[j + 1] = t[j]
    BY <1>1, <1>2, <1>10 DEF Adjacent
  <2>3. Adjacent(q, i + 1, j + 1)
    BY <1>10, <2>1, <2>2 DEF Adjacent
  <2> QED
    BY <1>10, <2>2, <2>3, SMTT(60) DEF OrderOK, Adjacent, FirstAt
<1>11. ASSUME NEW i \in 1..Len(r), FirstAt(r, i)
       PROVE  FirstOK(r[i])'
  <2>1. i \in 1..Len(t) /\ FirstAt(t, i)
    BY <1>4, <1>11 DEF FirstAt
  <2>2. PICK x \in Writes : x = t[i]
    BY <1>6, <2>1
  <2>3. CASE x.name = n
    <3>1. PairOK(w, x)
      BY <1>8, <2>1, <2>2, <2>3
    <3>2. FirstOK(OnVersion(x, v))'
      BY <2>3, <3>1 DEF Hands
    <3>3. r[i] = OnVersion(x, v)
      BY <1>5, <2>1, <2>2, <2>3
    <3> QED
      BY <3>2, <3>3
  <2>4. CASE x.name # n
    <3>1. FirstOK(x)'
      BY <1>9, <2>1, <2>2, <2>4, FirstStays
    <3>2. r[i] = x
      BY <1>5, <2>1, <2>2, <2>4
    <3> QED
      BY <3>1, <3>2
  <2> QED
    BY <2>3, <2>4
<1>12. ASSUME NEW i \in 1..Len(r), NEW j \in 1..Len(r), Adjacent(r, i, j)
       PROVE  PairOK(r[i], r[j])'
  <2>1. i \in 1..Len(t) /\ j \in 1..Len(t) /\ Adjacent(t, i, j)
    BY <1>4, <1>12 DEF Adjacent
  <2>2. PairOK(t[i], t[j]) /\ ~FirstAt(t, j)
    BY <1>10, <2>1
  <2>3. PICK x \in Writes, y \in Writes : x = t[i] /\ y = t[j]
    BY <1>6, <2>1
  <2>4. r[j] = y /\ y.name = x.name
    BY <1>5, <2>1, <2>2, <2>3 DEF Adjacent
  <2>5. CASE x.name = n /\ FirstAt(t, i)
    <3>1. PairOK(w, x)
      BY <1>8, <2>1, <2>3, <2>5
    <3>2. PairOK(OnVersion(x, v), y)'
      BY <2>2, <2>3, <2>4, <2>5, <3>1 DEF Hands
    <3>3. r[i] = OnVersion(x, v)
      BY <1>5, <2>1, <2>3, <2>5
    <3> QED
      BY <2>4, <3>2, <3>3
  <2>6. CASE ~(x.name = n /\ FirstAt(t, i))
    <3>1. PairOK(x, y)'
      BY <2>2, <2>3, PairStays
    <3>2. r[i] = x
      BY <1>5, <2>1, <2>3, <2>6
    <3> QED
      BY <2>4, <3>1, <3>2
  <2> QED
    BY <2>5, <2>6
<1>13. OrderOK(r)'
  BY <1>11, <1>12 DEF OrderOK, FirstAt, Adjacent
<1> QED
  BY <1>1, <1>3, <1>4, <1>13

\* The caller is told, or the queue is to lose its head.
LEMMA SettleOrder ==
  ASSUME SaveInv, OrderInv, Later, NEW d \in Device,
         task[d].step \in {"recover", "send", "fetch"},
         NEW w, w = task[d].write, NEW v \in Nat, Hands(w, v), Settle(d, w, v)
  PROVE  OrderTask(d)' /\ \E t : task' = [task EXCEPT ![d] = t]
<1>1. LaneOK(d) /\ DOMAIN task = Device
  BY TaskCases DEF SaveInv, DeviceInv, CountInv
<1>2. w \in Writes
  BY <1>1 DEF LaneOK, LaneTasks
<1>3. CASE task[d].then = "caller"
  <2>1. task' = [task EXCEPT ![d] = Idle]
    BY <1>3 DEF Settle, Done
  <2>2. task'[d] = Idle
    BY <1>1, <2>1
  <2> QED
    BY <2>1, <2>2, IdleOrder
<1>4. CASE task[d].then # "caller"
  <2>1. staged[d] # <<>> /\ staged[d][1] = w
    BY <1>1, <1>4 DEF LaneOK, LaneTasks
  <2>2. PICK q \in Seq(Writes) : q = staged[d] /\ OrderOK(q)
    BY DEF SaveInv, CountInv, OrderInv, DeviceOrder
  <2>3. PICK n : n = w.name
    OBVIOUS
  <2>4. PICK r : /\ r = Rebase(Tail(q), n, v) /\ r \in Seq(Writes)
                 /\ OrderOK(r)'
    BY <1>2, <2>1, <2>2, <2>3, RebaseOrder
  <2>5. PICK t : t = [step |-> "persist", write |-> w, attempt |-> 0, next |-> r,
                      then |-> "flush"]
    OBVIOUS
  <2>6. task' = [task EXCEPT ![d] = t]
    BY <1>4, <2>2, <2>3, <2>4, <2>5 DEF Settle, PersistNext
  <2>7. task'[d] = t /\ t.step = "persist" /\ t.next = r
    BY <1>1, <2>5, <2>6
  <2> QED
    BY <2>4, <2>6, <2>7, PersistOrder
<1> QED
  BY <1>3, <1>4

-----------------------------------------------------------------------------
(* A merge *)

LEMMA MergedIs ==
  ASSUME ServerInv, NEW w \in Writes, WriteOK(w), w.kind = "store"
  PROVE  \E m \in Writes :
           /\ m = Merged(w) /\ m.id = w.id /\ m.name = w.name /\ m.kind = w.kind
           /\ m.value = w.value \cup Row(w.name).value
           /\ m.expected = Row(w.name).version /\ ~m.rebased
<1>1. w.name \in Name
  BY DEF Writes
<1>2. PICK k : k = Row(w.name) /\ k \in Rows
  BY <1>1, RowIsReal DEF IsReal
<1>3. PICK m : m = [w EXCEPT !.value = @ \cup k.value,
                             !.expected = k.version, !.rebased = FALSE]
  OBVIOUS
<1>4. m = Merged(w)
  BY <1>2, <1>3 DEF Merged
<1>5. /\ m.id = w.id /\ m.name = w.name /\ m.kind = w.kind
      /\ m.value = w.value \cup k.value /\ m.expected = k.version
      /\ m.rebased = FALSE /\ m \in Writes
  BY <1>2, <1>3 DEF Writes, Rows
<1> QED
  BY <1>2, <1>4, <1>5

LEMMA MergedOrder ==
  ASSUME Later, NEW w \in Writes, WriteOK(w), w.kind = "store", FirstOK(w),
         w.expected < High(w.name)
  PROVE  /\ FirstOK(Merged(w))
         /\ \A y \in Writes : y.name = w.name /\ PairOK(w, y) =>
              PairOK(Merged(w), y)
<1>1. w.name \in Name /\ w.expected \in Nat
  BY DEF Writes
<1>2. PICK m \in Writes :
        /\ m = Merged(w) /\ m.name = w.name /\ m.kind = "store"
        /\ m.value = w.value \cup Row(w.name).value
        /\ m.expected = Row(w.name).version /\ ~m.rebased
  BY MergedIs DEF Later
<1>3. PICK v \in Nat : v = Len(history[w.name])
  BY <1>1 DEF Later, ServerInv
<1>4. CASE w.name \in live
  <2>1. v > 0
    BY <1>1, <1>3, <1>4 DEF Later, ServerInv
  <2>2. m.expected = v /\ history[w.name][v] \subseteq m.value
    BY <1>2, <1>3, <1>4 DEF Row, Version
  <2>3. w.expected < v /\ High(w.name) = v
    BY <1>3, <1>4 DEF High, Version
  <2>4. FirstOK(m)
    BY <1>2, <1>3, <2>2 DEF FirstOK, Version
  <2>5. ASSUME NEW y \in Writes, y.name = w.name, PairOK(w, y)
        PROVE  PairOK(m, y)
    <3>1. y.expected \in Nat
      BY DEF Writes
    <3>2. y.expected <= v
      BY <1>1, <2>3, <2>5, <3>1 DEF PairOK
    <3> QED
      BY <1>2, <2>2, <3>1, <3>2 DEF PairOK
  <2> QED
    BY <1>2, <2>4, <2>5
<1>5. CASE w.name \notin live
  <2>1. m.expected = 0 /\ m.value = w.value
    BY <1>2, <1>5 DEF Row
  <2>2. w.expected <= v /\ High(w.name) = v + 1
    BY <1>3, <1>5 DEF High, Version, FirstOK
  <2>3. FirstOK(m)
    BY <1>2, <1>3, <2>1 DEF FirstOK, Version
  <2>4. ASSUME NEW y \in Writes, y.name = w.name, PairOK(w, y)
        PROVE  PairOK(m, y)
    <3>1. y.expected \in Nat
      BY DEF Writes
    <3>2. y.expected <= v + 1
      BY <1>1, <2>2, <2>4, <3>1 DEF PairOK
    <3>3. y.kind = "store" /\ ~y.rebased =>
            m.value \subseteq y.value \/ v + 1 > y.expected
      BY <1>1, <2>1, <2>2, <2>4, <3>1 DEF PairOK
    <3> QED
      BY <1>2, <2>2, <2>4, <3>2, <3>3 DEF PairOK
  <2> QED
    BY <1>2, <2>3, <2>4
<1> QED
  BY <1>4, <1>5

LEMMA MergeOrder ==
  ASSUME NEW q \in Seq(Writes), q # <<>>, OrderOK(q), NEW w \in Writes,
         w = q[1], NEW m \in Writes, m.name = w.name, FirstOK(m),
         \A y \in Writes : y.name = w.name /\ PairOK(w, y) => PairOK(m, y)
  PROVE  OrderOK([q EXCEPT ![1] = m])
<1>1. PICK r \in Seq(Writes) :
        /\ r = [q EXCEPT ![1] = m] /\ Len(r) = Len(q)
        /\ r[1] = m /\ 1 \in 1..Len(q)
        /\ \A i \in 1..Len(q) : i # 1 => r[i] = q[i]
  <2> DEFINE r == [q EXCEPT ![1] = m]
  <2>1. /\ r \in Seq(Writes) /\ Len(r) = Len(q)
        /\ r[1] = m /\ 1 \in 1..Len(q)
        /\ \A i \in 1..Len(q) : i # 1 => r[i] = q[i]
    BY WithFirst
  <2>2. r = [q EXCEPT ![1] = m]
    OBVIOUS
  <2> HIDE DEF r
  <2> QED
    BY <2>1, <2>2
<1>2. \A i \in 1..Len(q) : r[i].name = q[i].name /\ q[i] \in Writes
  BY <1>1
<1>3. ASSUME NEW i \in 1..Len(r), FirstAt(r, i)
      PROVE  FirstOK(r[i])
  <2>1. FirstAt(q, i)
    BY <1>1, <1>2, <1>3 DEF FirstAt
  <2> QED
    BY <1>1, <2>1 DEF OrderOK
<1>4. ASSUME NEW i \in 1..Len(r), NEW j \in 1..Len(r), Adjacent(r, i, j)
      PROVE  PairOK(r[i], r[j])
  <2>1. Adjacent(q, i, j)
    BY <1>1, <1>2, <1>4 DEF Adjacent
  <2>2. PairOK(q[i], q[j]) /\ q[j].name = q[i].name /\ r[j] = q[j]
    BY <1>1, <2>1 DEF OrderOK, Adjacent
  <2> QED
    BY <1>1, <1>2, <2>2
<1> QED
  BY <1>1, <1>3, <1>4 DEF OrderOK

-----------------------------------------------------------------------------
(* The steps *)

LEMMA Quiet ==
  ASSUME SaveInv, UNCHANGED <<history, live>>, called \subseteq called'
  PROVE  Later
BY ItIsLater DEF ServerStep

LEMMA CallOrders ==
  ASSUME SaveInv, OrderInv, OnlyUpdates, NEW d \in Device, NEW u \in Update,
         Call(d, u)
  PROVE  OrderInv'
<1>1. /\ CallOf[u].kind # "claim" /\ called' = called \cup {u}
      /\ UNCHANGED <<policy, history, live, staged, disk, stray>>
  BY DEF Call
<1>2. Later
  BY <1>1, Quiet
<1>3. CASE MustRead(d, u)
  <2>1. PICK t : t = [step |-> "read", id |-> u]
    OBVIOUS
  <2>2. task' = [task EXCEPT ![d] = t]
    BY <1>3, <2>1 DEF Call
  <2>3. task'[d] = t
    BY <2>2 DEF SaveInv, CountInv
  <2>4. OrderTask(d)'
    BY <1>1, <2>1, <2>3, CallOrder
  <2> QED
    BY <1>1, <1>2, <2>2, <2>4, OrderLane
<1>4. CASE ~MustRead(d, u)
  <2>1. OrderTask(d)' /\ \E t : task' = [task EXCEPT ![d] = t]
    BY <1>1, <1>2, <1>4, WriteOrder DEF Call
  <2> QED
    BY <1>1, <1>2, <2>1, OrderLane
<1> QED
  BY <1>3, <1>4

LEMMA FormOrders ==
  ASSUME SaveInv, OrderInv, OnlyUpdates, NEW d \in Device, Form(d)
  PROVE  OrderInv'
<1>1. /\ task[d].step = "form" /\ Write(d, task[d].id)
      /\ UNCHANGED <<policy, history, live, staged, disk, stray, called>>
  BY DEF Form
<1>2. Later
  BY <1>1, Quiet
<1>3. CallOK(d)
  BY <1>1, TaskCases DEF SaveInv, DeviceInv
<1>4. PICK u \in Update : u = task[d].id /\ CallOf[u].kind # "claim"
  BY <1>1, <1>3 DEF CallOK, CallTasks, OrderInv, DeviceOrder, OrderTask
<1>5. OrderTask(d)' /\ \E t : task' = [task EXCEPT ![d] = t]
  BY <1>1, <1>2, <1>4, WriteOrder
<1> QED
  BY <1>1, <1>2, <1>5, OrderLane

LEMMA ClaimOrders ==
  ASSUME SaveInv, OrderInv, NEW d \in Device, NEW u \in Update, Claim(d, u)
  PROVE  OrderInv'
<1> DEFINE n == CallOf[u].name
<1>1. /\ called' = called \cup {u}
      /\ UNCHANGED <<policy, staged, disk, task, stray>>
      /\ UNCHANGED <<history, live>> \/ Stores(n, {u})
  <2> DEFINE w == [name |-> n, value |-> {u}, expected |-> 0]
  <2>1. StoreRow(w) \/ UNCHANGED <<history, live>>
    BY DEF Claim
  <2>2. StoreRow(w) => Stores(n, {u})
    BY DEF StoreRow, Stores
  <2>3. called' = called \cup {u} /\ UNCHANGED <<policy, staged, disk, task, stray>>
    BY DEF Claim
  <2> HIDE DEF w
  <2> QED
    BY <2>1, <2>2, <2>3
<1>2. n \in Name /\ Named({u}, n)
  BY CallFacts DEF Named
<1>3. ServerStep
  BY <1>1, <1>2 DEF ServerStep
<1>4. Later
  BY <1>1, <1>3, ItIsLater
<1> QED
  BY <1>1, <1>4, OrderServer

LEMMA StrayOrders ==
  ASSUME SaveInv, OrderInv, NEW w \in stray, StrayArrives(w)
  PROVE  OrderInv'
<1>1. /\ stray' = stray \ {w}
      /\ Served(w) \/ UNCHANGED <<history, live>>
      /\ UNCHANGED <<policy, staged, disk, task, called>>
  BY DEF StrayArrives
<1>2. ServerStep
  BY <1>1, ServedIsStep DEF ServerStep, SaveInv, StrayInv
<1>3. Later
  BY <1>1, <1>2, ItIsLater
<1> QED
  BY <1>1, <1>3, OrderServer

LEMMA HydrateOrders ==
  ASSUME SaveInv, OrderInv, NEW d \in Device, Hydrate(d)
  PROVE  OrderInv'
<1>1. /\ task[d] = Idle /\ policy.queue
      /\ staged' = [staged EXCEPT ![d] = disk[d]]
      /\ UNCHANGED <<policy, history, live, disk, task, stray, called>>
  BY DEF Hydrate
<1>2. Later
  BY <1>1, Quiet
<1>3. PICK k \in Seq(Writes) : k = disk[d] /\ OrderOK(k)
  BY DEF SaveInv, CountInv, OrderInv, DeviceOrder
<1>4. OrderOK(k)'
  BY <1>2, <1>3, OrderStays
<1>5. /\ staged'[d] = k /\ disk'[d] = k /\ task'[d] = Idle
      /\ \A e \in Device \ {d} : staged'[e] = staged[e]
  BY <1>1, <1>3 DEF SaveInv, CountInv
<1>6. OrderTask(d)'
  BY <1>5, IdleOrder
<1>7. DeviceOrder(d)'
  BY <1>1, <1>4, <1>5, <1>6 DEF DeviceOrder
<1> QED
  BY <1>1, <1>2, <1>5, <1>7, OrderStep

\* The head of a queue may be sent.
LEMMA FlushOrder ==
  ASSUME Later, NEW d \in Device, NEW q \in Seq(Writes), OrderOK(q),
         task'[d] = FlushHead(q)
  PROVE  OrderTask(d)'
<1>1. CASE q = <<>>
  BY <1>1, IdleOrder DEF FlushHead
<1>2. CASE q # <<>>
  <2>1. PICK w \in Writes : w = Head(q) /\ w = q[1] /\ 1 \in 1..Len(q)
    BY <1>2
  <2>2. FirstAt(q, 1)
    BY DEF FirstAt
  <2>3. FirstOK(w)'
    BY <2>1, <2>2, FirstStays DEF OrderOK
  <2>4. PICK t : t = [step |-> "recover", write |-> w, attempt |-> 0,
                      then |-> "flush"]
    OBVIOUS
  <2>5. task'[d] = t
    BY <1>2, <2>1, <2>4 DEF FlushHead, OnLane
  <2>6. t.step = "recover" /\ t.write = w /\ t.then = "flush"
    BY <2>4
  <2> QED
    BY <2>3, <2>5, <2>6, SentOrder
<1> QED
  BY <1>1, <1>2

LEMMA FlushOrders ==
  ASSUME SaveInv, OrderInv, NEW d \in Device, Flush(d)
  PROVE  OrderInv'
<1>1. /\ task' = [task EXCEPT ![d] = FlushHead(staged[d])]
      /\ UNCHANGED <<policy, history, live, staged, disk, stray, called>>
  BY DEF Flush
<1>2. Later
  BY <1>1, Quiet
<1>3. PICK q \in Seq(Writes) : q = staged[d] /\ OrderOK(q)
  BY DEF SaveInv, CountInv, OrderInv, DeviceOrder
<1>4. task'[d] = FlushHead(q)
  BY <1>1, <1>3 DEF SaveInv, CountInv
<1>5. OrderTask(d)'
  BY <1>2, <1>3, <1>4, FlushOrder
<1> QED
  BY <1>1, <1>2, <1>5, OrderLane

LEMMA DoneOrders ==
  ASSUME SaveInv, OrderInv, Later, NEW d \in Device, Done(d),
         UNCHANGED <<policy, staged, disk, stray>>
  PROVE  OrderInv'
<1>1. task' = [task EXCEPT ![d] = Idle]
  BY DEF Done
<1>2. task'[d] = Idle
  BY <1>1 DEF SaveInv, CountInv
<1> QED
  BY <1>1, <1>2, IdleOrder, OrderLane

LEMMA ReadOrders ==
  ASSUME SaveInv, OrderInv, NEW d \in Device, Read(d)
  PROVE  OrderInv'
<1>1. /\ task[d].step = "read"
      /\ UNCHANGED <<policy, history, live, staged, disk, stray, called>>
  BY DEF Read
<1>2. Later
  BY <1>1, Quiet
<1>3. CallOf[task[d].id].kind # "claim"
  BY <1>1 DEF OrderInv, DeviceOrder, OrderTask
<1>4. PICK t : t = [step |-> "form", id |-> task[d].id]
  OBVIOUS
<1>5. task' = [task EXCEPT ![d] = t] \/ Done(d)
  BY <1>4 DEF Read, Done
<1>6. CASE task' = [task EXCEPT ![d] = t]
  <2>1. task'[d] = t
    BY <1>6 DEF SaveInv, CountInv
  <2>2. task'[d].step = "form" /\ CallOf[task'[d].id].kind # "claim"
    BY <1>3, <1>4, <2>1
  <2>3. OrderTask(d)'
    BY <2>2, CallOrder
  <2> QED
    BY <1>1, <1>2, <1>6, <2>3, OrderLane
<1> QED
  BY <1>1, <1>2, <1>5, <1>6, DoneOrders

LEMMA PersistFailsOrders ==
  ASSUME SaveInv, OrderInv, NEW d \in Device, PersistFails(d)
  PROVE  OrderInv'
BY Quiet, DoneOrders DEF PersistFails

LEMMA OnTheLane ==
  ASSUME SaveInv, OrderInv, NEW d \in Device,
         task[d].step \in {"recover", "send", "fetch"}
  PROVE  \E w \in Writes : w = task[d].write /\ WriteOK(w) /\ FirstOK(w)
<1>1. LaneOK(d)
  BY TaskCases DEF SaveInv, DeviceInv
<1> QED
  BY <1>1 DEF LaneOK, LaneTasks, OrderInv, DeviceOrder, OrderTask

LEMMA RecoverOrders ==
  ASSUME SaveInv, OrderInv, NEW d \in Device, Recover(d)
  PROVE  OrderInv'
<1>1. /\ task[d].step = "recover"
      /\ UNCHANGED <<policy, history, live, staged, disk, stray, called>>
  BY DEF Recover
<1>2. Later
  BY <1>1, Quiet
<1>3. PICK w \in Writes : w = task[d].write /\ FirstOK(w)
  BY <1>1, OnTheLane
<1>4. /\ w.name \in Name /\ w.kind \in {"store", "remove"} /\ w.expected \in Nat
  BY DEF Writes
<1>5. CASE Recognised(w) /\ Settle(d, w, Row(w.name).version)
  <2>1. CASE w.kind = "store"
    <3>1. PICK v \in Nat : v = Len(history[w.name])
      BY <1>4, HistoryTypes DEF SaveInv
    <3>2. /\ w.name \in live /\ v > w.expected /\ history[w.name][v] = w.value
          /\ Row(w.name).version = v /\ High(w.name) = v
      BY <1>5, <2>1, <3>1 DEF Recognised, Version, Row, High
    <3>3. Hands(w, v)
      BY <1>1, <1>2, <1>4, <2>1, <3>1, <3>2, StoreHands
    <3>4. Settle(d, w, v)
      BY <1>5, <3>2
    <3>5. OrderTask(d)' /\ \E t : task' = [task EXCEPT ![d] = t]
      BY <1>1, <1>2, <1>3, <3>1, <3>3, <3>4, SettleOrder
    <3> QED
      BY <1>1, <1>2, <3>5, OrderLane
  <2>2. CASE w.kind = "remove"
    <3>1. PICK v \in Nat : v = 0
      OBVIOUS
    <3>2. Row(w.name).version = v
      BY <1>5, <2>2, <3>1 DEF Recognised, Row
    <3>3. Hands(w, v)
      BY <1>2, <2>2, <3>1, RemoveHands
    <3>4. Settle(d, w, v)
      BY <1>5, <3>2
    <3>5. OrderTask(d)' /\ \E t : task' = [task EXCEPT ![d] = t]
      BY <1>1, <1>2, <1>3, <3>1, <3>3, <3>4, SettleOrder
    <3> QED
      BY <1>1, <1>2, <3>5, OrderLane
  <2> QED
    BY <1>4, <2>1, <2>2
<1>6. CASE task' = [task EXCEPT ![d].step = "send"]
  <2>1. LaneOK(d)
    BY <1>1, TaskCases DEF SaveInv, DeviceInv
  <2>2. PICK t : t = [task[d] EXCEPT !.step = "send"]
    OBVIOUS
  <2>3. t.step = "send" /\ t.write = w /\ t.then = task[d].then
    BY <1>3, <2>1, <2>2 DEF LaneOK, LaneTasks
  <2>4. task' = [task EXCEPT ![d] = t] /\ task'[d] = t
    BY <1>6, <2>2 DEF SaveInv, CountInv
  <2>5. FirstOK(w)'
    BY <1>2, <1>3, FirstStays
  <2>6. t.then = "caller" => staged'[d] = <<>>
    BY <1>1, <2>3 DEF OrderInv, DeviceOrder, OrderTask
  <2>7. OrderTask(d)'
    BY <2>3, <2>4, <2>5, <2>6, SentOrder
  <2> QED
    BY <1>1, <1>2, <2>4, <2>7, OrderLane
<1>7. CASE Done(d)
  BY <1>1, <1>2, <1>7, DoneOrders
<1> QED
  BY <1>3, <1>5, <1>6, <1>7 DEF Recover

LEMMA SendOkOrders ==
  ASSUME SaveInv, OrderInv, NEW d \in Device, SendOk(d)
  PROVE  OrderInv'
<1>1. /\ task[d].step = "send"
      /\ UNCHANGED <<policy, staged, disk, stray, called>>
  BY DEF SendOk
<1>2. PICK w \in Writes : w = task[d].write /\ WriteOK(w) /\ FirstOK(w)
  BY <1>1, OnTheLane
<1>3. /\ w.name \in Name /\ w.kind \in {"store", "remove"} /\ w.expected \in Nat
      /\ w.value \in SUBSET Update
  BY DEF Writes
<1>4. (Fits(w) /\ Served(w)) \/ UNCHANGED <<history, live>>
  BY <1>2 DEF SendOk
<1>5. ServerStep
  BY <1>2, <1>4, ServedIsStep DEF ServerStep
<1>6. Later
  BY <1>1, <1>5, ItIsLater
<1>7. CASE w.kind = "store"
  <2>1. PICK l \in Nat : l = Len(history[w.name])
    BY <1>3, HistoryTypes DEF SaveInv
  <2>2. PICK v \in Nat : v = l + 1
    BY SMTT(60)
  <2>3. Accepts(w) /\ Stores(w.name, w.value) /\ Settle(d, w, v)
    BY <1>2, <1>7, <2>1, <2>2 DEF SendOk, Fits, Served, StoreRow, Stores, Version
  <2>4. Len(history'[w.name]) = v /\ history'[w.name][v] = w.value
    BY <1>3, <2>1, <2>2, <2>3, OneMore DEF SaveInv
  <2>5. High(w.name) <= v /\ w.expected < v
    BY <1>3, <2>1, <2>2, <2>3 DEF High, Version, Accepts
  <2>6. Hands(w, v)
    BY <1>6, <1>7, <2>2, <2>4, <2>5, StoreHands
  <2>7. OrderTask(d)' /\ \E t : task' = [task EXCEPT ![d] = t]
    BY <1>1, <1>2, <1>6, <2>3, <2>6, SettleOrder
  <2> QED
    BY <1>1, <1>6, <2>7, OrderLane
<1>8. CASE w.kind = "remove"
  <2>1. PICK v \in Nat : v = 0
    OBVIOUS
  <2>2. Settle(d, w, [NotRead EXCEPT !.read = TRUE].version)
    BY <1>2, <1>8 DEF SendOk
  <2>3. [NotRead EXCEPT !.read = TRUE].version = v
    BY <2>1 DEF NotRead
  <2>4. Settle(d, w, v)
    BY <2>2, <2>3
  <2>5. Hands(w, v)
    BY <1>6, <1>8, <2>1, RemoveHands
  <2>6. OrderTask(d)' /\ \E t : task' = [task EXCEPT ![d] = t]
    BY <1>1, <1>2, <1>6, <2>4, <2>5, SettleOrder
  <2> QED
    BY <1>1, <1>6, <2>6, OrderLane
<1> QED
  BY <1>3, <1>7, <1>8

LEMMA SendLostOrders ==
  ASSUME SaveInv, OrderInv, NEW d \in Device, SendLost(d)
  PROVE  OrderInv'
<1>1. /\ task[d].step = "send" /\ Unavailable(d)
      /\ UNCHANGED <<policy, staged, disk, stray, called>>
  BY DEF SendLost
<1>2. PICK w \in Writes : w = task[d].write /\ WriteOK(w)
  BY <1>1, OnTheLane
<1>3. ServerStep
  BY <1>2, ServedIsStep DEF ServerStep, SendLost
<1>4. Later
  BY <1>1, <1>3, ItIsLater
<1>5. OrderTask(d)' /\ \E t : task' = [task EXCEPT ![d] = t]
  BY <1>1, <1>4, UnavailableOrder
<1> QED
  BY <1>1, <1>4, <1>5, OrderLane

\* A store is refused by a version that it did not expect: a later one.
LEMMA SendConflictOrders ==
  ASSUME SaveInv, OrderInv, NEW d \in Device, SendConflict(d)
  PROVE  OrderInv'
<1>1. /\ task[d].step = "send"
      /\ UNCHANGED <<policy, history, live, staged, disk, stray, called>>
  BY DEF SendConflict
<1>2. Later
  BY <1>1, Quiet
<1>3. PICK w \in Writes : w = task[d].write /\ FirstOK(w)
  BY <1>1, OnTheLane
<1>4. CASE w.kind = "store" /\ task' = [task EXCEPT ![d].step = "fetch"]
  <2>1. LaneOK(d)
    BY <1>1, TaskCases DEF SaveInv, DeviceInv
  <2>2. PICK t : t = [task[d] EXCEPT !.step = "fetch"]
    OBVIOUS
  <2>3. t.step = "fetch" /\ t.write = w /\ t.then = task[d].then
    BY <1>3, <2>1, <2>2 DEF LaneOK, LaneTasks
  <2>4. task' = [task EXCEPT ![d] = t] /\ task'[d] = t
    BY <1>4, <2>2 DEF SaveInv, CountInv
  <2>5. FirstOK(w)'
    BY <1>2, <1>3, FirstStays
  <2>6. t.then = "caller" => staged'[d] = <<>>
    BY <1>1, <2>3 DEF OrderInv, DeviceOrder, OrderTask
  <2>7. w.expected < High(w.name)'
    <3>1. ~Accepts(w)
      BY <1>3, <1>4 DEF SendConflict, Fits
    <3>2. w.expected \in Nat /\ w.name \in Name
      BY DEF Writes
    <3>3. Len(history[w.name]) \in Nat
      BY <3>2, HistoryTypes DEF SaveInv
    <3> QED
      BY <1>1, <1>3, <3>1, <3>2, <3>3 DEF Accepts, FirstOK, High, Version
  <2>8. OrderTask(d)'
    BY <2>3, <2>4, <2>5, <2>6, <2>7 DEF OrderTask
  <2> QED
    BY <1>1, <1>2, <2>4, <2>8, OrderLane
<1>5. CASE Done(d)
  BY <1>1, <1>2, <1>5, DoneOrders
<1> QED
  BY <1>3, <1>4, <1>5 DEF SendConflict

LEMMA FetchOrders ==
  ASSUME SaveInv, OrderInv, NEW d \in Device, Fetch(d)
  PROVE  OrderInv'
<1>1. /\ task[d].step = "fetch"
      /\ UNCHANGED <<policy, history, live, disk, stray, called>>
  BY DEF Fetch
<1>2. Later
  BY <1>1, Quiet
<1>3. LaneOK(d) /\ DOMAIN task = Device /\ OrderTask(d)
  BY <1>1, TaskCases DEF SaveInv, DeviceInv, CountInv, OrderInv, DeviceOrder
<1>4. PICK w \in Writes : /\ w = task[d].write /\ WriteOK(w) /\ FirstOK(w)
                          /\ w.kind = "store" /\ w.expected < High(w.name)
  BY <1>1, <1>3 DEF LaneOK, LaneTasks, OrderTask
<1>5. PICK m \in Writes : m = Merged(w) /\ m.name = w.name
  BY <1>4, MergedIs DEF SaveInv
<1>6. /\ FirstOK(m)
      /\ \A y \in Writes : y.name = w.name /\ PairOK(w, y) => PairOK(m, y)
  BY <1>2, <1>4, <1>5, MergedOrder
<1>7. FirstOK(m)'
  BY <1>2, <1>6, FirstStays
<1>8. CASE Unavailable(d) /\ UNCHANGED staged
  <2>1. OrderTask(d)' /\ \E t : task' = [task EXCEPT ![d] = t]
    BY <1>1, <1>2, <1>8, UnavailableOrder
  <2> QED
    BY <1>1, <1>2, <1>8, <2>1, OrderLane
<1>9. CASE task[d].then = "flush" /\ ~(Unavailable(d) /\ UNCHANGED staged)
  <2>1. /\ staged' = [staged EXCEPT ![d][1] = m]
        /\ task' = [task EXCEPT ![d] =
             [step |-> "persist", write |-> m, attempt |-> @.attempt + 1,
              next |-> staged'[d], then |-> "resend"]]
    BY <1>4, <1>5, <1>9 DEF Fetch
  <2>2. PICK s \in Seq(Writes) : /\ s = staged[d] /\ s # <<>> /\ s[1] = w
                                 /\ OrderOK(s) /\ policy.queue
    BY <1>3, <1>4, <1>9
       DEF LaneOK, SaveInv, CountInv, OrderInv, DeviceOrder
  <2>3. PICK q \in Seq(Writes) : q = [s EXCEPT ![1] = m]
    BY <2>2, WithFirst
  <2>4. OrderOK(q)
    BY <1>5, <1>6, <2>2, <2>3, MergeOrder
  <2>5. OrderOK(q)'
    BY <1>2, <2>4, OrderStays
  <2>6. staged' = [staged EXCEPT ![d] = q]
    BY <2>1, <2>2, <2>3
  <2>7. /\ staged'[d] = q
        /\ \A e \in Device \ {d} : staged'[e] = staged[e]
    BY <2>6 DEF SaveInv, CountInv
  <2>8. PICK t : t = [step |-> "persist", write |-> m,
                      attempt |-> task[d].attempt + 1, next |-> q,
                      then |-> "resend"]
    OBVIOUS
  <2>9. /\ task'[d] = t
        /\ \A e \in Device \ {d} : task'[e] = task[e]
    BY <1>3, <2>1, <2>7, <2>8
  <2>10. t.step = "persist" /\ t.next = q
    BY <2>8
  <2>11. OrderTask(d)'
    BY <2>5, <2>9, <2>10, PersistOrder
  <2>12. PICK k \in Seq(Writes) : k = disk[d] /\ OrderOK(k)
    BY DEF SaveInv, CountInv, OrderInv, DeviceOrder
  <2>13. OrderOK(k)'
    BY <1>2, <2>12, OrderStays
  <2>14. DeviceOrder(d)'
    BY <1>1, <2>2, <2>5, <2>7, <2>11, <2>12, <2>13 DEF DeviceOrder
  <2> QED
    BY <1>1, <1>2, <2>7, <2>9, <2>14, OrderStep
<1>10. CASE task[d].then # "flush" /\ ~(Unavailable(d) /\ UNCHANGED staged)
  <2>1. /\ task' = [task EXCEPT ![d] =
             [step |-> "send", write |-> m, attempt |-> @.attempt + 1,
              then |-> "caller"]]
        /\ UNCHANGED staged
    BY <1>4, <1>5, <1>10 DEF Fetch
  <2>2. PICK t : t = [step |-> "send", write |-> m,
                      attempt |-> task[d].attempt + 1, then |-> "caller"]
    OBVIOUS
  <2>3. task' = [task EXCEPT ![d] = t] /\ task'[d] = t
    BY <1>3, <2>1, <2>2
  <2>4. t.step = "send" /\ t.write = m
    BY <2>2
  <2>5. staged[d] = <<>>
    BY <1>1, <1>3, <1>10 DEF LaneOK, LaneTasks, OrderTask
  <2>6. OrderTask(d)'
    BY <1>7, <2>1, <2>3, <2>4, <2>5, SentOrder
  <2> QED
    BY <1>1, <1>2, <2>1, <2>3, <2>6, OrderLane
<1> QED
  BY <1>8, <1>9, <1>10

LEMMA PersistOrders ==
  ASSUME SaveInv, OrderInv, NEW d \in Device, Persist(d)
  PROVE  OrderInv'
<1>1. /\ task[d].step = "persist"
      /\ disk' = [disk EXCEPT ![d] = task[d].next]
      /\ staged' = [staged EXCEPT ![d] = task[d].next]
      /\ UNCHANGED <<policy, history, live, stray, called>>
  BY DEF Persist
<1>2. Later
  BY <1>1, Quiet
<1>3. PersistOK(d) /\ DOMAIN task = Device
  BY <1>1, TaskCases DEF SaveInv, DeviceInv, CountInv
<1>4. PICK q \in Seq(Writes) : q = task[d].next /\ OrderOK(q)
  BY <1>1, <1>3 DEF PersistOK, PersistTasks, OrderInv, DeviceOrder, OrderTask
<1>5. OrderOK(q)'
  BY <1>2, <1>4, OrderStays
<1>6. /\ staged'[d] = q /\ disk'[d] = q
      /\ \A e \in Device \ {d} : staged'[e] = staged[e] /\ disk'[e] = disk[e]
  BY <1>1, <1>4 DEF SaveInv, CountInv
<1>7. ASSUME task' = [task EXCEPT ![d] = Idle]
      PROVE  OrderTask(d)'
  BY <1>3, <1>7, IdleOrder
<1>8. ASSUME task' = [task EXCEPT ![d] = FlushHead(task[d].next)]
      PROVE  OrderTask(d)'
  <2>1. task'[d] = FlushHead(q)
    BY <1>3, <1>4, <1>8
  <2> QED
    BY <1>2, <1>4, <2>1, FlushOrder
<1>9. ASSUME task[d].then = "resend",
             task' = [task EXCEPT ![d] = [step |-> "send", write |-> @.write,
                        attempt |-> @.attempt, then |-> "flush"]]
      PROVE  OrderTask(d)'
  <2>1. q # <<>> /\ q[1] = task[d].write
    BY <1>3, <1>4, <1>9 DEF PersistOK
  <2>2. PICK w \in Writes : w = task[d].write /\ w = q[1] /\ 1 \in 1..Len(q)
    BY <2>1
  <2>3. FirstAt(q, 1)
    BY DEF FirstAt
  <2>4. FirstOK(w)'
    BY <1>5, <2>2, <2>3 DEF OrderOK, FirstAt
  <2>5. PICK t : t = [step |-> "send", write |-> w, attempt |-> task[d].attempt,
                      then |-> "flush"]
    OBVIOUS
  <2>6. task'[d] = t
    BY <1>3, <1>9, <2>2, <2>5
  <2>7. t.step = "send" /\ t.write = w /\ t.then = "flush"
    BY <2>5
  <2> QED
    BY <2>4, <2>6, <2>7, SentOrder
<1>10. task[d].then \in {"caller", "flush", "resend"}
  BY <1>3 DEF PersistOK, PersistTasks
<1>11. OrderTask(d)'
  <2>1. CASE task[d].then = "caller"
    BY <1>7, <2>1 DEF Persist, Done
  <2>2. CASE task[d].then = "flush"
    BY <1>7, <1>8, <2>2 DEF Persist
  <2>3. CASE task[d].then = "resend"
    BY <1>9, <2>3 DEF Persist
  <2> QED
    BY <1>10, <2>1, <2>2, <2>3
<1>12. DeviceOrder(d)'
  BY <1>1, <1>3, <1>5, <1>6, <1>11 DEF DeviceOrder, PersistOK
<1>13. \A e \in Device \ {d} : task'[e] = task[e]
  BY <1>3, <1>10 DEF Persist, Done
<1> QED
  BY <1>1, <1>2, <1>6, <1>12, <1>13, OrderStep

LEMMA SignOutOrders ==
  ASSUME SaveInv, OrderInv, NEW d \in Device, SignOut(d)
  PROVE  OrderInv'
<1> DEFINE none == <<>>
<1>1. /\ staged' = [staged EXCEPT ![d] = none]
      /\ task' = [task EXCEPT ![d] = Idle]
      /\ UNCHANGED <<policy, history, live, called>>
  BY DEF SignOut, Done
<1>2. Later
  BY <1>1, Quiet
<1>3. /\ staged'[d] = none /\ task'[d] = Idle
      /\ \A e \in Device \ {d} : staged'[e] = staged[e] /\ task'[e] = task[e]
  BY <1>1 DEF SaveInv, CountInv
<1>4. OrderOK(none)'
  BY DEF OrderOK
<1>5. OrderOK(disk[d])' /\ \A e \in Device \ {d} : disk'[e] = disk[e]
  <2>1. CASE UNCHANGED disk
    <3>1. PICK k \in Seq(Writes) : k = disk[d] /\ OrderOK(k)
      BY DEF SaveInv, CountInv, OrderInv, DeviceOrder
    <3>2. OrderOK(k)'
      BY <1>2, <3>1, OrderStays
    <3> QED
      BY <2>1, <3>1, <3>2
  <2>2. CASE task[d].step = "persist" /\ disk' = [disk EXCEPT ![d] = task[d].next]
    <3>1. PersistOK(d)
      BY <2>2, TaskCases DEF SaveInv, DeviceInv
    <3>2. PICK q \in Seq(Writes) : q = task[d].next /\ OrderOK(q)
      BY <2>2, <3>1
         DEF PersistOK, PersistTasks, OrderInv, DeviceOrder, OrderTask
    <3>3. OrderOK(q)'
      BY <1>2, <3>2, OrderStays
    <3>4. disk'[d] = q /\ \A e \in Device \ {d} : disk'[e] = disk[e]
      BY <2>2, <3>2 DEF SaveInv, CountInv
    <3> QED
      BY <3>3, <3>4
  <2> QED
    BY <2>1, <2>2 DEF SignOut
<1>6. \A w \in stray' \ stray : FirstOK(w)'
  <2>1. CASE task[d].step = "send" /\ stray' = stray \cup {task[d].write}
    <3>1. PICK w \in Writes : w = task[d].write /\ FirstOK(w)
      BY <2>1, OnTheLane
    <3>2. FirstOK(w)'
      BY <1>2, <3>1, FirstStays
    <3> QED
      BY <2>1, <3>1, <3>2
  <2> QED
    BY <2>1 DEF SignOut
<1>7. OrderTask(d)'
  BY <1>3, IdleOrder
<1>8. DeviceOrder(d)'
  BY <1>3, <1>4, <1>5, <1>7 DEF DeviceOrder
<1> QED
  BY <1>1, <1>2, <1>3, <1>5, <1>6, <1>8, OrderStep

-----------------------------------------------------------------------------
(* What a step may overwrite *)

LEMMA OrderStart == SaveInit => OrderInv
<1> SUFFICES ASSUME SaveInit
             PROVE  OrderInv
  OBVIOUS
<1>1. OrderOK(<<>>)
  BY DEF OrderOK
<1> QED
  BY <1>1 DEF SaveInit, OrderInv, DeviceOrder, OrderTask, Idle

LEMMA OrderStutters ==
  ASSUME SaveInv, OrderInv, UNCHANGED saveVars
  PROVE  OrderInv'
<1>1. /\ UNCHANGED <<policy, history, live, staged, disk, task, stray, called>>
  BY DEF saveVars
<1>2. Later
  BY <1>1, Quiet
<1> QED
  BY <1>1, <1>2, OrderServer

LEMMA OrderSteps ==
  ASSUME OnlyUpdates, SaveInv, OrderInv, [SaveNext]_saveVars
  PROVE  OrderInv'
<1>1. CASE UNCHANGED saveVars
  BY <1>1, OrderStutters
<1>2. ASSUME NEW d \in Device, NEW u \in Update, Call(d, u) \/ Claim(d, u)
      PROVE  OrderInv'
  BY <1>2, CallOrders, ClaimOrders
<1>3. ASSUME NEW d \in Device, Hydrate(d) \/ Flush(d) \/ SignOut(d)
      PROVE  OrderInv'
  BY <1>3, HydrateOrders, FlushOrders, SignOutOrders
<1>4. ASSUME NEW d \in Device, Lane(d)
      PROVE  OrderInv'
  BY <1>4, ReadOrders, FormOrders, RecoverOrders, SendOkOrders, SendLostOrders,
     SendConflictOrders, FetchOrders, PersistOrders, PersistFailsOrders DEF Lane
<1>5. ASSUME NEW w \in stray, StrayArrives(w)
      PROVE  OrderInv'
  BY <1>5, StrayOrders
<1> QED
  BY <1>1, <1>2, <1>3, <1>4, <1>5 DEF SaveNext

\* A write that fits a row that is there contains it, or was rebased.
LEMMA ServedDrops ==
  ASSUME SaveInv, NEW w, WriteOK(w), FirstOK(w), Fits(w), Served(w),
         NEW n \in Name, Dropped(n)
  PROVE  w.rebased
<1>1. /\ w \in Writes /\ w.name \in Name /\ w.kind \in {"store", "remove"}
      /\ w.expected \in Nat /\ w.value \in SUBSET Update
  BY DEF WriteOK, Writes
<1>2. \A m \in Name : Len(history[m]) \in Nat
  BY HistoryTypes DEF SaveInv
<1>3. w.kind = "store"
  BY <1>1, <1>2 DEF Served, DeleteRow, Dropped, Version
<1>4. Accepts(w) /\ Stores(w.name, w.value)
  BY <1>3 DEF Fits, Served, StoreRow, Stores
<1>5. /\ Len(history'[w.name]) = Len(history[w.name]) + 1
      /\ history'[w.name][Len(history[w.name]) + 1] = w.value
      /\ \A m \in Name : m # w.name => history'[m] = history[m]
  BY <1>1, <1>4, OneMore DEF SaveInv
<1>6. n = w.name
  BY <1>2, <1>5 DEF Dropped, Version
<1>7. w.expected = Len(history[n]) /\ Len(history[n]) > 0
  BY <1>4, <1>6 DEF Accepts, Dropped, Version, SaveInv, ServerInv
<1>8. ~(history[n][Len(history[n])] \subseteq w.value)
  BY <1>5, <1>6 DEF Dropped, Version
<1> QED
  BY <1>3, <1>6, <1>7, <1>8 DEF FirstOK

LEMMA NothingDropped ==
  ASSUME SaveInv, OrderInv, SaveNext, NEW n \in Name, Dropped(n)
  PROVE  Rebased
<1>1. ~UNCHANGED history
  BY HistoryTypes DEF Dropped, Version, SaveInv
<1>2. ASSUME NEW d \in Device, NEW u \in Update, Call(d, u) \/ Claim(d, u)
      PROVE  Rebased
  <2>1. Claim(d, u)
    BY <1>1, <1>2 DEF Call
  <2> DEFINE m == CallOf[u].name
             w == [name |-> m, value |-> {u}, expected |-> 0]
  <2>2. Accepts(w) /\ StoreRow(w)
    BY <1>1, <2>1 DEF Claim
  <2>3. m \in Name
    BY CallFacts
  <2>4. m \notin live
    BY <2>2, <2>3 DEF Accepts, Version, SaveInv, ServerInv
  <2>5. Stores(m, {u})
    BY <2>2 DEF StoreRow, Stores
  <2> HIDE DEF m, w
  <2>6. \A k \in Name : k # m => history'[k] = history[k]
    BY <2>3, <2>5, OneMore DEF SaveInv
  <2>7. n = m
    BY <2>6, HistoryTypes DEF Dropped, Version, SaveInv
  <2> QED
    BY <2>4, <2>7 DEF Dropped
<1>3. ASSUME NEW d \in Device, Hydrate(d) \/ Flush(d) \/ SignOut(d)
      PROVE  FALSE
  BY <1>1, <1>3 DEF Hydrate, Flush, SignOut
<1>4. ASSUME NEW d \in Device, Lane(d)
      PROVE  Rebased
  <2>1. SendOk(d) \/ SendLost(d)
    BY <1>1, <1>4 DEF Lane, Read, Form, Recover, SendConflict, Fetch, Persist,
                      PersistFails
  <2>2. task[d].step = "send"
    BY <2>1 DEF SendOk, SendLost
  <2>3. PICK w \in Writes : w = task[d].write /\ WriteOK(w) /\ FirstOK(w)
    BY <2>2, OnTheLane
  <2>4. Fits(w) /\ Served(w)
    BY <1>1, <2>1, <2>3 DEF SendOk, SendLost
  <2>5. w.rebased
    BY <2>3, <2>4, ServedDrops
  <2> QED
    BY <2>2, <2>3, <2>5, SMTT(60) DEF Rebased
<1>5. ASSUME NEW w \in stray, StrayArrives(w)
      PROVE  Rebased
  <2>1. Fits(w) /\ Served(w)
    BY <1>1, <1>5 DEF StrayArrives
  <2>2. WriteOK(w) /\ FirstOK(w)
    BY DEF SaveInv, StrayInv, OrderInv
  <2>3. w.rebased
    BY <2>1, <2>2, ServedDrops
  <2> QED
    BY <2>3 DEF Rebased
<1> QED
  BY <1>2, <1>3, <1>4, <1>5 DEF SaveNext

\* The safety half of SavePromise: where every value is formed from the one
\* that was read, a write that reaches the server contains what it overwrites,
\* through lost acknowledgements, restarts, queued writes, merges and requests
\* of closed pages; but for a queued write that was rebased behind a merge
\* (save.ts apply, flush).
THEOREM UpdatesOverwriteNothing ==
  ASSUME OnlyUpdates PROVE SaveSpec => OverwritesNothing
<1>1. SaveInit => SaveInv /\ OrderInv
  BY SaveStart, OrderStart
<1>2. SaveInv /\ OrderInv /\ [SaveNext]_saveVars => (SaveInv /\ OrderInv)'
  BY SaveSteps, OrderSteps
<1>3. ASSUME SaveInv, OrderInv, [SaveNext]_saveVars
      PROVE  [(\E n \in Name : Dropped(n)) => Rebased]_saveVars
  BY <1>3, NothingDropped
<1> QED
  BY <1>1, <1>2, <1>3, PTL DEF SaveSpec, OverwritesNothing

-----------------------------------------------------------------------------
(* The inductive invariant of Turns.  The logs are prefixes of one game, W.  *)

Log == Seq([by : Player, move : Nat])

OfGame(W, L) == L \in Log /\ IsPrefix(L, W)

\* The two players of a game of two.
Duo(seats) == IF Len(seats) = 2 THEN Range(seats) ELSE {}

\* A log that u is offered is one that the other player has.
Near(seats, pl, u, L) == u \in Duo(seats) => \A x \in Duo(seats) \ {u} : IsPrefix(L, pl[x].log)

\* An end that u hears of is the other player's, unless that one has downloaded moves
\* that u made meanwhile.
EndOK(seats, pl, u, L) ==
  u \in Duo(seats) /\ ~pl[u].done =>
    \A x \in Duo(seats) \ {u} :
      /\ pl[x].done /\ IsPrefix(L, pl[x].log)
      /\ L = pl[x].log \/ Len(L) < Len(pl[u].log)

FrameOK(seats, pl, W, u, f) ==
  /\ "type" \in DOMAIN f
  /\ f.type = "turn" => {"from", "game", "log"} \subseteq DOMAIN f /\ OfGame(W, f.log)
  /\ f.type = "log" => f.from \in Range(seats)
  /\ f.type = "start" => f.game \in Nat
  /\ f.type = "manifest" => OfGame(W, f.log) /\ Near(seats, pl, u, f.log)
  /\ f.type \in {"finish", "settle"} => f.log \in Log /\ EndOK(seats, pl, u, f.log)

Carried(seats, pl, W, u, s) ==
  \E S : s \in Seq(S) /\ \A f \in S : FrameOK(seats, pl, W, u, f)

FramesOK(seats, pl, W, d) ==
  /\ DOMAIN d = Player
  /\ \A u \in Player : /\ Carried(seats, pl, W, u, d[u])
                       /\ u \notin Range(seats) => d[u] = <<>>

GameFields == DOMAIN NewGame

GameOK(seats, pl, W, u, p) ==
  /\ GameFields \subseteq DOMAIN p
  /\ OfGame(W, p.log)
  /\ p.game \in Nat /\ p.from \in Player \cup {Nobody}
  /\ p.lane \in {"ready", "rows", "manifest"}
  /\ p.frozen \in BOOLEAN /\ p.done \in BOOLEAN /\ p.dirty \in BOOLEAN
  /\ p.frozen => p.buffer = <<>>
  /\ Carried(seats, pl, W, u, p.buffer)
  /\ p.assembly # NoLog => /\ {"log", "got"} \subseteq DOMAIN p.assembly
                           /\ OfGame(W, p.assembly.log)
                           /\ Near(seats, pl, u, p.assembly.log)
  /\ p.finish # NoLog => p.finish.log \in Log /\ EndOK(seats, pl, u, p.finish.log)
  /\ u \notin Range(seats) => p.game = 0 /\ ~p.done

GamesOK(seats, pl, W) ==
  DOMAIN pl = Player /\ \A u \in Player : GameOK(seats, pl, W, u, pl[u])

\* Each move of the game is in the log of who made it.
Kept(seats, pl, W) ==
  \A k \in 1..Len(W) : k <= Len(pl[seats[((k - 1) % Len(seats)) + 1]].log)

\* The host ends first, and who has ended has the same moves.
Ended(seats, pl) ==
  \A u \in Duo(seats) : pl[u].done =>
    /\ pl[seats[1]].done
    /\ \A v \in Duo(seats) : pl[v].done => pl[v].log = pl[u].log

StreamOK(seats, s) ==
  /\ {"by", "to", "log"} \subseteq DOMAIN s
  /\ s.by \in Range(seats) /\ s.to \in Range(seats) /\ s.by # s.to

SavesOK(W, sv) ==
  DOMAIN sv = Player /\ \A u \in Player : sv[u].game \in Nat /\ OfGame(W, sv[u].log)

SeatsOK ==
  /\ faults \in TurnSetup_ /\ Seats # <<>> /\ faults.reloads = {}
  /\ order = Seats /\ online \subseteq Range(Seats)
  /\ moves \in 0..faults.moves
  /\ requests \in Nat /\ \A u \in Player : play[u].request \in 0..requests

Whole(W) ==
  /\ Len(W) <= moves /\ Kept(Seats, play, W) /\ Ended(Seats, play)
  /\ GamesOK(Seats, play, W) /\ SavesOK(W, saved)
  /\ FramesOK(Seats, play, W, down)
  /\ \A s \in streams : StreamOK(Seats, s)

TurnInv == SeatsOK /\ \E W \in Log : Whole(W)

\* No page is reloaded: one that is may have lost moves, and make others.
NobodyReloads == \A s \in TurnSetups : s.reloads = {}

-----------------------------------------------------------------------------
(* Logs *)

\* A prefix, position by position.
LEMMA PrefixIs ==
  ASSUME NEW S, NEW s \in Seq(S), NEW t \in Seq(S)
  PROVE  IsPrefix(s, t) <=> Len(s) <= Len(t) /\ \A i \in 1..Len(s) : s[i] = t[i]
<1>1. Len(s) \in Nat /\ Len(t) \in Nat
  OBVIOUS
<1>2. SubSeq(s, 1, Len(s)) = s
  BY SubSeqFull
<1>3. CASE Len(s) <= Len(t)
  <2> DEFINE p == SubSeq(t, 1, Len(s))
  <2>1. /\ p \in Seq(S) /\ Len(p) = Len(s)
        /\ \A i \in 1..Len(s) : p[i] = t[i]
    BY <1>1, <1>3, SMTT(60)
  <2> HIDE DEF p
  <2>2. s = p <=> \A i \in 1..Len(s) : s[i] = p[i]
    BY <2>1, SeqEqual
  <2>3. QED
    BY <1>2, <1>3, <2>1, <2>2 DEF IsPrefix, p
<1>4. CASE ~(Len(s) <= Len(t))
  BY <1>4 DEF IsPrefix
<1>5. QED
  BY <1>3, <1>4

LEMMA LogIs ==
  ASSUME NEW L \in Log
  PROVE  Len(L) \in Nat /\ IsPrefix(L, L) /\ IsPrefix(<<>>, L) /\ <<>> \in Log
<1>1. Len(L) \in Nat /\ <<>> \in Log /\ Len(<<>>) = 0
  BY DEF Log
<1>2. IsPrefix(L, L)
  BY <1>1, PrefixIs DEF Log
<1>3. IsPrefix(<<>>, L)
  <2>1. Len(<<>>) <= Len(L) /\ \A i \in 1..Len(<<>>) : <<>>[i] = L[i]
    BY <1>1
  <2>2. ASSUME NEW s \in Log, Len(s) <= Len(L), \A i \in 1..Len(s) : s[i] = L[i]
        PROVE  IsPrefix(s, L)
    BY <2>2, PrefixIs DEF Log
  <2>3. QED
    BY <1>1, <2>1, <2>2
<1>4. QED
  BY <1>1, <1>2, <1>3

LEMMA PrefixGoesOn ==
  ASSUME NEW L \in Log, NEW M \in Log, NEW N \in Log, IsPrefix(L, M), IsPrefix(M, N)
  PROVE  IsPrefix(L, N)
<1>1. Len(L) \in Nat /\ Len(M) \in Nat /\ Len(N) \in Nat
  BY LogIs
<1>2. Len(L) <= Len(M) /\ \A i \in 1..Len(L) : L[i] = M[i]
  BY PrefixIs DEF Log
<1>3. Len(M) <= Len(N) /\ \A i \in 1..Len(M) : M[i] = N[i]
  BY PrefixIs DEF Log
<1>4. \A i \in 1..Len(L) : i \in 1..Len(M)
  BY <1>1, <1>2
<1>5. Len(L) <= Len(N) /\ \A i \in 1..Len(L) : L[i] = N[i]
  BY <1>1, <1>2, <1>3, <1>4
<1>6. QED
  BY <1>5, PrefixIs DEF Log

\* A prefix is shorter or the same.
LEMMA PrefixIsShorter ==
  ASSUME NEW L \in Log, NEW M \in Log, IsPrefix(L, M)
  PROVE  Len(L) <= Len(M) /\ (Len(L) < Len(M) \/ L = M)
<1>1. Len(L) \in Nat /\ Len(M) \in Nat
  BY LogIs
<1>2. Len(L) <= Len(M) /\ \A i \in 1..Len(L) : L[i] = M[i]
  BY PrefixIs DEF Log
<1>3. Len(L) = Len(M) => L = M
  BY <1>2, SeqEqual DEF Log
<1>4. QED
  BY <1>1, <1>2, <1>3

\* Prefixes of one game agree.
LEMMA PrefixesAgree ==
  ASSUME NEW W \in Log, NEW L, NEW M, OfGame(W, L), OfGame(W, M)
  PROVE  /\ IsPrefix(L, M) \/ IsPrefix(M, L)
         /\ Len(L) <= Len(M) => IsPrefix(L, M)
<1>1. L \in Log /\ M \in Log
  BY DEF OfGame
<1>2. Len(L) \in Nat /\ Len(M) \in Nat /\ Len(W) \in Nat
  BY <1>1, LogIs
<1>3. Len(L) <= Len(W) /\ \A i \in 1..Len(L) : L[i] = W[i]
  BY <1>1, PrefixIs DEF OfGame, Log
<1>4. Len(M) <= Len(W) /\ \A i \in 1..Len(M) : M[i] = W[i]
  BY <1>1, PrefixIs DEF OfGame, Log
<1>5. Len(L) <= Len(M) => IsPrefix(L, M)
  <2>1. SUFFICES ASSUME Len(L) <= Len(M) PROVE IsPrefix(L, M)
    OBVIOUS
  <2>2. \A i \in 1..Len(L) : i \in 1..Len(M)
    BY <1>2, <2>1
  <2>3. \A i \in 1..Len(L) : L[i] = M[i]
    BY <1>3, <1>4, <2>2
  <2>4. QED
    BY <1>1, <2>1, <2>3, PrefixIs DEF Log
<1>6. Len(M) <= Len(L) => IsPrefix(M, L)
  <2>1. SUFFICES ASSUME Len(M) <= Len(L) PROVE IsPrefix(M, L)
    OBVIOUS
  <2>2. \A i \in 1..Len(M) : i \in 1..Len(L)
    BY <1>2, <2>1
  <2>3. \A i \in 1..Len(M) : L[i] = M[i]
    BY <1>3, <1>4, <2>2
  <2>4. QED
    BY <1>1, <2>1, <2>3, PrefixIs DEF Log
<1>7. QED
  BY <1>2, <1>5, <1>6

\* A game that goes on keeps what fitted it.
LEMMA FitStays ==
  ASSUME NEW W \in Log, NEW V \in Log, IsPrefix(W, V), NEW L, OfGame(W, L)
  PROVE  OfGame(V, L)
BY PrefixGoesOn DEF OfGame

-----------------------------------------------------------------------------
(* Steps of a player *)

LEMMA OneOther ==
  ASSUME NEW seats \in Seq(Player), NEW u \in Duo(seats),
         NEW x \in Duo(seats) \ {u}, NEW y \in Duo(seats) \ {u}
  PROVE  x = y
<1>1. Len(seats) = 2 /\ Duo(seats) = {seats[i] : i \in 1..2}
  BY DEF Duo, Range
<1>2. Duo(seats) = {seats[1], seats[2]}
  BY <1>1
<1>3. QED
  BY <1>2

LEMMA HostIsOne ==
  ASSUME NEW seats \in Seq(Player), NEW u \in Duo(seats)
  PROVE  seats[1] \in Duo(seats) /\ u \in Range(seats)
<1>1. Len(seats) = 2 /\ Duo(seats) = Range(seats) /\ DOMAIN seats = 1..2
  BY DEF Duo
<1>2. QED
  BY <1>1 DEF Range

\* What the step of player u to q may do to its log and its end.
Goes(seats, pl, u, q) ==
  /\ q.log \in Log /\ IsPrefix(pl[u].log, q.log)
  /\ pl[u].done => q.done /\ (q.log = pl[u].log \/ Near(seats, pl, u, q.log))
  /\ ~pl[u].done /\ q.done =>
       \/ u \in Duo(seats) => \A x \in Duo(seats) \ {u} : pl[x].done /\ pl[x].log = q.log
       \/ u = seats[1] /\ \A x \in Duo(seats) : ~pl[x].done

StepsTo(pl, ql, u) == \A x \in Player \ {u} : ql[x] = pl[x]

PlayersOK(seats, pl) ==
  /\ seats \in Seq(Player)
  /\ \A x \in Player : pl[x].log \in Log /\ pl[x].done \in BOOLEAN
  /\ Ended(seats, pl)

LEMMA NearStays ==
  ASSUME NEW seats, NEW pl, NEW ql, NEW u \in Player, PlayersOK(seats, pl),
         StepsTo(pl, ql, u), Goes(seats, pl, u, ql[u]),
         NEW t \in Player, NEW L \in Log, Near(seats, pl, t, L)
  PROVE  Near(seats, ql, t, L)
<1>1. SUFFICES ASSUME t \in Duo(seats), NEW x \in Duo(seats) \ {t}
               PROVE  IsPrefix(L, ql[x].log)
  BY DEF Near
<1>2. x \in Player /\ IsPrefix(L, pl[x].log) /\ pl[x].log \in Log
  <2>1. seats \in Seq(Player) /\ Range(seats) \subseteq Player
    BY DEF PlayersOK, Range
  <2>2. QED
    BY <1>1, <2>1, HostIsOne DEF Near, PlayersOK
<1>3. CASE x = u
  BY <1>2, <1>3, PrefixGoesOn DEF Goes
<1>4. CASE x # u
  BY <1>2, <1>4 DEF StepsTo
<1>5. QED
  BY <1>3, <1>4

LEMMA EndStays ==
  ASSUME NEW seats, NEW pl, NEW ql, NEW u \in Player, PlayersOK(seats, pl),
         StepsTo(pl, ql, u), Goes(seats, pl, u, ql[u]), ql[u].done \in BOOLEAN,
         NEW t \in Player, NEW L \in Log, EndOK(seats, pl, t, L)
  PROVE  EndOK(seats, ql, t, L)
<1>1. SUFFICES ASSUME t \in Duo(seats), ~ql[t].done, NEW x \in Duo(seats) \ {t}
               PROVE  /\ ql[x].done /\ IsPrefix(L, ql[x].log)
                      /\ L = ql[x].log \/ Len(L) < Len(ql[t].log)
  BY DEF EndOK
<1>2. seats \in Seq(Player) /\ x \in Player /\ t \in Player
      /\ pl[x].log \in Log /\ pl[t].log \in Log
      /\ Len(pl[t].log) \in Nat /\ Len(pl[x].log) \in Nat /\ Len(L) \in Nat
      /\ ql[u].log \in Log /\ Len(ql[u].log) \in Nat
  <2>1. seats \in Seq(Player) /\ Range(seats) \subseteq Player
    BY DEF PlayersOK, Range
  <2>2. QED
    BY <1>1, <2>1, HostIsOne, LogIs DEF PlayersOK, Goes
<1>3. ~pl[t].done
  BY <1>1 DEF StepsTo, Goes, PlayersOK
<1>4. pl[x].done /\ IsPrefix(L, pl[x].log) /\ (L = pl[x].log \/ Len(L) < Len(pl[t].log))
  BY <1>1, <1>3 DEF EndOK
<1>5. Len(pl[u].log) <= Len(ql[u].log) /\ pl[u].log \in Log
  BY PrefixIsShorter DEF Goes, PlayersOK
<1>6. CASE t = u
  <2>1. ql[x] = pl[x]
    BY <1>1, <1>2, <1>6 DEF StepsTo
  <2>2. QED
    BY <1>2, <1>4, <1>5, <1>6, <2>1
<1>7. CASE t # u /\ x # u
  BY <1>2, <1>4, <1>7 DEF StepsTo
<1>8. CASE t # u /\ x = u
  <2>1. ql[t] = pl[t]
    BY <1>8 DEF StepsTo
  <2>2. ql[x].done /\ IsPrefix(L, ql[x].log)
    BY <1>2, <1>4, <1>8, PrefixGoesOn DEF Goes
  <2>3. CASE ql[u].log = pl[u].log
    BY <1>4, <1>8, <2>1, <2>2, <2>3
  <2>4. CASE ql[u].log # pl[u].log
    <3>1. Near(seats, pl, u, ql[u].log)
      BY <1>4, <1>8, <2>4 DEF Goes
    <3>2. IsPrefix(ql[u].log, pl[t].log)
      BY <1>1, <1>8, <3>1 DEF Near
    <3>3. Len(ql[u].log) <= Len(pl[t].log)
      BY <1>2, <3>2, PrefixIsShorter
    <3>4. Len(pl[u].log) < Len(ql[u].log)
      BY <1>2, <1>5, <2>4, PrefixIsShorter DEF Goes
    <3>5. Len(L) <= Len(pl[u].log)
      BY <1>4, <1>5, <1>8, PrefixIsShorter
    <3>6. QED
      BY <1>2, <1>5, <2>1, <2>2, <3>3, <3>4, <3>5, LogIs, SMTT(60)
  <2>5. QED
    BY <2>3, <2>4
<1>9. QED
  BY <1>6, <1>7, <1>8

LEMMA EndedStays ==
  ASSUME NEW seats, NEW pl, NEW ql, NEW u \in Player, PlayersOK(seats, pl),
         StepsTo(pl, ql, u), Goes(seats, pl, u, ql[u]), ql[u].done \in BOOLEAN
  PROVE  PlayersOK(seats, ql)
<1>1. seats \in Seq(Player) /\ Range(seats) \subseteq Player
  BY DEF PlayersOK, Range
<1>2. Duo(seats) \subseteq Player /\ \A x \in Duo(seats) : seats[1] \in Duo(seats)
  BY <1>1, HostIsOne
<1>3. \A x \in Player : ql[x].log \in Log /\ ql[x].done \in BOOLEAN
  BY DEF PlayersOK, StepsTo, Goes
<1>4. \A x \in Player : pl[x].done => ql[x].done
  BY DEF StepsTo, Goes
<1>5. CASE u \notin Duo(seats)
  <2>1. \A x \in Duo(seats) : ql[x] = pl[x]
    BY <1>2, <1>5 DEF StepsTo
  <2>2. Ended(seats, ql)
    BY <1>2, <2>1 DEF PlayersOK, Ended
  <2>3. QED
    BY <1>1, <1>3, <2>2 DEF PlayersOK
<1>6. CASE u \in Duo(seats) /\ ~ql[u].done
  <2>1. ~pl[u].done
    BY <1>4, <1>6
  <2>2. \A x \in Duo(seats) : ql[x].done => ql[x] = pl[x] /\ pl[x].done
    BY <1>2, <1>6 DEF StepsTo
  <2>3. \A x \in Duo(seats) : pl[x].done => pl[seats[1]].done /\ ql[seats[1]].done
    BY <1>2, <1>4 DEF PlayersOK, Ended
  <2>4. Ended(seats, ql)
    <3>1. SUFFICES ASSUME NEW x \in Duo(seats), ql[x].done
                   PROVE  /\ ql[seats[1]].done
                          /\ \A v \in Duo(seats) : ql[v].done => ql[v].log = ql[x].log
      BY DEF Ended
    <3>2. QED
      BY <2>2, <2>3, <3>1 DEF PlayersOK, Ended
  <2>5. QED
    BY <1>1, <1>3, <2>4 DEF PlayersOK
<1>7. CASE u \in Duo(seats) /\ ql[u].done
  <2>1. ql[seats[1]].done /\ \A x \in Duo(seats) \ {u} : ql[x].done => ql[x].log = ql[u].log
    <3>1. CASE pl[u].done
      <4>1. ql[seats[1]].done
        BY <1>2, <1>4, <1>7, <3>1 DEF PlayersOK, Ended
      <4>2. ASSUME NEW x \in Duo(seats) \ {u}, ql[x].done PROVE ql[x].log = ql[u].log
        <5>1. ql[x] = pl[x] /\ x \in Player
          BY <1>2, <4>2 DEF StepsTo
        <5>2. pl[x].log = pl[u].log
          BY <1>7, <3>1, <4>2, <5>1 DEF PlayersOK, Ended
        <5>3. CASE ql[u].log = pl[u].log
          BY <5>1, <5>2, <5>3
        <5>4. CASE ql[u].log # pl[u].log
          <6>1. IsPrefix(ql[u].log, pl[x].log)
            BY <1>7, <3>1, <4>2, <5>4 DEF Goes, Near
          <6>2. IsPrefix(pl[u].log, ql[u].log) /\ pl[u].log \in Log /\ ql[u].log \in Log
            BY DEF Goes, PlayersOK
          <6>3. Len(ql[u].log) <= Len(pl[u].log) /\ Len(pl[u].log) < Len(ql[u].log)
            BY <5>2, <5>4, <6>1, <6>2, PrefixIsShorter
          <6>4. QED
            BY <6>2, <6>3, LogIs
        <5>5. QED
          BY <5>3, <5>4
      <4>3. QED
        BY <4>1, <4>2
    <3>2. CASE ~pl[u].done /\ \A x \in Duo(seats) \ {u} : pl[x].done /\ pl[x].log = ql[u].log
      <4>1. \A x \in Duo(seats) \ {u} : ql[x] = pl[x]
        BY <1>2 DEF StepsTo
      <4>2. ql[seats[1]].done
        <5>1. CASE seats[1] = u
          BY <1>7, <5>1
        <5>2. CASE seats[1] # u
          BY <1>2, <1>7, <3>2, <4>1, <5>2
        <5>3. QED
          BY <5>1, <5>2
      <4>3. QED
        BY <3>2, <4>1, <4>2
    <3>3. CASE u = seats[1] /\ \A x \in Duo(seats) : ~pl[x].done
      BY <1>2, <1>7, <3>3 DEF StepsTo
    <3>4. QED
      BY <1>7, <3>1, <3>2, <3>3 DEF Goes
  <2>2. Ended(seats, ql)
    <3>1. SUFFICES ASSUME NEW x \in Duo(seats), ql[x].done, NEW v \in Duo(seats), ql[v].done
                   PROVE  ql[v].log = ql[x].log
      BY <2>1 DEF Ended
    <3>2. ql[x].log = ql[u].log /\ ql[v].log = ql[u].log
      BY <2>1, <3>1
    <3>3. QED
      BY <3>2
  <2>3. QED
    BY <1>1, <1>3, <2>2 DEF PlayersOK
<1>8. QED
  BY <1>5, <1>6, <1>7

-----------------------------------------------------------------------------
(* Frames and games in a step *)

\* What a step of u, or a move that goes on, keeps: pl becomes ql, and W becomes V.
Onward(seats, pl, ql, W, V, u) ==
  /\ W \in Log /\ V \in Log /\ IsPrefix(W, V)
  /\ PlayersOK(seats, pl) /\ StepsTo(pl, ql, u) /\ Goes(seats, pl, u, ql[u])
  /\ ql[u].done \in BOOLEAN

LEMMA FrameStays ==
  ASSUME NEW seats, NEW pl, NEW ql, NEW W, NEW V, NEW u \in Player,
         Onward(seats, pl, ql, W, V, u),
         NEW t \in Player, NEW f, FrameOK(seats, pl, W, t, f)
  PROVE  FrameOK(seats, ql, V, t, f)
<1>1. \A L : OfGame(W, L) => OfGame(V, L) /\ L \in Log
  BY FitStays DEF Onward, OfGame
<1>2. \A L \in Log : Near(seats, pl, t, L) => Near(seats, ql, t, L)
  BY NearStays DEF Onward
<1>3. \A L \in Log : EndOK(seats, pl, t, L) => EndOK(seats, ql, t, L)
  BY EndStays DEF Onward
<1>4. QED
  BY <1>1, <1>2, <1>3 DEF FrameOK

LEMMA CarriedStays ==
  ASSUME NEW seats, NEW pl, NEW ql, NEW W, NEW V, NEW u \in Player,
         Onward(seats, pl, ql, W, V, u),
         NEW t \in Player, NEW s, Carried(seats, pl, W, t, s)
  PROVE  Carried(seats, ql, V, t, s)
BY FrameStays DEF Carried

LEMMA FramesStay ==
  ASSUME NEW seats, NEW pl, NEW ql, NEW W, NEW V, NEW u \in Player,
         Onward(seats, pl, ql, W, V, u), NEW d, FramesOK(seats, pl, W, d)
  PROVE  FramesOK(seats, ql, V, d)
BY CarriedStays DEF FramesOK

LEMMA GameStays ==
  ASSUME NEW seats, NEW pl, NEW ql, NEW W, NEW V, NEW u \in Player,
         Onward(seats, pl, ql, W, V, u),
         NEW t \in Player, NEW p, GameOK(seats, pl, W, t, p)
  PROVE  GameOK(seats, ql, V, t, p)
<1>1. \A L : OfGame(W, L) => OfGame(V, L) /\ L \in Log
  BY FitStays DEF Onward, OfGame
<1>2. \A L \in Log : Near(seats, pl, t, L) => Near(seats, ql, t, L)
  BY NearStays DEF Onward
<1>3. \A L \in Log : EndOK(seats, pl, t, L) => EndOK(seats, ql, t, L)
  BY EndStays DEF Onward
<1>4. Carried(seats, ql, V, t, p.buffer)
  BY CarriedStays DEF GameOK
<1>5. QED
  BY <1>1, <1>2, <1>3, <1>4 DEF GameOK

LEMMA Fields ==
  GameFields = {"log", "game", "frozen", "done", "request", "from", "replay",
                "assembly", "buffer", "finish", "dirty", "lane", "gaveUp"}
BY DEF GameFields, NewGame

LEMMA NoneCarried ==
  ASSUME NEW seats, NEW pl, NEW W, NEW u
  PROVE  Carried(seats, pl, W, u, <<>>)
<1>1. PICK S : S = {}
  OBVIOUS
<1>2. <<>> \in Seq(S) /\ \A f \in S : FrameOK(seats, pl, W, u, f)
  BY <1>1
<1>3. QED
  BY <1>2 DEF Carried

LEMMA OneMoreCarried ==
  ASSUME NEW seats, NEW pl, NEW W, NEW u, NEW s, Carried(seats, pl, W, u, s),
         NEW f, FrameOK(seats, pl, W, u, f)
  PROVE  Carried(seats, pl, W, u, Append(s, f))
<1>1. PICK S : s \in Seq(S) /\ \A g \in S : FrameOK(seats, pl, W, u, g)
  BY DEF Carried
<1>2. s \in Seq(S \cup {f}) /\ f \in S \cup {f}
  BY <1>1
<1>3. Append(s, f) \in Seq(S \cup {f})
  BY <1>2
<1>4. QED
  BY <1>1, <1>3 DEF Carried

LEMMA BothCarried ==
  ASSUME NEW seats, NEW pl, NEW W, NEW u, NEW s, Carried(seats, pl, W, u, s),
         NEW t, Carried(seats, pl, W, u, t)
  PROVE  Carried(seats, pl, W, u, s \o t)
<1>1. PICK S : s \in Seq(S) /\ \A g \in S : FrameOK(seats, pl, W, u, g)
  BY DEF Carried
<1>2. PICK T : t \in Seq(T) /\ \A g \in T : FrameOK(seats, pl, W, u, g)
  BY DEF Carried
<1>3. s \in Seq(S \cup T) /\ t \in Seq(S \cup T)
  BY <1>1, <1>2
<1>4. s \o t \in Seq(S \cup T)
  BY <1>3
<1>5. QED
  BY <1>1, <1>2, <1>4 DEF Carried

LEMMA RestCarried ==
  ASSUME NEW seats, NEW pl, NEW W, NEW u, NEW s, Carried(seats, pl, W, u, s), s # <<>>
  PROVE  Carried(seats, pl, W, u, Tail(s)) /\ FrameOK(seats, pl, W, u, Head(s))
<1>1. PICK S : s \in Seq(S) /\ \A g \in S : FrameOK(seats, pl, W, u, g)
  BY DEF Carried
<1>2. Tail(s) \in Seq(S) /\ Head(s) \in S
  BY <1>1
<1>3. QED
  BY <1>1, <1>2 DEF Carried

LEMMA StartCarried ==
  ASSUME NEW seats, NEW pl, NEW W, NEW u, NEW s, Carried(seats, pl, W, u, s),
         NEW k \in 0..Len(s)
  PROVE  Carried(seats, pl, W, u, SubSeq(s, 1, k))
<1>1. PICK S : s \in Seq(S) /\ \A g \in S : FrameOK(seats, pl, W, u, g)
  BY DEF Carried
<1>2. Len(s) \in Nat
  BY <1>1
<1>3. SubSeq(s, 1, k) \in Seq(S)
  BY <1>1, <1>2
<1>4. QED
  BY <1>1, <1>3 DEF Carried

\* Frames to seats.
LEMMA PushIsOK ==
  ASSUME NEW seats, NEW pl, NEW W, NEW d, FramesOK(seats, pl, W, d),
         NEW U, U \subseteq Range(seats), NEW f,
         \A u \in U \cap Player : FrameOK(seats, pl, W, u, f)
  PROVE  FramesOK(seats, pl, W, Push(d, U, f))
<1> DEFINE e == Push(d, U, f)
<1>1. DOMAIN e = Player /\ \A u \in Player : e[u] = IF u \in U THEN Append(d[u], f) ELSE d[u]
  BY DEF Push
<1> HIDE DEF e
<1>2. \A u \in Player : Carried(seats, pl, W, u, e[u])
  BY <1>1, OneMoreCarried DEF FramesOK
<1>3. QED
  BY <1>1, <1>2 DEF FramesOK, e

LEMMA OneLaneIsOK ==
  ASSUME NEW seats, NEW pl, NEW W, NEW d, FramesOK(seats, pl, W, d),
         NEW u \in Range(seats), NEW s, Carried(seats, pl, W, u, s)
  PROVE  FramesOK(seats, pl, W, [d EXCEPT ![u] = s])
BY DEF FramesOK

LEMMA SendToIsOK ==
  ASSUME NEW seats, NEW pl, NEW W, NEW d, FramesOK(seats, pl, W, d),
         NEW u \in Range(seats), NEW t \in Range(seats), NEW f,
         FrameOK(seats, pl, W, t, f)
  PROVE  FramesOK(seats, pl, W, SendTo(d, u, t, f))
<1>1. FrameOK(seats, pl, W, u, [type |-> "error"])
  BY DEF FrameOK
<1>2. FramesOK(seats, pl, W, Push(d, {t}, f))
  BY PushIsOK
<1>3. FramesOK(seats, pl, W, Push(d, {u}, [type |-> "error"]))
  BY <1>1, PushIsOK
<1>4. QED
  BY <1>2, <1>3 DEF SendTo, ErrorTo

LEMMA SendPartyIsOK ==
  ASSUME NEW W, NEW pl, NEW d, FramesOK(order, pl, W, d), NEW u \in Range(order), NEW f,
         \A t \in Player : FrameOK(order, pl, W, t, f)
  PROVE  FramesOK(order, pl, W, SendParty(d, u, f))
<1>1. FrameOK(order, pl, W, u, [type |-> "error"])
  BY DEF FrameOK
<1>2. FramesOK(order, pl, W, Push(d, online \cap Members, f))
  BY PushIsOK DEF Members
<1>3. FramesOK(order, pl, W, Push(d, {u}, [type |-> "error"]))
  BY <1>1, PushIsOK
<1>4. QED
  BY <1>2, <1>3 DEF SendParty, ErrorTo

LEMMA AnnounceIsOK ==
  ASSUME NEW W, NEW pl, NEW d, FramesOK(order, pl, W, d), NEW i, NEW on
  PROVE  FramesOK(order, pl, W, Announce(d, order, i, on))
<1> DEFINE f == PartyFrame(order, i, on)
<1>1. \A u : FrameOK(order, pl, W, u, f)
  BY DEF FrameOK, PartyFrame
<1> HIDE DEF f
<1>2. FramesOK(order, pl, W, Push(d, Range(order) \cap on, f))
  BY <1>1, PushIsOK
<1>3. QED
  BY <1>2 DEF Announce, f

-----------------------------------------------------------------------------
(* Handlers of a player *)

\* A player u of the game with its game p and the frames d of everybody, in a step.
Turning(W, u, p, d) ==
  /\ SeatsOK /\ W \in Log /\ PlayersOK(Seats, play) /\ u \in Range(Seats)
  /\ GameOK(Seats, play, W, u, p) /\ FramesOK(Seats, play, W, d)
  /\ p.log = play[u].log /\ p.done = play[u].done /\ p.request \in 0..requests

\* What a handler makes of it.
Turned(W, u, p, r) ==
  /\ GameOK(Seats, play, W, u, r[1]) /\ FramesOK(Seats, play, W, r[2])
  /\ Goes(Seats, play, u, r[1])
  /\ r[1].request \in {0, p.request, requests + 1}

LEMMA SeatFacts ==
  ASSUME SeatsOK
  PROVE  /\ Seats \in Seq(Player) /\ Range(Seats) \subseteq Player
         /\ Seats[1] \in Range(Seats) /\ Len(Seats) \in Nat \ {0}
         /\ \A n \in Nat : /\ (n % Len(Seats)) + 1 \in 1..Len(Seats)
                           /\ PlayerAt(n) \in Range(Seats)
<1>1. faults.seats \in Seq(Player) /\ faults.seats # <<>>
  BY DEF SeatsOK, TurnSetup_, Seats
<1>2. Seats \in Seq(Player) /\ Len(Seats) \in Nat \ {0} /\ DOMAIN Seats = 1..Len(Seats)
  BY <1>1 DEF Seats
<1>3. \A i \in 1..Len(Seats) : Seats[i] \in Range(Seats) /\ Seats[i] \in Player
  BY <1>2 DEF Range
<1>4. \A n \in Nat : (n % Len(Seats)) + 1 \in 1..Len(Seats)
  BY <1>2
<1>5. Range(Seats) \subseteq Player /\ 1 \in 1..Len(Seats)
  BY <1>2, <1>3 DEF Range
<1>6. QED
  BY <1>2, <1>3, <1>4, <1>5 DEF PlayerAt

LEMMA ResponderIs ==
  ASSUME SeatsOK, NEW x, NEW on, Responder(x, on) # Nobody
  PROVE  Responder(x, on) \in Range(Seats) \cap on /\ Responder(x, on) # x
<1> DEFINE P == {i \in DOMAIN Seats : Seats[i] \in on \ {x}}
           k == CHOOSE i \in P : \A j \in P : i <= j
<1>1. P # {} /\ Responder(x, on) = Seats[k]
  BY DEF Responder
<1>2. DOMAIN Seats = 1..Len(Seats) /\ Len(Seats) \in Nat
  BY SeatFacts
<1>3. P \subseteq Nat
  BY <1>2
<1> HIDE DEF P
<1>4. \E i \in P : \A j \in P : i <= j
  BY <1>1, <1>3, LeastOf
<1>5. k \in P
  BY <1>4
<1>6. Seats[k] \in Range(Seats)
  BY <1>5 DEF P, Range
<1>7. QED
  BY <1>1, <1>5, <1>6 DEF P

\* A game whose moves and end are what they were.
LEMMA SameGoes ==
  ASSUME NEW W, NEW u, NEW p, NEW d, Turning(W, u, p, d),
         NEW q, q.log = p.log, q.done = p.done
  PROVE  Goes(Seats, play, u, q)
<1>1. u \in Player
  BY SeatFacts DEF Turning
<1>2. play[u].log \in Log /\ IsPrefix(play[u].log, play[u].log)
  BY <1>1, LogIs DEF Turning, PlayersOK
<1>3. QED
  BY <1>2 DEF Turning, Goes

LEMMA SameIsTurned ==
  ASSUME NEW W, NEW u, NEW p, NEW d, Turning(W, u, p, d)
  PROVE  Turned(W, u, p, <<p, d>>)
<1>1. Goes(Seats, play, u, p)
  BY SameGoes
<1>2. QED
  BY <1>1 DEF Turning, Turned

LEMMA FailedIsTurned ==
  ASSUME NEW W, NEW u, NEW p, NEW d, Turning(W, u, p, d)
  PROVE  Turned(W, u, p, <<Failed(p), d>>)
<1> DEFINE q == Failed(p)
<1>1. GameFields \subseteq DOMAIN p
  BY DEF Turning, GameOK
<1>2. /\ GameFields \subseteq DOMAIN q
      /\ q.log = p.log /\ q.game = p.game /\ q.frozen = TRUE /\ q.done = p.done
      /\ q.request = 0 /\ q.from = p.from /\ q.assembly = NoLog /\ q.buffer = <<>>
      /\ q.finish = p.finish /\ q.dirty = p.dirty /\ q.lane = p.lane
  BY <1>1, Fields DEF Failed
<1> HIDE DEF q
<1>3. Carried(Seats, play, W, u, q.buffer)
  BY <1>2, NoneCarried
<1>4. GameOK(Seats, play, W, u, q)
  BY <1>2, <1>3 DEF Turning, GameOK
<1>5. Goes(Seats, play, u, q)
  BY <1>2, SameGoes
<1>6. QED
  BY <1>2, <1>4, <1>5 DEF Turning, Turned, q

\* A game that writes its save is the same one.
LEMMA PersistingIs ==
  ASSUME NEW W, NEW u, NEW p, GameOK(Seats, play, W, u, p)
  PROVE  /\ GameOK(Seats, play, W, u, Persisting(p))
         /\ Persisting(p).log = p.log /\ Persisting(p).done = p.done
         /\ Persisting(p).request = p.request
<1>1. GameFields \subseteq DOMAIN p
  BY DEF GameOK
<1> DEFINE q == [p EXCEPT !.dirty = TRUE, !.lane = "rows"]
<1>2. /\ GameFields \subseteq DOMAIN q
      /\ q.log = p.log /\ q.game = p.game /\ q.frozen = p.frozen /\ q.done = p.done
      /\ q.request = p.request /\ q.from = p.from /\ q.assembly = p.assembly
      /\ q.buffer = p.buffer /\ q.finish = p.finish /\ q.dirty = TRUE /\ q.lane = "rows"
  BY <1>1, Fields
<1> HIDE DEF q
<1>3. GameOK(Seats, play, W, u, q)
  BY <1>2 DEF GameOK
<1>4. QED
  BY <1>2, <1>3 DEF Persisting, q

LEMMA RequestIsTurned ==
  ASSUME NEW W, NEW u, NEW p, NEW d, Turning(W, u, p, d)
  PROVE  Turned(W, u, p, RequestLog(u, p, d))
<1> DEFINE to == Responder(u, present[u])
           id == requests + 1
           q == [p EXCEPT !.request = id, !.replay = id, !.from = to,
                          !.assembly = NoLog, !.buffer = <<>>]
           g == [p EXCEPT !.gaveUp = TRUE]
           f == [type |-> "log", from |-> u, game |-> p.game, id |-> id]
<1>1. GameFields \subseteq DOMAIN p
  BY DEF Turning, GameOK
<1>2. CASE p.request # 0
  BY <1>2, SameIsTurned DEF RequestLog
<1>3. CASE p.request = 0 /\ to = Nobody
  <2>1. /\ GameFields \subseteq DOMAIN g
        /\ g.log = p.log /\ g.game = p.game /\ g.frozen = p.frozen /\ g.done = p.done
        /\ g.request = p.request /\ g.from = p.from /\ g.assembly = p.assembly
        /\ g.buffer = p.buffer /\ g.finish = p.finish /\ g.dirty = p.dirty
        /\ g.lane = p.lane
    BY <1>1, Fields
  <2> HIDE DEF g
  <2>2. GameOK(Seats, play, W, u, g)
    BY <2>1 DEF Turning, GameOK
  <2>3. Goes(Seats, play, u, g)
    BY <2>1, SameGoes
  <2>4. Turned(W, u, p, <<g, d>>)
    BY <2>1, <2>2, <2>3 DEF Turning, Turned
  <2>5. RequestLog(u, p, d) = <<g, d>>
    BY <1>3 DEF RequestLog, g
  <2>6. QED
    BY <2>4, <2>5
<1>4. CASE p.request = 0 /\ to # Nobody
  <2>1. to \in Range(Seats) /\ to \in Player
    BY <1>4, ResponderIs, SeatFacts DEF Turning
  <2>2. /\ GameFields \subseteq DOMAIN q
        /\ q.log = p.log /\ q.game = p.game /\ q.frozen = p.frozen /\ q.done = p.done
        /\ q.request = id /\ q.from = to /\ q.assembly = NoLog /\ q.buffer = <<>>
        /\ q.finish = p.finish /\ q.dirty = p.dirty /\ q.lane = p.lane
    BY <1>1, Fields
  <2>3. FrameOK(Seats, play, W, to, f)
    BY DEF FrameOK, Turning
  <2> HIDE DEF q, f, to
  <2>4. GameOK(Seats, play, W, u, q)
    BY <2>1, <2>2, NoneCarried DEF Turning, GameOK
  <2>5. Goes(Seats, play, u, q)
    BY <2>2, SameGoes
  <2>6. FramesOK(Seats, play, W, SendTo(d, u, to, f))
    BY <2>1, <2>3, SendToIsOK DEF Turning
  <2>7. Turned(W, u, p, <<q, d>>) /\ Turned(W, u, p, <<q, SendTo(d, u, to, f)>>)
    BY <2>2, <2>4, <2>5, <2>6 DEF Turning, Turned
  <2>8. \/ RequestLog(u, p, d) = <<q, d>>
        \/ RequestLog(u, p, d) = <<q, SendTo(d, u, to, f)>>
    BY <1>4 DEF RequestLog, q, f, to
  <2>9. QED
    BY <2>7, <2>8
<1>5. QED
  BY <1>2, <1>3, <1>4

LEMMA RequestKeeps ==
  ASSUME NEW W, NEW u, NEW p, NEW d, Turning(W, u, p, d)
  PROVE  RequestLog(u, p, d)[1].frozen = p.frozen
<1>1. GameFields \subseteq DOMAIN p
  BY DEF Turning, GameOK
<1>2. QED
  BY <1>1, Fields DEF RequestLog

\* What is not the log nor the end may change behind a handler.
LEMMA AlsoTurned ==
  ASSUME NEW W, NEW u, NEW p, NEW r, Turned(W, u, p, r),
         NEW q, GameOK(Seats, play, W, u, q), q.log = r[1].log, q.done = r[1].done,
         q.request = r[1].request
  PROVE  Turned(W, u, p, <<q, r[2]>>)
BY DEF Turned, Goes

LEMMA HeldIs ==
  ASSUME NEW W, NEW u, NEW f, FrameOK(Seats, play, W, u, f), f.type = "turn"
  PROVE  FrameOK(Seats, play, W, u, Held(f))
<1> DEFINE h == Held(f)
<1>1. {"type", "from", "game", "log"} \subseteq DOMAIN f
  BY DEF FrameOK
<1>2. {"type", "from", "game", "log"} \subseteq DOMAIN h /\ h.type = "turn" /\ h.log = f.log
  BY <1>1 DEF Held
<1> HIDE DEF h
<1>3. FrameOK(Seats, play, W, u, h)
  BY <1>2 DEF FrameOK
<1>4. QED
  BY <1>3 DEF h

LEMMA BufferedIsTurned ==
  ASSUME NEW W, NEW u, NEW p, NEW r, Turned(W, u, p, r), ~r[1].frozen,
         NEW f, FrameOK(Seats, play, W, u, f), f.type = "turn"
  PROVE  Turned(W, u, p, <<Buffered(r[1], f), r[2]>>)
<1> DEFINE s == r[1]
           h == Held(f)
           q == [s EXCEPT !.buffer = Append(@, h)]
<1>1. GameOK(Seats, play, W, u, s) /\ GameFields \subseteq DOMAIN s
  BY DEF Turned, GameOK
<1>2. FrameOK(Seats, play, W, u, h)
  BY HeldIs
<1> HIDE DEF s, h
<1>3. /\ GameFields \subseteq DOMAIN q
      /\ q.log = s.log /\ q.game = s.game /\ q.frozen = s.frozen /\ q.done = s.done
      /\ q.request = s.request /\ q.from = s.from /\ q.assembly = s.assembly
      /\ q.buffer = Append(s.buffer, h)
      /\ q.finish = s.finish /\ q.dirty = s.dirty /\ q.lane = s.lane
  BY <1>1, Fields
<1> HIDE DEF q
<1>4. Carried(Seats, play, W, u, q.buffer)
  BY <1>1, <1>2, <1>3, OneMoreCarried DEF GameOK
<1>5. ~s.frozen
  BY DEF s
<1>6. GameOK(Seats, play, W, u, q)
  BY <1>1, <1>3, <1>4, <1>5 DEF GameOK
<1>7. Turned(W, u, p, <<q, r[2]>>)
  BY <1>3, <1>6, AlsoTurned DEF s
<1>8. QED
  BY <1>7 DEF Buffered, q, s, h

LEMMA EndIsTurned ==
  ASSUME NEW W, NEW u, NEW p, NEW r, Turned(W, u, p, r),
         NEW L \in Log, EndOK(Seats, play, u, L)
  PROVE  Turned(W, u, p, <<[r[1] EXCEPT !.finish = [log |-> L]], r[2]>>)
<1> DEFINE s == r[1]
           q == [s EXCEPT !.finish = [log |-> L]]
<1>1. GameOK(Seats, play, W, u, s) /\ GameFields \subseteq DOMAIN s
  BY DEF Turned, GameOK
<1> HIDE DEF s
<1>2. /\ GameFields \subseteq DOMAIN q
      /\ q.log = s.log /\ q.game = s.game /\ q.frozen = s.frozen /\ q.done = s.done
      /\ q.request = s.request /\ q.from = s.from /\ q.assembly = s.assembly
      /\ q.buffer = s.buffer /\ q.finish.log = L /\ q.dirty = s.dirty /\ q.lane = s.lane
  BY <1>1, Fields
<1> HIDE DEF q
<1>3. GameOK(Seats, play, W, u, q)
  BY <1>1, <1>2 DEF GameOK
<1>4. Turned(W, u, p, <<q, r[2]>>)
  BY <1>2, <1>3, AlsoTurned DEF s
<1>5. QED
  BY <1>4 DEF q, s

LEMMA AcceptIsTurned ==
  ASSUME NEW W, NEW u, NEW p, NEW d, Turning(W, u, p, d),
         NEW f, FrameOK(Seats, play, W, u, f), f.type = "turn"
  PROVE  Turned(W, u, p, AcceptTurn(u, p, d, f))
<1> DEFINE r == AcceptTurn(u, p, d, f)
           q == [p EXCEPT !.log = f.log]
           s == RequestLog(u, p, d)
<1>1. GameFields \subseteq DOMAIN p /\ OfGame(W, f.log)
  BY DEF Turning, GameOK, FrameOK
<1>2. CASE r = <<p, d>>
  BY <1>2, SameIsTurned
<1>3. CASE r = <<Failed(p), d>>
  BY <1>3, FailedIsTurned
<1>4. CASE r = <<Buffered(p, f), d>> /\ ~p.frozen
  <2>1. Turned(W, u, p, <<p, d>>)
    BY SameIsTurned
  <2>2. Turned(W, u, p, <<Buffered(p, f), d>>)
    BY <1>4, <2>1, BufferedIsTurned
  <2>3. QED
    BY <1>4, <2>2
<1>5. CASE r = OnGap(u, p, d, f) /\ ~p.frozen
  <2>1. Turned(W, u, p, s) /\ ~s[1].frozen
    BY <1>5, RequestIsTurned, RequestKeeps
  <2> HIDE DEF s
  <2>2. Turned(W, u, p, <<Buffered(s[1], f), s[2]>>)
    BY <2>1, BufferedIsTurned
  <2>3. OnGap(u, p, d, f) = s \/ OnGap(u, p, d, f) = <<Buffered(s[1], f), s[2]>>
    BY DEF OnGap, s
  <2>4. QED
    BY <1>5, <2>1, <2>2, <2>3
<1>6. CASE r = <<Persisting(q), d>> /\ IsPrefix(p.log, f.log) /\ ~p.done
  <2>1. /\ GameFields \subseteq DOMAIN q
        /\ q.log = f.log /\ q.game = p.game /\ q.frozen = p.frozen /\ q.done = p.done
        /\ q.request = p.request /\ q.from = p.from /\ q.assembly = p.assembly
        /\ q.buffer = p.buffer /\ q.finish = p.finish /\ q.dirty = p.dirty /\ q.lane = p.lane
    BY <1>1, Fields
  <2> HIDE DEF q
  <2>2. GameOK(Seats, play, W, u, q)
    BY <1>1, <2>1 DEF Turning, GameOK
  <2> DEFINE t == Persisting(q)
  <2>3. GameOK(Seats, play, W, u, t) /\ t.log = f.log /\ t.done = p.done
        /\ t.request = p.request
    BY <2>1, <2>2, PersistingIs
  <2> HIDE DEF t
  <2>4. Goes(Seats, play, u, t)
    BY <1>1, <1>6, <2>3 DEF Goes, Turning, OfGame
  <2>5. Turned(W, u, p, <<t, d>>)
    BY <2>3, <2>4 DEF Turned, Turning
  <2>6. QED
    BY <1>6, <2>5 DEF t
<1>7. QED
  BY <1>2, <1>3, <1>4, <1>5, <1>6 DEF AcceptTurn

\* An end that is announced to a player that has its moves.
LEMMA FinishIs ==
  ASSUME NEW W, NEW u \in Range(Seats), NEW p, GameOK(Seats, play, W, u, p)
  PROVE  /\ GameOK(Seats, play, W, u, FinishLocal(p))
         /\ FinishLocal(p).log = p.log /\ FinishLocal(p).done = TRUE
         /\ FinishLocal(p).request = p.request
<1> DEFINE q == [p EXCEPT !.done = TRUE]
<1>1. GameFields \subseteq DOMAIN p
  BY DEF GameOK
<1>2. /\ GameFields \subseteq DOMAIN q
      /\ q.log = p.log /\ q.game = p.game /\ q.frozen = p.frozen /\ q.done = TRUE
      /\ q.request = p.request /\ q.from = p.from /\ q.assembly = p.assembly
      /\ q.buffer = p.buffer /\ q.finish = p.finish /\ q.dirty = p.dirty /\ q.lane = p.lane
  BY <1>1, Fields
<1> HIDE DEF q
<1>3. GameOK(Seats, play, W, u, q)
  BY <1>2 DEF GameOK
<1>4. FinishLocal(p) = q \/ FinishLocal(p) = Persisting(q)
  BY DEF FinishLocal, q
<1>5. QED
  BY <1>2, <1>3, <1>4, PersistingIs

LEMMA FinishIsTurned ==
  ASSUME NEW W, NEW u, NEW p, NEW d, Turning(W, u, p, d), EndOK(Seats, play, u, p.log)
  PROVE  Turned(W, u, p, <<FinishLocal(p), d>>)
<1> DEFINE q == FinishLocal(p)
<1>1. GameOK(Seats, play, W, u, q) /\ q.log = p.log /\ q.done = TRUE
      /\ q.request = p.request
  BY FinishIs DEF Turning
<1> HIDE DEF q
<1>2. u \in Player /\ play[u].log \in Log /\ IsPrefix(play[u].log, play[u].log)
      /\ Len(play[u].log) \in Nat
  BY SeatFacts, LogIs DEF Turning, PlayersOK
<1>3. ~play[u].done => (u \in Duo(Seats) =>
        \A x \in Duo(Seats) \ {u} : play[x].done /\ play[x].log = q.log)
  BY <1>1, <1>2 DEF EndOK, Turning
<1>4. Goes(Seats, play, u, q)
  BY <1>1, <1>2, <1>3 DEF Goes, Turning
<1>5. QED
  BY <1>1, <1>4 DEF Turned, Turning, q

LEMMA SettledIsTurned ==
  ASSUME NEW W, NEW u, NEW p, NEW d, Turning(W, u, p, d),
         NEW f, FrameOK(Seats, play, W, u, f), f.type = "settle"
  PROVE  Turned(W, u, p, <<Settled(p, f), d>>)
<1>1. f.log = p.log => Turned(W, u, p, <<FinishLocal(p), d>>)
  BY FinishIsTurned DEF FrameOK
<1>2. QED
  BY <1>1, SameIsTurned, FailedIsTurned DEF Settled

LEMMA FinishedIsTurned ==
  ASSUME NEW W, NEW u, NEW p, NEW d, Turning(W, u, p, d),
         NEW f, FrameOK(Seats, play, W, u, f), f.type = "finish"
  PROVE  Turned(W, u, p, Finished(u, p, d, f))
<1> DEFINE s == RequestLog(u, p, d)
<1>1. f.log \in Log /\ EndOK(Seats, play, u, f.log)
  BY DEF FrameOK
<1>2. f.log = p.log => Turned(W, u, p, <<FinishLocal(p), d>>)
  BY <1>1, FinishIsTurned
<1>3. Turned(W, u, p, <<p, d>>) /\ Turned(W, u, p, <<Failed(p), d>>)
  BY SameIsTurned, FailedIsTurned
<1>4. Turned(W, u, p, s)
  BY RequestIsTurned
<1> HIDE DEF s
<1>5. Turned(W, u, p, <<[p EXCEPT !.finish = [log |-> f.log]], d>>)
  BY <1>1, <1>3, EndIsTurned
<1>6. Turned(W, u, p, <<[s[1] EXCEPT !.finish = [log |-> f.log]], s[2]>>)
  BY <1>1, <1>4, EndIsTurned
<1>7. QED
  BY <1>2, <1>3, <1>4, <1>5, <1>6 DEF Finished, s

LEMMA CommitIsTurned ==
  ASSUME NEW W, NEW u, NEW p, NEW d, Turning(W, u, p, d),
         OfGame(W, p.assembly.log), Near(Seats, play, u, p.assembly.log)
  PROVE  Turned(W, u, p, Commit(u, p, d))
<1> DEFINE lg == p.assembly.log
           g == [type |-> "settle", log |-> p.finish.log, held |-> TRUE]
           end == IF p.finish = NoLog THEN <<>> ELSE <<g>>
           q == [p EXCEPT !.log = lg, !.request = 0, !.assembly = NoLog,
                          !.buffer = <<>>, !.finish = NoLog]
           t == Persisting(q)
           e == [d EXCEPT ![u] = p.buffer \o end \o @]
<1>1. GameFields \subseteq DOMAIN p
  BY DEF Turning, GameOK
<1>2. ASSUME IsPrefix(p.log, lg) PROVE Turned(W, u, p, <<t, e>>)
  <2>1. /\ GameFields \subseteq DOMAIN q
        /\ q.log = lg /\ q.game = p.game /\ q.frozen = p.frozen /\ q.done = p.done
        /\ q.request = 0 /\ q.from = p.from /\ q.assembly = NoLog
        /\ q.buffer = <<>> /\ q.finish = NoLog /\ q.dirty = p.dirty /\ q.lane = p.lane
    BY <1>1, Fields
  <2> HIDE DEF q
  <2>2. GameOK(Seats, play, W, u, q)
    BY <2>1, NoneCarried DEF Turning, GameOK
  <2>3. GameOK(Seats, play, W, u, t) /\ t.log = lg /\ t.done = p.done /\ t.request = 0
    BY <2>1, <2>2, PersistingIs
  <2> HIDE DEF t
  <2>4. Goes(Seats, play, u, t)
    BY <1>2, <2>3 DEF Goes, Turning, OfGame
  <2>5. Carried(Seats, play, W, u, end)
    <3>1. CASE p.finish = NoLog
      BY <3>1, NoneCarried
    <3>2. CASE p.finish # NoLog
      <4>1. FrameOK(Seats, play, W, u, g)
        BY <3>2 DEF FrameOK, Turning, GameOK
      <4> HIDE DEF g
      <4>2. Carried(Seats, play, W, u, Append(<<>>, g))
        BY <4>1, NoneCarried, OneMoreCarried
      <4>3. Append(<<>>, g) = <<g>>
        OBVIOUS
      <4>4. QED
        BY <3>2, <4>2, <4>3
    <3>3. QED
      BY <3>1, <3>2
  <2> HIDE DEF end
  <2>6. u \in Player /\ DOMAIN d = Player /\ Carried(Seats, play, W, u, d[u])
    BY SeatFacts DEF Turning, FramesOK
  <2>7. Carried(Seats, play, W, u, p.buffer)
    BY DEF Turning, GameOK
  <2>8. Carried(Seats, play, W, u, p.buffer \o end \o d[u])
    BY <2>5, <2>6, <2>7, BothCarried
  <2>9. FramesOK(Seats, play, W, e)
    BY <2>8, OneLaneIsOK DEF Turning
  <2>10. QED
    BY <2>3, <2>4, <2>9 DEF Turned
<1> HIDE DEF t, e
<1>3. \/ Commit(u, p, d) = <<p, d>>
      \/ Commit(u, p, d) = <<Failed(p), d>>
      \/ Commit(u, p, d) = <<t, e>> /\ IsPrefix(p.log, lg)
  BY DEF Commit, t, e
<1>4. QED
  BY <1>2, <1>3, SameIsTurned, FailedIsTurned

LEMMA ManifestIsTurned ==
  ASSUME NEW W, NEW u, NEW p, NEW d, Turning(W, u, p, d),
         NEW f, FrameOK(Seats, play, W, u, f), f.type = "manifest"
  PROVE  Turned(W, u, p, Manifest(u, p, d, f))
<1> DEFINE a == [log |-> f.log, got |-> {}]
           q == [p EXCEPT !.assembly = a]
<1>1. GameFields \subseteq DOMAIN p
  BY DEF Turning, GameOK
<1>2. OfGame(W, f.log) /\ Near(Seats, play, u, f.log)
  BY DEF FrameOK
<1>3. a.log = f.log /\ {"log", "got"} \subseteq DOMAIN a
  OBVIOUS
<1> HIDE DEF a
<1>4. /\ GameFields \subseteq DOMAIN q
      /\ q.log = p.log /\ q.game = p.game /\ q.frozen = p.frozen /\ q.done = p.done
      /\ q.request = p.request /\ q.from = p.from /\ q.assembly = a
      /\ q.buffer = p.buffer /\ q.finish = p.finish /\ q.dirty = p.dirty /\ q.lane = p.lane
  BY <1>1, Fields
<1> HIDE DEF q
<1>5. GameOK(Seats, play, W, u, q)
  BY <1>2, <1>3, <1>4 DEF Turning, GameOK
<1>6. Turning(W, u, q, d)
  BY <1>4, <1>5 DEF Turning
<1>7. Turned(W, u, q, Commit(u, q, d))
  BY <1>2, <1>3, <1>4, <1>6, CommitIsTurned
<1>8. Turned(W, u, p, Commit(u, q, d))
  BY <1>4, <1>7 DEF Turned
<1>9. QED
  BY <1>8, SameIsTurned DEF Manifest, q, a

LEMMA ChunkIsTurned ==
  ASSUME NEW W, NEW u, NEW p, NEW d, Turning(W, u, p, d), NEW f
  PROVE  Turned(W, u, p, Chunk(u, p, d, f))
<1> DEFINE a == [p.assembly EXCEPT !.got = @ \cup {f.part}]
           q == [p EXCEPT !.assembly = a]
<1>1. CASE p.assembly = NoLog
  BY <1>1, SameIsTurned DEF Chunk
<1>2. CASE p.assembly # NoLog
  <2>1. GameFields \subseteq DOMAIN p /\ {"log", "got"} \subseteq DOMAIN p.assembly
        /\ OfGame(W, p.assembly.log) /\ Near(Seats, play, u, p.assembly.log)
    BY <1>2 DEF Turning, GameOK
  <2>2. a.log = p.assembly.log /\ {"log", "got"} \subseteq DOMAIN a
    BY <2>1
  <2>3. [p EXCEPT !.assembly.got = @ \cup {f.part}] = q
    BY <2>1, Fields
  <2> HIDE DEF a
  <2>4. /\ GameFields \subseteq DOMAIN q
        /\ q.log = p.log /\ q.game = p.game /\ q.frozen = p.frozen /\ q.done = p.done
        /\ q.request = p.request /\ q.from = p.from /\ q.assembly = a
        /\ q.buffer = p.buffer /\ q.finish = p.finish /\ q.dirty = p.dirty /\ q.lane = p.lane
    BY <2>1, Fields
  <2> HIDE DEF q
  <2>5. GameOK(Seats, play, W, u, q)
    BY <2>1, <2>2, <2>4 DEF Turning, GameOK
  <2>6. Turning(W, u, q, d)
    BY <2>4, <2>5 DEF Turning
  <2>7. Turned(W, u, q, Commit(u, q, d))
    BY <2>1, <2>2, <2>4, <2>6, CommitIsTurned
  <2>8. Turned(W, u, p, Commit(u, q, d))
    BY <2>4, <2>7 DEF Turned
  <2>9. Chunk(u, p, d, f) \in {<<p, d>>, Commit(u, q, d)}
    BY <2>3 DEF Chunk
  <2>10. QED
    BY <2>8, <2>9, SameIsTurned
<1>3. QED
  BY <1>1, <1>2

LEMMA StartedIsTurned ==
  ASSUME NEW W, NEW u, NEW p, NEW d, Turning(W, u, p, d),
         NEW f, FrameOK(Seats, play, W, u, f), f.type = "start"
  PROVE  Turned(W, u, p, <<Started(p, f), d>>)
<1> DEFINE q == [p EXCEPT !.game = f.game]
<1>1. GameFields \subseteq DOMAIN p /\ f.game \in Nat
  BY DEF Turning, GameOK, FrameOK
<1>2. /\ GameFields \subseteq DOMAIN q
      /\ q.log = p.log /\ q.game = f.game /\ q.frozen = p.frozen /\ q.done = p.done
      /\ q.request = p.request /\ q.from = p.from /\ q.assembly = p.assembly
      /\ q.buffer = p.buffer /\ q.finish = p.finish /\ q.dirty = p.dirty /\ q.lane = p.lane
  BY <1>1, Fields
<1> HIDE DEF q
<1>3. GameOK(Seats, play, W, u, q)
  BY <1>1, <1>2 DEF Turning, GameOK
<1>4. Goes(Seats, play, u, q)
  BY <1>2, SameGoes
<1>5. Turned(W, u, p, <<q, d>>)
  BY <1>2, <1>3, <1>4 DEF Turning, Turned
<1>6. QED
  BY <1>5, SameIsTurned, FailedIsTurned DEF Started, q

LEMMA AnswerIsTurned ==
  ASSUME NEW W, NEW u, NEW p, NEW d, Turning(W, u, p, d),
         NEW f, FrameOK(Seats, play, W, u, f), f.type = "log"
  PROVE  Turned(W, u, p, Answer(u, p, d, f))
<1>1. CASE ~Answers(u, p, f)
  BY <1>1, SameIsTurned DEF Answer
<1>2. CASE Answers(u, p, f)
  <2> DEFINE g == StartFrame(u, p.game)
             m == [type |-> "manifest", from |-> u, game |-> p.game,
                   id |-> f.id, log |-> p.log]
             t == f.from
             e == SendTo(d, u, t, g)
  <2>1. t \in Range(Seats) /\ u \in Player /\ u # Nobody
    BY SeatFacts, GatewayAssumption DEF FrameOK, Turning
  <2>2. u # t
    BY <1>2, <2>1, ResponderIs DEF Answers, Turning
  <2>3. OfGame(W, p.log) /\ p.game \in Nat /\ p.log = play[u].log
    BY DEF Turning, GameOK
  <2>4. Near(Seats, play, t, p.log)
    <3>1. SUFFICES ASSUME t \in Duo(Seats), NEW x \in Duo(Seats) \ {t}
                   PROVE  IsPrefix(p.log, play[x].log)
      BY DEF Near
    <3>2. u \in Duo(Seats) \ {t}
      BY <2>2, <3>1 DEF Duo, Turning
    <3>3. Seats \in Seq(Player)
      BY SeatFacts DEF Turning
    <3>4. x = u
      BY <3>1, <3>2, <3>3, OneOther
    <3>5. QED
      BY <2>3, <3>4, LogIs DEF OfGame
  <2>5. FrameOK(Seats, play, W, t, g) /\ FrameOK(Seats, play, W, t, m)
    BY <2>3, <2>4 DEF FrameOK, StartFrame
  <2> HIDE DEF g, m, t
  <2>6. FramesOK(Seats, play, W, e)
    BY <2>1, <2>5, SendToIsOK DEF Turning
  <2> HIDE DEF e
  <2>7. FramesOK(Seats, play, W, SendTo(e, u, t, m))
    BY <2>1, <2>5, <2>6, SendToIsOK DEF Turning
  <2>8. Turned(W, u, p, <<p, SendTo(e, u, t, m)>>)
    BY <2>7, SameIsTurned DEF Turned
  <2>9. Answer(u, p, d, f) = <<p, SendTo(e, u, t, m)>>
    BY <1>2 DEF Answer, e, t, g, m
  <2>10. QED
    BY <2>8, <2>9
<1>3. QED
  BY <1>1, <1>2

LEMMA HandleIsTurned ==
  ASSUME NEW W, NEW u, NEW p, NEW d, Turning(W, u, p, d),
         NEW f, FrameOK(Seats, play, W, u, f)
  PROVE  Turned(W, u, p, Handle(u, p, d, f))
<1> DEFINE r == Handle(u, p, d, f)
<1>1. CASE f.type = "turn"
  <2>1. r = AcceptTurn(u, p, d, f)
    BY <1>1 DEF Handle
  <2>2. QED
    BY <1>1, <2>1, AcceptIsTurned
<1>2. CASE f.type = "log"
  <2>1. r = Answer(u, p, d, f)
    BY <1>2 DEF Handle
  <2>2. QED
    BY <1>2, <2>1, AnswerIsTurned
<1>3. CASE f.type = "start"
  <2>1. r = <<Started(p, f), d>>
    BY <1>3 DEF Handle
  <2>2. QED
    BY <1>3, <2>1, StartedIsTurned
<1>4. CASE f.type = "manifest"
  <2>1. r = Manifest(u, p, d, f)
    BY <1>4 DEF Handle
  <2>2. QED
    BY <1>4, <2>1, ManifestIsTurned
<1>5. CASE f.type = "chunk"
  <2>1. r = Chunk(u, p, d, f)
    BY <1>5 DEF Handle
  <2>2. QED
    BY <2>1, ChunkIsTurned
<1>6. CASE f.type = "finish"
  <2>1. r = Finished(u, p, d, f)
    BY <1>6 DEF Handle
  <2>2. QED
    BY <1>6, <2>1, FinishedIsTurned
<1>7. CASE f.type = "settle"
  <2>1. r = <<Settled(p, f), d>>
    BY <1>7 DEF Handle
  <2>2. QED
    BY <1>7, <2>1, SettledIsTurned
<1>8. CASE f.type = "hello"
  <2>1. r \in {RequestLog(u, p, d), <<p, d>>}
    BY <1>8 DEF Handle
  <2>2. QED
    BY <2>1, RequestIsTurned, SameIsTurned
<1>9. CASE f.type \notin {"turn", "log", "start", "manifest", "chunk", "finish",
                          "settle", "hello"}
  <2>1. r = <<p, d>>
    BY <1>9 DEF Handle
  <2>2. QED
    BY <2>1, SameIsTurned
<1>10. QED
  BY <1>1, <1>2, <1>3, <1>4, <1>5, <1>6, <1>7, <1>8, <1>9

-----------------------------------------------------------------------------
(* Actions *)

\* The players in a game of W.
Played(seats, pl, W) == Ended(seats, pl) /\ GamesOK(seats, pl, W)

LEMMA WholeIs ==
  ASSUME SeatsOK, NEW W \in Log, Whole(W)
  PROVE  PlayersOK(Seats, play) /\ Played(Seats, play, W) /\ Kept(Seats, play, W)
<1>1. \A x \in Player : play[x].log \in Log /\ play[x].done \in BOOLEAN
  BY DEF Whole, GamesOK, GameOK, OfGame
<1>2. QED
  BY <1>1, SeatFacts DEF Whole, PlayersOK, Played

LEMMA StepIsPlayed ==
  ASSUME NEW seats, seats # <<>>, NEW pl, NEW W, Played(seats, pl, W),
         NEW u \in Player, NEW ql, Onward(seats, pl, ql, W, W, u),
         DOMAIN ql = Player, GameOK(seats, pl, W, u, ql[u])
  PROVE  /\ Played(seats, ql, W)
         /\ Kept(seats, pl, W) => Kept(seats, ql, W)
         /\ \A d : FramesOK(seats, pl, W, d) => FramesOK(seats, ql, W, d)
<1>1. ASSUME NEW t \in Player PROVE GameOK(seats, ql, W, t, ql[t])
  <2>1. GameOK(seats, pl, W, t, ql[t])
    BY DEF Onward, StepsTo, Played, GamesOK
  <2>2. QED
    BY <2>1, GameStays
<1>2. GamesOK(seats, ql, W)
  BY <1>1 DEF GamesOK
<1>3. Ended(seats, ql)
  BY EndedStays DEF Onward, PlayersOK
<1>4. ASSUME Kept(seats, pl, W) PROVE Kept(seats, ql, W)
  <2>1. SUFFICES ASSUME NEW k \in 1..Len(W)
                 PROVE  k <= Len(ql[seats[((k - 1) % Len(seats)) + 1]].log)
    BY DEF Kept
  <2>2. seats \in Seq(Player) /\ Len(seats) \in Nat \ {0} /\ k \in Nat \ {0}
    <3>1. seats \in Seq(Player) /\ Len(W) \in Nat
      BY LogIs DEF Onward, PlayersOK
    <3>2. QED
      BY <2>1, <3>1
  <2> DEFINE i == ((k - 1) % Len(seats)) + 1
  <2>3. i \in 1..Len(seats)
    BY <2>2
  <2> HIDE DEF i
  <2>4. seats[i] \in Player
    BY <2>2, <2>3
  <2>5. k <= Len(pl[seats[i]].log)
    BY <1>4, <2>1 DEF Kept, i
  <2>6. pl[seats[i]].log \in Log /\ ql[seats[i]].log \in Log
        /\ Len(pl[seats[i]].log) <= Len(ql[seats[i]].log)
    <3>1. CASE seats[i] = u
      BY <2>4, <3>1, PrefixIsShorter DEF Onward, PlayersOK, Goes
    <3>2. CASE seats[i] # u
      BY <2>4, <3>2, LogIs DEF Onward, PlayersOK, StepsTo
    <3>3. QED
      BY <3>1, <3>2
  <2>7. k <= Len(ql[seats[i]].log)
    BY <2>2, <2>5, <2>6, LogIs
  <2>8. QED
    BY <2>7 DEF i
<1>5. QED
  BY <1>2, <1>3, <1>4, FramesStay DEF Played

\* A player takes a step, and frames go out.
LEMMA TurnedIsPlayed ==
  ASSUME SeatsOK, NEW W \in Log, Played(Seats, play, W), PlayersOK(Seats, play),
         NEW u \in Player, NEW r, Turned(W, u, play[u], r),
         NEW ql, DOMAIN ql = Player, ql[u] = r[1], \A x \in Player \ {u} : ql[x] = play[x]
  PROVE  /\ Played(Seats, ql, W) /\ FramesOK(Seats, ql, W, r[2])
         /\ Kept(Seats, play, W) => Kept(Seats, ql, W)
<1>2. StepsTo(play, ql, u) /\ Goes(Seats, play, u, ql[u])
  BY DEF StepsTo, Turned
<1>3. IsPrefix(W, W) /\ r[1].done \in BOOLEAN
  BY LogIs DEF Turned, GameOK
<1>4. Onward(Seats, play, ql, W, W, u)
  BY <1>2, <1>3 DEF Onward
<1>5. Seats # <<>> /\ GameOK(Seats, play, W, u, ql[u])
  BY DEF SeatsOK, Turned
<1>6. /\ Played(Seats, ql, W)
      /\ Kept(Seats, play, W) => Kept(Seats, ql, W)
      /\ \A d : FramesOK(Seats, play, W, d) => FramesOK(Seats, ql, W, d)
  BY <1>4, <1>5, StepIsPlayed
<1>7. FramesOK(Seats, play, W, r[2])
  BY DEF Turned
<1>8. QED
  BY <1>6, <1>7

LEMMA CountedIsOK ==
  ASSUME SeatsOK, NEW u \in Player, NEW q, play' = [play EXCEPT ![u] = q],
         DOMAIN play = Player, q.request \in {0, play[u].request, requests + 1}, Counted(u)
  PROVE  requests' \in Nat /\ \A x \in Player : play'[x].request \in 0..requests'
<1>1. play'[u] = q /\ \A x \in Player \ {u} : play'[x] = play[x]
  OBVIOUS
<1>2. requests \in Nat /\ \A x \in Player : play[x].request \in 0..requests
  BY DEF SeatsOK
<1>3. requests' = IF q.request \notin {0, play[u].request} THEN requests + 1 ELSE requests
  BY <1>1, <1>2 DEF Counted
<1>4. requests' \in Nat /\ requests <= requests'
  BY <1>2, <1>3
<1>5. q.request \in 0..requests'
  BY <1>2, <1>3
<1>6. QED
  BY <1>1, <1>2, <1>4, <1>5

LEMMA TakeFrameIsOK ==
  ASSUME SeatsOK, NEW W \in Log, Whole(W), NEW u \in Player, TakeFrame(u)
  PROVE  SeatsOK' /\ Whole(W)'
<1> DEFINE f == Head(down[u])
           d == [down EXCEPT ![u] = Tail(@)]
           r == Handle(u, play[u], d, f)
<1>1. PlayersOK(Seats, play) /\ Played(Seats, play, W) /\ FramesOK(Seats, play, W, down)
  BY WholeIs DEF Whole
<1>2. down[u] # <<>> /\ u \in Range(Seats) /\ DOMAIN down = Player
  BY <1>1 DEF TakeFrame, FramesOK
<1>3. Carried(Seats, play, W, u, Tail(down[u])) /\ FrameOK(Seats, play, W, u, f)
  BY <1>1, <1>2, RestCarried DEF FramesOK
<1>4. FramesOK(Seats, play, W, d)
  BY <1>1, <1>2, <1>3, OneLaneIsOK
<1>5. Turning(W, u, play[u], d)
  BY <1>1, <1>2, <1>4 DEF Turning, SeatsOK, Played, GamesOK
<1> HIDE DEF d, f
<1>6. Turned(W, u, play[u], r)
  BY <1>3, <1>5, HandleIsTurned
<1>7. /\ play' = [play EXCEPT ![u] = r[1]] /\ down' = r[2]
      /\ Counted(u)
      /\ UNCHANGED <<order, online, saved, moves, faults>>
      /\ streams' = IF f.type = "log" /\ Answers(u, play[u], f)
                    THEN streams \cup {[by |-> u, to |-> f.from, id |-> f.id,
                                        game |-> play[u].game,
                                        log |-> play[u].log, next |-> 1]}
                    ELSE streams
  BY DEF TakeFrame, Become, d, f
<1> HIDE DEF r
<1>8. Seats' = Seats
  BY <1>7 DEF Seats
<1>9. Played(Seats, play', W) /\ FramesOK(Seats, play', W, down') /\ Kept(Seats, play', W)
  <2>1. DOMAIN play' = Player /\ play'[u] = r[1] /\ \A x \in Player \ {u} : play'[x] = play[x]
    BY <1>1, <1>7 DEF Played, GamesOK
  <2>2. QED
    BY <1>1, <1>2, <1>6, <1>7, <2>1, WholeIs, TurnedIsPlayed
<1>10. requests' \in Nat /\ \A x \in Player : play'[x].request \in 0..requests'
  BY <1>1, <1>6, <1>7, CountedIsOK DEF Turned, Played, GamesOK
<1>11. \A s \in streams' : StreamOK(Seats, s)
  <2> DEFINE a == [by |-> u, to |-> f.from, id |-> f.id, game |-> play[u].game,
                   log |-> play[u].log, next |-> 1]
  <2>1. ASSUME f.type = "log", Answers(u, play[u], f) PROVE StreamOK(Seats, a)
    <3>1. f.from \in Range(Seats) /\ u # Nobody
      BY <1>3, <2>1, GatewayAssumption DEF FrameOK
    <3>2. u # f.from
      BY <2>1, <3>1, ResponderIs DEF Answers
    <3>3. QED
      BY <1>2, <3>1, <3>2 DEF StreamOK
  <2> HIDE DEF a
  <2>2. \A s \in streams : StreamOK(Seats, s)
    BY DEF Whole
  <2>3. streams' \subseteq streams \/ (f.type = "log" /\ Answers(u, play[u], f)
                                       /\ streams' = streams \cup {a})
    BY <1>7 DEF a
  <2>4. QED
    BY <2>1, <2>2, <2>3
<1>12. SeatsOK'
  BY <1>7, <1>8, <1>10 DEF SeatsOK
<1>13. Whole(W)'
  BY <1>7, <1>8, <1>9, <1>11 DEF Whole, Played, SavesOK
<1>14. QED
  BY <1>12, <1>13

LEMMA StreamIsOK ==
  ASSUME SeatsOK, NEW W \in Log, Whole(W), NEW s \in streams, Stream(s)
  PROVE  SeatsOK' /\ Whole(W)'
<1> DEFINE p == play[s.by]
           more == s.next <= Len(s.log)
           c == [type |-> "chunk", from |-> s.by, game |-> s.game,
                 id |-> s.id, part |-> s.next]
           g == [type |-> "finish", from |-> s.by, game |-> s.game,
                 id |-> s.id, log |-> p.log]
           t == [s EXCEPT !.next = @ + 1]
<1>1. /\ streams' \subseteq streams \cup {t}
      /\ \/ down' = down
         \/ down' = SendTo(down, s.by, s.to, c)
         \/ down' = SendTo(down, s.by, s.to, g) /\ p.done
      /\ UNCHANGED <<order, online, play, saved, moves, requests, faults>>
  <2>1. /\ streams' = (streams \ {s}) \cup
                        IF more /\ s.by \in online THEN {t} ELSE {}
        /\ down' = IF s.by \notin online \/ (~more /\ ~p.done) THEN down
                   ELSE SendTo(down, s.by, s.to, IF more THEN c ELSE g)
        /\ UNCHANGED <<order, online, play, saved, moves, requests, faults>>
    BY DEF Stream
  <2> HIDE DEF c, g, t, more
  <2>2. QED
    BY <2>1 DEF p
<1>2. PlayersOK(Seats, play) /\ Played(Seats, play, W) /\ FramesOK(Seats, play, W, down)
  BY WholeIs DEF Whole
<1>3. StreamOK(Seats, s) /\ \A x \in streams : StreamOK(Seats, x)
  BY DEF Whole
<1>4. s.by \in Range(Seats) /\ s.to \in Range(Seats) /\ s.by # s.to
      /\ s.by \in Player /\ s.to \in Player
  BY <1>3, SeatFacts DEF StreamOK
<1>5. StreamOK(Seats, t)
  BY <1>3 DEF StreamOK
<1>6. FrameOK(Seats, play, W, s.to, c)
  BY DEF FrameOK
<1>7. ASSUME p.done PROVE FrameOK(Seats, play, W, s.to, g)
  <2>1. p.log \in Log
    BY <1>2, <1>4 DEF PlayersOK
  <2>2. EndOK(Seats, play, s.to, p.log)
    <3>1. SUFFICES ASSUME s.to \in Duo(Seats), NEW x \in Duo(Seats) \ {s.to}
                   PROVE  play[x].done /\ IsPrefix(p.log, play[x].log)
                          /\ p.log = play[x].log
      BY DEF EndOK
    <3>2. s.by \in Duo(Seats) \ {s.to}
      BY <1>4, <3>1 DEF Duo
    <3>3. x = s.by
      BY <3>1, <3>2, OneOther, SeatFacts
    <3>4. QED
      BY <1>7, <2>1, <3>3, LogIs
  <2>3. QED
    BY <2>1, <2>2 DEF FrameOK
<1> HIDE DEF c, g, t, p
<1>8. FramesOK(Seats, play, W, down')
  <2>1. FramesOK(Seats, play, W, SendTo(down, s.by, s.to, c))
    BY <1>2, <1>4, <1>6, SendToIsOK
  <2>2. p.done => FramesOK(Seats, play, W, SendTo(down, s.by, s.to, g))
    BY <1>2, <1>4, <1>7, SendToIsOK
  <2>3. QED
    BY <1>1, <1>2, <2>1, <2>2
<1>9. \A x \in streams' : StreamOK(Seats, x)
  BY <1>1, <1>3, <1>5
<1>10. Seats' = Seats
  BY <1>1 DEF Seats
<1>11. SeatsOK'
  BY <1>1, <1>10 DEF SeatsOK
<1>12. Whole(W)'
  BY <1>1, <1>8, <1>9, <1>10 DEF Whole
<1>13. QED
  BY <1>11, <1>12

\* The move of the player whose turn it is makes the game longer by one.
LEMMA MoveIs ==
  ASSUME SeatsOK, NEW W \in Log, Whole(W), NEW u \in Player, CanSubmit(u),
         NEW V, V = Moved(u)
  PROVE  /\ W = play[u].log /\ u \in Range(Seats) /\ moves + 1 \in 0..faults.moves
         /\ V \in Log /\ IsPrefix(W, V) /\ Len(V) = Len(W) + 1 /\ V[Len(V)].by = u
         /\ PlayerAt(Len(W)) = u
<1> DEFINE L == play[u].log
           n == Len(L)
<1>1. L \in Log /\ n \in Nat /\ Len(W) \in Nat /\ IsPrefix(L, W)
      /\ PlayersOK(Seats, play) /\ Played(Seats, play, W)
  BY WholeIs, LogIs DEF PlayersOK, Played, GamesOK, GameOK, OfGame
<1>2. PlayerAt(n) = u /\ moves < faults.moves /\ moves \in 0..faults.moves
      /\ faults.moves \in Nat
  BY DEF CanSubmit, SeatsOK, TurnSetup_
<1>3. u \in Range(Seats)
  BY <1>1, <1>2, SeatFacts
<1>4. W = L
  <2>1. SUFFICES ASSUME n < Len(W) PROVE FALSE
    BY <1>1, PrefixIsShorter
  <2>2. n + 1 \in 1..Len(W) /\ (n + 1) - 1 = n
    BY <1>1, <2>1
  <2>3. n + 1 <= Len(play[Seats[(((n + 1) - 1) % Len(Seats)) + 1]].log)
    BY <2>2, WholeIs DEF Kept
  <2>4. n + 1 <= Len(play[u].log)
    BY <1>2, <2>2, <2>3 DEF PlayerAt
  <2>5. QED
    BY <1>1, <2>4
<1> DEFINE m == [by |-> u, move |-> moves + 1]
<1>5. m \in [by : Player, move : Nat] /\ m.by = u /\ V = Append(L, m)
  BY <1>2 DEF Moved
<1> HIDE DEF m
<1>6. L \in Seq([by : Player, move : Nat])
  BY <1>1 DEF Log
<1>7. /\ V \in Seq([by : Player, move : Nat]) /\ Len(V) = n + 1 /\ V[n + 1] = m
      /\ \A i \in 1..n : L[i] = V[i]
  BY <1>5, <1>6
<1>8. IsPrefix(L, V)
  <2>1. Len(L) <= Len(V) /\ \A i \in 1..Len(L) : L[i] = V[i]
    <3>1. n <= n + 1
      BY <1>1
    <3>2. QED
      BY <1>7, <3>1
  <2>2. QED
    BY <1>6, <1>7, <2>1, PrefixIs
<1>9. moves + 1 \in 0..faults.moves
  BY <1>2
<1>10. QED
  BY <1>2, <1>3, <1>4, <1>5, <1>7, <1>8, <1>9 DEF Log

\* The others have the game as far as they know it.
LEMMA MoveGrows ==
  ASSUME SeatsOK, NEW W \in Log, Whole(W), NEW u \in Player, CanSubmit(u),
         NEW V, V = Moved(u)
  PROVE  /\ GamesOK(Seats, play, V) /\ FramesOK(Seats, play, V, down)
         /\ SavesOK(V, saved)
<1>1. PlayersOK(Seats, play) /\ Played(Seats, play, W) /\ FramesOK(Seats, play, W, down)
  BY WholeIs DEF Whole
<1>2. V \in Log /\ IsPrefix(W, V)
  BY MoveIs
<1>3. Goes(Seats, play, u, play[u])
  BY <1>1, LogIs DEF Goes, PlayersOK
<1>4. Onward(Seats, play, play, W, V, u)
  BY <1>1, <1>2, <1>3 DEF Onward, StepsTo, PlayersOK
<1>5. \A t \in Player : GameOK(Seats, play, V, t, play[t])
  BY <1>1, <1>4, GameStays DEF Played, GamesOK
<1>6. FramesOK(Seats, play, V, down)
  BY <1>1, <1>4, FramesStay
<1>7. SavesOK(V, saved)
  BY <1>2, FitStays DEF Whole, SavesOK
<1>8. QED
  BY <1>1, <1>5, <1>6, <1>7 DEF Played, GamesOK

\* The move is kept by its player.
LEMMA MoveIsKept ==
  ASSUME SeatsOK, NEW W \in Log, Whole(W), NEW u \in Player, CanSubmit(u),
         NEW V, V = Moved(u),
         NEW ql, \A x \in Player \ {u} : ql[x] = play[x], ql[u].log = V
  PROVE  Kept(Seats, ql, V)
<1>1. SUFFICES ASSUME NEW k \in 1..Len(V)
               PROVE  k <= Len(ql[Seats[((k - 1) % Len(Seats)) + 1]].log)
  BY DEF Kept
<1>2. /\ W = play[u].log /\ Len(V) = Len(W) + 1 /\ V \in Log
      /\ PlayerAt(Len(W)) = u /\ Len(W) \in Nat /\ Len(V) \in Nat
  BY MoveIs, LogIs
<1>3. k \in Nat /\ k - 1 \in Nat
  BY <1>1, <1>2
<1> DEFINE x == Seats[((k - 1) % Len(Seats)) + 1]
<1>4. x = PlayerAt(k - 1) /\ x \in Player
  BY <1>3, SeatFacts DEF PlayerAt
<1>5. k \in 1..Len(W) => k <= Len(play[x].log)
  BY WholeIs DEF Kept
<1> HIDE DEF x
<1>6. CASE x = u
  BY <1>1, <1>2, <1>6 DEF x
<1>7. CASE x # u
  <2>1. k # Len(W) + 1
    BY <1>2, <1>4, <1>7
  <2>2. k \in 1..Len(W)
    BY <1>1, <1>2, <2>1
  <2>3. QED
    BY <1>4, <1>5, <1>7, <2>2 DEF x
<1>8. QED
  BY <1>6, <1>7

LEMMA SubmitIsOK ==
  ASSUME SeatsOK, NEW W \in Log, Whole(W), NEW u \in Player, Submit(u)
  PROVE  SeatsOK' /\ \E V \in Log : Whole(V)'
<1>0. PICK V : V = Moved(u)
  OBVIOUS
<1> DEFINE p == play[u]
           f == [type |-> "turn", from |-> u, game |-> p.game, log |-> V]
           d == SendParty(down, u, f)
           r == AcceptTurn(u, p, d, f)
           q == [p EXCEPT !.log = V]
<1>1. /\ CanSubmit(u) /\ moves' = moves + 1
      /\ play' = [play EXCEPT ![u] = r[1]] /\ down' = r[2]
      /\ UNCHANGED <<order, online, saved, streams, requests, faults>>
  BY <1>0 DEF Submit, Become
<1>2. /\ W = p.log /\ u \in Range(Seats) /\ moves + 1 \in 0..faults.moves
      /\ V \in Log /\ IsPrefix(W, V) /\ Len(V) = Len(W) + 1 /\ V[Len(V)].by = u
      /\ PlayerAt(Len(W)) = u
  BY <1>0, <1>1, MoveIs
<1>3. GamesOK(Seats, play, V) /\ FramesOK(Seats, play, V, down) /\ SavesOK(V, saved)
  BY <1>0, <1>1, MoveGrows
<1>4. PlayersOK(Seats, play) /\ Played(Seats, play, W) /\ order = Seats
  BY WholeIs DEF SeatsOK
<1>5. f.type = "turn" /\ f.log = V /\ f.from = u /\ f.game = p.game
      /\ {"type", "from", "game", "log"} \subseteq DOMAIN f
  OBVIOUS
<1>6. OfGame(V, V)
  BY <1>2, LogIs DEF OfGame
<1> HIDE DEF f, p
<1>7. \A t \in Player : FrameOK(Seats, play, V, t, f)
  BY <1>5, <1>6 DEF FrameOK
<1>8. FramesOK(Seats, play, V, d)
  BY <1>2, <1>3, <1>4, <1>7, SendPartyIsOK
<1>9. Turning(V, u, p, d)
  BY <1>2, <1>3, <1>4, <1>8 DEF Turning, SeatsOK, GamesOK, p
<1> HIDE DEF d
<1>10. Turned(V, u, p, r)
  BY <1>5, <1>7, <1>9, AcceptIsTurned
<1>11. r[1].log = V /\ r[1].request = p.request
  <2>1. p.request = 0 /\ ~p.frozen /\ ~p.done
    BY <1>1 DEF CanSubmit, p
  <2>2. Len(f.log) - 1 = Len(p.log) /\ Len(p.log) \in Nat
    BY <1>2, <1>5, LogIs
  <2>3. Last(f.log).by = f.from /\ f.from = PlayerAt(Len(p.log)) /\ IsPrefix(p.log, f.log)
    BY <1>2, <1>5 DEF Last
  <2>4. r = <<Persisting([p EXCEPT !.log = f.log]), d>>
    BY <1>5, <2>1, <2>2, <2>3 DEF AcceptTurn
  <2>5. GameFields \subseteq DOMAIN p
    BY <1>9 DEF Turning, GameOK
  <2>6. q.log = V /\ q.request = p.request /\ GameFields \subseteq DOMAIN q
    BY <2>5, Fields
  <2>7. r[1] = Persisting(q)
    BY <1>5, <2>4
  <2> HIDE DEF q, r
  <2>8. Persisting(q).log = V /\ Persisting(q).request = p.request
    BY <2>6, Fields DEF Persisting
  <2>9. QED
    BY <2>7, <2>8
<1> HIDE DEF r
<1>12. DOMAIN play' = Player /\ play'[u] = r[1] /\ \A x \in Player \ {u} : play'[x] = play[x]
  BY <1>1, <1>3 DEF GamesOK
<1>13. Played(Seats, play', V) /\ FramesOK(Seats, play', V, down')
  <2>1. Played(Seats, play, V)
    BY <1>3, <1>4 DEF Played
  <2>2. Turned(V, u, play[u], r)
    BY <1>10 DEF p
  <2>3. Played(Seats, play', V) /\ FramesOK(Seats, play', V, r[2])
    BY <1>2, <1>4, <1>12, <2>1, <2>2, TurnedIsPlayed
  <2>4. QED
    BY <1>1, <2>3
<1>14. Kept(Seats, play', V)
  BY <1>0, <1>1, <1>11, <1>12, MoveIsKept
<1>15. Seats' = Seats
  BY <1>1 DEF Seats
<1>16. Len(V) <= moves'
  BY <1>1, <1>2, LogIs DEF Whole, SeatsOK
<1>17. \A x \in Player : play'[x].request \in 0..requests
  BY <1>11, <1>12 DEF SeatsOK, p
<1>18. SeatsOK'
  BY <1>1, <1>2, <1>15, <1>17 DEF SeatsOK
<1>19. \A s \in streams' : StreamOK(Seats, s)
  BY <1>1 DEF Whole
<1>20. Whole(V)'
  BY <1>1, <1>3, <1>13, <1>14, <1>15, <1>16, <1>19 DEF Whole, Played, SavesOK
<1>21. QED
  BY <1>2, <1>18, <1>20

\* A connection is lost.
LEMMA DropIsOK ==
  ASSUME NEW W, NEW pl, FramesOK(order, pl, W, down), NEW u \in Range(order) \cap Player,
         NEW s \in Arrived(u), GatewayDropAfter(u, s)
  PROVE  FramesOK(order, pl, W, down') /\ online' = online \ {u} /\ order' = order
<1>1. PICK k \in 0..Len(down[u]) : s = SubSeq(down[u], 1, k)
  BY DEF Arrived
<1>2. Carried(order, pl, W, u, s)
  BY <1>1, StartCarried DEF FramesOK
<1> DEFINE d == [down EXCEPT ![u] = s]
<1>3. FramesOK(order, pl, W, d)
  BY <1>2, OneLaneIsOK
<1> HIDE DEF d
<1>4. FramesOK(order, pl, W, Announce(d, order, invited, online \ {u}))
  BY <1>3, AnnounceIsOK
<1>5. down' \in {d, Announce(d, order, invited, online \ {u})}
  BY DEF GatewayDropAfter, d
<1>6. QED
  BY <1>3, <1>4, <1>5 DEF GatewayDropAfter

LEMMA SubmitLostIsOK ==
  ASSUME SeatsOK, NEW W \in Log, Whole(W), NEW u \in Player, SubmitLost(u)
  PROVE  SeatsOK' /\ \E V \in Log : Whole(V)'
<1>0. PICK V : V = Moved(u)
  OBVIOUS
<1> DEFINE p == play[u]
           q == [p EXCEPT !.log = V]
           t == Persisting(q)
<1>1. /\ CanSubmit(u) /\ moves' = moves + 1 /\ faults.losses > 0
      /\ faults' = [faults EXCEPT !.losses = @ - 1]
      /\ play' = [play EXCEPT ![u] = Persisting([@ EXCEPT !.log = V])]
      /\ UNCHANGED <<saved, streams, requests>>
  BY <1>0 DEF SubmitLost
<1>2. PICK s \in Arrived(u) : GatewayDropAfter(u, s)
  BY DEF SubmitLost
<1>3. /\ W = p.log /\ u \in Range(Seats) /\ moves + 1 \in 0..faults.moves
      /\ V \in Log /\ IsPrefix(W, V) /\ Len(V) = Len(W) + 1
  BY <1>0, <1>1, MoveIs
<1>4. GamesOK(Seats, play, V) /\ FramesOK(Seats, play, V, down) /\ SavesOK(V, saved)
  BY <1>0, <1>1, MoveGrows
<1>5. PlayersOK(Seats, play) /\ Played(Seats, play, W) /\ order = Seats
  BY WholeIs DEF SeatsOK
<1>6. OfGame(V, V)
  BY <1>3, LogIs DEF OfGame
<1>7. GameOK(Seats, play, V, u, p) /\ GameFields \subseteq DOMAIN p
  BY <1>4 DEF GamesOK, GameOK
<1>8. ~p.done
  BY <1>1 DEF CanSubmit
<1> HIDE DEF p
<1>9. /\ GameFields \subseteq DOMAIN q
      /\ q.log = V /\ q.game = p.game /\ q.frozen = p.frozen /\ q.done = p.done
      /\ q.request = p.request /\ q.from = p.from /\ q.assembly = p.assembly
      /\ q.buffer = p.buffer /\ q.finish = p.finish /\ q.dirty = p.dirty /\ q.lane = p.lane
  BY <1>7, Fields
<1> HIDE DEF q
<1>10. GameOK(Seats, play, V, u, q)
  BY <1>6, <1>7, <1>9 DEF GameOK
<1>11. GameOK(Seats, play, V, u, t) /\ t.log = V /\ t.done = p.done /\ t.request = p.request
  BY <1>9, <1>10, PersistingIs
<1>12. DOMAIN play' = Player /\ play'[u] = t /\ \A x \in Player \ {u} : play'[x] = play[x]
  BY <1>1, <1>4 DEF GamesOK, q, p
<1> HIDE DEF t
<1>13. Goes(Seats, play, u, t)
  BY <1>3, <1>8, <1>11 DEF Goes, p
<1>14. FramesOK(Seats, play, V, down') /\ online' = online \ {u} /\ order' = order
  BY <1>2, <1>3, <1>4, <1>5, DropIsOK
<1>15. Turned(V, u, play[u], <<t, down'>>)
  BY <1>11, <1>13, <1>14 DEF Turned, p
<1>16. Played(Seats, play', V) /\ FramesOK(Seats, play', V, down')
  <2>1. Played(Seats, play, V)
    BY <1>4, <1>5 DEF Played
  <2>2. <<t, down'>>[1] = t /\ <<t, down'>>[2] = down'
    OBVIOUS
  <2>3. QED
    BY <1>3, <1>5, <1>12, <1>15, <2>1, <2>2, TurnedIsPlayed
<1>17. Kept(Seats, play', V)
  BY <1>0, <1>1, <1>11, <1>12, MoveIsKept
<1>18. faults' \in TurnSetup_ /\ faults'.reloads = {} /\ faults'.seats = faults.seats
       /\ faults'.moves = faults.moves
  <2>1. faults \in TurnSetup_ /\ faults.reloads = {} /\ faults.losses - 1 \in Nat
    BY <1>1 DEF SeatsOK, TurnSetup_
  <2>2. QED
    BY <1>1, <2>1 DEF TurnSetup_
<1>19. Seats' = Seats
  BY <1>18 DEF Seats
<1>20. Len(V) <= moves'
  BY <1>1, <1>3, LogIs DEF Whole, SeatsOK
<1>21. \A x \in Player : play'[x].request \in 0..requests
  BY <1>11, <1>12 DEF SeatsOK, p
<1>22. SeatsOK'
  BY <1>1, <1>3, <1>5, <1>14, <1>18, <1>19, <1>21 DEF SeatsOK
<1>23. \A x \in streams' : StreamOK(Seats, x)
  BY <1>1 DEF Whole
<1>24. Whole(V)'
  BY <1>1, <1>4, <1>16, <1>17, <1>19, <1>20, <1>23 DEF Whole, Played, SavesOK
<1>25. QED
  BY <1>3, <1>22, <1>24

LEMMA FinishIsOK ==
  ASSUME SeatsOK, NEW W \in Log, Whole(W), NEW u \in Player, Finish(u)
  PROVE  SeatsOK' /\ Whole(W)'
<1> DEFINE p == play[u]
           f == [type |-> "finish", from |-> u, id |-> 0, game |-> p.game, log |-> p.log]
           q == FinishLocal(p)
<1>1. /\ u = Seats[1] /\ ~p.done
      /\ play' = [play EXCEPT ![u] = q] /\ down' = SendParty(down, u, f)
      /\ UNCHANGED <<order, online, saved, streams, moves, requests, faults>>
  BY DEF Finish, Become, Host
<1>2. PlayersOK(Seats, play) /\ Played(Seats, play, W) /\ Kept(Seats, play, W)
      /\ FramesOK(Seats, play, W, down) /\ order = Seats /\ u \in Range(Seats)
  BY <1>1, WholeIs, SeatFacts DEF Whole, SeatsOK
<1>3. GameOK(Seats, play, W, u, p)
  BY <1>2 DEF Played, GamesOK
<1>4. GameOK(Seats, play, W, u, q) /\ q.log = p.log /\ q.done = TRUE
      /\ q.request = p.request
  BY <1>2, <1>3, FinishIs, ZenonT(60)
<1>5. p.log \in Log /\ IsPrefix(p.log, p.log)
  BY <1>2, LogIs DEF PlayersOK
<1>6. \A x \in Duo(Seats) : ~play[x].done
  BY <1>1, <1>2 DEF Played, Ended
<1>7. DOMAIN play' = Player /\ play'[u] = q /\ \A x \in Player \ {u} : play'[x] = play[x]
  BY <1>1, <1>2 DEF Played, GamesOK
<1>8. f.type = "finish" /\ f.log = p.log /\ "type" \in DOMAIN f
  OBVIOUS
<1> HIDE DEF f, q
<1>9. Goes(Seats, play, u, q)
  BY <1>1, <1>4, <1>5, <1>6 DEF Goes
<1>10. Turned(W, u, play[u], <<q, down>>)
  BY <1>2, <1>4, <1>9 DEF Turned
<1>11. Played(Seats, play', W) /\ FramesOK(Seats, play', W, down) /\ Kept(Seats, play', W)
  <2>1. <<q, down>>[1] = q /\ <<q, down>>[2] = down
    OBVIOUS
  <2>2. QED
    BY <1>2, <1>7, <1>10, <2>1, TurnedIsPlayed
<1>12. ASSUME NEW t \in Player PROVE FrameOK(Seats, play', W, t, f)
  <2>1. EndOK(Seats, play', t, p.log)
    <3>1. SUFFICES ASSUME t \in Duo(Seats), ~play'[t].done, NEW x \in Duo(Seats) \ {t}
                   PROVE  /\ play'[x].done /\ IsPrefix(p.log, play'[x].log)
                          /\ p.log = play'[x].log
      BY DEF EndOK
    <3>2. t # u
      BY <1>4, <1>7, <3>1
    <3>3. u \in Duo(Seats) \ {t}
      BY <1>2, <3>1, <3>2 DEF Duo
    <3>4. x = u
      BY <3>1, <3>3, OneOther, SeatFacts
    <3>5. QED
      BY <1>4, <1>5, <1>7, <3>4
  <2>2. QED
    BY <1>5, <1>8, <2>1 DEF FrameOK
<1>13. FramesOK(Seats, play', W, down')
  BY <1>1, <1>2, <1>11, <1>12, SendPartyIsOK
<1>14. Seats' = Seats
  BY <1>1 DEF Seats
<1>15. \A x \in Player : play'[x].request \in 0..requests
  BY <1>4, <1>7 DEF SeatsOK
<1>16. SeatsOK'
  BY <1>1, <1>14, <1>15 DEF SeatsOK
<1>17. Whole(W)'
  BY <1>1, <1>11, <1>13, <1>14 DEF Whole, Played, SavesOK
<1>18. QED
  BY <1>16, <1>17

\* A step of u that changes neither its log nor its end.
LEMMA QuietIsOK ==
  ASSUME SeatsOK, NEW W \in Log, Whole(W), NEW u \in Player, NEW q,
         GameOK(Seats, play, W, u, q), q.log = play[u].log, q.done = play[u].done,
         q.request \in {0, play[u].request},
         NEW ql, DOMAIN ql = Player, ql[u] = q, \A x \in Player \ {u} : ql[x] = play[x]
  PROVE  /\ Played(Seats, ql, W) /\ FramesOK(Seats, ql, W, down) /\ Kept(Seats, ql, W)
         /\ \A x \in Player : ql[x].request \in 0..requests
<1>1. PlayersOK(Seats, play) /\ Played(Seats, play, W) /\ Kept(Seats, play, W)
      /\ FramesOK(Seats, play, W, down)
  BY WholeIs DEF Whole
<1>2. Goes(Seats, play, u, q)
  BY <1>1, LogIs DEF Goes, PlayersOK
<1>3. Turned(W, u, play[u], <<q, down>>)
  BY <1>1, <1>2 DEF Turned
<1>4. <<q, down>>[1] = q /\ <<q, down>>[2] = down
  OBVIOUS
<1>5. Played(Seats, ql, W) /\ FramesOK(Seats, ql, W, down) /\ Kept(Seats, ql, W)
  BY <1>1, <1>3, <1>4, TurnedIsPlayed
<1>6. \A x \in Player : ql[x].request \in 0..requests
  BY DEF SeatsOK
<1>7. QED
  BY <1>5, <1>6

\* The save is written, or fails.
LEMMA SaveIsOK ==
  ASSUME SeatsOK, NEW W \in Log, Whole(W), NEW u \in Player,
         SaveRows(u) \/ SaveManifest(u) \/ SaveFails(u)
  PROVE  SeatsOK' /\ Whole(W)'
<1> DEFINE p == play[u]
<1>1. PICK l \in {"ready", "manifest"}, b \in BOOLEAN :
        /\ play' = [play EXCEPT ![u] = [p EXCEPT !.lane = l, !.dirty = b]]
        /\ UNCHANGED <<order, online, down, streams, moves, requests>>
        /\ faults' = faults \/ (faults.saves > 0 /\ faults' = [faults EXCEPT !.saves = @ - 1])
        /\ \/ saved' = saved
           \/ saved' = [saved EXCEPT ![u] = [game |-> p.game, log |-> p.log]]
  <2>1. GameFields \subseteq DOMAIN p /\ p.dirty \in BOOLEAN /\ DOMAIN play = Player
    BY DEF Whole, GamesOK, GameOK
  <2>2. \A l : [p EXCEPT !.lane = l] = [p EXCEPT !.lane = l, !.dirty = p.dirty]
    BY <2>1, Fields
  <2>3. \A l : [play EXCEPT ![u].lane = l]
               = [play EXCEPT ![u] = [p EXCEPT !.lane = l, !.dirty = p.dirty]]
    BY <2>1, <2>2
  <2>4. [play EXCEPT ![u].lane = "ready", ![u].dirty = FALSE]
               = [play EXCEPT ![u] = [p EXCEPT !.lane = "ready", !.dirty = FALSE]]
    BY <2>1
  <2>5. CASE SaveRows(u)
    BY <2>1, <2>3, <2>5 DEF SaveRows, gatewayVars
  <2>6. CASE SaveManifest(u)
    BY <2>1, <2>4, <2>6 DEF SaveManifest, gatewayVars
  <2>7. CASE SaveFails(u)
    BY <2>1, <2>3, <2>7 DEF SaveFails, gatewayVars
  <2>8. QED
    BY <2>5, <2>6, <2>7
<1> DEFINE q == [p EXCEPT !.lane = l, !.dirty = b]
<1>2. GameOK(Seats, play, W, u, p) /\ GameFields \subseteq DOMAIN p
  BY DEF Whole, GamesOK, GameOK
<1>3. /\ GameFields \subseteq DOMAIN q
      /\ q.log = p.log /\ q.game = p.game /\ q.frozen = p.frozen /\ q.done = p.done
      /\ q.request = p.request /\ q.from = p.from /\ q.assembly = p.assembly
      /\ q.buffer = p.buffer /\ q.finish = p.finish /\ q.dirty = b /\ q.lane = l
  BY <1>2, Fields
<1> HIDE DEF q
<1>4. GameOK(Seats, play, W, u, q)
  BY <1>1, <1>2, <1>3 DEF GameOK
<1>5. /\ Played(Seats, play', W) /\ FramesOK(Seats, play', W, down)
      /\ Kept(Seats, play', W) /\ \A x \in Player : play'[x].request \in 0..requests
  <2>1. DOMAIN play' = Player /\ play'[u] = q /\ \A x \in Player \ {u} : play'[x] = play[x]
    BY <1>1 DEF Whole, GamesOK, q
  <2>2. QED
    BY <1>3, <1>4, <2>1, QuietIsOK
<1>6. faults' \in TurnSetup_ /\ faults'.reloads = {} /\ faults'.seats = faults.seats
      /\ faults'.moves = faults.moves
  <2>1. faults \in TurnSetup_ /\ faults.reloads = {} /\ faults.saves \in Nat
    BY DEF SeatsOK, TurnSetup_
  <2>2. CASE faults' = faults
    BY <2>1, <2>2
  <2>3. CASE faults.saves > 0 /\ faults' = [faults EXCEPT !.saves = @ - 1]
    <3>1. faults.saves - 1 \in Nat
      BY <2>1, <2>3
    <3>2. QED
      BY <2>1, <2>3, <3>1 DEF TurnSetup_
  <2>4. QED
    BY <1>1, <2>2, <2>3
<1>7. Seats' = Seats
  BY <1>6 DEF Seats
<1>8. SavesOK(W, saved')
  <2>1. SavesOK(W, saved) /\ p.game \in Nat /\ OfGame(W, p.log)
    BY <1>2 DEF Whole, GameOK
  <2>2. QED
    BY <1>1, <2>1 DEF SavesOK
<1>9. SeatsOK'
  BY <1>1, <1>5, <1>6, <1>7 DEF SeatsOK
<1>10. Whole(W)'
  BY <1>1, <1>5, <1>7, <1>8 DEF Whole, Played
<1>11. QED
  BY <1>9, <1>10

LEMMA LogTimeoutIsOK ==
  ASSUME SeatsOK, NEW W \in Log, Whole(W), NEW u \in Player, LogTimeout(u)
  PROVE  SeatsOK' /\ Whole(W)'
<1> DEFINE p == play[u]
           q == [p EXCEPT !.request = 0, !.assembly = NoLog, !.buffer = <<>>, !.gaveUp = TRUE]
<1>1. GameOK(Seats, play, W, u, p) /\ GameFields \subseteq DOMAIN p /\ DOMAIN play = Player
  BY DEF Whole, GamesOK, GameOK
<1>2. /\ play' = [play EXCEPT ![u] = q]
      /\ UNCHANGED <<order, online, down, saved, streams, moves, requests>>
      /\ \/ faults' = faults
         \/ faults.slow > 0 /\ faults' = [faults EXCEPT !.slow = @ - 1]
  BY <1>1 DEF LogTimeout, gatewayVars
<1>3. /\ GameFields \subseteq DOMAIN q
      /\ q.log = p.log /\ q.game = p.game /\ q.frozen = p.frozen /\ q.done = p.done
      /\ q.request = 0 /\ q.from = p.from /\ q.assembly = NoLog
      /\ q.buffer = <<>> /\ q.finish = p.finish /\ q.dirty = p.dirty /\ q.lane = p.lane
  BY <1>1, Fields
<1> HIDE DEF q
<1>4. GameOK(Seats, play, W, u, q)
  BY <1>1, <1>3, NoneCarried DEF GameOK
<1>5. /\ Played(Seats, play', W) /\ FramesOK(Seats, play', W, down)
      /\ Kept(Seats, play', W) /\ \A x \in Player : play'[x].request \in 0..requests
  <2>1. DOMAIN play' = Player /\ play'[u] = q /\ \A x \in Player \ {u} : play'[x] = play[x]
    BY <1>1, <1>2
  <2>2. QED
    BY <1>3, <1>4, <2>1, QuietIsOK
<1>6. faults' \in TurnSetup_ /\ faults'.reloads = {} /\ faults'.seats = faults.seats
      /\ faults'.moves = faults.moves
  <2>1. faults \in TurnSetup_ /\ faults.reloads = {} /\ faults.slow \in Nat
    BY DEF SeatsOK, TurnSetup_
  <2>2. CASE faults' = faults
    BY <2>1, <2>2
  <2>3. CASE faults.slow > 0 /\ faults' = [faults EXCEPT !.slow = @ - 1]
    <3>1. faults.slow - 1 \in Nat
      BY <2>1, <2>3
    <3>2. QED
      BY <2>1, <2>3, <3>1 DEF TurnSetup_
  <2>4. QED
    BY <1>2, <2>2, <2>3
<1>7. Seats' = Seats
  BY <1>6 DEF Seats
<1>8. SeatsOK'
  BY <1>2, <1>5, <1>6, <1>7 DEF SeatsOK
<1>9. Whole(W)'
  BY <1>2, <1>5, <1>7 DEF Whole, Played
<1>10. QED
  BY <1>8, <1>9

LEMMA DropPlayerIsOK ==
  ASSUME SeatsOK, NEW W \in Log, Whole(W), NEW u \in Player, DropPlayer(u)
  PROVE  SeatsOK' /\ Whole(W)'
<1>1. /\ faults.drops[u] > 0 /\ faults' = [faults EXCEPT !.drops[u] = @ - 1]
      /\ UNCHANGED <<play, saved, streams, moves, requests>>
  BY DEF DropPlayer
<1>2. PICK s \in Arrived(u) : GatewayDropAfter(u, s)
  BY DEF DropPlayer
<1>3. order = Seats /\ u \in Range(Seats) /\ FramesOK(Seats, play, W, down)
  BY <1>2 DEF GatewayDropAfter, SeatsOK, Whole
<1>4. FramesOK(Seats, play, W, down') /\ online' = online \ {u} /\ order' = order
  BY <1>2, <1>3, DropIsOK
<1>5. faults' \in TurnSetup_ /\ faults'.reloads = {} /\ faults'.seats = faults.seats
      /\ faults'.moves = faults.moves
  <2>1. faults \in TurnSetup_ /\ faults.reloads = {} /\ faults.drops \in [Player -> Nat]
    BY DEF SeatsOK, TurnSetup_
  <2>2. [faults.drops EXCEPT ![u] = @ - 1] \in [Player -> Nat]
    BY <1>1, <2>1
  <2>3. faults' = [faults EXCEPT !.drops = [faults.drops EXCEPT ![u] = @ - 1]]
    BY <1>1, <2>1 DEF TurnSetup_
  <2>4. QED
    BY <2>1, <2>2, <2>3 DEF TurnSetup_
<1>6. Seats' = Seats
  BY <1>5 DEF Seats
<1>7. SeatsOK'
  BY <1>1, <1>3, <1>4, <1>5, <1>6 DEF SeatsOK
<1>8. Whole(W)'
  BY <1>1, <1>4, <1>6 DEF Whole
<1>9. QED
  BY <1>7, <1>8

LEMMA ReturnPlayerIsOK ==
  ASSUME SeatsOK, NEW W \in Log, Whole(W), NEW u \in Player, ReturnPlayer(u)
  PROVE  SeatsOK' /\ Whole(W)'
<1> DEFINE h == [type |-> "hello"]
           d == Push(down, {u}, h)
<1>1. /\ u \in Range(Seats) /\ online' = online \cup {u}
      /\ down' \in {d, Announce(d, order, invited, online \cup {u})}
      /\ UNCHANGED <<order, play, saved, streams, moves, requests, faults>>
  BY DEF ReturnPlayer, GatewayConnect
<1>2. order = Seats /\ FramesOK(order, play, W, down)
  BY DEF SeatsOK, Whole
<1>3. FrameOK(order, play, W, u, h)
  BY DEF FrameOK
<1>4. FramesOK(order, play, W, d)
  BY <1>1, <1>2, <1>3, PushIsOK
<1> HIDE DEF d
<1>5. FramesOK(order, play, W, Announce(d, order, invited, online \cup {u}))
  BY <1>4, AnnounceIsOK
<1>6. FramesOK(Seats, play, W, down')
  BY <1>1, <1>2, <1>4, <1>5
<1>7. Seats' = Seats
  BY <1>1 DEF Seats
<1>8. SeatsOK'
  BY <1>1, <1>7 DEF SeatsOK
<1>9. Whole(W)'
  BY <1>1, <1>6, <1>7 DEF Whole
<1>10. QED
  BY <1>8, <1>9

LEMMA TurnIsOK ==
  ASSUME TurnInv, [TurnNext]_turnVars
  PROVE  TurnInv'
<1>1. PICK W \in Log : Whole(W)
  BY DEF TurnInv
<1>2. SeatsOK
  BY DEF TurnInv
<1>3. SUFFICES SeatsOK' /\ \E V \in Log : Whole(V)'
  <2>1. \A V : V \in Log' <=> V \in Log
    BY DEF Log
  <2>2. QED
    BY <2>1 DEF TurnInv
<1>4. CASE UNCHANGED turnVars
  <2>1. UNCHANGED <<order, online, down, play, saved, streams, moves, requests, faults>>
    BY <1>4 DEF turnVars, gatewayVars
  <2>2. Seats' = Seats
    BY <2>1 DEF Seats
  <2>3. SeatsOK' /\ Whole(W)'
    BY <1>1, <1>2, <2>1, <2>2 DEF SeatsOK, Whole
  <2>4. QED
    BY <1>1, <2>3
<1>5. ASSUME NEW u \in Player,
             TakeFrame(u) \/ Finish(u) \/ SaveRows(u) \/ SaveManifest(u) \/ SaveFails(u)
               \/ LogTimeout(u) \/ DropPlayer(u) \/ ReturnPlayer(u)
      PROVE  SeatsOK' /\ \E V \in Log : Whole(V)'
  <2>1. SeatsOK' /\ Whole(W)'
    BY <1>1, <1>2, <1>5, TakeFrameIsOK, FinishIsOK, SaveIsOK, LogTimeoutIsOK,
       DropPlayerIsOK, ReturnPlayerIsOK
  <2>2. QED
    BY <1>1, <2>1
<1>6. ASSUME NEW u \in Player, Submit(u) \/ SubmitLost(u)
      PROVE  SeatsOK' /\ \E V \in Log : Whole(V)'
  BY <1>1, <1>2, <1>6, SubmitIsOK, SubmitLostIsOK
<1>7. ASSUME NEW u \in Player, ClosePage(u) \/ OpenPage(u)
      PROVE  FALSE
  <2>1. faults.reloads = {} /\ play[u].lane # "closed"
    BY <1>1, <1>2 DEF SeatsOK, Whole, GamesOK, GameOK
  <2>2. QED
    BY <1>7, <2>1 DEF ClosePage, OpenPage
<1>8. ASSUME NEW s \in streams, Stream(s)
      PROVE  SeatsOK' /\ \E V \in Log : Whole(V)'
  BY <1>1, <1>2, <1>8, StreamIsOK
<1>9. QED
  BY <1>4, <1>5, <1>6, <1>7, <1>8 DEF TurnNext

-----------------------------------------------------------------------------
(* The beginning, and what follows *)

LEMMA LessOne ==
  ASSUME NEW n \in Nat \ {0}
  PROVE  n - 1 \in Nat
OBVIOUS

LEMMA OnSegment ==
  ASSUME NEW n \in Nat, NEW S, NEW s \in [1..n -> S]
  PROVE  s \in Seq(S)
OBVIOUS

LEMMA NothingYet ==
  ASSUME NEW m \in Nat, NEW n, n = 0
  PROVE  n \in 0..m /\ 1..n = {} /\ n <= 0
OBVIOUS

LEMMA TurnStart ==
  ASSUME NobodyReloads, TurnInit
  PROVE  TurnInv
<1> DEFINE asked == [i \in 1..Len(Seats) - 1 |->
                       [type |-> "log", from |-> Seats[i + 1], game |-> 0, id |-> i + 1]]
           Of(u) == CHOOSE i \in DOMAIN Seats : Seats[i] = u
           begun == [NewGame EXCEPT !.game = 1]
           asks(u) == [NewGame EXCEPT !.request = Of(u), !.replay = Of(u), !.from = Host]
<1>1. /\ faults \in TurnSetups
      /\ order = Seats /\ online = Range(Seats) \ faults.away
      /\ down = [u \in Player |-> IF u = Host /\ ~faults.begun THEN asked ELSE <<>>]
      /\ play = [u \in Player |->
                   IF u \notin Range(Seats) THEN NewGame
                   ELSE IF u = Host \/ faults.begun THEN begun ELSE asks(u)]
      /\ saved = [u \in Player |-> NothingSaved]
      /\ streams = {} /\ moves = 0 /\ requests = Len(Seats)
  BY DEF TurnInit, TurnInitGateway, TurnInitPages
<1>2. faults \in TurnSetup_ /\ faults.seats # <<>> /\ faults.reloads = {}
      /\ faults.moves \in Nat
  BY <1>1, TurnAssumption DEF NobodyReloads, TurnSetup_
<1>3. /\ Seats \in Seq(Player) /\ Seats # <<>> /\ Len(Seats) \in Nat \ {0}
      /\ DOMAIN Seats = 1..Len(Seats) /\ Host \in Range(Seats)
      /\ Range(Seats) \subseteq Player
  <2>1. faults.seats \in Seq(Player) /\ Seats = faults.seats
    BY <1>2 DEF TurnSetup_, Seats
  <2>2. Seats \in Seq(Player) /\ Seats # <<>> /\ Len(Seats) \in Nat \ {0}
        /\ DOMAIN Seats = 1..Len(Seats)
    BY <1>2, <2>1
  <2>3. QED
    BY <2>2 DEF Host, Range
<1>4. ASSUME NEW u \in Range(Seats) PROVE Of(u) \in 1..Len(Seats)
  <2>1. \E i \in DOMAIN Seats : Seats[i] = u
    BY <1>4 DEF Range
  <2>2. QED
    BY <1>3, <2>1
<1> HIDE DEF Of
<1>5. ASSUME NEW u \in Player
      PROVE  /\ GameFields \subseteq DOMAIN play[u]
             /\ play[u].log = <<>> /\ play[u].game \in Nat /\ play[u].frozen = FALSE
             /\ play[u].done = FALSE /\ play[u].request \in 0..requests
             /\ play[u].from \in Player \cup {Nobody} /\ play[u].assembly = NoLog
             /\ play[u].buffer = <<>> /\ play[u].finish = NoLog /\ play[u].dirty = FALSE
             /\ play[u].lane = "ready" /\ (u \notin Range(Seats) => play[u].game = 0)
  <2>1. requests \in Nat /\ requests = Len(Seats) /\ Host \in Player
    BY <1>1, <1>3
  <2>2. play[u] = IF u \notin Range(Seats) THEN NewGame
                  ELSE IF u = Host \/ faults.begun THEN begun ELSE asks(u)
    BY <1>1
  <2>3. CASE u \notin Range(Seats)
    <3>1. play[u] = NewGame
      BY <2>2, <2>3
    <3>2. QED
      BY <2>1, <2>3, <3>1 DEF NewGame, GameFields
  <2>4. CASE u \in Range(Seats) /\ play[u] = begun
    BY <2>1, <2>4 DEF NewGame, GameFields
  <2>5. CASE u \in Range(Seats) /\ play[u] = asks(u)
    <3>1. Of(u) \in 1..Len(Seats)
      BY <1>4, <2>5
    <3>2. Of(u) \in 0..requests
      BY <2>1, <3>1
    <3>3. QED
      BY <2>1, <2>5, <3>2 DEF NewGame, GameFields
  <2>6. QED
    BY <2>2, <2>3, <2>4, <2>5
<1>6. PICK W : W = <<>>
  OBVIOUS
<1>7. W \in Log /\ Len(W) = 0 /\ OfGame(W, <<>>)
  <2>1. W \in Log /\ Len(W) = 0
    BY <1>6 DEF Log
  <2>2. QED
    BY <1>6, <2>1, LogIs DEF OfGame
<1>8. \A u \in Player : GameOK(Seats, play, W, u, play[u])
  BY <1>5, <1>7, NoneCarried DEF GameOK
<1>9. FramesOK(Seats, play, W, down)
  <2>1. Carried(Seats, play, W, Host, asked)
    <3>1. asked \in Seq({asked[i] : i \in 1..Len(Seats) - 1})
      <4>1. PICK n \in Nat : n = Len(Seats) - 1
        BY <1>3, LessOne
      <4>2. DOMAIN asked = 1..n
        BY <4>1
      <4>3. asked \in [1..n -> {asked[i] : i \in 1..n}]
        BY <4>1
      <4>4. asked \in Seq({asked[i] : i \in 1..n})
        BY <4>3, OnSegment
      <4>5. QED
        BY <4>1, <4>4, SMTT(60)
    <3>2. \A i \in 1..Len(Seats) - 1 : FrameOK(Seats, play, W, Host, asked[i])
      <4>1. SUFFICES ASSUME NEW i \in 1..Len(Seats) - 1
                     PROVE  FrameOK(Seats, play, W, Host, asked[i])
        OBVIOUS
      <4>2. i + 1 \in DOMAIN Seats
        BY <1>3
      <4>3. Seats[i + 1] \in Range(Seats)
        BY <4>2 DEF Range
      <4>4. QED
        BY <4>3 DEF FrameOK
    <3> HIDE DEF asked
    <3>3. PICK S : S = {asked[i] : i \in 1..Len(Seats) - 1}
      OBVIOUS
    <3>4. asked \in Seq(S) /\ \A f \in S : FrameOK(Seats, play, W, Host, f)
      BY <3>1, <3>2, <3>3
    <3>5. QED
      BY <3>4 DEF Carried
  <2> HIDE DEF asked
  <2>2. \A u \in Player : Carried(Seats, play, W, u, <<>>)
    BY NoneCarried
  <2>3. QED
    BY <1>1, <1>3, <2>1, <2>2 DEF FramesOK
<1>10. SavesOK(W, saved)
  BY <1>1, <1>7 DEF SavesOK, NothingSaved
<1>11. Kept(Seats, play, W) /\ Len(W) <= moves
  <2>1. 1..Len(W) = {} /\ Len(W) <= 0 /\ moves = 0
    BY <1>1, <1>7, <1>2, NothingYet
  <2>2. QED
    BY <2>1 DEF Kept
<1>12. Ended(Seats, play)
  BY <1>3, <1>5, HostIsOne DEF Ended
<1>13. GamesOK(Seats, play, W)
  BY <1>1, <1>8 DEF GamesOK
<1>14. SeatsOK
  <2>1. moves \in 0..faults.moves
    BY <1>1, <1>2, NothingYet
  <2>2. requests \in Nat /\ order = Seats /\ online \subseteq Range(Seats)
    BY <1>1, <1>3
  <2>3. QED
    BY <1>2, <1>3, <1>5, <2>1, <2>2 DEF SeatsOK
<1>15. Whole(W)
  BY <1>1, <1>9, <1>10, <1>11, <1>12, <1>13 DEF Whole
<1>16. QED
  BY <1>7, <1>14, <1>15 DEF TurnInv

LEMMA TurnHolds == TurnInv => TurnInvariant /\ OneGame
<1>1. SUFFICES ASSUME TurnInv PROVE TurnInvariant /\ OneGame
  OBVIOUS
<1>2. PICK W \in Log : Whole(W)
  BY <1>1 DEF TurnInv
<1>3. SeatsOK /\ PlayersOK(Seats, play) /\ Played(Seats, play, W)
  BY <1>1, <1>2, WholeIs DEF TurnInv
<1>4. \A u \in Player : OfGame(W, play[u].log) /\ OfGame(W, saved[u].log)
                        /\ saved[u].game \in Nat /\ GameOK(Seats, play, W, u, play[u])
  BY <1>2 DEF Whole, GamesOK, GameOK, SavesOK
<1>5. \A L : OfGame(W, L) => Len(L) <= moves
  <2>1. SUFFICES ASSUME NEW L, OfGame(W, L) PROVE Len(L) <= moves
    OBVIOUS
  <2>2. Len(L) <= Len(W) /\ Len(L) \in Nat /\ Len(W) \in Nat
    BY <2>1, PrefixIsShorter, LogIs DEF OfGame
  <2>3. Len(W) <= moves /\ moves \in Nat
    BY <1>2, <1>3 DEF Whole, SeatsOK, TurnSetup_
  <2>4. QED
    BY <2>2, <2>3
<1>6. TurnTypeOK
  <2>1. online \subseteq Player /\ moves \in 0..faults.moves
        /\ \A u \in Player : play[u].request \in 0..requests
    BY <1>3, SeatFacts DEF SeatsOK
  <2>2. QED
    BY <1>4, <1>5, <2>1 DEF TurnTypeOK, GameOK
<1>7. OneGame
  BY <1>2, <1>4, PrefixesAgree DEF OneGame
<1>8. EndsAgree
  <2>1. SUFFICES ASSUME Len(Seats) = 2, NEW u \in Player, NEW v \in Player,
                        play[u].done, play[v].done
                 PROVE  play[u].log = play[v].log
    BY DEF EndsAgree
  <2>2. u \in Range(Seats) /\ v \in Range(Seats)
    BY <1>4, <2>1 DEF GameOK
  <2>3. u \in Duo(Seats) /\ v \in Duo(Seats)
    BY <2>1, <2>2 DEF Duo
  <2>4. QED
    BY <1>3, <2>1, <2>3 DEF Played, Ended
<1>9. QED
  BY <1>6, <1>7, <1>8 DEF TurnInvariant, LogsAgree

\* The players play one game, of any number of players and moves, with any losses of
\* connections, moves and saves and any answers that are late, as long as no page is
\* reloaded, and without the exception of LogsAgree (turns.ts accept, requestLog,
\* commitAssembly, finish).
THEOREM PlayersPlayOneGame ==
  ASSUME NobodyReloads
  PROVE  TurnSpec => [](TurnInvariant /\ OneGame)
<1>1. TurnInit => TurnInv
  BY TurnStart
<1>2. TurnInv /\ [TurnNext]_turnVars => TurnInv'
  BY TurnIsOK
<1>3. TurnInv => TurnInvariant /\ OneGame
  BY TurnHolds
<1>4. QED
  BY <1>1, <1>2, <1>3, PTL DEF TurnSpec

=============================================================================
