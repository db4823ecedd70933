-------------------------------- MODULE Save --------------------------------
(***************************************************************************)
(* The cloud save of game-kit (packages/game-kit/src/save.ts) of one user  *)
(* who plays on several devices, over the versioned key-value collection   *)
(* it writes to.                                                           *)
(*                                                                         *)
(* Every operation of a device runs on its lane, one at a time; a request  *)
(* is one step, whose answer may be lost.  A value is the set of the       *)
(* updates it contains and a merge policy is their union: what an update   *)
(* overwrote is what its value lacks.  Version 0 is "undefined".           *)
(***************************************************************************)
EXTENDS Naturals, Sequences, FiniteSets, SequencesExt

CONSTANTS
  Device,        \* the clients of the user
  Name,          \* the names of the collection
  Update,        \* the calls: each is made once
  CallOf,        \* [Update -> [by: Device, name: Name, kind: CallKinds]]
  SaveSetups     \* [queue, merges, retries] policies, the calls of the
                 \* behaviour and its bounds: faults (answers, requests or
                 \* adapter writes lost) and signOuts (or closed pages)

CallKinds == {"update", "store", "remove", "claim"}

ASSUME SaveAssumption ==
  /\ CallOf \in [Update -> [by : Device, name : Name, kind : CallKinds]]
  /\ \A s \in SaveSetups : /\ s.queue \in BOOLEAN /\ s.merges \in BOOLEAN
                           /\ s.retries \in Nat /\ s.calls \subseteq Update
                           /\ s.faults \in Nat /\ s.signOuts \in Nat

VARIABLES
  policy,      \* the setup of this behaviour
  history,     \* history[n]: the value of every version the server gave
  live,        \* the names that have a row
  known,       \* known[d][n]: the cached base, or what was never read
  staged,      \* staged[d]: the queue in memory, `writes`
  disk,        \* disk[d]: the queue of the offline adapter
  hydrated,    \* the devices whose namespace is loaded
  task,        \* task[d]: the operation on the lane
  stray,       \* requests of closed pages that may still arrive
  called, acked, won, saveFaults, signOuts

saveVars == <<policy, history, live, known, staged, disk, hydrated, task,
              stray, called, acked, won, saveFaults, signOuts>>

----------------------------------------------------------------------------
(* Writes and the server.                                                 *)

Idle == [step |-> "idle"]

Writes == [id : Update, name : Name, kind : {"store", "remove"},
           value : SUBSET Update, expected : Nat, rebased : BOOLEAN]

NotRead == [read |-> FALSE, value |-> {}, version |-> 0]

Version(n) == Len(history[n])

Row(n) == IF n \in live
          THEN [read |-> TRUE, value |-> history[n][Version(n)],
                version |-> Version(n)]
          ELSE [read |-> TRUE, value |-> {}, version |-> 0]

\* Mutant: a put that expects nothing is sent without if-none-match.
Unconditional(w) ==
  w.expected = 0 \/ (w.name \in live /\ w.expected = Version(w.name))

\* Conditional requests: if-match, or if-none-match when nothing is expected.
Accepts(w) == w.expected = (IF w.name \in live THEN Version(w.name) ELSE 0)

StoreRow(w) ==
  /\ history' = [history EXCEPT ![w.name] = Append(@, w.value)]
  /\ live' = live \cup {w.name}

DeleteRow(w) ==
  /\ live' = live \ {w.name}
  /\ UNCHANGED history

Served(w) == IF w.kind = "store" THEN StoreRow(w) ELSE DeleteRow(w)

\* A row deleted with a condition: a row that is gone already is no error.
Deletable(w) == w.name \notin live \/ Version(w.name) = w.expected

Fits(w) == IF w.kind = "store" THEN Accepts(w)
           ELSE w.expected # 0 /\ Deletable(w)

----------------------------------------------------------------------------
(* The lane of a device.                                                  *)

QueuedAt(d, n) == {i \in 1..Len(staged[d]) : staged[d][i].name = n}

Staged(d, n) == QueuedAt(d, n) # {}

\* The last queued write of the name stands for what the server will hold.
Overlay(d, n) ==
  staged[d][CHOOSE i \in QueuedAt(d, n) : \A j \in QueuedAt(d, n) : j <= i]

Base(d, n) == IF Staged(d, n) THEN Overlay(d, n).value ELSE known[d][n].value

\* A queued store is expected to raise the version it waits for by one.
Expected(d, n) ==
  IF ~Staged(d, n) THEN known[d][n].version
  ELSE IF Overlay(d, n).kind = "remove" THEN 0 ELSE Overlay(d, n).expected + 1

ItemOf(d, u) ==
  LET c == CallOf[u]
  IN  [id |-> u, name |-> c.name,
       kind |-> IF c.kind = "remove" THEN "remove" ELSE "store",
       value |-> CASE c.kind = "update" -> Base(d, c.name) \cup {u}
                   [] c.kind = "remove" -> {}
                   [] OTHER -> {u},
       expected |-> Expected(d, c.name), rebased |-> FALSE]

\* `then` says what follows: the answer to the caller, or the flush.
OnLane(s, w, then) == [step |-> s, write |-> w, attempt |-> 0, then |-> then]

Done(d) == task' = [task EXCEPT ![d] = Idle]

PersistNext(d, w, next, then) ==
  task' = [task EXCEPT ![d] = [step |-> "persist", write |-> w,
                               attempt |-> 0, next |-> next, then |-> then]]

\* write() after its read: behind a queue it is queued, otherwise sent.
Write(d, u) ==
  LET w == ItemOf(d, u)
  IN  IF policy.queue /\ staged[d] # <<>>
      THEN PersistNext(d, w, Append(staged[d], w), "caller")
      ELSE task' = [task EXCEPT ![d] = OnLane("send", w, "caller")]

MustRead(d, u) ==
  /\ ~Staged(d, CallOf[u].name)
  /\ CallOf[u].kind = "update" \/ ~known[d][CallOf[u].name].read

\* store, update and remove, from the start of their turn on the lane.
Call(d, u) ==
  /\ task[d] = Idle
  /\ u \in policy.calls \ called
  /\ CallOf[u].by = d /\ CallOf[u].kind # "claim"
  /\ policy.queue => d \in hydrated
  /\ called' = called \cup {u}
  /\ IF MustRead(d, u)
     THEN task' = [task EXCEPT ![d] = [step |-> "read", id |-> u]]
     ELSE Write(d, u)
  /\ UNCHANGED <<policy, history, live, known, staged, disk, hydrated, stray,
                 acked, won, saveFaults, signOuts>>

\* The first operation of a session on the save loads the queue.
Hydrate(d) ==
  /\ task[d] = Idle
  /\ policy.queue /\ d \notin hydrated
  /\ hydrated' = hydrated \cup {d}
  /\ staged' = [staged EXCEPT ![d] = disk[d]]
  /\ UNCHANGED <<policy, history, live, known, disk, task, stray, called,
                 acked, won, saveFaults, signOuts>>

\* claimOnce: created by this request, or there already.
Claim(d, u) ==
  /\ task[d] = Idle
  /\ u \in policy.calls \ called
  /\ CallOf[u].by = d /\ CallOf[u].kind = "claim"
  /\ called' = called \cup {u}
  /\ \E lost \in BOOLEAN, arrives \in BOOLEAN :
       /\ lost => saveFaults > 0
       /\ ~arrives => lost
       /\ saveFaults' = saveFaults - (IF lost THEN 1 ELSE 0)
       /\ LET w == [name |-> CallOf[u].name, value |-> {u}, expected |-> 0]
              made == arrives /\ Accepts(w)
          IN  /\ IF made THEN StoreRow(w) ELSE UNCHANGED <<history, live>>
              /\ won' = IF made /\ ~lost THEN won \cup {u} ELSE won
  /\ UNCHANGED <<policy, known, staged, disk, hydrated, task, stray, acked,
                 signOuts>>

----------------------------------------------------------------------------
(* Requests.                                                              *)

Lost == saveFaults > 0 /\ saveFaults' = saveFaults - 1

\* read() asks the server; unavailable, the cache answers if there is a queue.
Read(d) ==
  /\ task[d].step = "read"
  /\ LET u == task[d].id
         n == CallOf[u].name
     IN  \/ /\ known' = [known EXCEPT ![d][n] = Row(n)]
            /\ task' = [task EXCEPT ![d] =
                 [step |-> "form", id |-> u]]
            /\ UNCHANGED saveFaults
         \/ /\ Lost
            /\ task' = [task EXCEPT ![d] =
                 IF policy.queue /\ known[d][n].read
                 THEN [step |-> "form", id |-> u] ELSE Idle]
            /\ UNCHANGED known
  /\ UNCHANGED <<policy, history, live, staged, disk, hydrated, stray,
                 called, acked, won, signOuts>>

Form(d) ==
  /\ task[d].step = "form"
  /\ Write(d, task[d].id)
  /\ UNCHANGED <<policy, history, live, known, staged, disk, hydrated, stray,
                 called, acked, won, saveFaults, signOuts>>

\* A write that ended in "unavailable": queued, or reported to its caller.
Unavailable(d) ==
  IF task[d].then = "caller" /\ policy.queue
  THEN PersistNext(d, task[d].write, Append(staged[d], task[d].write),
                   "caller")
  ELSE Done(d)

OnVersion(w, v) ==
  [w EXCEPT !.expected = v, !.rebased = @ \/ v # w.expected]

\* The write took effect: the caller is told, or the queue loses its head and
\* the next write of the name is rebased to the version that was committed.
Rebase(q, n, v) ==
  LET I == {i \in 1..Len(q) : q[i].name = n}
      first == CHOOSE i \in I : \A j \in I : i <= j
  IN  IF I = {} THEN q
      ELSE [q EXCEPT ![first] = OnVersion(@, v)]

Settle(d, w, version) ==
  IF task[d].then = "caller"
  THEN /\ Done(d)
       /\ acked' = acked \cup {w.id}
  ELSE /\ PersistNext(d, w, Rebase(Tail(staged[d]), w.name, version), "flush")
       /\ UNCHANGED acked

\* Mutant: a lost acknowledgement is recognised by the version alone.
LooseRecognised(w) ==
  IF w.kind = "remove" THEN w.name \notin live
  ELSE w.name \in live /\ Version(w.name) > w.expected

\* flush() first asks whether the head was done by a request whose
\* acknowledgement was lost.
Recognised(w) ==
  IF w.kind = "remove" THEN w.name \notin live
  ELSE /\ w.name \in live
       /\ Version(w.name) > w.expected
       /\ history[w.name][Version(w.name)] = w.value

Recover(d) ==
  /\ task[d].step = "recover"
  /\ LET w == task[d].write
     IN  \/ /\ Recognised(w)
            /\ known' = [known EXCEPT ![d][w.name] = Row(w.name)]
            /\ Settle(d, w, Row(w.name).version)
            /\ UNCHANGED saveFaults
         \/ /\ ~Recognised(w)
            /\ task' = [task EXCEPT ![d].step = "send"]
            /\ UNCHANGED <<known, acked, saveFaults>>
         \/ /\ Lost /\ Done(d)
            /\ UNCHANGED <<known, acked>>
  /\ UNCHANGED <<policy, history, live, staged, disk, hydrated, stray, called,
                 won, signOuts>>

\* The conditional put or delete, done and acknowledged.
SendOk(d) ==
  /\ task[d].step = "send"
  /\ LET w == task[d].write
         after == IF w.kind = "store"
                  THEN [read |-> TRUE, value |-> w.value,
                        version |-> Version(w.name) + 1]
                  ELSE [NotRead EXCEPT !.read = TRUE]
     IN  /\ \/ Fits(w) /\ Served(w)
            \/ /\ w.kind = "remove" /\ w.expected = 0 /\ w.name \notin live
               /\ UNCHANGED <<history, live>>
         /\ known' = [known EXCEPT ![d][w.name] = after]
         /\ Settle(d, w, after.version)
  /\ UNCHANGED <<policy, staged, disk, hydrated, stray, called, won,
                 saveFaults, signOuts>>

\* The request or its answer is lost: the caller cannot tell which.
SendLost(d) ==
  /\ task[d].step = "send"
  /\ Lost
  /\ \/ Fits(task[d].write) /\ Served(task[d].write)
     \/ UNCHANGED <<history, live>>
  /\ Unavailable(d)
  /\ UNCHANGED <<policy, known, staged, disk, hydrated, stray, called, acked,
                 won, signOuts>>

\* Refused: a store with a merge policy reads again, everything else fails.
SendConflict(d) ==
  /\ task[d].step = "send"
  /\ LET w == task[d].write
     IN  /\ IF w.kind = "remove" /\ w.expected = 0 THEN w.name \in live
            ELSE ~Fits(w)
         /\ IF policy.merges /\ w.kind = "store"
                /\ task[d].attempt < policy.retries
            THEN task' = [task EXCEPT ![d].step = "fetch"]
            ELSE Done(d)
  /\ UNCHANGED <<policy, history, live, known, staged, disk, hydrated, stray,
                 called, acked, won, saveFaults, signOuts>>

\* The policy is given what is there.
Merged(w) ==
  [w EXCEPT !.value = @ \cup Row(w.name).value,
            !.expected = Row(w.name).version, !.rebased = FALSE]

\* The merge with what is there; a queued write keeps the merged value.
Fetch(d) ==
  /\ task[d].step = "fetch"
  /\ LET merged == Merged(task[d].write)
     IN  \/ /\ IF task[d].then = "flush"
               THEN /\ staged' = [staged EXCEPT ![d][1] = merged]
                    /\ task' = [task EXCEPT ![d] =
                         [step |-> "persist", write |-> merged,
                          attempt |-> @.attempt + 1, next |-> staged[d]',
                          then |-> "resend"]]
               ELSE /\ task' = [task EXCEPT ![d] =
                         [step |-> "send", write |-> merged,
                          attempt |-> @.attempt + 1, then |-> "caller"]]
                    /\ UNCHANGED staged
            /\ UNCHANGED saveFaults
         \/ Lost /\ Unavailable(d) /\ UNCHANGED staged
  /\ UNCHANGED <<policy, history, live, known, disk, hydrated, stray, called,
                 acked, won, signOuts>>

----------------------------------------------------------------------------
(* The queue.                                                             *)

FlushHead(q) == IF q = <<>> THEN Idle ELSE OnLane("recover", Head(q), "flush")

\* flush(), from its caller or from the foreground event.
Flush(d) ==
  /\ task[d] = Idle
  /\ policy.queue /\ d \in hydrated
  /\ staged[d] # <<>>
  /\ task' = [task EXCEPT ![d] = FlushHead(staged[d])]
  /\ UNCHANGED <<policy, history, live, known, staged, disk, hydrated, stray,
                 called, acked, won, saveFaults, signOuts>>

\* persistQueue: the adapter first, then the queue in memory.
Persist(d) ==
  /\ task[d].step = "persist"
  /\ disk' = [disk EXCEPT ![d] = task[d].next]
  /\ staged' = [staged EXCEPT ![d] = task[d].next]
  /\ CASE task[d].then = "caller" ->
            Done(d) /\ acked' = acked \cup {task[d].write.id}
       [] task[d].then = "flush" ->
            /\ \E foreground \in BOOLEAN :
                 task' = [task EXCEPT ![d] =
                            IF foreground THEN FlushHead(task[d].next) ELSE Idle]
            /\ UNCHANGED acked
       [] OTHER ->
            /\ task' = [task EXCEPT ![d] =
                 [step |-> "send", write |-> @.write, attempt |-> @.attempt,
                  then |-> "flush"]]
            /\ UNCHANGED acked
  /\ UNCHANGED <<policy, history, live, known, hydrated, stray, called, won,
                 saveFaults, signOuts>>

\* The adapter refuses: the operation fails, the memory stays as it was.
PersistFails(d) ==
  /\ task[d].step = "persist"
  /\ Lost /\ Done(d)
  /\ UNCHANGED <<policy, history, live, known, staged, disk, hydrated, stray,
                 called, acked, won, signOuts>>

\* Sign-out, another session or the end of the page: memory is cleared, what
\* the adapter holds stays.  A request or an adapter write under way may take
\* effect now, never, or (a request) after the next session has begun.
SignOut(d) ==
  /\ signOuts > 0 /\ signOuts' = signOuts - 1
  /\ \/ /\ task[d].step = "send"
        /\ stray' = stray \cup {task[d].write}
        /\ UNCHANGED disk
     \/ /\ task[d].step = "persist"
        /\ disk' = [disk EXCEPT ![d] = task[d].next]
        /\ UNCHANGED stray
     \/ UNCHANGED <<disk, stray>>
  /\ known' = [known EXCEPT ![d] = [n \in Name |-> NotRead]]
  /\ staged' = [staged EXCEPT ![d] = <<>>]
  /\ hydrated' = hydrated \ {d}
  /\ Done(d)
  /\ UNCHANGED <<policy, history, live, called, acked, won, saveFaults>>

StrayArrives(w) ==
  /\ w \in stray
  /\ stray' = stray \ {w}
  /\ IF Fits(w) THEN Served(w) ELSE UNCHANGED <<history, live>>
  /\ UNCHANGED <<policy, known, staged, disk, hydrated, task, called, acked,
                 won, saveFaults, signOuts>>

----------------------------------------------------------------------------

SaveInit ==
  /\ policy \in SaveSetups
  /\ history = [n \in Name |-> <<>>]
  /\ live = {}
  /\ known = [d \in Device |-> [n \in Name |-> NotRead]]
  /\ staged = [d \in Device |-> <<>>]
  /\ disk = [d \in Device |-> <<>>]
  /\ hydrated = {}
  /\ task = [d \in Device |-> Idle]
  /\ stray = {}
  /\ called = {} /\ acked = {} /\ won = {}
  /\ saveFaults = policy.faults /\ signOuts = policy.signOuts

\* What the lane does once an operation is on it.
Lane(d) ==
  \/ Read(d) \/ Form(d) \/ Recover(d)
  \/ SendOk(d) \/ SendLost(d) \/ SendConflict(d) \/ Fetch(d)
  \/ Persist(d) \/ PersistFails(d)

SaveNext ==
  \/ \E d \in Device :
       \/ \E u \in Update : Call(d, u) \/ Claim(d, u)
       \/ Hydrate(d) \/ Flush(d) \/ Lane(d) \/ SignOut(d)
  \/ \E w \in stray : StrayArrives(w)

SaveSpec == SaveInit /\ [][SaveNext]_saveVars

\* Requests are answered sooner or later, and the application flushes: by
\* itself or by the foreground event of its page.
SaveProgress(d) ==
  \/ Hydrate(d) \/ Flush(d) \/ Read(d) \/ Form(d) \/ Recover(d)
  \/ SendOk(d) \/ SendConflict(d) \/ Fetch(d) \/ Persist(d)

SaveFairness == \A d \in Device : WF_saveVars(SaveProgress(d))

----------------------------------------------------------------------------
(* Properties.                                                            *)

SaveTypeOK ==
  /\ policy \in SaveSetups
  /\ history \in [Name -> Seq(SUBSET Update)]
  /\ live \subseteq Name
  /\ known \in [Device -> [Name -> [read : BOOLEAN, value : SUBSET Update,
                                    version : Nat]]]
  /\ \A d \in Device : Range(staged[d]) \cup Range(disk[d]) \subseteq Writes
  /\ hydrated \subseteq Device
  /\ \A d \in Device : task[d].step \in {"idle", "read", "form", "recover",
                                        "send", "fetch", "persist"}
  /\ stray \subseteq Writes
  /\ called \subseteq Update /\ acked \subseteq called /\ won \subseteq called
  /\ saveFaults \in 0..policy.faults /\ signOuts \in 0..policy.signOuts

\* An accepted update is never forgotten, whatever is lost and whenever the
\* page goes: the server has had it, or the adapter of its device holds it
\* (save.ts: persistQueue before the answer, the head leaves after its write).
AckedIsKept ==
  \A u \in acked :
    CallOf[u].kind # "remove" =>
      \/ \E v \in Range(history[CallOf[u].name]) : u \in v
      \/ \E w \in Range(disk[CallOf[u].by]) : u \in w.value

\* What a device believes of a row was true of it at that version: no write
\* is ever conditional on a version with another content.
CachedIsReal ==
  \A d \in Device, n \in Name :
    LET k == known[d][n]
    IN  k.version > 0 => /\ k.version <= Version(n)
                         /\ history[n][k.version] = k.value

\* pendingCount is what a restart would find: the queue in memory holds the
\* writes of the adapter in their order, even where a step failed half way.
QueueIsDurable ==
  \A d \in hydrated :
    [i \in DOMAIN staged[d] |-> staged[d][i].id] =
      [i \in DOMAIN disk[d] |-> disk[d][i].id]

\* A claim that was won made the row: as long as nobody calls for a removal of
\* it, nothing came before it, so that nobody else won it (save.ts claimOnce).
WinnerHoldsTheRow ==
  \A u \in won :
    (\A r \in called : CallOf[r].name = CallOf[u].name => CallOf[r].kind # "remove")
      => history[CallOf[u].name][1] = {u}

Dropped(n) ==
  n \in live /\ Len(history[n]') > Version(n)
             /\ ~(history[n][Version(n)] \subseteq history[n]'[Version(n) + 1])

Rebased ==
  \/ \E d \in Device : task[d].step = "send" /\ task[d].write.rebased
  \/ \E w \in stray : w.rebased

\* An update never overwrites what it had not read or merged: not after a lost
\* acknowledgement, a restart or a late request.  The one exception is a
\* queued write that was rebased behind a merge.
OverwritesNothing == [][(\E n \in Name : Dropped(n)) => Rebased]_saveVars

\* The same without the exception, as the documentation states it.
NothingIsOverwritten == [][\A n \in Name : ~Dropped(n)]_saveVars

Mergeable == policy.queue /\ policy.merges /\ policy.retries > 0
             /\ \A u \in policy.calls : CallOf[u].kind # "remove"

\* Where every conflict can be merged, an accepted update reaches the server.
AckedReachesServer ==
  []<>(Mergeable => \A u \in acked :
         \E v \in Range(history[CallOf[u].name]) : u \in v)

\* What a device accepted it keeps, in memory and in its adapter, and what it believes of
\* the server was so (save.ts).
SaveInvariant ==
  /\ SaveTypeOK
  /\ AckedIsKept
  /\ CachedIsReal
  /\ QueueIsDurable
  /\ WinnerHoldsTheRow

\* An accepted update reaches the server, and overwrites nothing it had not seen (save.ts
\* drain, merge).
SavePromise == OverwritesNothing /\ AckedReachesServer
=============================================================================
