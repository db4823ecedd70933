------------------------------ MODULE LogFlush ------------------------------
(***************************************************************************)
(* The log writer of logger-s3: records wait in a buffer, are flushed by   *)
(* the caller, by time or by size, and are appended per key through the    *)
(* bridge, one batch after the other.                                      *)
(*                                                                         *)
(* A record is its number. `due` stands for the clock: more than the       *)
(* interval has passed since the last flush.                               *)
(***************************************************************************)
EXTENDS Naturals, Sequences, FiniteSets

CONSTANTS LogKey, MaxBuffer,
          LogSetups   \* [writes, flushes, renames, passes, spoils, faults, guarded]

ASSUME LogAssumption ==
  /\ MaxBuffer \in Nat
  /\ \A s \in LogSetups :
       /\ {s.writes, s.flushes, s.renames, s.passes, s.spoils, s.faults} \subseteq Nat
       /\ s.guarded \in BOOLEAN   \* unhandled rejections do not end the process

VARIABLES
  records,      \* of each record, its key, and whether its arguments serialize
  unflushed,    \* the buffer
  due,
  systemId,     \* how often updateSystemId was called
  batches,      \* [bag, by]: the chain of `promise`, `by` an explicit flush or 0
  appending,    \* the keys of the first batch whose append is under way
  rejected,     \* `promise` is rejected
  strays,       \* appends under way of the batch that failed
  appended,     \* what each object holds: records as <<number, systemId>>
  awaited,      \* of each explicit flush: [state, upto, empty]
  stamps,       \* the systemId each record should carry (history)
  running,      \* the process runs
  ink           \* the setup, with what is left of it

logVars == <<records, unflushed, due, systemId, batches, appending, rejected, strays,
             appended, awaited, stamps, running, ink>>

Uses(what) == ink[what] > 0 /\ ink' = [ink EXCEPT ![what] = @ - 1]

----------------------------------------------------------------------------

\* The ways to count a set of numbers up: there is one.
Countings(S) ==
  {s \in [1..Cardinality(S) -> S] : /\ \A i, j \in DOMAIN s : i < j => s[i] < s[j]
                                    /\ \A x \in S : \E i \in DOMAIN s : s[i] = x}
CountedUp(S) == CHOOSE s \in Countings(S) : TRUE

\* aggregate: of each key, what the batch has of it, in the order of the batch.
Aggregate(b) ==
  [k \in {records'[b[j]].key : j \in DOMAIN b} |->
     LET places == CountedUp({j \in DOMAIN b : records'[b[j]].key = k})
     IN [j \in DOMAIN places |-> <<b[places[j]], systemId>>]]

\* Mutant: the first failure is forgotten, and a later batch goes on.
NeverRejected(b) == FALSE

\* promise.then: a batch chained to a rejected promise is never sent.
NeverSent(b) == rejected

Spoilt(b) == \E j \in DOMAIN b : ~records'[b[j]].serializes

\* flush(b) of createS3cbLogFlush, by an explicit flush or by none (0): the batch is
\* serialized here, and one bad record takes the batch with it.
FlushBatch(b, by) ==
  batches' = IF Spoilt(b) \/ NeverSent(b) THEN batches
             ELSE Append(batches, [bag |-> Aggregate(b), by |-> by])

AutoFlushable(b) == due \/ Len(b) > MaxBuffer

\* Nobody handles the promise of a flush by itself: its rejection ends the process. One
\* that cannot serialize throws into the caller, with the buffer emptied.
WriteRecord(k, good) ==
  /\ running /\ ink.writes > 0 /\ (good \/ ink.spoils > 0)
  /\ ink' = [ink EXCEPT !.writes = @ - 1, !.spoils = IF good THEN @ ELSE @ - 1]
  /\ records' = Append(records, [key |-> k, serializes |-> good])
  /\ stamps' = Append(stamps, systemId)
  /\ LET b == Append(unflushed, Len(records'))
     IN IF AutoFlushable(b)
        THEN /\ FlushBatch(b, 0)
             /\ unflushed' = <<>> /\ due' = FALSE
             /\ running' = (Spoilt(b) \/ ~NeverSent(b) \/ ink.guarded)
        ELSE unflushed' = b /\ UNCHANGED <<batches, due, running>>
  /\ UNCHANGED <<systemId, appending, rejected, strays, appended, awaited>>

\* flush() of the writer. Nothing in the buffer: resolved at once.
FlushLogs ==
  /\ running /\ Uses("flushes")
  /\ UNCHANGED records
  /\ LET by == Len(awaited) + 1
         fate == IF unflushed = <<>> THEN "resolved"
                 ELSE IF Spoilt(unflushed) \/ NeverSent(unflushed) THEN "rejected"
                 ELSE "pending"
     IN /\ awaited' = Append(awaited, [state |-> fate, upto |-> Len(records),
                                       empty |-> unflushed = <<>>])
        /\ IF unflushed = <<>> THEN UNCHANGED batches ELSE FlushBatch(unflushed, by)
  /\ unflushed' = <<>> /\ due' = FALSE
  /\ UNCHANGED <<systemId, appending, rejected, strays, appended, stamps, running>>

\* The callback of promise.then: the appends of all keys start.
BatchStarts ==
  /\ batches # <<>> /\ appending = {}
  /\ appending' = DOMAIN batches[1].bag
  /\ UNCHANGED <<records, unflushed, due, systemId, batches, rejected, strays, appended,
                 awaited, stamps, running, ink>>

Lands(k, body) == appended' = [appended EXCEPT ![k] = @ \o body]

IsLast(k) == appending = {k}

AppendDone(k) ==
  /\ k \in appending
  /\ Lands(k, batches[1].bag[k])
  /\ appending' = appending \ {k}
  /\ batches' = IF appending = {k} THEN Tail(batches) ELSE batches
  /\ awaited' = IF IsLast(k) /\ batches[1].by # 0
                THEN [awaited EXCEPT ![batches[1].by].state = "resolved"] ELSE awaited
  /\ UNCHANGED <<records, unflushed, due, systemId, rejected, strays, stamps, running, ink>>

\* An append fails, done or not. Promise.all does not wait for the others; every
\* batch behind is lost, and if the last of them is nobody's, the process ends.
AppendFails(k, done) ==
  /\ k \in appending /\ Uses("faults")
  /\ IF done THEN Lands(k, batches[1].bag[k]) ELSE UNCHANGED appended
  /\ strays' = strays \cup {[key |-> l, body |-> batches[1].bag[l]] : l \in appending \ {k}}
  /\ rejected' = TRUE /\ batches' = <<>> /\ appending' = {}
  /\ awaited' = [n \in DOMAIN awaited |->
                   [awaited[n] EXCEPT !.state = IF @ = "pending" THEN "rejected" ELSE @]]
  /\ running' = (batches[Len(batches)].by # 0 \/ ink.guarded)
  /\ UNCHANGED <<records, unflushed, due, systemId, stamps>>

StrayEnds(s, done) ==
  /\ s \in strays /\ strays' = strays \ {s}
  /\ IF done THEN Lands(s.key, s.body) ELSE UNCHANGED appended
  /\ UNCHANGED <<records, unflushed, due, systemId, batches, appending, rejected, awaited,
                 stamps, running, ink>>

\* updateSystemId: it applies to what is still in the buffer.
UpdateSystemId ==
  /\ running /\ Uses("renames")
  /\ systemId' = systemId + 1
  /\ stamps' = [i \in DOMAIN stamps |->
                  IF \E j \in DOMAIN unflushed : unflushed[j] = i THEN systemId'
                  ELSE stamps[i]]
  /\ UNCHANGED <<records, unflushed, due, batches, appending, rejected, strays,
                 appended, awaited, running>>

IntervalPasses ==
  /\ running /\ ~due /\ Uses("passes")
  /\ due' = TRUE
  /\ UNCHANGED <<records, unflushed, systemId, batches, appending, rejected, strays,
                 appended, awaited, stamps, running>>

LogInit ==
  /\ ink \in LogSetups
  /\ records = <<>> /\ unflushed = <<>> /\ due = FALSE /\ systemId = 0
  /\ batches = <<>> /\ appending = {} /\ rejected = FALSE /\ strays = {}
  /\ appended = [k \in LogKey |-> <<>>] /\ awaited = <<>> /\ stamps = <<>> /\ running = TRUE

LogNext ==
  \/ \E k \in LogKey, good \in BOOLEAN : WriteRecord(k, good)
  \/ FlushLogs \/ BatchStarts \/ UpdateSystemId \/ IntervalPasses
  \/ \E k \in LogKey : AppendDone(k) \/ \E done \in BOOLEAN : AppendFails(k, done)
  \/ \E s \in strays, done \in BOOLEAN : StrayEnds(s, done)

LogSpec == LogInit /\ [][LogNext]_logVars

----------------------------------------------------------------------------
(* Properties *)

Recorded == 1..Len(records)
AllSerialize == \A i \in Recorded : records[i].serializes
In(body) == {body[j][1] : j \in DOMAIN body}
InObjects == UNION {In(appended[k]) : k \in LogKey}
\* The keys of a batch that have not landed.
LeftOf(n) == IF n = 1 /\ appending # {} THEN appending ELSE DOMAIN batches[n].bag
OnTheWay == UNION {UNION {In(batches[n].bag[k]) : k \in LeftOf(n)} : n \in DOMAIN batches}

\* The buffer never holds more than its size; the appends are the first batch's.
LogTypeOK ==
  /\ \A i \in Recorded : records[i].key \in LogKey
  /\ unflushed \in Seq(Recorded) /\ Len(unflushed) <= MaxBuffer
  /\ appending # {} => batches # <<>> /\ appending \subseteq DOMAIN batches[1].bag
  /\ \A n \in DOMAIN awaited : awaited[n].state \in {"pending", "resolved", "rejected"}
  /\ \A s \in strays : s.key \in LogKey
  /\ {due, rejected, running} \subseteq BOOLEAN
  /\ Len(stamps) = Len(records) /\ systemId \in Nat

\* An object holds its records in the order they were written and none twice, although
\* flushes overlap and appends outlive the failure of their batch
\* (s3cbLogFlush.ts:67-72).
StoredInOrder ==
  \A k \in LogKey : \A i, j \in DOMAIN appended[k] :
    i < j => appended[k][i][1] < appended[k][j][1]

\* Until an append fails or a record does not serialize, every record is in the buffer,
\* in a batch or in its object (buffered.ts:71-76, internal.ts:24-32).
NoRecordIsLost ==
  ~rejected /\ AllSerialize =>
    Recorded = {unflushed[j] : j \in DOMAIN unflushed} \cup OnTheWay \cup InObjects

\* A flush that had something to flush and resolves has stored all that was written before
\* it, also what an earlier flush took from the buffer (s3cbLogFlush.ts:67).
FlushCoversAll ==
  AllSerialize => \A n \in DOMAIN awaited :
    awaited[n].state = "resolved" /\ ~awaited[n].empty =>
      1..awaited[n].upto \subseteq InObjects

\* A record carries the systemId that was set when it was flushed: a later one applies
\* to what is still in the buffer and to nothing else (lambda.ts:29-48, 58-60).
StampedWhenFlushed ==
  \A k \in LogKey : \A j \in DOMAIN appended[k] :
    appended[k][j][2] = stamps[appended[k][j][1]]

\* An awaited flush leaves nothing behind. The code breaks it where a flush by size or
\* time has emptied the buffer and its appends are still under way.
AwaitedIsStored ==
  \A n \in DOMAIN awaited :
    awaited[n].state = "resolved" => 1..awaited[n].upto \subseteq InObjects

\* A record is stored once, in order, under the stamp of its flush, and a flush that
\* resolves has stored it (buffered.ts, s3cbLogFlush.ts, lambda.ts).
LogInvariant ==
  /\ LogTypeOK
  /\ StoredInOrder
  /\ NoRecordIsLost
  /\ FlushCoversAll
  /\ StampedWhenFlushed
=============================================================================
