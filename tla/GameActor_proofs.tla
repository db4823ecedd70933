-------------------------- MODULE GameActor_proofs --------------------------
(***************************************************************************)
(* Proofs about GameActor, for any number of invocations and handlers and  *)
(* any budget of lapses, faults and crashes.                               *)
(***************************************************************************)
EXTENDS GameActor, SequenceTheorems, TLAPS

-----------------------------------------------------------------------------
(* Helpers *)

\* What is left when the n oldest messages are removed.
LEMMA RestOf ==
  ASSUME NEW S, NEW s \in Seq(S), NEW n \in Nat
  PROVE  /\ SubSeq(s, n + 1, Len(s)) \in Seq(S)
         /\ s = <<>> => SubSeq(s, n + 1, Len(s)) = <<>>
         /\ n = Len(s) => SubSeq(s, n + 1, Len(s)) = <<>>
OBVIOUS

\* A message behind the others does not change the oldest ones.
LEMMA PrefixOfAppend ==
  ASSUME NEW S, NEW s \in Seq(S), NEW e \in S, NEW n \in 0..Len(s)
  PROVE  /\ n \in 0..Len(Append(s, e))
         /\ SubSeq(Append(s, e), 1, n) = SubSeq(s, 1, n)
<1>1. Len(Append(s, e)) = Len(s) + 1
  BY AppendProperties
<1>2. QED
  BY <1>1

LEMMA WholeIsPrefix ==
  ASSUME NEW S, NEW s \in Seq(S)
  PROVE  SubSeq(s, 1, Len(s)) = s
BY SubSeqFull

-----------------------------------------------------------------------------
(* Type correctness, and the TTL of the queue *)

USE DEF game, history, budgets, leaseVariables, leaseVars, beats

\* A step of the beat, which leaves the invocation where it is.
Beat(p) == BeatRefused(p) \/ BeatAgain(p) \/ BeatThrows(p)

LEMMA QueueType ==
  ASSUME NEW s \in Seq(Message), SetQueue(s), ttl \in BOOLEAN
  PROVE  /\ queue' \in Seq(Message) /\ ttl' \in BOOLEAN
         /\ queue' = <<>> => ~ttl'
BY DEF SetQueue

LEMMA TrimType ==
  ASSUME TypeOK, NEW p \in Process
  PROVE  Trimmed(p) \in Seq(Message)
BY RestOf DEF TypeOK, Trimmed

\* An invocation is among the working ones while it awaits in its loop.
LEMMA GotoType ==
  ASSUME TypeOK, NEW p \in Process, NEW place \in Place, Goto(p, place),
         working' = IF place \in Looping THEN working \cup {p} ELSE working \ {p}
  PROVE  /\ inv' \in [Process -> [at : Place, lost : BOOLEAN, batch : Seq(Message)]]
         /\ working' = {q \in Process : inv'[q].at \in Looping}
BY DEF Goto, TypeOK

\* The same where a batch is over.
LEMMA BatchOverType ==
  ASSUME TypeOK, NEW p \in Process, NEW place \in Place,
         inv' = [inv EXCEPT ![p].at = place, ![p].batch = <<>>],
         working' = IF place \in Looping THEN working \cup {p} ELSE working \ {p}
  PROVE  /\ inv' \in [Process -> [at : Place, lost : BOOLEAN, batch : Seq(Message)]]
         /\ working' = {q \in Process : inv'[q].at \in Looping}
<1> DEFINE none == <<>>
           moved == [inv EXCEPT ![p].at = place]
           Record == [at : Place, lost : BOOLEAN, batch : Seq(Message)]
<1>1. moved \in [Process -> Record] /\ moved[p].at = place
  BY DEF TypeOK
<1>2. inv' = [moved EXCEPT ![p].batch = none]
  OBVIOUS
<1>3. none \in Seq(Message)
  OBVIOUS
<1>4. \A q \in Process \ {p} : inv'[q].at = inv[q].at
  BY DEF TypeOK
<1> HIDE DEF moved, none
<1>5. inv' \in [Process -> Record] /\ inv'[p].at = place
  <2>1. [moved[p] EXCEPT !.batch = none] \in Record
    BY <1>1, <1>3
  <2>2. [moved[p] EXCEPT !.batch = none].at = place
    BY <1>1
  <2>3. inv' = [moved EXCEPT ![p] = [moved[p] EXCEPT !.batch = none]]
    BY <1>2
  <2> HIDE DEF Record
  <2>4. QED
    BY <1>1, <2>1, <2>2, <2>3
<1>6. \A q \in Process : inv'[q].at \in Looping <=> q \in working'
  BY <1>4, <1>5 DEF TypeOK
<1>7. working' \subseteq Process
  BY DEF TypeOK
<1>8. QED
  BY <1>5, <1>6, <1>7

\* Where an invocation is and who works, as TypeOK has it.
InvOK ==
  /\ inv \in [Process -> [at : Place, lost : BOOLEAN, batch : Seq(Message)]]
  /\ working = {q \in Process : inv[q].at \in Looping}

\* A step within the loop, or outside it, changes nobody's work.
LEMMA GotoKeeps ==
  ASSUME TypeOK, NEW p \in Process, NEW place \in Place, Goto(p, place),
         inv[p].at \in Looping <=> place \in Looping, UNCHANGED working
  PROVE  InvOK'
<1>1. p \in working <=> place \in Looping
  BY DEF TypeOK
<1>2. working' = IF place \in Looping THEN working \cup {p} ELSE working \ {p}
  BY <1>1
<1>3. QED
  BY <1>2, GotoType DEF InvOK

LEMMA FaultType ==
  ASSUME TypeOK, Fault PROVE throws' \in 0..MaxThrows
BY GameAssumption DEF TypeOK, Fault

\* Only an invocation with a callbackUrl comes to announce the game. TypeOK is
\* not inductive without it: any other one would be among the ready ones.
AnnouncerInv == \A p \in Process : inv[p].at = "announce" => p \in Announcing

LEMMA TypeInit == Init => TypeOK
<1> SUFFICES ASSUME Init PROVE TypeOK
  OBVIOUS
<1> DEFINE none == <<>>
<1>1. none \in Seq(Message)
  OBVIOUS
<1>2. inv = [p \in Process |-> [at |-> "idle", lost |-> FALSE, batch |-> none]]
  BY DEF Init
<1>3. queue = none /\ sent = none /\ handled = none /\ ttl = FALSE
  BY DEF Init
<1> HIDE DEF none
<1>4. /\ inv \in [Process -> [at : Place, lost : BOOLEAN, batch : Seq(Message)]]
      /\ working = {p \in Process : inv[p].at \in Looping}
  BY <1>1, <1>2 DEF Init, LeaseInit, Place, Looping
<1>5. /\ push \in [Message -> {"idle", "expire", "done", "failed"}]
      /\ ready \subseteq Announcing
      /\ owner = NoOwner /\ startEvent = NoOwner /\ lapses = MaxLapses
      /\ beating = {} /\ token = {}
      /\ throws = MaxThrows /\ crashes = MaxCrashes /\ pushFaults = MaxPushFaults
  BY DEF Init, LeaseInit
<1>6. ttl \in BOOLEAN /\ (queue = <<>> => ~ttl)
  BY <1>3
<1>7. QED
  BY <1>1, <1>3, <1>4, <1>5, <1>6, GameAssumption DEF TypeOK

LEMMA TypeStep == TypeOK /\ AnnouncerInv /\ [Next]_vars => TypeOK'
<1> SUFFICES ASSUME TypeOK, AnnouncerInv, [Next]_vars
             PROVE  TypeOK'
  OBVIOUS
<1> USE GameAssumption
<1>0. /\ Looping \subseteq Place /\ Ended \subseteq Place
      /\ {"acquire", "release", "retry"} \subseteq Place
      /\ {"announce", "play", "lrange", "ltrim", "deliver", "clear"} \subseteq Looping
      /\ {"done", "refused", "failed", "crashed"} \subseteq Ended
      /\ \A place \in {"idle", "acquire", "release", "retry"} \cup Ended : place \notin Looping
  BY DEF Looping, Ended, Place
<1>1. ASSUME NEW p \in Process, SaveStartEvent(p) PROVE TypeOK'
  <2>1. InvOK'
    BY <1>0, <1>1, GotoKeeps DEF SaveStartEvent
  <2>2. QED
    BY <1>1, <2>1 DEF SaveStartEvent, InvOK, TypeOK
<1>2. ASSUME NEW p \in Process, SaveThrows(p) PROVE TypeOK'
  <2>1. InvOK'
    BY <1>0, <1>2, GotoKeeps DEF SaveThrows
  <2>2. QED
    BY <1>2, <2>1, FaultType DEF SaveThrows, InvOK, TypeOK
<1>3. ASSUME NEW p \in Process, TryAcquire(p) PROVE TypeOK'
  <2>1. AfterAcquire(p) \in Looping
    BY <1>0 DEF AfterAcquire
  <2>2. InvOK'
    BY <1>0, <1>3, <2>1, GotoType DEF TryAcquire, Acquire, InvOK
  <2>3. QED
    BY <1>3, <2>2 DEF TryAcquire, Acquire, InvOK, TypeOK
<1>4. ASSUME NEW p \in Process, Refused(p) PROVE TypeOK'
  <2>1. InvOK'
    BY <1>0, <1>4, GotoKeeps DEF Refused
  <2>2. QED
    BY <1>4, <2>1 DEF Refused, InvOK, TypeOK
<1>5. ASSUME NEW p \in Process, AcquireThrows(p) PROVE TypeOK'
  <2>1. InvOK'
    BY <1>0, <1>5, GotoKeeps DEF AcquireThrows, Take
  <2>2. QED
    BY <1>5, <2>1, FaultType DEF AcquireThrows, Take, InvOK, TypeOK
<1>6. ASSUME NEW p \in Process, Announce(p) PROVE TypeOK'
  <2>1. InvOK'
    BY <1>0, <1>6, GotoKeeps DEF Announce
  <2>2. ready' \subseteq Announcing
    BY <1>6 DEF Announce, AnnouncerInv, TypeOK
  <2>3. QED
    BY <1>6, <2>1, <2>2 DEF Announce, InvOK, TypeOK
<1>7. ASSUME NEW p \in Process, AnnounceThrows(p) PROVE TypeOK'
  <2>1. p \in Announcing
    BY <1>7 DEF AnnounceThrows, AnnouncerInv
  <2>2. ready' \subseteq Announcing
    BY <1>7, <2>1 DEF AnnounceThrows, TypeOK
  <2>3. InvOK'
    BY <1>0, <1>7, GotoType DEF AnnounceThrows, Leave, InvOK
  <2>4. QED
    BY <1>7, <2>2, <2>3, FaultType DEF AnnounceThrows, Leave, InvOK, TypeOK
<1>8. ASSUME NEW p \in Process, Poll(p) PROVE TypeOK'
  <2>1. InvOK'
    BY <1>0, <1>8, GotoKeeps DEF Poll
  <2>2. QED
    BY <1>8, <2>1 DEF Poll, InvOK, TypeOK
<1>9. ASSUME NEW p \in Process, GameEnds(p) PROVE TypeOK'
  <2>1. InvOK'
    BY <1>0, <1>9, GotoKeeps DEF GameEnds
  <2>2. QED
    BY <1>9, <2>1 DEF GameEnds, InvOK, TypeOK
<1>10. ASSUME NEW p \in Process, Read(p) PROVE TypeOK'
  <2> DEFINE empty == [inv[p] EXCEPT !.at = "play"]
             full == [inv[p] EXCEPT !.at = "ltrim", !.batch = queue]
             r == IF queue = <<>> THEN empty ELSE full
  <2>1. inv[p] \in [at : Place, lost : BOOLEAN, batch : Seq(Message)]
    BY DEF TypeOK
  <2>2. /\ r \in [at : Place, lost : BOOLEAN, batch : Seq(Message)]
        /\ r.at \in Looping
    BY <1>0, <2>1 DEF TypeOK
  <2>3. inv' = [inv EXCEPT ![p] = r]
    BY <1>10 DEF Read
  <2>4. inv[p].at \in Looping
    BY <1>0, <1>10 DEF Read
  <2> HIDE DEF r
  <2>5. /\ inv' \in [Process -> [at : Place, lost : BOOLEAN, batch : Seq(Message)]]
        /\ inv'[p].at \in Looping
        /\ \A q \in Process \ {p} : inv'[q].at = inv[q].at
    BY <2>2, <2>3 DEF TypeOK
  <2>6. InvOK'
    BY <1>10, <2>4, <2>5 DEF Read, InvOK, TypeOK
  <2>7. QED
    BY <1>10, <2>6 DEF Read, InvOK, TypeOK
<1>11. ASSUME NEW p \in Process, Trim(p) PROVE TypeOK'
  <2>1. InvOK'
    BY <1>0, <1>11, GotoKeeps DEF Trim
  <2>2. /\ queue' \in Seq(Message) /\ ttl' \in BOOLEAN
        /\ queue' = <<>> => ~ttl'
    BY <1>11, TrimType, QueueType DEF Trim, TypeOK
  <2>3. QED
    BY <1>11, <2>1, <2>2 DEF Trim, InvOK, TypeOK
<1>12. ASSUME NEW p \in Process, Deliver(p) PROVE TypeOK'
  <2>1. handled' \in Seq(Message)
    BY <1>12, ConcatProperties DEF Deliver, TypeOK
  <2>2. /\ inv' \in [Process -> [at : Place, lost : BOOLEAN, batch : Seq(Message)]]
        /\ working' = {q \in Process : inv'[q].at \in Looping}
    <3>1. "play" \in Place /\ "play" \in Looping
      BY <1>0
    <3>2. working' = working \cup {p}
      <4>1. inv[p].at \in Looping /\ UNCHANGED working
        BY <1>0, <1>12 DEF Deliver
      <4>2. QED
        BY <4>1 DEF TypeOK
    <3>3. inv' = [inv EXCEPT ![p].at = "play", ![p].batch = <<>>]
      BY <1>12 DEF Deliver
    <3>4. QED
      BY <3>1, <3>2, <3>3, BatchOverType, ZenonT(60)
  <2>3. QED
    BY <1>12, <2>1, <2>2 DEF Deliver, TypeOK
<1>13. ASSUME NEW p \in Process, FlushThrows(p) PROVE TypeOK'
  <2>1. /\ queue' \in Seq(Message) /\ ttl' \in BOOLEAN
        /\ queue' = <<>> => ~ttl'
    <3>1. CASE UNCHANGED <<queue, ttl>>
      BY <3>1 DEF TypeOK
    <3>2. CASE SetQueue(Trimmed(p))
      BY <3>2, TrimType, QueueType DEF TypeOK
    <3>3. QED
      BY <1>13, <3>1, <3>2 DEF FlushThrows
  <2>2. PICK next \in {"play", "clear"} :
          inv' = [inv EXCEPT ![p].at = next, ![p].batch = <<>>]
    BY <1>13 DEF FlushThrows
  <2>3. /\ inv' \in [Process -> [at : Place, lost : BOOLEAN, batch : Seq(Message)]]
        /\ working' = {q \in Process : inv'[q].at \in Looping}
    <3>1. next \in Place /\ next \in Looping
      BY <1>0
    <3>2. working' = working \cup {p}
      <4>1. inv[p].at \in Looping /\ UNCHANGED working
        BY <1>0, <1>13 DEF FlushThrows
      <4>2. QED
        BY <4>1 DEF TypeOK
    <3>3. QED
      BY <2>2, <3>1, <3>2, BatchOverType, ZenonT(60)
  <2>4. QED
    BY <1>13, <2>1, <2>3, FaultType DEF FlushThrows, TypeOK
<1>14. ASSUME NEW p \in Process, Beat(p) PROVE TypeOK'
  <2>1. CASE BeatRefused(p)
    BY <2>1 DEF BeatRefused, TypeOK
  <2>2. CASE BeatAgain(p) /\ UNCHANGED inv
    BY <2>2 DEF BeatAgain, Take, TypeOK
  <2>3. CASE BeatAgain(p) /\ inv' = [inv EXCEPT ![p].lost = TRUE] /\ UNCHANGED leaseVars
    <3>1. /\ inv' \in [Process -> [at : Place, lost : BOOLEAN, batch : Seq(Message)]]
          /\ \A q \in Process : inv'[q].at = inv[q].at
      BY <2>3, ZenonT(60) DEF TypeOK
    <3>2. QED
      BY <2>3, <3>1 DEF BeatAgain, TypeOK
  <2>4. CASE BeatThrows(p)
    BY <2>4, FaultType DEF BeatThrows, Take, TypeOK
  <2>5. QED
    BY <1>14, <2>1, <2>2, <2>3, <2>4 DEF Beat, BeatAgain
<1>15. ASSUME NEW p \in Process, ClearStartEvent(p) PROVE TypeOK'
  <2>1. InvOK'
    BY <1>0, <1>15, GotoType DEF ClearStartEvent, Leave, InvOK
  <2>2. startEvent' \in Process \cup {NoOwner}
    BY <1>15 DEF ClearStartEvent, TypeOK
  <2>3. QED
    BY <1>15, <2>1, <2>2 DEF ClearStartEvent, Leave, InvOK, TypeOK
<1>16. ASSUME NEW p \in Process, ClearThrows(p) PROVE TypeOK'
  <2>1. InvOK'
    BY <1>0, <1>16, GotoType DEF ClearThrows, Leave, InvOK
  <2>2. startEvent' \in Process \cup {NoOwner}
    BY <1>16 DEF ClearThrows, TypeOK
  <2>3. QED
    BY <1>16, <2>1, <2>2, FaultType DEF ClearThrows, Leave, InvOK, TypeOK
<1>17. ASSUME NEW p \in Process, ReleaseLock(p) PROVE TypeOK'
  <2>1. InvOK'
    BY <1>0, <1>17, GotoKeeps DEF ReleaseLock, Deleted, Release
  <2>2. owner' \in Process \cup {NoOwner} /\ UNCHANGED lapses
    BY <1>17 DEF ReleaseLock, Deleted, Release, TypeOK
  <2>3. QED
    BY <1>17, <2>1, <2>2 DEF ReleaseLock, InvOK, TypeOK
<1>18. ASSUME NEW p \in Process, ReleaseThrows(p) PROVE TypeOK'
  <2> DEFINE place == IF inv[p].at = "release" THEN "retry" ELSE "done"
  <2>1. place \in Place /\ place \notin Looping /\ inv[p].at \notin Looping
    BY <1>0, <1>18 DEF ReleaseThrows
  <2>2. Goto(p, place) /\ UNCHANGED working
    BY <1>18 DEF ReleaseThrows, Deleted, Release
  <2> HIDE DEF place
  <2>3. InvOK'
    BY <2>1, <2>2, GotoKeeps
  <2>4. owner' \in Process \cup {NoOwner} /\ UNCHANGED lapses
    BY <1>18 DEF ReleaseThrows, Deleted, Release, TypeOK
  <2>5. QED
    BY <1>18, <2>3, <2>4, FaultType DEF ReleaseThrows, InvOK, TypeOK
<1>19. ASSUME NEW p \in Process, Crash(p) PROVE TypeOK'
  <2>1. working' = working \ {p}
    BY <1>19 DEF Crash, Leave
  <2>2. /\ inv' \in [Process -> [at : Place, lost : BOOLEAN, batch : Seq(Message)]]
        /\ working' = {q \in Process : inv'[q].at \in Looping}
    <3>1. "crashed" \in Place /\ "crashed" \notin Looping
      BY <1>0
    <3>2. inv' = [inv EXCEPT ![p].at = "crashed", ![p].batch = <<>>]
      BY <1>19 DEF Crash
    <3>3. QED
      BY <2>1, <3>1, <3>2, BatchOverType, ZenonT(60)
  <2>3. crashes' \in 0..MaxCrashes /\ UNCHANGED <<owner, lapses>>
    BY <1>19, SMTT(60) DEF Crash, Leave, TypeOK
  <2>4. QED
    BY <1>19, <2>2, <2>3 DEF Crash, TypeOK
<1>20. ASSUME NEW m \in Message, Push(m) PROVE TypeOK'
  BY <1>20, AppendProperties, QueueType DEF Push, TypeOK
<1>21. ASSUME NEW m \in Message, PushExpire(m) PROVE TypeOK'
  BY <1>21 DEF PushExpire, TypeOK
<1>22. ASSUME NEW m \in Message, PushFails(m) PROVE TypeOK'
  <2>1. /\ queue' \in Seq(Message) /\ ttl' \in BOOLEAN
        /\ queue' = <<>> => ~ttl'
        /\ sent' \in Seq(Message)
    <3>1. CASE SetQueue(Append(queue, m)) /\ sent' = Append(sent, m)
      BY <3>1, AppendProperties, QueueType DEF TypeOK
    <3>2. CASE ttl' \in {ttl, queue # <<>>} /\ UNCHANGED <<queue, sent>>
      <4>1. CASE ttl' = ttl
        BY <3>2, <4>1 DEF TypeOK
      <4>2. CASE ttl' = (queue # <<>>)
        BY <3>2, <4>2 DEF TypeOK
      <4>3. QED
        BY <3>2, <4>1, <4>2
    <3>3. QED
      BY <1>22, <3>1, <3>2 DEF PushFails
  <2>2. pushFaults' \in 0..MaxPushFaults
    BY <1>22 DEF PushFails, TypeOK
  <2>3. QED
    BY <1>22, <2>1, <2>2 DEF PushFails, TypeOK
<1>23. CASE LeaseExpires
  BY <1>23 DEF LeaseExpires, Release, TypeOK
<1>24. CASE LeaseLapses
  BY <1>24 DEF LeaseLapses, Lapse, TypeOK
<1>25. CASE StartEventExpires
  BY <1>25 DEF StartEventExpires, TypeOK
<1>26. CASE QueueExpires
  <2>1. <<>> \in Seq(Message)
    OBVIOUS
  <2>2. QED
    BY <1>26, <2>1, QueueType DEF QueueExpires, TypeOK
<1>27. CASE UNCHANGED vars
  BY <1>27 DEF vars, TypeOK
<1>28. QED
  BY <1>1, <1>2, <1>3, <1>4, <1>5, <1>6, <1>7, <1>8, <1>9, <1>10, <1>11,
     <1>12, <1>13, <1>14, <1>15, <1>16, <1>17, <1>18, <1>19, <1>20, <1>21,
     <1>22, <1>23, <1>24, <1>25, <1>26, <1>27 DEF Next, Beat

LEMMA AnnouncerStep == TypeOK /\ AnnouncerInv /\ [Next]_vars => AnnouncerInv'
<1> SUFFICES ASSUME TypeOK, AnnouncerInv, [Next]_vars,
                    NEW q \in Process, inv'[q].at = "announce"
             PROVE  q \in Announcing
  BY DEF AnnouncerInv
<1>1. CASE UNCHANGED vars
  BY <1>1 DEF vars, AnnouncerInv
<1>2. CASE \E m \in Message : Push(m) \/ PushExpire(m) \/ PushFails(m)
  BY <1>2 DEF Push, PushExpire, PushFails, AnnouncerInv
<1>3. CASE LeaseExpires \/ LeaseLapses \/ StartEventExpires \/ QueueExpires
  BY <1>3 DEF LeaseExpires, LeaseLapses, StartEventExpires, QueueExpires, AnnouncerInv
<1>4. ASSUME NEW p \in Process, TryAcquire(p)
      PROVE  q \in Announcing
  BY <1>4 DEF TryAcquire, AfterAcquire, Goto, TypeOK, AnnouncerInv
<1>5. ASSUME NEW p \in Process, NEW place \in Place \ {"announce"},
             inv'[p].at = place, \A r \in Process \ {p} : inv'[r].at = inv[r].at
      PROVE  q \in Announcing
  BY <1>5 DEF AnnouncerInv
<1>6. ASSUME NEW p \in Process,
             \/ SaveStartEvent(p) \/ SaveThrows(p)
             \/ Refused(p) \/ AcquireThrows(p)
             \/ Announce(p) \/ AnnounceThrows(p)
             \/ Poll(p) \/ GameEnds(p) \/ Trim(p)
             \/ ClearStartEvent(p) \/ ClearThrows(p)
             \/ ReleaseLock(p) \/ ReleaseThrows(p)
      PROVE  q \in Announcing
  <2>1. \E place \in Place \ {"announce"} : Goto(p, place)
    BY <1>6 DEF SaveStartEvent, SaveThrows, Refused, AcquireThrows, Announce,
                AnnounceThrows, Poll, GameEnds, Trim, ClearStartEvent, ClearThrows,
                ReleaseLock, ReleaseThrows, Place, Looping, Ended
  <2>2. QED
    BY <1>5, <2>1 DEF Goto, TypeOK
<1>7. ASSUME NEW p \in Process,
             Read(p) \/ Deliver(p) \/ FlushThrows(p) \/ Beat(p) \/ Crash(p)
      PROVE  q \in Announcing
  <2>1. /\ inv'[p].at # "announce" \/ inv'[p].at = inv[p].at
        /\ \A r \in Process \ {p} : inv'[r].at = inv[r].at
    <3>1. CASE Read(p)
      BY <3>1 DEF Read, TypeOK
    <3>2. CASE Deliver(p)
      BY <3>2 DEF Deliver, TypeOK
    <3>3. CASE FlushThrows(p)
      BY <3>3 DEF FlushThrows, TypeOK
    <3>4. CASE Beat(p)
      BY <3>4 DEF Beat, BeatRefused, BeatAgain, BeatThrows, TypeOK
    <3>5. CASE Crash(p)
      BY <3>5 DEF Crash, TypeOK
    <3>6. QED
      BY <1>7, <3>1, <3>2, <3>3, <3>4, <3>5
  <2>2. QED
    BY <2>1 DEF AnnouncerInv
<1>8. QED
  BY <1>1, <1>2, <1>3, <1>4, <1>6, <1>7 DEF Next, Beat

\* What a step does to the list in the store and to its TTL.
LEMMA StoreStep ==
  ASSUME TypeOK, [Next]_vars
  PROVE  \/ UNCHANGED <<queue, ttl, push, pushFaults>>
         \/ /\ \E s \in Seq(Message) : (queue = <<>> => s = <<>>) /\ SetQueue(s)
            /\ UNCHANGED <<push, pushFaults>>
         \/ \E m \in Message : Push(m) \/ PushExpire(m) \/ PushFails(m)
<1>1. ASSUME NEW p \in Process, SetQueue(Trimmed(p)), UNCHANGED <<push, pushFaults>>
      PROVE  /\ \E s \in Seq(Message) : (queue = <<>> => s = <<>>) /\ SetQueue(s)
             /\ UNCHANGED <<push, pushFaults>>
  <2>1. Trimmed(p) \in Seq(Message) /\ (queue = <<>> => Trimmed(p) = <<>>)
    <3>1. Len(inv[p].batch) \in Nat /\ queue \in Seq(Message)
      BY DEF TypeOK
    <3>2. QED
      BY <3>1, RestOf, TrimType DEF Trimmed
  <2>2. QED
    BY <1>1, <2>1
<1>2. CASE \E p \in Process : Trim(p)
  BY <1>1, <1>2 DEF Trim
<1>3. CASE \E p \in Process : FlushThrows(p)
  BY <1>1, <1>3 DEF FlushThrows
<1>4. CASE QueueExpires
  <2>1. <<>> \in Seq(Message)
    OBVIOUS
  <2>2. QED
    BY <1>4, <2>1 DEF QueueExpires
<1>5. CASE \E p \in Process :
             \/ SaveStartEvent(p) \/ SaveThrows(p)
             \/ TryAcquire(p) \/ Refused(p) \/ AcquireThrows(p)
             \/ Announce(p) \/ AnnounceThrows(p)
             \/ Poll(p) \/ GameEnds(p) \/ Read(p) \/ Deliver(p) \/ Beat(p)
  BY <1>5 DEF SaveStartEvent, SaveThrows, TryAcquire, Refused, AcquireThrows,
              Announce, AnnounceThrows, Poll, GameEnds, Read, Deliver, Beat, BeatRefused,
              BeatAgain, BeatThrows
<1>6. CASE \E p \in Process :
             \/ ClearStartEvent(p) \/ ClearThrows(p)
             \/ ReleaseLock(p) \/ ReleaseThrows(p) \/ Crash(p)
  BY <1>6 DEF ClearStartEvent, ClearThrows, ReleaseLock, ReleaseThrows, Deleted, Crash
<1>7. CASE LeaseExpires \/ LeaseLapses \/ StartEventExpires \/ UNCHANGED vars
  BY <1>7 DEF LeaseExpires, LeaseLapses, StartEventExpires, vars
<1>8. QED
  BY <1>2, <1>3, <1>4, <1>5, <1>6, <1>7 DEF Next, Beat

LEMMA QueueHasTtlStep == TypeOK /\ QueueHasTtl /\ [Next]_vars => QueueHasTtl'
<1> SUFFICES ASSUME TypeOK, QueueHasTtl, [Next]_vars
             PROVE  QueueHasTtl'
  OBVIOUS
<1>1. CASE UNCHANGED <<queue, ttl, push, pushFaults>>
  BY <1>1 DEF QueueHasTtl
<1>2. CASE /\ \E s \in Seq(Message) : (queue = <<>> => s = <<>>) /\ SetQueue(s)
           /\ UNCHANGED <<push, pushFaults>>
  BY <1>2 DEF QueueHasTtl, SetQueue
<1>3. ASSUME NEW m \in Message, Push(m) PROVE QueueHasTtl'
  BY <1>3 DEF Push, QueueHasTtl, TypeOK
<1>4. ASSUME NEW m \in Message, PushExpire(m) PROVE QueueHasTtl'
  BY <1>4 DEF PushExpire, QueueHasTtl
<1>5. ASSUME NEW m \in Message, PushFails(m) PROVE QueueHasTtl'
  BY <1>5, GameAssumption DEF PushFails, QueueHasTtl, TypeOK
<1>6. QED
  BY <1>1, <1>2, <1>3, <1>4, <1>5, StoreStep

\* What Redis holds of a game is of a legal form, and a queue that is left
\* behind disappears: its key has a TTL, unless the handler that created it is
\* about to set it or died before it did (queue.ts:26-32). For any number of
\* invocations and handlers and any faults.
THEOREM QueueIsNotLeftBehind == Spec => []GameInvariant
<1>1. Init => TypeOK /\ AnnouncerInv /\ QueueHasTtl
  BY TypeInit DEF Init, AnnouncerInv, QueueHasTtl
<1>2. TypeOK /\ AnnouncerInv /\ QueueHasTtl /\ [Next]_vars
        => TypeOK' /\ AnnouncerInv' /\ QueueHasTtl'
  BY TypeStep, AnnouncerStep, QueueHasTtlStep
<1>3. QED
  BY <1>1, <1>2, PTL DEF Spec, GameInvariant

-----------------------------------------------------------------------------
(* The refinement of Mailbox *)

\* As long as no lease lapsed, only the owner is in its loop, so that one
\* invocation at a time reads and trims the queue.
ExclusiveInv == NoLapse => \A p \in working : owner = p

\* And what it has read is still the oldest part of the queue.
BatchInv ==
  NoLapse =>
    \A p \in Process :
      inv[p].at = "ltrim" =>
        /\ Len(inv[p].batch) \in 1..Len(queue)
        /\ inv[p].batch = SubSeq(queue, 1, Len(inv[p].batch))

\* Every step of the game is a step of the lease, or leaves it alone.
LEMMA LeaseStep == TypeOK /\ [Next]_vars => [LeaseNext]_leaseVars
<1> SUFFICES ASSUME TypeOK, [Next]_vars
             PROVE  [LeaseNext]_leaseVars
  OBVIOUS
<1> USE DEF leaseVars
<1>1. ASSUME NEW p \in Process,
             \/ SaveStartEvent(p) \/ SaveThrows(p) \/ Refused(p) \/ Announce(p)
             \/ Poll(p) \/ GameEnds(p) \/ Read(p) \/ Trim(p) \/ Deliver(p)
             \/ FlushThrows(p)
      PROVE  UNCHANGED leaseVars
  BY <1>1 DEF SaveStartEvent, SaveThrows, Refused, Announce, Poll, GameEnds, Read,
              Trim, Deliver, FlushThrows
<1>2. ASSUME NEW p \in Process,
             TryAcquire(p) \/ AcquireThrows(p) \/ AnnounceThrows(p) \/ Beat(p)
      PROVE  [LeaseNext]_leaseVars
  <2>1. Acquire(p) \/ Take(p) \/ Leave(p) \/ UNCHANGED leaseVars
    BY <1>2 DEF TryAcquire, AcquireThrows, AnnounceThrows, Beat, BeatRefused,
                BeatAgain, BeatThrows
  <2>2. QED
    BY <2>1 DEF LeaseNext
<1>3. ASSUME NEW p \in Process,
             \/ ClearStartEvent(p) \/ ClearThrows(p)
             \/ ReleaseLock(p) \/ ReleaseThrows(p) \/ Crash(p)
      PROVE  [LeaseNext]_leaseVars
  <2>1. Leave(p) \/ Release(p) \/ UNCHANGED leaseVars
    BY <1>3 DEF ClearStartEvent, ClearThrows, ReleaseLock, ReleaseThrows, Deleted, Crash
  <2>2. QED
    BY <2>1 DEF LeaseNext
<1>4. CASE \E m \in Message : Push(m) \/ PushExpire(m) \/ PushFails(m)
  BY <1>4 DEF Push, PushExpire, PushFails
<1>5. CASE LeaseExpires
  BY <1>5 DEF LeaseExpires, TypeOK, LeaseNext
<1>6. CASE LeaseLapses
  BY <1>6 DEF LeaseLapses, LeaseNext
<1>7. CASE StartEventExpires \/ QueueExpires \/ UNCHANGED vars
  BY <1>7 DEF StartEventExpires, QueueExpires, vars
<1>8. QED
  BY <1>1, <1>2, <1>3, <1>4, <1>5, <1>6, <1>7 DEF Next, Beat

\* A lapse that was spent never comes back.
LEMMA CalmBefore ==
  ASSUME TypeOK, [LeaseNext]_leaseVars, NoLapse'
  PROVE  NoLapse
BY GameAssumption
   DEF TypeOK, LeaseNext, leaseVars, NoLapse, Acquire, Take, Leave, Release, Lapse

LEMMA ExclusiveStep == TypeOK /\ ExclusiveInv /\ [Next]_vars => ExclusiveInv'
<1> SUFFICES ASSUME TypeOK, ExclusiveInv, [LeaseNext]_leaseVars, NoLapse'
             PROVE  \A p \in working' : owner' = p
  BY LeaseStep DEF ExclusiveInv
<1>1. NoLapse /\ \A p \in working : owner = p
  BY CalmBefore DEF ExclusiveInv
<1>2. working \subseteq Process
  BY DEF TypeOK
<1>3. CASE Lapse
  BY <1>1, <1>3, GameAssumption DEF Lapse, NoLapse, TypeOK
<1>4. QED
  BY <1>1, <1>2, <1>3, GameAssumption
     DEF LeaseNext, leaseVars, Acquire, Take, Leave, Release

\* One invocation at most is in its loop.
LEMMA OneInLoop ==
  ASSUME TypeOK, ExclusiveInv, NoLapse, NEW p \in Process, inv[p].at \in Looping,
         NEW q \in Process, inv[q].at \in Looping
  PROVE  p = q
BY DEF TypeOK, ExclusiveInv

\* A step that does not touch the queue and reads nothing.
LEMMA BatchKept ==
  ASSUME BatchInv, NoLapse, UNCHANGED queue,
         \A q \in Process : inv'[q].at = "ltrim" =>
           inv[q].at = "ltrim" /\ inv'[q].batch = inv[q].batch
  PROVE  BatchInv'
BY DEF BatchInv

\* A step after which nobody is about to trim the queue.
LEMMA NobodyTrims ==
  ASSUME \A q \in Process : inv'[q].at # "ltrim"
  PROVE  BatchInv'
BY DEF BatchInv

LEMMA BatchAppended ==
  ASSUME TypeOK, BatchInv, NoLapse, NEW m \in Message,
         queue' = Append(queue, m), UNCHANGED inv
  PROVE  BatchInv'
<1> SUFFICES ASSUME NEW p \in Process, inv[p].at = "ltrim"
             PROVE  /\ Len(inv[p].batch) \in 1..Len(queue')
                    /\ inv[p].batch = SubSeq(queue', 1, Len(inv[p].batch))
  BY DEF BatchInv
<1>1. /\ Len(inv[p].batch) \in 1..Len(queue)
      /\ inv[p].batch = SubSeq(queue, 1, Len(inv[p].batch))
  BY DEF BatchInv
<1>2. queue \in Seq(Message) /\ Len(queue) \in Nat
  BY DEF TypeOK
<1>3. Len(inv[p].batch) \in 0..Len(queue) /\ Len(inv[p].batch) > 0
  BY <1>1, <1>2
<1>4. QED
  BY <1>1, <1>2, <1>3, PrefixOfAppend

\* While nobody plays, no batch is being read.
LEMMA NobodyPlays ==
  ASSUME AllEnded, NEW q \in Process
  PROVE  inv[q].at \notin Looping
BY DEF AllEnded, Looping, Ended

LEMMA BatchStep ==
  TypeOK /\ ExclusiveInv /\ BatchInv /\ [Next]_vars => BatchInv'
<1> SUFFICES ASSUME TypeOK, ExclusiveInv, BatchInv, [Next]_vars, NoLapse
             PROVE  BatchInv'
  BY CalmBefore, LeaseStep DEF BatchInv
<1>1. ASSUME NEW p \in Process,
             \/ SaveStartEvent(p) \/ SaveThrows(p)
             \/ TryAcquire(p) \/ Refused(p) \/ AcquireThrows(p)
             \/ Announce(p) \/ AnnounceThrows(p) \/ Poll(p) \/ GameEnds(p)
             \/ ClearStartEvent(p) \/ ClearThrows(p)
             \/ ReleaseLock(p) \/ ReleaseThrows(p)
      PROVE  BatchInv'
  <2>1. UNCHANGED queue
    BY <1>1 DEF SaveStartEvent, SaveThrows, TryAcquire, Refused, AcquireThrows,
                Announce, AnnounceThrows, Poll, GameEnds, ClearStartEvent,
                ClearThrows, ReleaseLock, ReleaseThrows
  <2>2. \E place \in Place \ {"ltrim"} : Goto(p, place)
    BY <1>1 DEF SaveStartEvent, SaveThrows, TryAcquire, Refused, AcquireThrows,
                Announce, AnnounceThrows, Poll, GameEnds, ClearStartEvent,
                ClearThrows, ReleaseLock, ReleaseThrows, AfterAcquire, Place,
                Looping, Ended
  <2>3. QED
    BY <2>1, <2>2, BatchKept DEF Goto, TypeOK
<1>2. ASSUME NEW p \in Process, Read(p) PROVE BatchInv'
  <2>1. CASE queue = <<>>
    BY <1>2, <2>1, BatchKept DEF Read, TypeOK
  <2>2. CASE queue # <<>>
    <3>1. /\ inv'[p].batch = queue
          /\ \A q \in Process \ {p} : inv'[q] = inv[q]
          /\ UNCHANGED queue
      BY <1>2, <2>2 DEF Read, TypeOK
    <3>2. queue \in Seq(Message)
      BY DEF TypeOK
    <3>3. Len(queue) \in 1..Len(queue) /\ queue = SubSeq(queue, 1, Len(queue))
      BY <2>2, <3>2, EmptySeq, WholeIsPrefix
    <3>4. QED
      BY <3>1, <3>3 DEF BatchInv
  <2>3. QED
    BY <2>1, <2>2
<1>3. ASSUME NEW p \in Process, Trim(p) \/ FlushThrows(p)
      PROVE  BatchInv'
  <2>1. inv[p].at \in Looping
    BY <1>3 DEF Trim, FlushThrows, Looping
  <2>2. \A q \in Process \ {p} : inv[q].at # "ltrim" /\ inv'[q] = inv[q]
    BY <1>3, <2>1, OneInLoop, SMTT(60) DEF Trim, FlushThrows, Goto, Looping, TypeOK
  <2>3. inv'[p].at # "ltrim"
    BY <1>3 DEF Trim, FlushThrows, Goto, TypeOK
  <2>4. QED
    BY <2>2, <2>3, NobodyTrims
<1>4. ASSUME NEW p \in Process, Deliver(p) \/ Beat(p) \/ Crash(p)
      PROVE  BatchInv'
  <2>1. UNCHANGED queue
    BY <1>4 DEF Deliver, Beat, BeatRefused, BeatAgain, BeatThrows, Crash
  <2>2. \A q \in Process \ {p} : inv'[q] = inv[q]
    BY <1>4 DEF Deliver, Beat, BeatRefused, BeatAgain, BeatThrows, Crash, TypeOK
  <2>3. inv'[p].at = "ltrim" =>
          inv[p].at = "ltrim" /\ inv'[p].batch = inv[p].batch
    BY <1>4, SMTT(60) DEF Deliver, Beat, BeatRefused, BeatAgain, BeatThrows, Crash, TypeOK
  <2>4. QED
    BY <2>1, <2>2, <2>3, BatchKept
<1>5. ASSUME NEW m \in Message, Push(m) PROVE BatchInv'
  BY <1>5, BatchAppended DEF Push, SetQueue
<1>6. ASSUME NEW m \in Message, PushExpire(m) PROVE BatchInv'
  BY <1>6, BatchKept DEF PushExpire
<1>7. ASSUME NEW m \in Message, PushFails(m) PROVE BatchInv'
  BY <1>7, BatchKept, BatchAppended DEF PushFails, SetQueue
<1>8. CASE LeaseExpires \/ LeaseLapses \/ StartEventExpires \/ UNCHANGED vars
  BY <1>8, BatchKept DEF LeaseExpires, LeaseLapses, StartEventExpires, vars
<1>9. CASE QueueExpires
  BY <1>9, NobodyPlays, NobodyTrims DEF QueueExpires, Looping
<1>10. QED
  BY <1>1, <1>2, <1>3, <1>4, <1>5, <1>6, <1>7, <1>8, <1>9 DEF Next, Beat

-----------------------------------------------------------------------------

USE DEF Mail!mailVars

\* The batch in hand is the one of the invocation that is about to deliver.
LEMMA BatchInHand ==
  ASSUME TypeOK, ExclusiveInv, NoLapse, NEW p \in Process, inv[p].at = "deliver"
  PROVE  Taken = inv[p].batch
<1>1. InHand = {p}
  BY OneInLoop DEF InHand, Looping
<1>2. QED
  BY <1>1 DEF Taken

LEMMA NoBatchInHand ==
  (\A q \in Process : inv[q].at # "deliver") => Taken = <<>>
BY DEF Taken, InHand

\* A step that neither touches the queue nor what is taken from it.
LEMMA MailUnchanged ==
  ASSUME UNCHANGED <<queue, sent, handled>>,
         \A q \in Process :
           /\ inv'[q].at = "deliver" <=> inv[q].at = "deliver"
           /\ inv[q].at = "deliver" => inv'[q].batch = inv[q].batch
  PROVE  UNCHANGED Mail!mailVars
<1>1. InHand' = InHand
  BY DEF InHand
<1>2. CASE InHand = {}
  BY <1>1, <1>2 DEF Taken
<1>3. CASE InHand # {}
  <2>1. (CHOOSE p \in InHand : TRUE) \in InHand
    BY <1>3
  <2>2. QED
    BY <1>1, <1>3, <2>1 DEF Taken, InHand
<1>4. QED
  BY <1>2, <1>3

\* A message that is pushed is sent; nothing else of the mailbox changes.
LEMMA PushSends ==
  ASSUME NEW m \in Message, SetQueue(Append(queue, m)), sent' = Append(sent, m),
         UNCHANGED <<inv, handled>>
  PROVE  Mail!Send(m)
BY DEF SetQueue, Mail!Send, Taken, InHand

\* The LTRIM removes what the LRANGE read, and nothing that was pushed since.
LEMMA TrimmedIsRest ==
  ASSUME TypeOK, BatchInv, NoLapse, NEW p \in Process, inv[p].at = "ltrim"
  PROVE  \E n \in 1..Len(queue) :
           /\ inv[p].batch = SubSeq(queue, 1, n)
           /\ Trimmed(p) = SubSeq(queue, n + 1, Len(queue))
BY DEF BatchInv, Trimmed

LEMMA MailStep ==
  ASSUME TypeOK, ExclusiveInv, BatchInv, [Next]_vars, NoLapse
  PROVE  [Mail!AtMostOnceNext]_(Mail!mailVars)
<1> DEFINE Refined == [Mail!AtMostOnceNext]_(Mail!mailVars)
<1>1. ASSUME NEW p \in Process,
             \/ SaveStartEvent(p) \/ SaveThrows(p)
             \/ TryAcquire(p) \/ Refused(p) \/ AcquireThrows(p)
             \/ Announce(p) \/ AnnounceThrows(p) \/ Poll(p) \/ GameEnds(p)
             \/ ClearStartEvent(p) \/ ClearThrows(p)
             \/ ReleaseLock(p) \/ ReleaseThrows(p)
      PROVE  Refined
  <2>1. UNCHANGED <<queue, sent, handled>> /\ inv[p].at # "deliver"
    BY <1>1 DEF SaveStartEvent, SaveThrows, TryAcquire, Refused, AcquireThrows,
                Announce, AnnounceThrows, Poll, GameEnds, ClearStartEvent,
                ClearThrows, ReleaseLock, ReleaseThrows
  <2>2. \E place \in Place \ {"deliver"} : Goto(p, place)
    BY <1>1 DEF SaveStartEvent, SaveThrows, TryAcquire, Refused, AcquireThrows,
                Announce, AnnounceThrows, Poll, GameEnds, ClearStartEvent,
                ClearThrows, ReleaseLock, ReleaseThrows, AfterAcquire, Place,
                Looping, Ended
  <2>3. \A q \in Process :
          /\ inv'[q].at = "deliver" <=> inv[q].at = "deliver"
          /\ inv[q].at = "deliver" => inv'[q].batch = inv[q].batch
    BY <2>1, <2>2 DEF Goto, TypeOK
  <2>4. QED
    BY <2>1, <2>3, MailUnchanged
<1>2. ASSUME NEW p \in Process, Read(p) \/ Beat(p) PROVE Refined
  <2>1. UNCHANGED <<queue, sent, handled>>
    BY <1>2 DEF Read, Beat, BeatRefused, BeatAgain, BeatThrows
  <2>2. \A q \in Process :
          /\ inv'[q].at = "deliver" <=> inv[q].at = "deliver"
          /\ inv[q].at = "deliver" => inv'[q].batch = inv[q].batch
    <3>1. \A q \in Process \ {p} : inv'[q] = inv[q]
      BY <1>2 DEF Read, Beat, BeatRefused, BeatAgain, BeatThrows, TypeOK
    <3>2. CASE Read(p)
      BY <3>1, <3>2 DEF Read, TypeOK
    <3>3. CASE Beat(p)
      <4>1. inv'[p].at = inv[p].at /\ inv'[p].batch = inv[p].batch
        BY <3>3 DEF Beat, BeatRefused, BeatAgain, BeatThrows, TypeOK
      <4>2. QED
        BY <3>1, <4>1
    <3>4. QED
      BY <1>2, <3>2, <3>3
  <2>3. QED
    BY <2>1, <2>2, MailUnchanged
<1>3. ASSUME NEW p \in Process, Trim(p) PROVE Refined
  <2>1. inv[p].at = "ltrim" /\ inv[p].at \in Looping
    BY <1>3 DEF Trim, Looping
  <2>2. PICK n \in 1..Len(queue) :
          /\ inv[p].batch = SubSeq(queue, 1, n)
          /\ queue' = SubSeq(queue, n + 1, Len(queue))
    BY <1>3, <2>1, TrimmedIsRest DEF Trim, SetQueue
  <2>3. \A q \in Process \ {p} : inv[q].at # "deliver" /\ inv'[q] = inv[q]
    BY <1>3, <2>1, OneInLoop DEF Trim, Goto, Looping, TypeOK
  <2>4. Taken = <<>>
    BY <2>1, <2>3, NoBatchInHand
  <2>5. inv'[p].at = "deliver" /\ inv'[p].batch = inv[p].batch
    BY <1>3 DEF Trim, Goto, TypeOK
  <2>6. Taken' = inv[p].batch
    <3>1. InHand' = {p}
      BY <2>3, <2>5 DEF InHand
    <3>2. QED
      BY <2>5, <3>1 DEF Taken
  <2>7. Mail!TakeBatch(n)
    BY <1>3, <2>2, <2>4, <2>6 DEF Trim, Mail!TakeBatch
  <2>8. QED
    BY <2>7 DEF Mail!AtMostOnceNext
<1>4. ASSUME NEW p \in Process, Deliver(p) PROVE Refined
  <2>1. Taken = inv[p].batch
    BY <1>4, BatchInHand DEF Deliver
  <2>2. \A q \in Process : inv'[q].at # "deliver"
    BY <1>4, OneInLoop DEF Deliver, Looping, TypeOK
  <2>3. Taken' = <<>>
    BY <2>2 DEF Taken, InHand
  <2>4. Mail!HandleBatch
    BY <1>4, <2>1, <2>3 DEF Deliver, Mail!HandleBatch
  <2>5. QED
    BY <2>4 DEF Mail!AtMostOnceNext
<1>5. ASSUME NEW p \in Process, FlushThrows(p) PROVE Refined
  <2>1. \A q \in Process : inv[q].at # "deliver" /\ inv'[q].at # "deliver"
    BY <1>5, OneInLoop, SMTT(60) DEF FlushThrows, Looping, TypeOK
  <2>2. UNCHANGED Taken
    BY <2>1 DEF Taken, InHand
  <2>3. CASE UNCHANGED <<queue, ttl>>
    BY <1>5, <2>2, <2>3 DEF FlushThrows
  <2>4. CASE inv[p].at = "ltrim" /\ SetQueue(Trimmed(p))
    <3>1. PICK n \in 1..Len(queue) : queue' = SubSeq(queue, n + 1, Len(queue))
      BY <2>4, TrimmedIsRest DEF SetQueue
    <3>2. Mail!LoseOldest(n)
      BY <1>5, <2>2, <3>1 DEF FlushThrows, Mail!LoseOldest
    <3>3. QED
      BY <3>2 DEF Mail!AtMostOnceNext
  <2>5. QED
    BY <1>5, <2>3, <2>4 DEF FlushThrows
<1>6. ASSUME NEW p \in Process, Crash(p) PROVE Refined
  <2>1. CASE inv[p].at = "deliver"
    <3>1. \A q \in Process : inv'[q].at # "deliver"
      BY <1>6, <2>1, OneInLoop DEF Crash, Looping, TypeOK
    <3>2. Mail!LoseBatch
      BY <1>6, <3>1 DEF Crash, Mail!LoseBatch, Taken, InHand
    <3>3. QED
      BY <3>2 DEF Mail!AtMostOnceNext
  <2>2. CASE inv[p].at # "deliver"
    <3>1. \A q \in Process :
            /\ inv'[q].at = "deliver" <=> inv[q].at = "deliver"
            /\ inv[q].at = "deliver" => inv'[q].batch = inv[q].batch
      BY <1>6, <2>2 DEF Crash, TypeOK
    <3>2. QED
      BY <1>6, <3>1, MailUnchanged DEF Crash
  <2>3. QED
    BY <2>1, <2>2
<1>7. ASSUME NEW m \in Message, Push(m) PROVE Refined
  BY <1>7, PushSends DEF Push, Mail!AtMostOnceNext
<1>8. ASSUME NEW m \in Message, PushFails(m) PROVE Refined
  <2>1. UNCHANGED <<inv, handled>>
    BY <1>8 DEF PushFails
  <2>2. CASE SetQueue(Append(queue, m)) /\ sent' = Append(sent, m)
    BY <2>1, <2>2, PushSends DEF Mail!AtMostOnceNext
  <2>3. CASE UNCHANGED <<queue, sent>>
    BY <2>1, <2>3, MailUnchanged
  <2>4. QED
    BY <1>8, <2>2, <2>3 DEF PushFails
<1>9. CASE QueueExpires
  <2>1. queue \in Seq(Message) /\ queue # <<>>
    BY <1>9 DEF QueueExpires, TypeOK
  <2>2. Len(queue) \in 1..Len(queue) /\ SubSeq(queue, Len(queue) + 1, Len(queue)) = <<>>
    BY <2>1, EmptySeq, RestOf
  <2>3. Mail!LoseOldest(Len(queue))
    BY <1>9, <2>2 DEF QueueExpires, SetQueue, Mail!LoseOldest, Taken, InHand
  <2>4. QED
    BY <2>2, <2>3 DEF Mail!AtMostOnceNext
<1>10. CASE \/ \E m \in Message : PushExpire(m)
            \/ LeaseExpires \/ LeaseLapses \/ StartEventExpires
            \/ UNCHANGED vars
  <2>1. UNCHANGED <<queue, sent, handled, inv>>
    BY <1>10 DEF PushExpire, LeaseExpires, LeaseLapses, StartEventExpires, vars
  <2>2. QED
    BY <2>1, MailUnchanged
<1>11. QED
  BY <1>1, <1>2, <1>3, <1>4, <1>5, <1>6, <1>7, <1>8, <1>9, <1>10 DEF Next, Beat

\* TypeOK and what is needed for it, with the two facts that hold until a lease
\* lapses.
GameInv == TypeOK /\ AnnouncerInv /\ ExclusiveInv /\ BatchInv

LEMMA GameInvariance == Spec => []GameInv
<1>1. Init => GameInv
  BY TypeInit DEF Init, LeaseInit, GameInv, AnnouncerInv, ExclusiveInv, BatchInv
<1>2. GameInv /\ [Next]_vars => GameInv'
  BY TypeStep, AnnouncerStep, ExclusiveStep, BatchStep DEF GameInv
<1>3. QED
  BY <1>1, <1>2, PTL DEF Spec

\* Until a lease lapses the inbound queue is at most once, whatever fails and
\* whoever crashes: a batch leaves the queue before the game has it, in the order
\* it was pushed in, and what is pushed between the LRANGE and the LTRIM stays
\* (eventLoop.ts:45-49, queue.ts).
THEOREM MovesAreHandledOnce == Spec => ImplementsMailbox
<1>1. Init => Mail!MailInit
  BY NoBatchInHand DEF Init, Mail!MailInit
<1>2. GameInv /\ [Next]_vars
        => [NoLapse => IF TRUE THEN Mail!AtMostOnceNext
                               ELSE Mail!AtLeastOnceNext]_(Mail!mailVars)
  BY MailStep DEF GameInv
<1>3. QED
  BY <1>1, <1>2, GameInvariance, PTL DEF Spec, ImplementsMailbox, Mail!MailSpec

\* Until a lease lapses the lobby hears of a game only from the invocation that
\* holds its lock and is the only one in its loop (handleActor.ts, README.md of
\* lambda-gamebase, lines 258-261). It is the safety part of GamePromise.
THEOREM OnlyThePlayerAnnounces == Spec => OnlyThePlayerIsReady
<1> DEFINE A == \A p \in Process :
                  NoLapse /\ p \in ready' \ ready => owner = p /\ working = {p}
<1>1. GameInv /\ [Next]_vars => [A]_vars
  <2> SUFFICES ASSUME GameInv, Next, NoLapse,
                      NEW p \in Process, p \in ready' \ ready
               PROVE  owner = p /\ working = {p}
    BY DEF GameInv
  <2>1. inv[p].at = "announce"
    <3>1. Announce(p) \/ AnnounceThrows(p)
      <4>1. ASSUME UNCHANGED ready PROVE FALSE
        BY <4>1
      <4>2. \A q \in Process : Announce(q) \/ AnnounceThrows(q) => q = p
        BY DEF Announce, AnnounceThrows
      <4>3. ASSUME NEW q \in Process,
                   \/ SaveStartEvent(q) \/ SaveThrows(q)
                   \/ TryAcquire(q) \/ Refused(q) \/ AcquireThrows(q)
                   \/ Poll(q) \/ GameEnds(q) \/ Read(q) \/ Trim(q) \/ Deliver(q)
                   \/ FlushThrows(q) \/ Beat(q)
                   \/ ClearStartEvent(q) \/ ClearThrows(q)
                   \/ ReleaseLock(q) \/ ReleaseThrows(q) \/ Crash(q)
            PROVE  UNCHANGED ready
        BY <4>3 DEF SaveStartEvent, SaveThrows, TryAcquire, Refused, AcquireThrows,
                    Poll, GameEnds, Read, Trim, Deliver, FlushThrows, Beat, BeatRefused,
                    BeatAgain, BeatThrows,
                    ClearStartEvent, ClearThrows, ReleaseLock, ReleaseThrows, Crash
      <4>4. CASE \/ \E m \in Message : Push(m) \/ PushExpire(m) \/ PushFails(m)
                 \/ LeaseExpires \/ LeaseLapses \/ StartEventExpires \/ QueueExpires
        BY <4>1, <4>4 DEF Push, PushExpire, PushFails, LeaseExpires, LeaseLapses,
                          StartEventExpires, QueueExpires
      <4>5. QED
        BY <4>1, <4>2, <4>3, <4>4 DEF Next, Beat
    <3>2. QED
      BY <3>1 DEF Announce, AnnounceThrows
  <2>2. p \in working
    BY <2>1 DEF GameInv, TypeOK, Looping
  <2>3. \A q \in working : owner = q
    BY DEF GameInv, ExclusiveInv
  <2>4. QED
    BY <2>2, <2>3
<1>2. QED
  BY <1>1, GameInvariance, PTL DEF Spec, OnlyThePlayerIsReady

=============================================================================
