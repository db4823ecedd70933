------------------------ MODULE ActorProcess_proofs ------------------------
(***************************************************************************)
(* Proofs about ActorProcess, for any number of calls of each kind, any    *)
(* policies, any deployment and any budget of lapses, throws and crashes.  *)
(***************************************************************************)
EXTENDS ActorProcess, SequenceTheorems, TLAPS

-----------------------------------------------------------------------------
(* The records of the calls *)

CallState == [at : Place, alive : BOOLEAN, lost : BOOLEAN,
              batch : Seq(Message), local : SUBSET Message,
              loop : SUBSET Message, metas : SUBSET Message,
              shifting : BOOLEAN, failing : BOOLEAN,
              result : {"none", "true", "false"}]

LEMMA FieldTypes ==
  ASSUME NEW r \in CallState
  PROVE  /\ r.at \in Place /\ r.alive \in BOOLEAN /\ r.lost \in BOOLEAN
         /\ r.batch \in Seq(Message) /\ r.local \subseteq Message
         /\ r.loop \subseteq Message /\ r.metas \subseteq Message
         /\ r.shifting \in BOOLEAN /\ r.failing \in BOOLEAN
         /\ r.result \in {"none", "true", "false"}
BY DEF CallState

\* A call that goes on at place and changes nothing else.
LEMMA At ==
  ASSUME NEW r \in CallState, NEW place \in Place
  PROVE  LET n == [r EXCEPT !.at = place]
         IN  /\ n \in CallState /\ n.at = place
             /\ n.alive = r.alive /\ n.lost = r.lost /\ n.batch = r.batch
             /\ n.local = r.local /\ n.loop = r.loop /\ n.metas = r.metas
             /\ n.result = r.result
BY DEF CallState

LEMMA FinishedIs ==
  ASSUME NEW r \in CallState, NEW answer \in {"true", "false"}
  PROVE  LET n == Finished(r, answer)
         IN  /\ n \in CallState /\ n.at = "done" /\ n.result = answer
             /\ n.local = r.local /\ n.loop = r.loop /\ n.metas = r.metas
BY DEF CallState, Finished, Place, Ended

LEMMA CallTypes == TypeOK => call \in [Process -> CallState]
BY DEF TypeOK, CallState

\* A step of c alone that gives it the record r.
LEMMA Update ==
  ASSUME call \in [Process -> CallState], NEW c \in Process, NEW r \in CallState,
         call' = [call EXCEPT ![c] = r]
  PROVE  /\ call' \in [Process -> CallState]
         /\ call'[c] = r /\ \A d \in Process \ {c} : call'[d] = call[d]
OBVIOUS

\* What a message needs to be answered true for.
Told(m) == /\ Policy[m] = "Act" => m \in Range(handled)
           /\ Policy[m] = "Commit" => m \in committed

\* A step of c alone that takes it to one of places, learns nothing new of
\* what was handled, and answers true for a reason only.
Goes(c, places) ==
  /\ call' \in [Process -> CallState]
  /\ call'[c].at \in places
  /\ call'[c].local = call[c].local /\ call'[c].loop = call[c].loop
  /\ call'[c].metas = call[c].metas
  /\ call'[c].result = "true" =>
       \/ call[c].result = "true" \/ Policy[c] = "Forget"
       \/ c \in resolved \/ c \in call[c].metas
  /\ \A d \in Process \ {c} : call'[d] = call[d]

LEMMA Places ==
  /\ Draining \subseteq Place /\ Ended \subseteq Place
  /\ {"idle", "acquire", "release", "shift", "await", "polled"} \subseteq Place
  /\ \A place \in Draining :
       place \notin Ended \cup {"idle", "acquire", "release", "shift", "await", "polled"}
BY DEF Place, Draining, Ended

LEMMA GotoGoes ==
  ASSUME TypeOK, NEW c \in Process, NEW place \in Place, Goto(c, place)
  PROVE  Goes(c, {place}) /\ call'[c].batch = call[c].batch
<1>1. call[c] \in CallState /\ call \in [Process -> CallState]
  BY CallTypes
<1>2. call' = [call EXCEPT ![c] = [call[c] EXCEPT !.at = place]]
  BY DEF Goto
<1> DEFINE n == [call[c] EXCEPT !.at = place]
<1>3. /\ n \in CallState /\ n.at = place /\ n.batch = call[c].batch
      /\ n.local = call[c].local /\ n.loop = call[c].loop
      /\ n.metas = call[c].metas /\ n.result = call[c].result
  BY <1>1, At
<1> HIDE DEF n
<1>4. call'[c] = n /\ call' \in [Process -> CallState]
      /\ \A d \in Process \ {c} : call'[d] = call[d]
  BY <1>1, <1>2, <1>3, Update DEF n
<1>5. QED
  BY <1>3, <1>4 DEF Goes

LEMMA GoesTo ==
  ASSUME TypeOK, NEW c \in Process, NEW r \in CallState, NEW places,
         call' = [call EXCEPT ![c] = r], r.at \in places,
         r.local = call[c].local, r.loop = call[c].loop, r.metas = call[c].metas,
         r.result = "true" =>
           \/ call[c].result = "true" \/ Policy[c] = "Forget"
           \/ c \in resolved \/ c \in call[c].metas
  PROVE  Goes(c, places) /\ call'[c] = r
<1>1. /\ call' \in [Process -> CallState]
      /\ call'[c] = r /\ \A d \in Process \ {c} : call'[d] = call[d]
  BY CallTypes, Update
<1>2. QED
  BY <1>1 DEF Goes

LEMMA WaitingIs ==
  ASSUME TypeOK, NEW c \in Process
  PROVE  LET n == Waiting(c, call[c])
         IN  /\ n \in CallState /\ n.at \in {"done", "await"}
             /\ n.local = call[c].local /\ n.loop = call[c].loop
             /\ n.metas = call[c].metas
             /\ n.result = "true" => call[c].result = "true"
BY CallTypes, FinishedIs, At, Places DEF Waiting

LEMMA ReturnedIs ==
  ASSUME TypeOK, NEW c \in Process
  PROVE  LET n == Returned(c, call[c])
         IN  /\ n \in CallState /\ n.at \in {"done", "await"}
             /\ n.local = call[c].local /\ n.loop = call[c].loop
             /\ n.metas = call[c].metas
             /\ n.result = "true" => \/ call[c].result = "true"
                                    \/ Policy[c] = "Forget" \/ c \in call[c].metas
<1>1. "done" \in Place
  BY DEF Place, Ended
<1>2. QED
  BY <1>1, WaitingIs, CallTypes, FinishedIs, At DEF Returned

LEMMA EnqueueGoes ==
  ASSUME TypeOK, NEW c \in Process, Enqueue(c)
  PROVE  Goes(c, {"acquire", "done", "await"})
<1> DEFINE r == IF c \in SendCall THEN [call[c] EXCEPT !.at = "acquire"]
                ELSE IF Policy[c] = "Forget" THEN Finished(call[c], "true")
                ELSE Waiting(c, call[c])
<1>1. call' = [call EXCEPT ![c] = r]
  BY DEF Enqueue
<1>2. r \in CallState /\ r.at \in {"acquire", "done", "await"}
  BY CallTypes, Places, At, FinishedIs, WaitingIs
<1>3. /\ r.local = call[c].local /\ r.loop = call[c].loop
      /\ r.metas = call[c].metas
      /\ r.result = "true" => call[c].result = "true" \/ Policy[c] = "Forget"
  BY CallTypes, Places, At, FinishedIs, WaitingIs
<1> HIDE DEF r
<1>4. QED
  BY <1>1, <1>2, <1>3, GoesTo

LEMMA PollGoes ==
  ASSUME TypeOK, NEW c \in Process, Poll(c)
  PROVE  Goes(c, {"polled", "done"})
<1> DEFINE r == IF c \in resolved THEN Finished(call[c], "true")
                ELSE [call[c] EXCEPT !.at = "polled"]
<1>1. call' = [call EXCEPT ![c] = r]
  BY DEF Poll
<1>2. /\ r \in CallState /\ r.at \in {"polled", "done"}
      /\ r.local = call[c].local /\ r.loop = call[c].loop
      /\ r.metas = call[c].metas
      /\ r.result = "true" => call[c].result = "true" \/ c \in resolved
  BY CallTypes, Places, At, FinishedIs
<1> HIDE DEF r
<1>3. QED
  BY <1>1, <1>2, GoesTo

LEMMA TimeOutGoes ==
  ASSUME TypeOK, NEW c \in Process, TimeOut(c)
  PROVE  Goes(c, {"done"})
<1> DEFINE r == Finished(call[c], "false")
<1>1. call' = [call EXCEPT ![c] = r]
  BY DEF TimeOut
<1>2. /\ r \in CallState /\ r.at = "done"
      /\ r.local = call[c].local /\ r.loop = call[c].loop
      /\ r.metas = call[c].metas /\ r.result # "true"
  BY CallTypes, FinishedIs
<1> HIDE DEF r
<1>3. QED
  BY <1>1, <1>2, GoesTo

LEMMA RefusedGoes ==
  ASSUME TypeOK, NEW c \in Process, Refused(c)
  PROVE  Goes(c, {"done", "await"})
<1> DEFINE r == Returned(c, call[c])
<1>1. call' = [call EXCEPT ![c] = r]
  BY DEF Refused
<1>2. QED
  BY <1>1, ReturnedIs, GoesTo

LEMMA ReleaseLockGoes ==
  ASSUME TypeOK, NEW c \in Process, ReleaseLock(c)
  PROVE  Goes(c, {"failed", "shift", "done", "await"})
<1> DEFINE r == IF call[c].failing THEN [call[c] EXCEPT !.at = "failed"]
                ELSE IF call[c].shifting THEN [call[c] EXCEPT !.at = "shift"]
                ELSE Returned(c, call[c])
<1>1. call' = [call EXCEPT ![c] = r]
  BY DEF ReleaseLock
<1>2. "failed" \in Place /\ "shift" \in Place
  BY DEF Place, Ended
<1>3. /\ r \in CallState /\ r.at \in {"failed", "shift", "done", "await"}
      /\ r.local = call[c].local /\ r.loop = call[c].loop
      /\ r.metas = call[c].metas
      /\ r.result = "true" => \/ call[c].result = "true"
                             \/ Policy[c] = "Forget" \/ c \in call[c].metas
  BY <1>2, CallTypes, At, ReturnedIs
<1> HIDE DEF r
<1>4. QED
  BY <1>1, <1>3, GoesTo

LEMMA TryAcquireGoes ==
  ASSUME TypeOK, NEW c \in Process, TryAcquire(c)
  PROVE  Goes(c, {"prepare", "lrange", "leave"})
<1>1. Cycle(call[c]) \in {"prepare", "lrange", "leave"}
  BY DEF Cycle, FirstStep
<1>2. Cycle(call[c]) \in Place
  BY <1>1 DEF Place, Draining
<1>3. Goto(c, Cycle(call[c]))
  BY DEF TryAcquire, Goto
<1>4. QED
  BY <1>1, <1>2, <1>3, GotoGoes DEF Goes

LEMMA LeaveDrainGoes ==
  ASSUME TypeOK, NEW c \in Process, LeaveDrain(c)
  PROVE  Goes(c, {"release"})
<1> DEFINE shifting == c \in Shiftable /\ ~call[c].failing /\ ~call[c].alive
           r == [call[c] EXCEPT !.at = "release", !.shifting = shifting]
<1>1. call[c] \in CallState /\ shifting \in BOOLEAN /\ "release" \in Place
  BY CallTypes, Places
<1>2. call' = [call EXCEPT ![c].at = "release", ![c].shifting = shifting]
  BY DEF LeaveDrain
<1> HIDE DEF shifting
<1>3. call' = [call EXCEPT ![c] = r]
  BY <1>2, CallTypes
<1>4. /\ r \in CallState /\ r.at = "release"
      /\ r.local = call[c].local /\ r.loop = call[c].loop
      /\ r.metas = call[c].metas /\ r.result = call[c].result
  BY <1>1 DEF CallState
<1> HIDE DEF r
<1>5. QED
  BY <1>3, <1>4, GoesTo, ZenonT(60)

LEMMA FirstStepIs == FirstStep \in {"prepare", "lrange"} /\ FirstStep \in Place
BY DEF FirstStep, Place, Draining

\* The steps that only go on.
LEMMA GotoSteps ==
  ASSUME TypeOK, NEW c \in Process
  PROVE  /\ Start(c) => Goes(c, {"acquire"})
         /\ Prepare(c) => Goes(c, {"size", "commit"})
         /\ Size(c) => Goes(c, {"peek", "commit"})
         /\ Trim(c) => Goes(c, {"handle"}) /\ call'[c].batch = call[c].batch
         /\ Wake(c) => Goes(c, {"prepare", "lrange", "leave"})
         /\ ReleaseThrows(c) \/ EnqueueThrows(c) \/ AcquireThrows(c) \/ ShiftThrows(c)
              => Goes(c, {"failed"})
         /\ Crash(c) => Goes(c, {"crashed"})
<1>1. \A place \in Place : Goto(c, place) =>
        Goes(c, {place}) /\ call'[c].batch = call[c].batch
  BY GotoGoes
<1>2. ASSUME NEW places \in SUBSET Place, \E place \in places : Goto(c, place)
      PROVE  Goes(c, places)
  <2>1. PICK place \in places : Goto(c, place)
    BY <1>2
  <2>2. QED
    BY <1>1, <1>2, <2>1 DEF Goes
<1>3. {"acquire", "size", "commit", "peek", "handle", "prepare", "lrange", "leave",
       "failed", "crashed"} \subseteq Place
  BY DEF Place, Draining, Ended
<1>4. Start(c) => Goes(c, {"acquire"})
  BY <1>1, <1>3 DEF Start
<1>5. Prepare(c) => Goes(c, {"size", "commit"})
  <2>1. Prepare(c) => \E place \in {"size", "commit"} : Goto(c, place)
    BY DEF Prepare, NextMessage
  <2>2. QED
    BY <1>2, <1>3, <2>1
<1>6. Size(c) => Goes(c, {"peek", "commit"})
  <2>1. Size(c) => \E place \in {"peek", "commit"} : Goto(c, place)
    BY DEF Size
  <2>2. QED
    BY <1>2, <1>3, <2>1
<1>7. Trim(c) => Goes(c, {"handle"}) /\ call'[c].batch = call[c].batch
  BY <1>1, <1>3 DEF Trim
<1>8. Wake(c) => Goes(c, {"prepare", "lrange", "leave"})
  <2>1. Wake(c) => \E place \in {"prepare", "lrange", "leave"} : Goto(c, place)
    BY DEF Wake, Cycle, FirstStep
  <2>2. QED
    BY <1>2, <1>3, <2>1
<1>9. ReleaseThrows(c) \/ EnqueueThrows(c) \/ AcquireThrows(c) \/ ShiftThrows(c)
        => Goes(c, {"failed"})
  BY <1>1, <1>3 DEF ReleaseThrows, EnqueueThrows, AcquireThrows, ShiftThrows
<1>10. Crash(c) => Goes(c, {"crashed"})
  BY <1>1, <1>3 DEF Crash
<1>11. QED
  BY <1>4, <1>5, <1>6, <1>7, <1>8, <1>9, <1>10

\* The steps that also take a batch, or put it away.
LEMMA TakesBatch ==
  ASSUME TypeOK, NEW c \in Process, NEW place \in Place, NEW b \in Seq(Message),
         call' = [call EXCEPT ![c].at = place, ![c].batch = b]
  PROVE  Goes(c, {place}) /\ call'[c].batch = b
<1> DEFINE r == [call[c] EXCEPT !.at = place, !.batch = b]
<1>1. call' = [call EXCEPT ![c] = r]
  BY CallTypes
<1>2. /\ r \in CallState /\ r.at = place /\ r.batch = b
      /\ r.local = call[c].local /\ r.loop = call[c].loop
      /\ r.metas = call[c].metas /\ r.result = call[c].result
  <2>1. call[c] \in CallState
    BY CallTypes
  <2>2. QED
    BY <2>1 DEF CallState
<1> HIDE DEF r
<1>3. r.at \in {place} /\ (r.result = "true" => call[c].result = "true")
  BY <1>2
<1>4. Goes(c, {place}) /\ call'[c] = r
  BY <1>1, <1>2, <1>3, GoesTo, ZenonT(60)
<1>5. QED
  BY <1>2, <1>4

LEMMA HeadIsMessage ==
  ASSUME TypeOK, queue # <<>>
  PROVE  <<Head(queue)>> \in Seq(Message) /\ Head(queue) \in Message
BY HeadTailProperties DEF TypeOK

LEMMA PeekGoes ==
  ASSUME TypeOK, NEW c \in Process, Peek(c)
  PROVE  /\ queue = <<>> => Goes(c, {"commit"})
         /\ queue # <<>> => Goes(c, {"handle"}) /\ call'[c].batch = <<Head(queue)>>
<1>1. CASE queue = <<>>
  <2>1. Goto(c, "commit")
    BY <1>1 DEF Peek, Goto
  <2>2. QED
    BY <1>1, <2>1, GotoGoes, Places DEF Draining
<1>2. CASE queue # <<>>
  <2>1. <<Head(queue)>> \in Seq(Message) /\ "handle" \in Place
    BY <1>2, HeadIsMessage DEF Place, Draining
  <2> DEFINE b == <<Head(queue)>>
  <2>2. call' = [call EXCEPT ![c] = [call[c] EXCEPT !.at = "handle", !.batch = b]]
    BY <1>2 DEF Peek
  <2> HIDE DEF b
  <2>3. call' = [call EXCEPT ![c].at = "handle", ![c].batch = b]
    BY <2>2, CallTypes
  <2>4. QED
    BY <1>2, <2>1, <2>3, TakesBatch DEF b
<1>3. QED
  BY <1>1, <1>2

LEMMA ReadAllGoes ==
  ASSUME TypeOK, NEW c \in Process, ReadAll(c)
  PROVE  /\ queue = <<>> => Goes(c, {"commit"})
         /\ queue # <<>> => Goes(c, {"ltrim"}) /\ call'[c].batch = queue
<1>1. CASE queue = <<>>
  <2>1. Goto(c, "commit")
    BY <1>1 DEF ReadAll, Goto
  <2>2. QED
    BY <1>1, <2>1, GotoGoes, Places DEF Draining
<1>2. CASE queue # <<>>
  <2>1. queue \in Seq(Message) /\ "ltrim" \in Place
    BY DEF TypeOK, Place, Draining
  <2>2. call' = [call EXCEPT ![c] = [call[c] EXCEPT !.at = "ltrim", !.batch = queue]]
    BY <1>2 DEF ReadAll
  <2>3. call' = [call EXCEPT ![c].at = "ltrim", ![c].batch = queue]
    BY <2>2, CallTypes
  <2>4. QED
    BY <1>2, <2>1, <2>3, TakesBatch
<1>3. QED
  BY <1>1, <1>2

LEMMA PopGoes ==
  ASSUME TypeOK, NEW c \in Process, Pop(c)
  PROVE  Goes(c, {"size", "commit"})
<1> DEFINE none == <<>>
           place == NextMessage(call[c])
<1>1. none \in Seq(Message)
  OBVIOUS
<1>2. place \in {"size", "commit"} /\ place \in Place
  BY DEF NextMessage, Place, Draining
<1>3. call' = [call EXCEPT ![c].at = place, ![c].batch = none]
  BY DEF Pop
<1> HIDE DEF none, place
<1>4. Goes(c, {place})
  BY <1>1, <1>2, <1>3, TakesBatch
<1>5. QED
  BY <1>2, <1>4 DEF Goes

LEMMA ThrowGoes ==
  ASSUME TypeOK, NEW c \in Process, Throw(c)
  PROVE  Goes(c, {"leave"})
<1> DEFINE none == <<>>
           r == [call[c] EXCEPT !.at = "leave", !.failing = TRUE, !.batch = none]
<1>1. none \in Seq(Message) /\ "leave" \in Place /\ call[c] \in CallState
  BY CallTypes DEF Place, Draining
<1>2. call' = [call EXCEPT ![c].at = "leave", ![c].failing = TRUE, ![c].batch = none]
  BY DEF Throw
<1> HIDE DEF none
<1>3. call' = [call EXCEPT ![c] = r]
  BY <1>2, CallTypes
<1>4. /\ r \in CallState /\ r.at = "leave"
      /\ r.local = call[c].local /\ r.loop = call[c].loop
      /\ r.metas = call[c].metas /\ r.result = call[c].result
  BY <1>1 DEF CallState
<1> HIDE DEF r
<1>5. QED
  BY <1>3, <1>4, GoesTo, ZenonT(60)

LEMMA TimeUpGoes ==
  ASSUME TypeOK, NEW c \in Process, TimeUp(c)
  PROVE  Goes(c, {call[c].at}) /\ call'[c].batch = call[c].batch
<1> DEFINE r == [call[c] EXCEPT !.alive = FALSE]
<1>1. call' = [call EXCEPT ![c] = r]
  BY DEF TimeUp
<1>2. /\ r \in CallState /\ r.at = call[c].at /\ r.batch = call[c].batch
      /\ r.local = call[c].local /\ r.loop = call[c].loop
      /\ r.metas = call[c].metas /\ r.result = call[c].result
  BY CallTypes, ZenonT(60) DEF CallState
<1> HIDE DEF r
<1>3. QED
  BY <1>1, <1>2, GoesTo, ZenonT(60)

\* A step of the beat, which leaves the call where it is.
Beat(c) == BeatRefused(c) \/ BeatAgain(c) \/ BeatThrows(c)

LEMMA BeatGoes ==
  ASSUME TypeOK, NEW c \in Process, Beat(c)
  PROVE  Goes(c, {call[c].at}) /\ call'[c].batch = call[c].batch
<1> DEFINE r == [call[c] EXCEPT !.lost = TRUE]
<1>1. CASE UNCHANGED call
  BY <1>1, CallTypes DEF Goes
<1>2. CASE call' = [call EXCEPT ![c].lost = TRUE]
  <2>1. call' = [call EXCEPT ![c] = r]
    BY <1>2
  <2>2. /\ r \in CallState /\ r.at = call[c].at /\ r.batch = call[c].batch
        /\ r.local = call[c].local /\ r.loop = call[c].loop
        /\ r.metas = call[c].metas /\ r.result = call[c].result
    BY CallTypes, ZenonT(60) DEF CallState
  <2> HIDE DEF r
  <2>3. QED
    BY <2>1, <2>2, GoesTo, ZenonT(60)
<1>3. QED
  BY <1>1, <1>2 DEF Beat, BeatRefused, BeatAgain, BeatThrows

LEMMA RangeType ==
  ASSUME NEW S, NEW s \in Seq(S)
  PROVE  Range(s) \subseteq S
BY RangeOfSeq

LEMMA HandleSteps ==
  ASSUME TypeOK, NEW c \in Process, Handle(c)
  PROVE  /\ call' \in [Process -> CallState]
         /\ call'[c].at = AfterHandling(c) /\ call'[c].batch = call[c].batch
         /\ call'[c].local = call[c].local \cup Range(call[c].batch)
         /\ call'[c].loop = call[c].loop /\ call'[c].metas = call[c].metas
         /\ call'[c].result = call[c].result
         /\ \A d \in Process \ {c} : call'[d] = call[d]
<1> DEFINE place == AfterHandling(c)
           new == call[c].local \cup Range(call[c].batch)
           r == [call[c] EXCEPT !.at = place, !.local = new]
<1>1. place \in Place
  BY DEF AfterHandling, Place, Draining
<1>2. call[c] \in CallState /\ new \subseteq Message
  BY CallTypes, RangeType, FieldTypes
<1>3. call' = [call EXCEPT ![c] = r]
  <2>1. call' = [call EXCEPT ![c].at = place,
                             ![c].local = @ \cup Range(call[c].batch)]
    BY DEF Handle
  <2>2. QED
    BY <2>1, CallTypes
<1> HIDE DEF place, new
<1>4. /\ r \in CallState /\ r.at = place /\ r.batch = call[c].batch
      /\ r.local = new /\ r.loop = call[c].loop
      /\ r.metas = call[c].metas /\ r.result = call[c].result
  BY <1>1, <1>2 DEF CallState
<1> HIDE DEF r
<1>5. /\ call' \in [Process -> CallState]
      /\ call'[c] = r /\ \A d \in Process \ {c} : call'[d] = call[d]
  BY <1>3, <1>4, CallTypes, Update
<1>6. QED
  BY <1>4, <1>5 DEF place, new

\* Whoever is woken waited for one of the messages.
LEMMA ResolveSteps ==
  ASSUME TypeOK, NEW c \in Process, NEW ms \in SUBSET Message, NEW place \in Place,
         Resolve(c, ms, place)
  PROVE  /\ call' \in [Process -> CallState]
         /\ resolved' \subseteq resolved \cup ms
         /\ call'[c].at = place /\ call'[c].batch = call[c].batch
         /\ call'[c].result = call[c].result
         /\ \A d \in Process :
              /\ call'[d].local = call[d].local /\ call'[d].loop = call[d].loop
              /\ call'[d].metas = call[d].metas
         /\ \A d \in Process \ {c} :
              \/ call'[d] = call[d]
              \/ /\ d \in ms /\ call[d].at = "await" /\ call'[d].at = "done"
                 /\ call'[d].result = "true"
<1>1. call \in [Process -> CallState]
  BY CallTypes
<1>2. \A d \in Process :
        LET n == [call[d] EXCEPT !.at = place]
        IN  /\ n \in CallState /\ n.at = place
            /\ n.batch = call[d].batch /\ n.local = call[d].local
            /\ n.loop = call[d].loop /\ n.metas = call[d].metas
            /\ n.result = call[d].result
  BY <1>1, At
<1>3. \A d \in Process :
        LET n == Finished(call[d], "true")
        IN  /\ n \in CallState /\ n.at = "done" /\ n.result = "true"
            /\ n.local = call[d].local /\ n.loop = call[d].loop
            /\ n.metas = call[d].metas
  BY <1>1, FinishedIs
<1>4. resolved' \subseteq resolved \cup ms
  BY DEF Resolve
<1>5. call'[c] = [call[c] EXCEPT !.at = place]
  BY DEF Resolve
<1>6. \A d \in Process \ {c} :
        \/ call'[d] = call[d]
        \/ d \in ms /\ call[d].at = "await" /\ call'[d] = Finished(call[d], "true")
  BY DEF Resolve
<1>7. call' = [d \in Process |-> call'[d]]
  BY DEF Resolve
<1>8. \A d \in Process :
        /\ call'[d] \in CallState
        /\ call'[d].local = call[d].local /\ call'[d].loop = call[d].loop
        /\ call'[d].metas = call[d].metas
  <2>1. ASSUME NEW d \in Process \ {c}
        PROVE  /\ call'[d] \in CallState
               /\ call'[d].local = call[d].local /\ call'[d].loop = call[d].loop
               /\ call'[d].metas = call[d].metas
    <3>1. CASE call'[d] = call[d]
      BY <1>1, <3>1
    <3>2. CASE call'[d] = Finished(call[d], "true")
      BY <1>3, <3>2
    <3>3. QED
      BY <1>6, <3>1, <3>2
  <2>2. /\ call'[c] \in CallState
        /\ call'[c].local = call[c].local /\ call'[c].loop = call[c].loop
        /\ call'[c].metas = call[c].metas
    BY <1>2, <1>5
  <2>3. QED
    BY <2>1, <2>2
<1>9. call' \in [Process -> CallState]
  BY <1>7, <1>8
<1>10. QED
  BY <1>2, <1>3, <1>4, <1>5, <1>6, <1>8, <1>9

LEMMA CommitSteps ==
  ASSUME TypeOK, NEW c \in Process, Commit(c)
  PROVE  /\ call' \in [Process -> CallState]
         /\ call'[c].at = "notify" /\ call'[c].local = {}
         /\ call'[c].loop = call[c].loop \cup call[c].local
         /\ call'[c].metas = call[c].metas /\ call'[c].result = call[c].result
         /\ \A d \in Process \ {c} : call'[d] = call[d]
<1> DEFINE none == <<>>
           new == call[c].loop \cup call[c].local
           r == [call[c] EXCEPT !.at = "notify", !.batch = none, !.local = {},
                                !.loop = new]
<1>1. none \in Seq(Message) /\ "notify" \in Place
  BY DEF Place, Draining
<1>2. call[c] \in CallState /\ new \subseteq Message
  BY CallTypes, FieldTypes
<1>3. call' = [call EXCEPT ![c].at = "notify", ![c].batch = none,
                           ![c].local = {}, ![c].loop = @ \cup call[c].local]
  BY DEF Commit
<1> HIDE DEF none
<1>4. call' = [call EXCEPT ![c] = r]
  BY <1>3, CallTypes
<1> HIDE DEF new
<1>5. /\ r \in CallState /\ r.at = "notify" /\ r.local = {} /\ r.loop = new
      /\ r.metas = call[c].metas /\ r.result = call[c].result
  BY <1>1, <1>2 DEF CallState
<1> HIDE DEF r
<1>6. /\ call' \in [Process -> CallState]
      /\ call'[c] = r /\ \A d \in Process \ {c} : call'[d] = call[d]
  BY <1>4, <1>5, CallTypes, Update
<1>7. QED
  BY <1>5, <1>6 DEF new

LEMMA RecheckSteps ==
  ASSUME TypeOK, NEW c \in Process, Recheck(c)
  PROVE  /\ call' \in [Process -> CallState]
         /\ call'[c].at \in {FirstStep, "leave", "sleep"}
         /\ call'[c].local = call[c].local /\ call'[c].loop \subseteq call[c].loop
         /\ call'[c].metas \subseteq call[c].metas \cup call[c].loop
         /\ call'[c].result = call[c].result
         /\ \A d \in Process \ {c} : call'[d] = call[d]
<1>1. CASE Goto(c, FirstStep)
  <2>1. Goes(c, {FirstStep}) /\ FirstStep \in {"prepare", "lrange"}
    BY <1>1, GotoGoes, FirstStepIs
  <2>2. call' = [call EXCEPT ![c] = [call[c] EXCEPT !.at = FirstStep]]
    BY <1>1 DEF Goto
  <2>3. call'[c].result = call[c].result
    BY <2>2, CallTypes, FirstStepIs, At
  <2>4. QED
    BY <2>1, <2>3 DEF Goes
<1>2. ASSUME NEW place \in {"leave", "sleep"},
             call' = [call EXCEPT ![c].at = place,
                                  ![c].metas = @ \cup call[c].loop, ![c].loop = {}]
      PROVE  /\ call' \in [Process -> CallState]
             /\ call'[c].at \in {FirstStep, "leave", "sleep"}
             /\ call'[c].local = call[c].local /\ call'[c].loop \subseteq call[c].loop
             /\ call'[c].metas \subseteq call[c].metas \cup call[c].loop
             /\ call'[c].result = call[c].result
             /\ \A d \in Process \ {c} : call'[d] = call[d]
  <2> DEFINE new == call[c].metas \cup call[c].loop
             r == [call[c] EXCEPT !.at = place, !.metas = new, !.loop = {}]
  <2>1. call[c] \in CallState /\ new \subseteq Message /\ place \in Place
    BY CallTypes, FieldTypes DEF Place, Draining
  <2>2. call' = [call EXCEPT ![c] = r]
    BY <1>2, CallTypes
  <2> HIDE DEF new
  <2>3. /\ r \in CallState /\ r.at = place /\ r.local = call[c].local
        /\ r.loop = {} /\ r.metas = new /\ r.result = call[c].result
    BY <2>1 DEF CallState
  <2> HIDE DEF r
  <2>4. /\ call' \in [Process -> CallState]
        /\ call'[c] = r /\ \A d \in Process \ {c} : call'[d] = call[d]
    BY <2>2, <2>3, CallTypes, Update
  <2>5. QED
    BY <2>3, <2>4 DEF new
<1>3. QED
  BY <1>1, <1>2, Zenon DEF Recheck

\* A shift is a step of the call that ends and of its successor.
LEMMA ShiftSteps ==
  ASSUME TypeOK, NEW c \in Process, Shift(c)
  PROVE  \E s \in Successor :
           /\ call[s].at = "idle" /\ call'[s].at = "acquire"
           /\ call'[c].at \in {"done", "await"}
           /\ call' \in [Process -> CallState]
           /\ call'[c].result = "true" => \/ call[c].result = "true"
                                         \/ Policy[c] = "Forget" \/ c \in call[c].metas
           /\ call'[s].result = call[s].result
           /\ \A d \in {c, s} :
                /\ call'[d].local = call[d].local /\ call'[d].loop = call[d].loop
                /\ call'[d].metas = call[d].metas
           /\ \A d \in Process \ {c, s} : call'[d] = call[d]
<1> DEFINE r == Returned(c, call[c])
<1>1. PICK s \in Successor :
        /\ call[s].at = "idle"
        /\ call' = [call EXCEPT ![s].at = "acquire", ![c] = Returned(c, @)]
  BY DEF Shift
<1>2. s \in Process /\ s # c
  BY <1>1, ProcessAssumption DEF Shift
<1> DEFINE n == [call[s] EXCEPT !.at = "acquire"]
           one == [call EXCEPT ![s] = n]
<1>3. call' = [one EXCEPT ![c] = r]
  BY <1>1, <1>2, CallTypes
<1>4. /\ n \in CallState /\ n.at = "acquire" /\ n.local = call[s].local
      /\ n.loop = call[s].loop /\ n.metas = call[s].metas /\ n.result = call[s].result
  BY <1>2, CallTypes, Places, At
<1>5. /\ r \in CallState /\ r.at \in {"done", "await"} /\ r.local = call[c].local
      /\ r.loop = call[c].loop /\ r.metas = call[c].metas
      /\ r.result = "true" => \/ call[c].result = "true"
                             \/ Policy[c] = "Forget" \/ c \in call[c].metas
  BY ReturnedIs
<1> HIDE DEF n, r
<1>6. /\ call' \in [Process -> CallState] /\ call'[c] = r /\ call'[s] = n
      /\ \A d \in Process \ {c, s} : call'[d] = call[d]
  BY <1>2, <1>3, <1>4, <1>5, CallTypes
<1>7. QED
  BY <1>1, <1>2, <1>4, <1>5, <1>6

-----------------------------------------------------------------------------
(* The steps in groups *)

\* Outside the drain: the call neither enters it nor leaves it.
Outside(c) ==
  \/ Enqueue(c) \/ Poll(c) \/ TimeOut(c) \/ Start(c) \/ Refused(c)
  \/ ReleaseLock(c) \/ ReleaseThrows(c)
  \/ EnqueueThrows(c) \/ AcquireThrows(c) \/ ShiftThrows(c)

\* Within the drain, on the way to another await of it.
Inside(c) ==
  \/ Prepare(c) \/ Size(c) \/ Peek(c) \/ Pop(c) \/ ReadAll(c) \/ Trim(c)
  \/ Wake(c) \/ Throw(c)

\* A timer fires; the call stays where it is.
Timer(c) == TimeUp(c) \/ Beat(c)

\* Two calls in one step, or more.
Several(c) == ResolveAct(c) \/ NotifyCommit(c) \/ Shift(c)

\* The environment.
Elsewhere == (\E m \in Message : ResolvedExpires(m)) \/ Expire \/ LeaseLapses

LEMMA NextGroups ==
  ASSUME [Next]_vars
  PROVE  \/ \E c \in Process :
              \/ Outside(c) \/ Inside(c) \/ Timer(c) \/ Several(c)
              \/ TryAcquire(c) \/ LeaveDrain(c) \/ Crash(c)
              \/ Handle(c) \/ Commit(c) \/ Recheck(c)
         \/ Elsewhere \/ UNCHANGED vars
BY Zenon DEF Next, Outside, Inside, Timer, Beat, Several, Elsewhere

LEMMA OutsideGoes ==
  ASSUME TypeOK, NEW c \in Process, Outside(c)
  PROVE  /\ call[c].at \in {"idle", "await", "polled", "acquire", "release", "shift"}
         /\ Goes(c, {"acquire", "done", "await", "polled", "failed", "shift"})
<1> DEFINE places == {"acquire", "done", "await", "polled", "failed", "shift"}
<1>1. call[c].at \in {"idle", "await", "polled", "acquire", "release", "shift"}
  BY DEF Outside, Enqueue, Poll, TimeOut, Start, Refused, ReleaseLock, ReleaseThrows,
         EnqueueThrows, AcquireThrows, ShiftThrows
<1>2. \/ Goes(c, {"acquire", "done", "await"}) \/ Goes(c, {"polled", "done"})
      \/ Goes(c, {"done"}) \/ Goes(c, {"acquire"}) \/ Goes(c, {"done", "await"})
      \/ Goes(c, {"failed", "shift", "done", "await"}) \/ Goes(c, {"failed"})
  BY EnqueueGoes, PollGoes, TimeOutGoes, RefusedGoes, ReleaseLockGoes, GotoSteps
     DEF Outside
<1>3. QED
  BY <1>1, <1>2 DEF Goes

LEMMA InsideGoes ==
  ASSUME TypeOK, NEW c \in Process, Inside(c)
  PROVE  /\ call[c].at \in Draining
         /\ Goes(c, {"prepare", "size", "peek", "handle", "commit", "lrange", "ltrim",
                     "leave"})
<1>1. call[c].at \in Draining
  BY DEF Inside, Prepare, Size, Peek, Pop, ReadAll, Trim, Wake, Throw, Draining
<1>2. \/ Goes(c, {"size", "commit"}) \/ Goes(c, {"peek", "commit"})
      \/ Goes(c, {"handle"}) \/ Goes(c, {"commit"}) \/ Goes(c, {"ltrim"})
      \/ Goes(c, {"prepare", "lrange", "leave"}) \/ Goes(c, {"leave"})
  BY GotoSteps, PeekGoes, PopGoes, ReadAllGoes, ThrowGoes DEF Inside
<1>3. QED
  BY <1>1, <1>2 DEF Goes

-----------------------------------------------------------------------------
(* Type correctness *)

\* Every step is a step of the lease, or leaves it alone.
LEMMA LeaseStep == TypeOK /\ [Next]_vars => [LeaseNext]_leaseVars
<1> SUFFICES ASSUME TypeOK, [Next]_vars
             PROVE  [LeaseNext]_leaseVars
  BY SMTT(60)
<1> USE DEF leaseVars, leaseUnchanged
<1>1. ASSUME NEW c \in Process,
             \/ Enqueue(c) \/ Poll(c) \/ TimeOut(c) \/ Start(c) \/ Refused(c)
             \/ EnqueueThrows(c) \/ ShiftThrows(c) \/ Inside(c) \/ Several(c)
             \/ TimeUp(c) \/ Handle(c) \/ Commit(c) \/ Recheck(c)
      PROVE  UNCHANGED leaseVars
  BY <1>1 DEF Enqueue, Poll, TimeOut, Start, Refused, EnqueueThrows, ShiftThrows,
              Inside, Prepare, Size, Peek, Pop, ReadAll, Trim, Wake, Throw,
              Several, ResolveAct, NotifyCommit, Shift, TimeUp, Handle, Commit, Recheck
<1>2. ASSUME NEW c \in Process,
             \/ TryAcquire(c) \/ AcquireThrows(c) \/ Beat(c) \/ LeaveDrain(c)
             \/ ReleaseLock(c) \/ ReleaseThrows(c) \/ Crash(c)
      PROVE  [LeaseNext]_leaseVars
  <2>1. Acquire(c) \/ Take(c) \/ Leave(c) \/ Release(c) \/ UNCHANGED leaseVars
    BY <1>2 DEF TryAcquire, AcquireThrows, Beat, BeatRefused, BeatAgain,
                BeatThrows, LeaveDrain, ReleaseLock,
                ReleaseThrows, Crash
  <2>2. QED
    BY <2>1 DEF LeaseNext
<1>3. CASE Elsewhere
  BY <1>3 DEF Elsewhere, ResolvedExpires, Expire, LeaseLapses, LeaseNext, TypeOK
<1>4. CASE UNCHANGED vars
  BY <1>4 DEF vars
<1>5. QED
  BY <1>1, <1>2, <1>3, <1>4, NextGroups DEF Outside, Timer

LEMMA LeaseType ==
  ASSUME TypeOK, [LeaseNext]_leaseVars
  PROVE  owner' \in Process \cup {NoOwner} /\ lapses' \in 0..MaxLapses
BY ProcessAssumption DEF TypeOK, LeaseNext, leaseVars, Acquire, Take, Leave, Release, Lapse

WorkingIs == working = {c \in Process : call[c].at \in Draining}

LEMMA WorkingFrom ==
  ASSUME TypeOK, NEW c \in Process,
         working' = IF call'[c].at \in Draining THEN working \cup {c} ELSE working \ {c},
         \A d \in Process \ {c} : call'[d].at \in Draining <=> call[d].at \in Draining
  PROVE  WorkingIs'
BY DEF TypeOK, WorkingIs

LEMMA CallTypeStep ==
  ASSUME TypeOK, [Next]_vars
  PROVE  call' \in [Process -> CallState] /\ WorkingIs'
<1> DEFINE Typed == call' \in [Process -> CallState] /\ WorkingIs'
<1>1. WorkingIs /\ call \in [Process -> CallState]
  BY CallTypes DEF WorkingIs, TypeOK
<1>2. ASSUME NEW c \in Process, Outside(c) PROVE Typed
  <2>1. working' = working
    BY <1>2 DEF Outside, Enqueue, Poll, TimeOut, Start, Refused, ReleaseLock,
                ReleaseThrows, EnqueueThrows, AcquireThrows, ShiftThrows, Release,
                Take, leaseUnchanged, leaseVars
  <2>2. /\ call[c].at \notin Draining /\ call'[c].at \notin Draining
        /\ call' \in [Process -> CallState]
        /\ \A d \in Process \ {c} : call'[d] = call[d]
    BY <1>2, OutsideGoes, Places DEF Goes, Draining
  <2>3. QED
    BY <1>1, <2>1, <2>2 DEF WorkingIs
<1>3. ASSUME NEW c \in Process, Inside(c) PROVE Typed
  <2>1. working' = working
    BY <1>3 DEF Inside, Prepare, Size, Peek, Pop, ReadAll, Trim, Wake, Throw,
                leaseUnchanged, leaseVars
  <2>2. /\ call[c].at \in Draining /\ call'[c].at \in Draining
        /\ call' \in [Process -> CallState]
        /\ \A d \in Process \ {c} : call'[d] = call[d]
    BY <1>3, InsideGoes DEF Goes, Draining
  <2>3. QED
    BY <1>1, <2>1, <2>2 DEF WorkingIs
<1>4. ASSUME NEW c \in Process, Timer(c) PROVE Typed
  <2>1. working' = working
    BY <1>4 DEF Timer, TimeUp, Beat, BeatRefused, BeatAgain,
                BeatThrows, Take, leaseUnchanged, leaseVars
  <2>2. /\ call'[c].at = call[c].at
        /\ call' \in [Process -> CallState]
        /\ \A d \in Process \ {c} : call'[d] = call[d]
    BY <1>4, TimeUpGoes, BeatGoes DEF Timer, Goes
  <2>3. QED
    BY <1>1, <2>1, <2>2 DEF WorkingIs
<1>5. ASSUME NEW c \in Process, NEW ms \in SUBSET Message,
             NEW place \in Draining, Resolve(c, ms, place), leaseUnchanged,
             call[c].at \in Draining
      PROVE  Typed
  <2>1. /\ call' \in [Process -> CallState] /\ call'[c].at = place
        /\ \A d \in Process \ {c} :
             call'[d] = call[d] \/ (call[d].at = "await" /\ call'[d].at = "done")
    <3>1. place \in Place
      BY Places
    <3>2. /\ call' \in [Process -> CallState]
          /\ call'[c].at = place
          /\ \A d \in Process \ {c} :
              \/ call'[d] = call[d]
              \/ /\ d \in ms /\ call[d].at = "await" /\ call'[d].at = "done"
                 /\ call'[d].result = "true"
      <4>1. Resolve(c, ms, place)
        BY <1>5
      <4> HIDE DEF Typed
      <4>2. QED
        BY <3>1, <4>1, ResolveSteps, SMTT(30)
    <3>3. QED
      BY <3>2
  <2>2. "await" \notin Draining /\ "done" \notin Draining
    BY DEF Draining
  <2>3. \A d \in Process : call'[d].at \in Draining <=> call[d].at \in Draining
    BY <1>5, <2>1, <2>2
  <2>4. QED
    BY <1>1, <1>5, <2>1, <2>3 DEF WorkingIs, leaseUnchanged, leaseVars
<1>6. ASSUME NEW c \in Process, ResolveAct(c) PROVE Typed
  <2> DEFINE ms == {m \in call[c].local : Policy[m] = "Act"}
             place == IF mode.consume = "single" THEN "pop" ELSE NextBatch(call[c])
  <2>1. place \in Draining /\ call[c].at \in Draining
    BY <1>6 DEF ResolveAct, NextBatch, Draining
  <2>2. ms \in SUBSET Message
    BY <1>1, FieldTypes
  <2>3. Resolve(c, ms, place) /\ leaseUnchanged
    BY <1>6 DEF ResolveAct
  <2> HIDE DEF ms, place
  <2>4. QED
    BY <1>5, <2>1, <2>2, <2>3
<1>7. ASSUME NEW c \in Process, NotifyCommit(c) PROVE Typed
  <2> DEFINE ms == {m \in call[c].loop : Policy[m] = "Commit"}
  <2>1. "recheck" \in Draining /\ call[c].at \in Draining
    BY <1>7 DEF NotifyCommit, Draining
  <2>2. ms \in SUBSET Message
    BY <1>1, FieldTypes
  <2>3. Resolve(c, ms, "recheck") /\ leaseUnchanged
    BY <1>7 DEF NotifyCommit
  <2> HIDE DEF ms
  <2>4. QED
    BY <1>5, <2>1, <2>2, <2>3
<1>8. ASSUME NEW c \in Process, Shift(c) PROVE Typed
  <2>1. working' = working /\ call[c].at = "shift"
    BY <1>8 DEF Shift, leaseUnchanged, leaseVars
  <2>2. PICK s \in Successor :
          /\ call[s].at = "idle" /\ call'[s].at = "acquire"
          /\ call'[c].at \in {"done", "await"}
          /\ call' \in [Process -> CallState]
          /\ \A d \in Process \ {c, s} : call'[d] = call[d]
    BY <1>8, ShiftSteps
  <2>3. {"shift", "idle", "acquire", "done", "await"} \cap Draining = {}
    BY DEF Draining
  <2>4. \A d \in Process : call'[d].at \in Draining <=> call[d].at \in Draining
    BY <2>1, <2>2, <2>3
  <2>5. QED
    BY <1>1, <2>1, <2>2, <2>4 DEF WorkingIs
<1>9. ASSUME NEW c \in Process, TryAcquire(c) PROVE Typed
  <2>1. working' = working \cup {c}
    BY <1>9 DEF TryAcquire, Acquire
  <2>2. /\ call'[c].at \in Draining
        /\ call' \in [Process -> CallState]
        /\ \A d \in Process \ {c} : call'[d] = call[d]
    BY <1>9, TryAcquireGoes DEF Goes, Draining
  <2>3. QED
    BY <1>1, <2>1, <2>2 DEF WorkingIs
<1>10. ASSUME NEW c \in Process, LeaveDrain(c) PROVE Typed
  <2>1. working' = working \ {c}
    BY <1>10 DEF LeaveDrain, Leave
  <2>2. /\ call'[c].at \notin Draining
        /\ call' \in [Process -> CallState]
        /\ \A d \in Process \ {c} : call'[d] = call[d]
    BY <1>10, LeaveDrainGoes DEF Goes, Draining
  <2>3. QED
    BY <1>1, <2>1, <2>2 DEF WorkingIs
<1>11. ASSUME NEW c \in Process, Crash(c) PROVE Typed
  <2>1. working' = working \ {c}
    BY <1>11 DEF Crash, Leave, leaseUnchanged, leaseVars
  <2>2. /\ call'[c].at \notin Draining
        /\ call' \in [Process -> CallState]
        /\ \A d \in Process \ {c} : call'[d] = call[d]
    BY <1>11, GotoSteps DEF Goes, Draining
  <2>3. QED
    BY <1>1, <2>1, <2>2 DEF WorkingIs
<1>12. ASSUME NEW c \in Process, Handle(c) \/ Commit(c) \/ Recheck(c) PROVE Typed
  <2>1. working' = working /\ call[c].at \in Draining
    BY <1>12 DEF Handle, Commit, Recheck, leaseUnchanged, leaseVars, Draining
  <2>2. AfterHandling(c) \in Draining /\ "notify" \in Draining
        /\ {"prepare", "lrange", "leave", "sleep"} \subseteq Draining
    BY DEF AfterHandling, Draining
  <2>3. /\ call'[c].at \in Draining
        /\ call' \in [Process -> CallState]
        /\ \A d \in Process \ {c} : call'[d] = call[d]
    BY <1>12, <2>2, FirstStepIs, HandleSteps, CommitSteps, RecheckSteps
  <2>4. QED
    BY <1>1, <2>1, <2>3 DEF WorkingIs
<1>13. CASE Elsewhere \/ UNCHANGED vars
  <2>1. working' = working /\ call' = call
    BY <1>13 DEF Elsewhere, ResolvedExpires, Expire, LeaseLapses, Release, Lapse,
                 leaseUnchanged, leaseVars, vars
  <2>2. QED
    BY <1>1, <2>1 DEF WorkingIs
<1>14. QED
  BY <1>2, <1>3, <1>4, <1>6, <1>7, <1>8, <1>9, <1>10, <1>11, <1>12, <1>13, NextGroups
     DEF Several

\* What is removed from the queue is removed from its head.
LEMMA QueueTypes ==
  ASSUME TypeOK, NEW c \in Process
  PROVE  /\ Popped \in Seq(Message) /\ Trimmed(c) \in Seq(Message)
         /\ c \in Message => Append(queue, c) \in Seq(Message)
                          /\ Append(sent, c) \in Seq(Message)
         /\ handled \o call[c].batch \in Seq(Message)
<1>1. queue \in Seq(Message) /\ sent \in Seq(Message) /\ handled \in Seq(Message)
  BY DEF TypeOK
<1>2. call[c].batch \in Seq(Message)
  BY CallTypes, FieldTypes
<1>3. Popped \in Seq(Message)
  BY <1>1, HeadTailProperties DEF Popped
<1>4. Trimmed(c) \in Seq(Message)
  BY <1>1, <1>2 DEF Trimmed
<1>5. handled \o call[c].batch \in Seq(Message)
  BY <1>1, <1>2, ConcatProperties
<1>6. QED
  BY <1>1, <1>3, <1>4, <1>5, AppendProperties

LEMMA DataTypeStep ==
  ASSUME TypeOK, [Next]_vars
  PROVE  /\ mode' = mode
         /\ queue' \in Seq(Message) /\ sent' \in Seq(Message)
         /\ handled' \in Seq(Message) /\ committed' \subseteq Message
         /\ resolved' \subseteq Message
         /\ throws' \in 0..MaxThrows /\ crashes' \in 0..MaxCrashes
<1> DEFINE Typed == /\ mode' = mode
                    /\ queue' \in Seq(Message) /\ sent' \in Seq(Message)
                    /\ handled' \in Seq(Message) /\ committed' \subseteq Message
                    /\ resolved' \subseteq Message
                    /\ throws' \in 0..MaxThrows /\ crashes' \in 0..MaxCrashes
<1> USE DEF history, budgets
<1>1. /\ queue \in Seq(Message) /\ sent \in Seq(Message)
      /\ handled \in Seq(Message) /\ committed \subseteq Message
      /\ resolved \subseteq Message
      /\ throws \in 0..MaxThrows /\ crashes \in 0..MaxCrashes
  BY DEF TypeOK
<1>2. ASSUME throws > 0, throws' = throws - 1 PROVE throws' \in 0..MaxThrows
  BY <1>1, <1>2, ProcessAssumption
<1>3. ASSUME NEW c \in Process,
             Enqueue(c) \/ EnqueueThrows(c) \/ Pop(c) \/ Trim(c) \/ Throw(c) \/ Handle(c)
      PROVE  Typed
  BY <1>1, <1>2, <1>3, QueueTypes DEF Enqueue, EnqueueThrows, Pop, Trim, Throw, Handle
<1>4. ASSUME NEW c \in Process, ResolveAct(c) \/ NotifyCommit(c) PROVE Typed
  <2>1. resolved' \subseteq Message
    <3>1. resolved' \subseteq resolved \cup call[c].local \cup call[c].loop
      BY <1>4 DEF ResolveAct, NotifyCommit, Resolve
    <3>2. QED
      BY <1>1, <3>1, CallTypes, FieldTypes
  <2>2. QED
    BY <1>1, <1>4, <2>1 DEF ResolveAct, NotifyCommit
<1>5. ASSUME NEW c \in Process, Commit(c) PROVE Typed
  <2>1. call[c].local \subseteq Message
    BY CallTypes, FieldTypes
  <2>2. QED
    BY <1>1, <1>5, <2>1 DEF Commit
<1>6. ASSUME NEW c \in Process,
             \/ Poll(c) \/ TimeOut(c) \/ Start(c) \/ Refused(c) \/ ReleaseLock(c)
             \/ ReleaseThrows(c) \/ AcquireThrows(c) \/ ShiftThrows(c) \/ Shift(c)
             \/ TryAcquire(c) \/ LeaveDrain(c)
      PROVE  Typed
  BY <1>1, <1>2, <1>6 DEF Poll, TimeOut, Start, Refused, ReleaseLock, ReleaseThrows,
     AcquireThrows, ShiftThrows, Shift, TryAcquire, LeaveDrain
<1>7. ASSUME NEW c \in Process,
             \/ Prepare(c) \/ Size(c) \/ Peek(c) \/ ReadAll(c) \/ Wake(c)
             \/ Recheck(c) \/ TimeUp(c) \/ Beat(c) \/ Crash(c)
      PROVE  Typed
  BY <1>1, <1>2, <1>7, ProcessAssumption
     DEF Prepare, Size, Peek, ReadAll, Wake, Recheck, TimeUp, Beat, BeatRefused, BeatAgain,
                BeatThrows, Crash
<1>8. CASE Elsewhere \/ UNCHANGED vars
  BY <1>1, <1>8 DEF Elsewhere, ResolvedExpires, Expire, LeaseLapses, vars
<1>9. QED
  BY <1>3, <1>4, <1>5, <1>6, <1>7, <1>8, NextGroups
     DEF Outside, Inside, Timer, Several

LEMMA BeatTypeStep ==
  ASSUME TypeOK, [Next]_vars
  PROVE  beating' \subseteq Process /\ token' \subseteq Process
<1> USE DEF leaseUnchanged, beats
<1>1. beating \subseteq Process /\ token \subseteq Process
  BY DEF TypeOK
<1>2. ASSUME NEW c \in Process,
             \/ Outside(c) \/ Timer(c) \/ TryAcquire(c) \/ LeaveDrain(c) \/ Crash(c)
      PROVE  beating' \subseteq beating \cup {c} /\ token' \subseteq token \cup {c}
  BY <1>2, SMTT(60) DEF Outside, Enqueue, Poll, TimeOut, Start, Refused, ReleaseLock,
     ReleaseThrows, EnqueueThrows, AcquireThrows, ShiftThrows, Timer, TimeUp, Beat,
     BeatRefused, BeatAgain, BeatThrows, TryAcquire, LeaveDrain, Crash
<1>3. ASSUME NEW c \in Process,
             Inside(c) \/ Several(c) \/ Handle(c) \/ Commit(c) \/ Recheck(c)
      PROVE  UNCHANGED beats
  BY <1>3 DEF Inside, Prepare, Size, Peek, Pop, ReadAll, Trim, Wake, Throw,
              Several, ResolveAct, NotifyCommit, Shift, Handle, Commit, Recheck
<1>4. CASE Elsewhere \/ UNCHANGED vars
  BY <1>1, <1>4 DEF Elsewhere, ResolvedExpires, Expire, LeaseLapses, vars
<1>5. QED
  BY <1>1, <1>2, <1>3, <1>4, NextGroups

LEMMA TypeStep == TypeOK /\ [Next]_vars => TypeOK'
<1> SUFFICES ASSUME TypeOK, [Next]_vars
             PROVE  TypeOK'
  OBVIOUS
<1>1. call' \in [Process -> CallState] /\ WorkingIs'
  BY CallTypeStep
<1>2. mode' \in Modes
  BY DataTypeStep DEF TypeOK
<1>3. QED
  BY <1>1, <1>2, DataTypeStep, BeatTypeStep, LeaseStep, LeaseType
     DEF TypeOK, WorkingIs, CallState

LEMMA TypeInit == Init => TypeOK
<1> SUFFICES ASSUME Init PROVE TypeOK
  OBVIOUS
<1> DEFINE none == <<>>
<1>1. none \in Seq(Message) /\ "idle" \in Place /\ "idle" \notin Draining
  BY DEF Place, Draining
<1>2. NewCall = [at |-> "idle", alive |-> TRUE, lost |-> FALSE, batch |-> none,
                 local |-> {}, loop |-> {}, metas |-> {}, shifting |-> FALSE,
                 failing |-> FALSE, result |-> "none"]
  BY DEF NewCall
<1>3. queue = none /\ sent = none /\ handled = none
  BY DEF Init
<1> HIDE DEF none
<1>4. NewCall \in CallState /\ NewCall.at = "idle"
  BY <1>1, <1>2 DEF CallState
<1>5. call = [c \in Process |-> NewCall]
  BY DEF Init
<1>6. call \in [Process -> CallState] /\ WorkingIs
  BY <1>1, <1>4, <1>5 DEF Init, LeaseInit, WorkingIs
<1>7. QED
  BY <1>1, <1>3, <1>6, ProcessAssumption
     DEF Init, LeaseInit, TypeOK, WorkingIs, CallState

-----------------------------------------------------------------------------
(* What post and send answer *)

\* AnswersAreTrue is not inductive: what a call remembers of its passes, and
\* the keys of the awaiter, are what later answers rest on.
KnownIsTrue ==
  /\ committed \subseteq Range(handled)
  /\ \A c \in Process :
       /\ call[c].local \subseteq Range(handled)
       /\ call[c].loop \subseteq committed /\ call[c].metas \subseteq committed
  /\ \A m \in resolved : Told(m)

AnswerInv == KnownIsTrue /\ AnswersAreTrue

\* Nothing that was handled or committed is forgotten.
Grows ==
  /\ Range(handled) \subseteq Range(handled') /\ committed \subseteq committed'
  /\ committed' \subseteq Range(handled')

LEMMA AnswersGrow ==
  ASSUME AnswerInv, Grows,
         \A m \in resolved' : m \in resolved \/ Told(m),
         \A d \in Process :
           /\ call'[d].local \subseteq Range(handled')
           /\ call'[d].loop \subseteq committed' /\ call'[d].metas \subseteq committed'
           /\ call'[d].result = "true" /\ d \in Message =>
                call[d].result = "true" \/ Told(d)
  PROVE  AnswerInv'
<1>1. \A m : Told(m) => Told(m)'
  BY DEF Told, Grows
<1>2. Message \subseteq Process
  BY ProcessAssumption DEF Message
<1>3. KnownIsTrue'
  BY <1>1 DEF AnswerInv, KnownIsTrue, Grows
<1>4. AnswersAreTrue'
  BY <1>1, <1>2 DEF AnswerInv, AnswersAreTrue, Told
<1>5. QED
  BY <1>3, <1>4 DEF AnswerInv

\* A step of one call that learns nothing.
LEMMA AnswersAfterGoing ==
  ASSUME AnswerInv, Grows, resolved' \subseteq resolved,
         NEW c \in Process, NEW places, Goes(c, places)
  PROVE  AnswerInv'
<1>1. \A d \in Process :
        /\ call'[d].local = call[d].local /\ call'[d].loop = call[d].loop
        /\ call'[d].metas = call[d].metas
  BY DEF Goes
<1>2. \A d \in Process :
        /\ call'[d].local \subseteq Range(handled')
        /\ call'[d].loop \subseteq committed' /\ call'[d].metas \subseteq committed'
  BY <1>1 DEF AnswerInv, KnownIsTrue, Grows
<1>3. \A d \in Process :
        call'[d].result = "true" /\ d \in Message => call[d].result = "true" \/ Told(d)
  BY DEF Goes, AnswerInv, KnownIsTrue, Told
<1>4. QED
  BY <1>2, <1>3, AnswersGrow

LEMMA HandledGrows ==
  ASSUME TypeOK, NEW b \in Seq(Message), handled' = handled \o b
  PROVE  Range(handled') = Range(handled) \cup Range(b)
BY RangeConcatenation DEF TypeOK

\* The awaiters of ms are told what is so.
LEMMA AnswersAfterResolving ==
  ASSUME TypeOK, AnswerInv, NEW c \in Process, NEW ms \in SUBSET Message,
         NEW place \in Place, Resolve(c, ms, place), \A m \in ms : Told(m),
         UNCHANGED <<handled, committed>>
  PROVE  AnswerInv'
<1>1. /\ resolved' \subseteq resolved \cup ms
      /\ call'[c].result = call[c].result
      /\ \A d \in Process :
           /\ call'[d].local = call[d].local /\ call'[d].loop = call[d].loop
           /\ call'[d].metas = call[d].metas
      /\ \A d \in Process \ {c} : call'[d] = call[d] \/ d \in ms
  BY ResolveSteps
<1>2. Grows
  BY DEF AnswerInv, KnownIsTrue, Grows
<1>3. \A d \in Process :
        /\ call'[d].local \subseteq Range(handled')
        /\ call'[d].loop \subseteq committed' /\ call'[d].metas \subseteq committed'
  BY <1>1 DEF AnswerInv, KnownIsTrue
<1>4. \A d \in Process :
        call'[d].result = "true" /\ d \in Message => call[d].result = "true" \/ Told(d)
  BY <1>1
<1>5. QED
  BY <1>1, <1>2, <1>3, <1>4, AnswersGrow

LEMMA AnswerStep == TypeOK /\ AnswerInv /\ [Next]_vars => AnswerInv'
<1> SUFFICES ASSUME TypeOK, AnswerInv, [Next]_vars
             PROVE  AnswerInv'
  OBVIOUS
<1>1. call \in [Process -> CallState]
  BY CallTypes
<1>2. ASSUME UNCHANGED <<handled, committed>> PROVE Grows
  BY <1>2 DEF Grows, AnswerInv, KnownIsTrue
<1>3. ASSUME NEW c \in Process, Outside(c) PROVE AnswerInv'
  <2>1. UNCHANGED <<handled, committed, resolved>>
    BY <1>3 DEF Outside, Enqueue, Poll, TimeOut, Start, Refused, ReleaseLock,
                ReleaseThrows, EnqueueThrows, AcquireThrows, ShiftThrows, history
  <2>2. QED
    BY <1>2, <1>3, <2>1, OutsideGoes, AnswersAfterGoing
<1>4. ASSUME NEW c \in Process, Inside(c) PROVE AnswerInv'
  <2>1. UNCHANGED <<committed, resolved>>
    BY <1>4 DEF Inside, Prepare, Size, Peek, Pop, ReadAll, Trim, Wake, Throw, history
  <2>2. handled' = handled \/ handled' = handled \o call[c].batch
    BY <1>4 DEF Inside, Prepare, Size, Peek, Pop, ReadAll, Trim, Wake, Throw, history
  <2>3. Range(handled) \subseteq Range(handled')
    BY <1>1, <2>2, FieldTypes, HandledGrows, SMTT(60)
  <2>4. Grows
    BY <2>1, <2>3 DEF Grows, AnswerInv, KnownIsTrue
  <2>5. QED
    BY <1>4, <2>1, <2>4, InsideGoes, AnswersAfterGoing
<1>5. ASSUME NEW c \in Process, Timer(c) \/ TryAcquire(c) \/ LeaveDrain(c) \/ Crash(c)
      PROVE  AnswerInv'
  <2>1. UNCHANGED <<handled, committed, resolved>>
    BY <1>5 DEF Timer, TimeUp, Beat, BeatRefused, BeatAgain,
                BeatThrows, TryAcquire, LeaveDrain, Crash, history
  <2>2. \E places : Goes(c, places)
    BY <1>5, TimeUpGoes, BeatGoes, TryAcquireGoes, LeaveDrainGoes, GotoSteps DEF Timer
  <2>3. QED
    BY <1>2, <2>1, <2>2, AnswersAfterGoing
<1>6. ASSUME NEW c \in Process, Handle(c) PROVE AnswerInv'
  <2>1. call[c].batch \in Seq(Message)
    BY <1>1, FieldTypes
  <2>2. /\ Range(handled') = Range(handled) \cup Range(call[c].batch)
        /\ UNCHANGED <<committed, resolved>>
    BY <1>6, <2>1, HandledGrows DEF Handle
  <2>3. /\ call'[c].local = call[c].local \cup Range(call[c].batch)
        /\ call'[c].loop = call[c].loop /\ call'[c].metas = call[c].metas
        /\ call'[c].result = call[c].result
        /\ \A d \in Process \ {c} : call'[d] = call[d]
    BY <1>6, HandleSteps
  <2>4. Grows
    BY <2>2 DEF Grows, AnswerInv, KnownIsTrue
  <2>5. \A d \in Process :
          /\ call'[d].local \subseteq Range(handled')
          /\ call'[d].loop \subseteq committed' /\ call'[d].metas \subseteq committed'
    BY <2>2, <2>3 DEF AnswerInv, KnownIsTrue
  <2>6. \A d \in Process : call'[d].result = call[d].result
    BY <2>3
  <2>7. QED
    BY <2>2, <2>4, <2>5, <2>6, AnswersGrow
<1>7. ASSUME NEW c \in Process, ResolveAct(c) PROVE AnswerInv'
  <2> DEFINE ms == {m \in call[c].local : Policy[m] = "Act"}
             place == IF mode.consume = "single" THEN "pop" ELSE NextBatch(call[c])
  <2>1. place \in Place
    BY DEF NextBatch, Place, Draining
  <2>2. ms \in SUBSET Message
    BY <1>1, FieldTypes
  <2>3. Resolve(c, ms, place) /\ UNCHANGED <<handled, committed>>
    BY <1>7 DEF ResolveAct, history
  <2>4. \A m \in ms : Told(m)
    BY DEF AnswerInv, KnownIsTrue, Told
  <2> HIDE DEF ms, place
  <2>5. QED
    BY <2>1, <2>2, <2>3, <2>4, AnswersAfterResolving
<1>8. ASSUME NEW c \in Process, NotifyCommit(c) PROVE AnswerInv'
  <2> DEFINE ms == {m \in call[c].loop : Policy[m] = "Commit"}
             place == "recheck"
  <2>1. place \in Place /\ place # "shift"
    BY DEF Place, Draining
  <2>2. ms \in SUBSET Message
    BY <1>1, FieldTypes
  <2>3. Resolve(c, ms, "recheck") /\ UNCHANGED <<handled, committed>>
    BY <1>8 DEF NotifyCommit, history
  <2>4. \A m \in ms : Told(m)
    BY DEF AnswerInv, KnownIsTrue, Told
  <2> HIDE DEF ms
  <2>5. QED
    BY <2>1, <2>2, <2>3, <2>4, AnswersAfterResolving
<1>9. ASSUME NEW c \in Process, Shift(c) PROVE AnswerInv'
  <2>1. UNCHANGED <<handled, committed, resolved>>
    BY <1>9 DEF Shift, history
  <2>2. /\ \A d \in Process :
             /\ call'[d].local = call[d].local /\ call'[d].loop = call[d].loop
             /\ call'[d].metas = call[d].metas
        /\ \A d \in Process :
             call'[d].result = "true" => \/ call[d].result = "true"
                                       \/ Policy[d] = "Forget" \/ d \in call[d].metas
    <3>1. PICK s \in Successor :
             /\ call'[c].result = "true" => \/ call[c].result = "true"
                                           \/ Policy[c] = "Forget" \/ c \in call[c].metas
             /\ call'[s].result = call[s].result
             /\ \A d \in {c, s} :
                  /\ call'[d].local = call[d].local /\ call'[d].loop = call[d].loop
                  /\ call'[d].metas = call[d].metas
             /\ \A d \in Process \ {c, s} : call'[d] = call[d]
      BY <1>9, ShiftSteps
    <3>2. QED
      BY <3>1
  <2>3. \A d \in Process :
          /\ call'[d].local \subseteq Range(handled')
          /\ call'[d].loop \subseteq committed' /\ call'[d].metas \subseteq committed'
    BY <2>1, <2>2 DEF AnswerInv, KnownIsTrue
  <2>4. \A d \in Process :
          call'[d].result = "true" /\ d \in Message => call[d].result = "true" \/ Told(d)
    BY <2>2 DEF AnswerInv, KnownIsTrue, Told
  <2>5. QED
    BY <1>2, <2>1, <2>3, <2>4, AnswersGrow
<1>10. ASSUME NEW c \in Process, Commit(c) PROVE AnswerInv'
  <2>1. /\ committed' = committed \cup call[c].local
        /\ UNCHANGED <<handled, resolved>>
    BY <1>10 DEF Commit
  <2>2. /\ call'[c].local = {}
        /\ call'[c].loop = call[c].loop \cup call[c].local
        /\ call'[c].metas = call[c].metas /\ call'[c].result = call[c].result
        /\ \A d \in Process \ {c} : call'[d] = call[d]
    BY <1>10, CommitSteps
  <2>3. Grows
    BY <2>1 DEF Grows, AnswerInv, KnownIsTrue
  <2>4. \A d \in Process :
          /\ call'[d].local \subseteq Range(handled')
          /\ call'[d].loop \subseteq committed' /\ call'[d].metas \subseteq committed'
    BY <2>1, <2>2 DEF AnswerInv, KnownIsTrue
  <2>5. \A d \in Process : call'[d].result = call[d].result
    BY <2>2
  <2>6. QED
    BY <2>1, <2>3, <2>4, <2>5, AnswersGrow
<1>11. ASSUME NEW c \in Process, Recheck(c) PROVE AnswerInv'
  <2>1. UNCHANGED <<handled, committed, resolved>>
    BY <1>11 DEF Recheck, history
  <2>2. /\ call'[c].local = call[c].local /\ call'[c].loop \subseteq call[c].loop
        /\ call'[c].metas \subseteq call[c].metas \cup call[c].loop
        /\ call'[c].result = call[c].result
        /\ \A d \in Process \ {c} : call'[d] = call[d]
    BY <1>11, RecheckSteps
  <2>3. \A d \in Process :
          /\ call'[d].local \subseteq Range(handled')
          /\ call'[d].loop \subseteq committed' /\ call'[d].metas \subseteq committed'
    BY <2>1, <2>2 DEF AnswerInv, KnownIsTrue
  <2>4. \A d \in Process : call'[d].result = call[d].result
    BY <2>2
  <2>5. QED
    BY <1>2, <2>1, <2>3, <2>4, AnswersGrow
<1>12. CASE Elsewhere \/ UNCHANGED vars
  <2>1. UNCHANGED <<handled, committed, call>> /\ resolved' \subseteq resolved
    BY <1>12 DEF Elsewhere, ResolvedExpires, Expire, LeaseLapses, history, vars
  <2>2. QED
    BY <1>2, <2>1, AnswersGrow DEF AnswerInv, KnownIsTrue
<1>13. QED
  BY <1>3, <1>4, <1>5, <1>6, <1>7, <1>8, <1>9, <1>10, <1>11, <1>12, NextGroups
     DEF Several

-----------------------------------------------------------------------------
(* The order of the handling, and the refinement of Mailbox *)

\* A call is in the steps of the consumer the actor was given.
Fits(place) ==
  /\ mode.consume = "bulk" => place \notin {"prepare", "size", "peek", "pop"}
  /\ mode.consume = "single" => place \notin {"lrange", "ltrim"}
ModeInv == \A c \in Process : Fits(call[c].at)

\* As long as no lease lapsed, only the owner drains.
ExclusiveInv == NoLapse => \A c \in working : owner = c

\* And what it read is still the oldest part of the queue. In single mode that
\* is the message it handles, which stays queued until it was handled.
Holding == {"handle", "resolve", "pop", "ltrim"}
HeldIsOldest(c) ==
  /\ mode.consume = "single" =>
       /\ call[c].at = "handle" => queue # <<>> /\ call[c].batch = <<Head(queue)>>
       /\ call[c].at \in {"resolve", "pop"}
            => queue # <<>> /\ \E i \in DOMAIN handled : handled[i] = Head(queue)
  /\ call[c].at = "ltrim" =>
       /\ Len(call[c].batch) \in 1..Len(queue)
       /\ call[c].batch = SubSeq(queue, 1, Len(call[c].batch))
BatchInv == NoLapse => \A c \in Process : HeldIsOldest(c)

\* As long as nothing went wrong, what was sent is what was handled and what is
\* still to be handled, in this order: the queue without the message whose
\* handler has run, or the batch in hand and the queue.
NothingWrong == NoLapse /\ throws = MaxThrows /\ crashes = MaxCrashes
HeadWasHandled ==
  mode.consume = "single" /\ \E c \in Process : call[c].at \in {"resolve", "pop"}
Pending == IF HeadWasHandled THEN Tail(queue) ELSE Taken \o queue
OrderInv == NothingWrong => sent = handled \o Pending


LEMMA ModeInit == Init => ModeInv
<1>1. NewCall.at = "idle"
  BY DEF NewCall
<1>2. QED
  BY <1>1 DEF Init, ModeInv, Fits

LEMMA OneConsumer == TypeOK => mode.consume \in {"single", "bulk"}
BY ProcessAssumption DEF TypeOK

LEMMA FirstStepFits == Fits(FirstStep)
BY DEF FirstStep, Fits

LEMMA CycleFits ==
  ASSUME NEW r
  PROVE  Cycle(r) \in Place /\ Fits(Cycle(r))
<1>1. "leave" \in Place /\ Fits("leave")
  BY DEF Place, Draining, Fits
<1>2. QED
  BY <1>1, FirstStepIs, FirstStepFits DEF Cycle

LEMMA ModeStep ==
  ASSUME TypeOK, ModeInv, [Next]_vars
  PROVE  ModeInv'
<1>1. mode' = mode
  BY DataTypeStep
<1>2. \A d \in Process : Fits(call[d].at)
  BY DEF ModeInv
<1>3. \A place : Fits(place)' <=> Fits(place)
  BY <1>1 DEF Fits
<1>4. SUFFICES \A d \in Process : Fits(call'[d].at)
  BY <1>1 DEF ModeInv, Fits
<1>5. ASSUME NEW c \in Process, Fits(call'[c].at),
             \A d \in Process \ {c} : call'[d] = call[d]
      PROVE  \A d \in Process : Fits(call'[d].at)
  BY <1>2, <1>5
<1>6. \A place \in {"idle", "acquire", "release", "shift", "await", "polled", "handle",
                    "resolve", "commit", "notify", "recheck", "sleep", "leave",
                    "done", "failed", "crashed"} : Fits(place)
  BY DEF Fits
<1>7. ASSUME NEW c \in Process, Outside(c) \/ LeaveDrain(c) \/ Crash(c) \/ Commit(c)
      PROVE  \A d \in Process : Fits(call'[d].at)
  <2>1. /\ call'[c].at \in {"acquire", "done", "await", "polled", "failed", "shift",
                            "release", "crashed", "notify"}
        /\ \A d \in Process \ {c} : call'[d] = call[d]
    BY <1>7, OutsideGoes, LeaveDrainGoes, GotoSteps, CommitSteps DEF Goes
  <2>2. QED
    BY <1>5, <1>6, <2>1
<1>8. ASSUME NEW c \in Process, Inside(c) \/ TryAcquire(c)
      PROVE  \A d \in Process : Fits(call'[d].at)
  <2>1. \A d \in Process \ {c} : call'[d] = call[d]
    BY <1>8, InsideGoes, TryAcquireGoes DEF Goes
  <2>2. CASE TryAcquire(c) \/ Wake(c)
    <3>1. Goto(c, Cycle(call[c]))
      BY <2>2 DEF TryAcquire, Wake, Goto
    <3>2. call'[c].at = Cycle(call[c])
      BY <3>1, CycleFits, GotoGoes DEF Goes
    <3>3. QED
      BY <1>5, <2>1, <3>2, CycleFits
  <2>3. CASE Prepare(c) \/ Size(c) \/ Peek(c) \/ Pop(c)
    <3>1. call[c].at \in {"prepare", "size", "peek", "pop"}
      BY <2>3 DEF Prepare, Size, Peek, Pop
    <3>2. mode.consume # "bulk"
      BY <1>2, <3>1 DEF Fits
    <3>3. call'[c].at \in {"size", "commit", "peek", "handle"}
      BY <2>3, GotoSteps, PeekGoes, PopGoes DEF Goes
    <3>4. Fits(call'[c].at)
      BY <3>2, <3>3 DEF Fits
    <3>5. QED
      BY <1>5, <2>1, <3>4
  <2>4. CASE ReadAll(c) \/ Trim(c) \/ Throw(c)
    <3>1. ReadAll(c) => mode.consume # "single"
      BY <1>2 DEF Fits, ReadAll
    <3>2. /\ ReadAll(c) => call'[c].at \in {"commit", "ltrim"}
          /\ Trim(c) => call'[c].at = "handle"
          /\ Throw(c) => call'[c].at = "leave"
      BY ReadAllGoes, GotoSteps, ThrowGoes DEF Goes
    <3>3. Fits(call'[c].at)
      BY <2>4, <3>1, <3>2 DEF Fits
    <3>4. QED
      BY <1>5, <2>1, <3>3
  <2>5. QED
    BY <1>8, <2>2, <2>3, <2>4 DEF Inside
<1>9. ASSUME NEW c \in Process, Timer(c)
      PROVE  \A d \in Process : Fits(call'[d].at)
  <2>1. /\ call'[c].at = call[c].at
        /\ \A d \in Process \ {c} : call'[d] = call[d]
    BY <1>9, TimeUpGoes, BeatGoes DEF Timer, Goes
  <2>2. QED
    BY <1>2, <1>5, <2>1
<1>10. ASSUME NEW c \in Process, NEW ms \in SUBSET Message,
              NEW place \in Place, Resolve(c, ms, place), Fits(place)
       PROVE  \A d \in Process : Fits(call'[d].at)
  <2>1. Resolve(c, ms, place)
    BY <1>10
  <2>2. /\ call'[c].at = place
        /\ \A d \in Process \ {c} :
             \/ call'[d] = call[d]
             \/ /\ d \in ms /\ call[d].at = "await" /\ call'[d].at = "done"
                /\ call'[d].result = "true"
    BY <2>1, ResolveSteps, SMTT(30)
  <2>3. QED
    BY <1>2, <1>6, <1>10, <2>2
<1>11. ASSUME NEW c \in Process, ResolveAct(c)
       PROVE  \A d \in Process : Fits(call'[d].at)
  <2> DEFINE ms == {m \in call[c].local : Policy[m] = "Act"}
             place == IF mode.consume = "single" THEN "pop" ELSE NextBatch(call[c])
  <2>1. place \in Place /\ Fits(place)
    BY OneConsumer DEF NextBatch, Place, Draining, Fits
  <2>2. ms \in SUBSET Message
    BY CallTypes, FieldTypes
  <2>3. Resolve(c, ms, place)
    BY <1>11 DEF ResolveAct
  <2> HIDE DEF ms, place
  <2>4. QED
    BY <1>10, <2>1, <2>2, <2>3
<1>12. ASSUME NEW c \in Process, NotifyCommit(c)
       PROVE  \A d \in Process : Fits(call'[d].at)
  <2> DEFINE ms == {m \in call[c].loop : Policy[m] = "Commit"}
             place == "recheck"
  <2>1. place \in Place /\ place # "shift"
    BY DEF Place, Draining
  <2>2. ms \in SUBSET Message
    BY CallTypes, FieldTypes
  <2>3. Resolve(c, ms, "recheck")
    BY <1>12 DEF NotifyCommit
  <2> HIDE DEF ms
  <2>4. QED
    BY <1>6, <1>10, <2>1, <2>2, <2>3
<1>13. ASSUME NEW c \in Process, Shift(c)
       PROVE  \A d \in Process : Fits(call'[d].at)
  <2>1. PICK s \in Successor :
          /\ call'[s].at = "acquire" /\ call'[c].at \in {"done", "await"}
          /\ \A d \in Process \ {c, s} : call'[d] = call[d]
    BY <1>13, ShiftSteps
  <2>2. QED
    BY <1>2, <1>6, <2>1
<1>14. ASSUME NEW c \in Process, Handle(c)
       PROVE  \A d \in Process : Fits(call'[d].at)
  <2>1. Fits(AfterHandling(c))
    BY OneConsumer DEF AfterHandling, Fits
  <2>2. QED
    BY <1>5, <1>14, <2>1, HandleSteps
<1>15. ASSUME NEW c \in Process, Recheck(c)
       PROVE  \A d \in Process : Fits(call'[d].at)
  <2>1. call'[c].at \in {FirstStep, "leave", "sleep"}
    BY <1>15, RecheckSteps
  <2>2. QED
    BY <1>5, <1>6, <1>15, <2>1, RecheckSteps, FirstStepFits
<1>16. CASE Elsewhere \/ UNCHANGED vars
  <2>1. UNCHANGED call
    BY <1>16 DEF Elsewhere, ResolvedExpires, Expire, LeaseLapses, vars
  <2>2. QED
    BY <1>2, <2>1
<1>17. QED
  BY <1>7, <1>8, <1>9, <1>11, <1>12, <1>13, <1>14, <1>15, <1>16, NextGroups
     DEF Several

\* A lapse that was spent never comes back.
LEMMA CalmBefore ==
  ASSUME TypeOK, [LeaseNext]_leaseVars, NoLapse'
  PROVE  NoLapse
BY ProcessAssumption
   DEF TypeOK, LeaseNext, leaseVars, NoLapse, Acquire, Take, Leave, Release, Lapse

LEMMA ExclusiveStep == TypeOK /\ ExclusiveInv /\ [Next]_vars => ExclusiveInv'
<1> SUFFICES ASSUME TypeOK, ExclusiveInv, [LeaseNext]_leaseVars, NoLapse'
             PROVE  \A c \in working' : owner' = c
  BY LeaseStep DEF ExclusiveInv
<1>1. NoLapse /\ \A c \in working : owner = c
  BY CalmBefore DEF ExclusiveInv
<1>2. working \subseteq Process
  BY DEF TypeOK
<1>3. CASE Lapse
  BY <1>1, <1>3, ProcessAssumption DEF Lapse, NoLapse, TypeOK
<1>4. QED
  BY <1>1, <1>2, <1>3, ProcessAssumption
     DEF LeaseNext, leaseVars, Acquire, Take, Leave, Release

\* One call at most drains.
LEMMA OneDrains ==
  ASSUME TypeOK, ExclusiveInv, NoLapse, NEW c \in Process, call[c].at \in Draining
  PROVE  \A d \in Process \ {c} : call[d].at \notin Draining
BY DEF TypeOK, ExclusiveInv

\* A call that has something in its hands still has it, and nobody else has.
Keeps(d) ==
  call[d].at \in Holding \/ call'[d].at \in Holding =>
    call'[d].at = call[d].at /\ call'[d].batch = call[d].batch
Quiet == UNCHANGED <<mode, queue, sent, handled>> /\ \A d \in Process : Keeps(d)

LEMMA KeepsOthers ==
  ASSUME NEW c \in Process, Keeps(c), \A d \in Process \ {c} : call'[d] = call[d]
  PROVE  \A d \in Process : Keeps(d)
BY DEF Keeps

LEMMA OutsideKeeps ==
  ASSUME TypeOK, NEW c \in Process, Outside(c)
  PROVE  \A d \in Process : Keeps(d)
<1>1. /\ call[c].at \notin Holding /\ call'[c].at \notin Holding
      /\ \A d \in Process \ {c} : call'[d] = call[d]
  BY OutsideGoes DEF Goes, Holding
<1>2. QED
  BY <1>1 DEF Keeps

LEMMA ResolveKeeps ==
  ASSUME TypeOK, NEW c \in Process, NEW ms \in SUBSET Message, NEW place \in Place,
         Resolve(c, ms, place)
  PROVE  /\ call'[c].at = place /\ call'[c].batch = call[c].batch
         /\ \A d \in Process \ {c} :
              /\ Keeps(d)
              /\ call'[d].at \in Draining => call'[d].at = call[d].at
<1>1. /\ call'[c].at = place /\ call'[c].batch = call[c].batch
      /\ \A d \in Process \ {c} :
           \/ call'[d] = call[d]
           \/ /\ d \in ms /\ call[d].at = "await" /\ call'[d].at = "done"
              /\ call'[d].result = "true"
  BY ResolveSteps, SMTT(30)
<1>2. QED
  BY <1>1 DEF Keeps, Holding, Draining

LEMMA QuietSteps ==
  ASSUME TypeOK, NEW c \in Process,
         \/ Poll(c) \/ TimeOut(c) \/ Start(c) \/ Refused(c) \/ ReleaseLock(c)
         \/ ReleaseThrows(c) \/ AcquireThrows(c) \/ ShiftThrows(c)
         \/ Prepare(c) \/ Size(c) \/ Wake(c) \/ Timer(c) \/ NotifyCommit(c) \/ Shift(c)
         \/ TryAcquire(c) \/ LeaveDrain(c) \/ Commit(c) \/ Recheck(c)
  PROVE  Quiet
<1> USE DEF history
<1>1. CASE \/ Poll(c) \/ TimeOut(c) \/ Start(c) \/ Refused(c) \/ ReleaseLock(c)
           \/ ReleaseThrows(c) \/ AcquireThrows(c) \/ ShiftThrows(c)
  <2>1. UNCHANGED <<mode, queue, sent, handled>>
    BY <1>1 DEF Poll, TimeOut, Start, Refused, ReleaseLock, ReleaseThrows,
                AcquireThrows, ShiftThrows
  <2>2. QED
    BY <1>1, <2>1, OutsideKeeps DEF Outside, Quiet
<1>2. CASE \/ Prepare(c) \/ Size(c) \/ Wake(c) \/ TryAcquire(c) \/ LeaveDrain(c)
           \/ Commit(c)
  <2>1. UNCHANGED <<mode, queue, sent, handled>>
    BY <1>2 DEF Prepare, Size, Wake, TryAcquire, LeaveDrain, Commit
  <2>2. call[c].at \notin Holding
    BY <1>2 DEF Prepare, Size, Wake, TryAcquire, LeaveDrain, Commit, Holding
  <2>3. /\ call'[c].at \notin Holding
        /\ \A d \in Process \ {c} : call'[d] = call[d]
    BY <1>2, GotoSteps, TryAcquireGoes, LeaveDrainGoes, CommitSteps DEF Goes, Holding
  <2>4. QED
    BY <2>1, <2>2, <2>3, KeepsOthers DEF Keeps, Quiet
<1>3. CASE Recheck(c)
  <2>1. UNCHANGED <<mode, queue, sent, handled>> /\ call[c].at \notin Holding
    BY <1>3 DEF Recheck, Holding
  <2>2. /\ call'[c].at \notin Holding
        /\ \A d \in Process \ {c} : call'[d] = call[d]
    BY <1>3, RecheckSteps, FirstStepIs DEF Holding
  <2>3. QED
    BY <2>1, <2>2, KeepsOthers DEF Keeps, Quiet
<1>4. CASE Timer(c)
  <2>1. UNCHANGED <<mode, queue, sent, handled>>
    BY <1>4 DEF Timer, TimeUp, Beat, BeatRefused, BeatAgain,
                BeatThrows
  <2>2. /\ call'[c].at = call[c].at /\ call'[c].batch = call[c].batch
        /\ \A d \in Process \ {c} : call'[d] = call[d]
    BY <1>4, TimeUpGoes, BeatGoes DEF Timer, Goes
  <2>3. QED
    BY <2>1, <2>2, KeepsOthers DEF Keeps, Quiet
<1>5. CASE NotifyCommit(c)
  <2> DEFINE ms == {m \in call[c].loop : Policy[m] = "Commit"}
  <2>1. "recheck" \in Place /\ "recheck" \notin Holding
    BY DEF Place, Draining, Holding
  <2>2. ms \in SUBSET Message
    BY CallTypes, FieldTypes
  <2>3. Resolve(c, ms, "recheck") /\ call[c].at \notin Holding
        /\ UNCHANGED <<mode, queue, sent, handled>>
    BY <1>5 DEF NotifyCommit, Holding
  <2> HIDE DEF ms
  <2>4. call'[c].at = "recheck" /\ \A d \in Process \ {c} : Keeps(d)
    BY <2>1, <2>2, <2>3, ResolveKeeps
  <2>5. Keeps(c)
    BY <2>1, <2>3, <2>4 DEF Keeps
  <2>6. QED
    BY <2>3, <2>4, <2>5 DEF Quiet
<1>6. CASE Shift(c)
  <2>1. UNCHANGED <<mode, queue, sent, handled>> /\ call[c].at \notin Holding
    BY <1>6 DEF Shift, Holding
  <2>2. PICK s \in Successor :
          /\ call[s].at = "idle" /\ call'[s].at = "acquire"
          /\ call'[c].at \in {"done", "await"}
          /\ \A d \in Process \ {c, s} : call'[d] = call[d]
    BY <1>6, ShiftSteps
  <2>3. QED
    BY <2>1, <2>2 DEF Keeps, Quiet, Holding
<1>7. QED
  BY <1>1, <1>2, <1>3, <1>4, <1>5, <1>6

\* What every step of the drain shows as long as no lease lapsed: the batches
\* are still the oldest part of the queue, the mailbox makes a step of its
\* own, and the order is kept.
MailNext == IF mode.consume = "bulk" THEN Mail!AtMostOnceNext ELSE Mail!AtLeastOnceNext
Orderly == BatchInv' /\ [MailNext]_(Mail!mailVars) /\ OrderInv'

USE DEF Mail!mailVars

LEMMA QuietTaken ==
  ASSUME mode' = mode, \A d \in Process : Keeps(d)
  PROVE  Taken' = Taken /\ HeadWasHandled' = HeadWasHandled
<1>1. InHand' = InHand
  BY DEF InHand, Keeps, Holding
<1>2. Taken' = Taken
  <2>1. CASE InHand = {}
    BY <1>1, <2>1 DEF Taken
  <2>2. CASE InHand # {}
    <3>1. (CHOOSE c \in InHand : TRUE) \in InHand
      BY <2>2
    <3>2. \A d \in InHand : call'[d].batch = call[d].batch
      BY DEF InHand, Keeps, Holding
    <3>3. QED
      BY <1>1, <2>2, <3>1, <3>2 DEF Taken
  <2>3. QED
    BY <2>1, <2>2
<1>3. HeadWasHandled' = HeadWasHandled
  BY DEF HeadWasHandled, Keeps, Holding
<1>4. QED
  BY <1>2, <1>3

LEMMA QuietIsOrderly ==
  ASSUME Quiet, BatchInv, OrderInv, NoLapse, NothingWrong' => NothingWrong
  PROVE  Orderly
<1>1. Taken' = Taken /\ HeadWasHandled' = HeadWasHandled
  BY QuietTaken DEF Quiet
<1>2. BatchInv'
  BY DEF Quiet, Keeps, Holding, BatchInv, HeldIsOldest
<1>3. UNCHANGED Mail!mailVars
  BY <1>1 DEF Quiet
<1>4. OrderInv'
  BY <1>1 DEF Quiet, OrderInv, Pending
<1>5. QED
  BY <1>2, <1>3, <1>4 DEF Orderly

\* A message behind the others.
LEMMA AppendBehind ==
  ASSUME NEW h \in Seq(Message), NEW s \in Seq(Message), NEW e \in Message
  PROVE  Append(h \o s, e) = h \o Append(s, e)
<1>1. <<e>> \in Seq(Message)
  OBVIOUS
<1>2. h \o s \in Seq(Message)
  BY ConcatProperties
<1>3. Append(h \o s, e) = (h \o s) \o <<e>>
  BY <1>2, AppendIsConcat
<1>4. Append(s, e) = s \o <<e>>
  BY AppendIsConcat
<1>5. (h \o s) \o <<e>> = h \o (s \o <<e>>)
  BY <1>1, ConcatAssociative, SMTT(60)
<1>6. QED
  BY <1>3, <1>4, <1>5

\* The oldest message goes from one sequence to the other.
LEMMA HeadMoves ==
  ASSUME NEW S, NEW h \in Seq(S), NEW s \in Seq(S), s # <<>>
  PROVE  /\ h \o <<Head(s)>> = Append(h, Head(s))
         /\ h \o s = Append(h, Head(s)) \o Tail(s)
<1>1. Head(s) \in S /\ Tail(s) \in Seq(S)
  BY HeadTailProperties
<1>2. h \o <<Head(s)>> = Append(h, Head(s))
  BY <1>1, AppendIsConcat
<1>3. <<Head(s)>> \in Seq(S)
  BY <1>1
<1>4. s = <<Head(s)>> \o Tail(s)
  BY <1>1
<1>5. (h \o <<Head(s)>>) \o Tail(s) = h \o (<<Head(s)>> \o Tail(s))
  BY <1>1, <1>3, ConcatAssociative, SMTT(60)
<1>6. QED
  BY <1>2, <1>4, <1>5

\* So do the n oldest ones.
LEMMA BatchMoves ==
  ASSUME NEW S, NEW s \in Seq(S), NEW n \in 1..Len(s)
  PROVE  SubSeq(s, 1, n) \o SubSeq(s, n + 1, Len(s)) = s
<1>1. Len(s) \in Nat
  OBVIOUS
<1>2. 1 \in 1..Len(s)+1 /\ n \in 0..Len(s) /\ Len(s) \in n..Len(s)
  BY <1>1
<1>3. SubSeq(s, 1, n) \o SubSeq(s, n + 1, Len(s)) = SubSeq(s, 1, Len(s))
  BY <1>2, ConcatAdjacentSubSeq
<1>4. QED
  BY <1>3, SubSeqFull

LEMMA PrefixOfAppend ==
  ASSUME NEW S, NEW s \in Seq(S), NEW e \in S, NEW n \in 0..Len(s)
  PROVE  /\ n \in 0..Len(Append(s, e))
         /\ SubSeq(Append(s, e), 1, n) = SubSeq(s, 1, n)
<1>1. Len(Append(s, e)) = Len(s) + 1
  BY AppendProperties
<1>2. QED
  BY <1>1

LEMMA Sequences ==
  TypeOK => /\ queue \in Seq(Message) /\ sent \in Seq(Message)
            /\ handled \in Seq(Message)
            /\ \A c \in Process : call[c].batch \in Seq(Message)
BY CallTypes, FieldTypes DEF TypeOK

\* What is taken is of a legal form.
LEMMA TakenType ==
  ASSUME TypeOK
  PROVE  Taken \in Seq(Message)
<1>1. CASE InHand = {}
  <2> DEFINE none == <<>>
  <2>1. none \in Seq(Message)
    OBVIOUS
  <2>2. QED
    BY <1>1, <2>1 DEF Taken
<1>2. CASE InHand # {}
  <2>1. (CHOOSE c \in InHand : TRUE) \in InHand
    BY <1>2
  <2>2. (CHOOSE c \in InHand : TRUE) \in Process
    BY <2>1 DEF InHand
  <2>3. QED
    BY <1>2, <2>2, Sequences DEF Taken
<1>3. QED
  BY <1>1, <1>2

\* A push: what is in hand stays, and the queue grows behind it.
LEMMA PushIsOrderly ==
  ASSUME TypeOK, BatchInv, OrderInv, NoLapse, NothingWrong' => NothingWrong,
         NEW c \in Message, queue' = Append(queue, c), sent' = Append(sent, c),
         UNCHANGED <<mode, handled>>, \A d \in Process : Keeps(d)
  PROVE  Orderly
<1>1. Taken' = Taken /\ HeadWasHandled' = HeadWasHandled
  BY QuietTaken
<1>2. queue \in Seq(Message) /\ handled \in Seq(Message)
  BY Sequences
<1>3. /\ queue' # <<>>
      /\ queue # <<>> => Head(queue') = Head(queue) /\ Tail(queue') = Append(Tail(queue), c)
  BY <1>2, AppendProperties, HeadTailAppend
<1>4. BatchInv'
  <2> SUFFICES ASSUME NEW d \in Process
               PROVE  HeldIsOldest(d)'
    BY DEF BatchInv
  <2>1. HeldIsOldest(d) /\ Keeps(d)
    BY DEF BatchInv
  <2>2. mode.consume = "single" =>
          /\ call'[d].at = "handle"
               => queue' # <<>> /\ call'[d].batch = <<Head(queue')>>
          /\ call'[d].at \in {"resolve", "pop"}
               => queue' # <<>> /\ \E i \in DOMAIN handled : handled[i] = Head(queue')
    BY <1>3, <2>1 DEF HeldIsOldest, Keeps, Holding
  <2>3. ASSUME call'[d].at = "ltrim"
        PROVE  /\ Len(call'[d].batch) \in 1..Len(queue')
               /\ call'[d].batch = SubSeq(queue', 1, Len(call'[d].batch))
    <3>1. call'[d].batch = call[d].batch /\ call[d].at = "ltrim"
      BY <2>1, <2>3 DEF Keeps, Holding
    <3>2. /\ Len(call[d].batch) \in 1..Len(queue)
          /\ call[d].batch = SubSeq(queue, 1, Len(call[d].batch))
      BY <2>1, <3>1 DEF HeldIsOldest
    <3>3. Len(queue) \in Nat
      BY <1>2
    <3>4. Len(call[d].batch) \in 0..Len(queue) /\ Len(call[d].batch) > 0
      BY <3>2, <3>3
    <3>5. QED
      BY <1>2, <3>1, <3>2, <3>4, PrefixOfAppend
  <2>4. QED
    BY <2>2, <2>3 DEF HeldIsOldest
<1>5. Mail!Send(c)
  BY <1>1 DEF Mail!Send
<1>6. OrderInv'
  <2> SUFFICES ASSUME NothingWrong
               PROVE  sent' = handled \o Pending'
    BY DEF OrderInv
  <2>1. sent = handled \o Pending
    BY DEF OrderInv
  <2>2. Pending \in Seq(Message) /\ Pending' = Append(Pending, c)
    <3>1. CASE HeadWasHandled
      <4>1. queue # <<>>
        BY <3>1 DEF HeadWasHandled, BatchInv, HeldIsOldest
      <4>2. QED
        BY <1>1, <1>2, <1>3, <3>1, <4>1, HeadTailProperties DEF Pending
    <3>2. CASE ~HeadWasHandled
      <4>1. Taken \in Seq(Message)
        BY TakenType
      <4>2. Pending = Taken \o queue /\ Pending' = Taken \o Append(queue, c)
        BY <1>1, <3>2 DEF Pending
      <4>3. QED
        BY <1>2, <4>1, <4>2, AppendBehind, ConcatProperties
    <3>3. QED
      BY <3>1, <3>2
  <2>3. Append(handled \o Pending, c) = handled \o Append(Pending, c)
    <3>1. Pending \in Seq(Message)
      BY <2>2
    <3>2. QED
      BY <1>2, <3>1, AppendBehind, Zenon
  <2>4. sent' = Append(handled \o Pending, c)
    BY <2>1
  <2>5. QED
    BY <2>2, <2>3, <2>4
<1>7. QED
  BY <1>4, <1>5, <1>6 DEF Orderly, MailNext, Mail!AtMostOnceNext, Mail!AtLeastOnceNext

\* A step of the call c that drains, while nobody else does.
Alone(c) == \A d \in Process \ {c} : call[d].at \notin Draining /\ call'[d].at \notin Draining

\* What c has in its hands in the state before and in the state after.
LEMMA TakenAlone ==
  ASSUME NEW c \in Process, Alone(c), mode' = mode
  PROVE  /\ Taken = IF mode.consume = "bulk" /\ call[c].at = "handle"
                      THEN call[c].batch ELSE <<>>
         /\ Taken' = IF mode.consume = "bulk" /\ call'[c].at = "handle"
                       THEN call'[c].batch ELSE <<>>
         /\ HeadWasHandled <=> mode.consume = "single" /\ call[c].at \in {"resolve", "pop"}
         /\ HeadWasHandled' <=> mode.consume = "single" /\ call'[c].at \in {"resolve", "pop"}
<1>1. \A d \in Process \ {c} :
        /\ call[d].at \notin {"handle", "resolve", "pop"}
        /\ call'[d].at \notin {"handle", "resolve", "pop"}
  BY DEF Alone, Draining
<1>2. InHand = IF mode.consume = "bulk" /\ call[c].at = "handle" THEN {c} ELSE {}
  BY <1>1 DEF InHand
<1>3. InHand' = IF mode.consume = "bulk" /\ call'[c].at = "handle" THEN {c} ELSE {}
  BY <1>1 DEF InHand
<1>4. (CHOOSE d \in {c} : TRUE) = c
  OBVIOUS
<1>5. /\ HeadWasHandled <=> mode.consume = "single" /\ call[c].at \in {"resolve", "pop"}
      /\ HeadWasHandled' <=> mode.consume = "single" /\ call'[c].at \in {"resolve", "pop"}
  BY <1>1 DEF HeadWasHandled
<1>6. QED
  BY <1>2, <1>3, <1>4, <1>5 DEF Taken

LEMMA BatchAlone ==
  ASSUME NEW c \in Process, Alone(c), HeldIsOldest(c)'
  PROVE  BatchInv'
BY DEF Alone, Draining, BatchInv, HeldIsOldest

\* Somebody who goes on within its drain.
LEMMA GoesAlone ==
  ASSUME TypeOK, ExclusiveInv, NoLapse, NEW c \in Process, call[c].at \in Draining,
         \A d \in Process \ {c} : call'[d] = call[d]
  PROVE  Alone(c)
BY OneDrains DEF Alone

\* Without an empty sequence in the way.
LEMMA NothingTaken ==
  ASSUME NEW s \in Seq(Message)
  PROVE  <<>> \o s = s
BY ConcatEmptySeq

LEMMA PeekIsOrderly ==
  ASSUME TypeOK, ModeInv, ExclusiveInv, BatchInv, OrderInv, NoLapse,
         NothingWrong' => NothingWrong, NEW c \in Process, Peek(c)
  PROVE  Orderly
<1>1. UNCHANGED <<mode, queue, sent, handled>> /\ call[c].at = "peek"
  BY DEF Peek, history
<1>2. CASE queue = <<>>
  <2>1. call'[c].at = "commit" /\ \A d \in Process \ {c} : call'[d] = call[d]
    BY <1>2, PeekGoes DEF Goes
  <2>2. Quiet
    BY <1>1, <2>1, KeepsOthers DEF Keeps, Quiet, Holding
  <2>3. QED
    BY <2>2, QuietIsOrderly
<1>3. CASE queue # <<>>
  <2>1. /\ call'[c].at = "handle" /\ call'[c].batch = <<Head(queue)>>
        /\ \A d \in Process \ {c} : call'[d] = call[d]
    BY <1>3, PeekGoes DEF Goes
  <2>2. mode.consume # "bulk"
    BY <1>1 DEF ModeInv, Fits
  <2>3. Alone(c)
    BY <1>1, <2>1, GoesAlone DEF Draining
  <2>4. Taken = <<>> /\ Taken' = <<>> /\ ~HeadWasHandled /\ ~HeadWasHandled'
    BY <1>1, <2>1, <2>2, <2>3, TakenAlone
  <2>5. HeldIsOldest(c)'
    BY <1>1, <1>3, <2>1 DEF HeldIsOldest
  <2>6. OrderInv'
    BY <1>1, <2>4 DEF OrderInv, Pending
  <2>7. UNCHANGED Mail!mailVars
    BY <1>1, <2>4
  <2>8. QED
    BY <2>3, <2>5, <2>6, <2>7, BatchAlone DEF Orderly
<1>4. QED
  BY <1>2, <1>3

LEMMA ReadAllIsOrderly ==
  ASSUME TypeOK, ModeInv, ExclusiveInv, BatchInv, OrderInv, NoLapse,
         NothingWrong' => NothingWrong, NEW c \in Process, ReadAll(c)
  PROVE  Orderly
<1>1. UNCHANGED <<mode, queue, sent, handled>> /\ call[c].at = "lrange"
  BY DEF ReadAll, history
<1>2. CASE queue = <<>>
  <2>1. call'[c].at = "commit" /\ \A d \in Process \ {c} : call'[d] = call[d]
    BY <1>2, ReadAllGoes DEF Goes
  <2>2. Quiet
    BY <1>1, <2>1, KeepsOthers DEF Keeps, Quiet, Holding
  <2>3. QED
    BY <2>2, QuietIsOrderly
<1>3. CASE queue # <<>>
  <2>1. /\ call'[c].at = "ltrim" /\ call'[c].batch = queue
        /\ \A d \in Process \ {c} : call'[d] = call[d]
    BY <1>3, ReadAllGoes DEF Goes
  <2>2. Alone(c)
    BY <1>1, <2>1, GoesAlone DEF Draining
  <2>3. Taken = <<>> /\ Taken' = <<>> /\ ~HeadWasHandled /\ ~HeadWasHandled'
    BY <1>1, <2>1, <2>2, TakenAlone
  <2>4. Len(queue) \in 1..Len(queue) /\ queue = SubSeq(queue, 1, Len(queue))
    BY <1>3, Sequences, EmptySeq, SubSeqFull
  <2>5. HeldIsOldest(c)'
    BY <1>1, <2>1, <2>4 DEF HeldIsOldest
  <2>6. OrderInv'
    BY <1>1, <2>3 DEF OrderInv, Pending
  <2>7. UNCHANGED Mail!mailVars
    BY <1>1, <2>3
  <2>8. QED
    BY <2>2, <2>5, <2>6, <2>7, BatchAlone DEF Orderly
<1>4. QED
  BY <1>2, <1>3

LEMMA ResolveActIsOrderly ==
  ASSUME TypeOK, ExclusiveInv, BatchInv, OrderInv, NoLapse,
         NothingWrong' => NothingWrong, NEW c \in Process, ResolveAct(c)
  PROVE  Orderly
<1> DEFINE ms == {m \in call[c].local : Policy[m] = "Act"}
           place == IF mode.consume = "single" THEN "pop" ELSE NextBatch(call[c])
<1>1. /\ UNCHANGED <<mode, queue, sent, handled>> /\ call[c].at = "resolve"
      /\ Resolve(c, ms, place)
  BY DEF ResolveAct, history
<1>2. place \in Place /\ place # "handle" /\ (place \in Holding <=> mode.consume = "single")
      /\ (place \in {"resolve", "pop"} <=> mode.consume = "single") /\ place # "ltrim"
  BY DEF NextBatch, Place, Draining, Holding
<1>3. ms \in SUBSET Message
  BY CallTypes, FieldTypes
<1> HIDE DEF ms, place
<1>4. /\ call'[c].at = place
      /\ \A d \in Process \ {c} : call'[d].at \in Draining => call'[d].at = call[d].at
  BY <1>1, <1>2, <1>3, ResolveKeeps
<1>5. Alone(c)
  BY <1>1, <1>4, OneDrains DEF Alone, Draining
<1>6. Taken = <<>> /\ Taken' = <<>> /\ (HeadWasHandled' <=> HeadWasHandled)
  BY <1>1, <1>2, <1>4, <1>5, TakenAlone
<1>7. HeldIsOldest(c)'
  <2>1. HeldIsOldest(c)
    BY DEF BatchInv
  <2>2. QED
    BY <1>1, <1>2, <1>4, <2>1 DEF HeldIsOldest
<1>8. OrderInv'
  BY <1>1, <1>6 DEF OrderInv, Pending
<1>9. UNCHANGED Mail!mailVars
  BY <1>1, <1>6
<1>10. QED
  BY <1>5, <1>7, <1>8, <1>9, BatchAlone DEF Orderly

\* In single mode what is handled is the head of the queue, as a step of the
\* mailbox and for the order.
LEMMA HandledHead ==
  ASSUME TypeOK, BatchInv, NoLapse, NEW c \in Process, mode.consume = "single",
         call[c].at = "handle"
  PROVE  /\ queue # <<>>
         /\ handled \o call[c].batch = Append(handled, Head(queue))
         /\ handled \o queue = Append(handled, Head(queue)) \o Tail(queue)
         /\ \E i \in DOMAIN Append(handled, Head(queue)) :
              Append(handled, Head(queue))[i] = Head(queue)
<1>1. queue # <<>> /\ call[c].batch = <<Head(queue)>>
  BY DEF BatchInv, HeldIsOldest
<1>2. queue \in Seq(Message) /\ handled \in Seq(Message)
  BY Sequences
<1>3. Head(queue) \in Message
  BY <1>1, <1>2, HeadTailProperties
<1>4. /\ handled \o <<Head(queue)>> = Append(handled, Head(queue))
      /\ handled \o queue = Append(handled, Head(queue)) \o Tail(queue)
  BY <1>1, <1>2, HeadMoves, SMTT(60)
<1>5. /\ Len(handled) + 1 \in DOMAIN Append(handled, Head(queue))
      /\ Append(handled, Head(queue))[Len(handled) + 1] = Head(queue)
  BY <1>2, <1>3, AppendProperties
<1>6. QED
  BY <1>1, <1>4, <1>5

\* In bulk mode the LTRIM removes what the LRANGE read, and nothing that was
\* pushed since.
LEMMA TrimmedIsRest ==
  ASSUME TypeOK, BatchInv, NoLapse, NEW c \in Process, call[c].at = "ltrim"
  PROVE  \E n \in 1..Len(queue) :
           /\ call[c].batch = SubSeq(queue, 1, n)
           /\ Trimmed(c) = SubSeq(queue, n + 1, Len(queue))
           /\ call[c].batch \o Trimmed(c) = queue
<1>1. /\ Len(call[c].batch) \in 1..Len(queue)
      /\ call[c].batch = SubSeq(queue, 1, Len(call[c].batch))
  BY DEF BatchInv, HeldIsOldest
<1>2. queue \in Seq(Message)
  BY Sequences
<1> DEFINE n == Len(call[c].batch)
<1>3. SubSeq(queue, 1, n) \o SubSeq(queue, n + 1, Len(queue)) = queue
  BY <1>1, <1>2, BatchMoves
<1>4. Trimmed(c) = SubSeq(queue, n + 1, Len(queue))
  BY DEF Trimmed
<1>5. QED
  BY <1>1, <1>3, <1>4

LEMMA Regrouped ==
  ASSUME NEW h \in Seq(Message), NEW b \in Seq(Message), NEW s \in Seq(Message)
  PROVE  h \o (b \o s) = (h \o b) \o s
BY ConcatAssociative, SMTT(60)

LEMMA HandleIsOrderly ==
  ASSUME TypeOK, ExclusiveInv, BatchInv, OrderInv, NoLapse,
         NothingWrong' => NothingWrong, NEW c \in Process, Handle(c)
  PROVE  Orderly
<1>1. /\ UNCHANGED <<mode, queue, sent>> /\ call[c].at = "handle"
      /\ handled' = handled \o call[c].batch
  BY DEF Handle
<1>2. /\ call'[c].at = AfterHandling(c) /\ call'[c].batch = call[c].batch
      /\ \A d \in Process \ {c} : call'[d] = call[d]
  BY HandleSteps
<1>3. /\ AfterHandling(c) \in {"resolve", "pop"}
      /\ mode.consume = "bulk" => AfterHandling(c) = "resolve"
  BY DEF AfterHandling
<1>4. Alone(c)
  BY <1>1, <1>2, GoesAlone DEF Draining
<1>5. CASE mode.consume = "single"
  <2>1. /\ queue # <<>>
        /\ handled' = Append(handled, Head(queue))
        /\ handled \o queue = handled' \o Tail(queue)
        /\ \E i \in DOMAIN handled' : handled'[i] = Head(queue)
    BY <1>1, <1>5, HandledHead
  <2>2. Taken = <<>> /\ Taken' = <<>> /\ ~HeadWasHandled /\ HeadWasHandled'
    BY <1>1, <1>2, <1>3, <1>4, <1>5, TakenAlone
  <2>3. HeldIsOldest(c)'
    BY <1>1, <1>2, <1>3, <1>5, <2>1 DEF HeldIsOldest
  <2>4. Mail!HandleHead
    BY <1>1, <2>1, <2>2 DEF Mail!HandleHead
  <2>5. OrderInv'
    <3>1. <<>> \o queue = queue
      BY Sequences, NothingTaken
    <3>2. QED
      BY <1>1, <2>1, <2>2, <3>1 DEF OrderInv, Pending
  <2>6. QED
    BY <1>4, <1>5, <2>3, <2>4, <2>5, BatchAlone
       DEF Orderly, MailNext, Mail!AtLeastOnceNext
<1>6. CASE mode.consume = "bulk"
  <2>1. /\ Taken = call[c].batch /\ Taken' = <<>>
        /\ ~HeadWasHandled /\ ~HeadWasHandled'
    BY <1>1, <1>2, <1>3, <1>4, <1>6, TakenAlone
  <2>2. HeldIsOldest(c)'
    BY <1>1, <1>2, <1>3, <1>6 DEF HeldIsOldest
  <2>3. Mail!HandleBatch
    BY <1>1, <2>1 DEF Mail!HandleBatch
  <2>4. OrderInv'
    <3>1. <<>> \o queue = queue
      BY Sequences, NothingTaken
    <3>2. handled \o (call[c].batch \o queue) = (handled \o call[c].batch) \o queue
      BY Sequences, Regrouped, ZenonT(60)
    <3>3. QED
      BY <1>1, <2>1, <3>1, <3>2 DEF OrderInv, Pending
  <2>5. QED
    BY <1>4, <1>6, <2>2, <2>3, <2>4, BatchAlone
       DEF Orderly, MailNext, Mail!AtMostOnceNext
<1>7. QED
  BY <1>5, <1>6, OneConsumer

LEMMA PopIsOrderly ==
  ASSUME TypeOK, ModeInv, ExclusiveInv, BatchInv, OrderInv, NoLapse,
         NothingWrong' => NothingWrong, NEW c \in Process, Pop(c)
  PROVE  Orderly
<1>1. /\ UNCHANGED <<mode, sent, handled>> /\ call[c].at = "pop" /\ queue' = Popped
  BY DEF Pop, history
<1>2. /\ call'[c].at \in {"size", "commit"}
      /\ \A d \in Process \ {c} : call'[d] = call[d]
  BY PopGoes DEF Goes
<1>3. mode.consume = "single"
  BY <1>1, OneConsumer DEF ModeInv, Fits
<1>4. Alone(c)
  BY <1>1, <1>2, GoesAlone DEF Draining
<1>5. queue # <<>> /\ \E i \in DOMAIN handled : handled[i] = Head(queue)
  BY <1>1, <1>3 DEF BatchInv, HeldIsOldest
<1>6. Taken = <<>> /\ Taken' = <<>> /\ HeadWasHandled /\ ~HeadWasHandled'
  BY <1>1, <1>2, <1>3, <1>4, TakenAlone
<1>7. HeldIsOldest(c)'
  BY <1>2 DEF HeldIsOldest
<1>8. queue' = Tail(queue)
  BY <1>1, <1>5 DEF Popped
<1>9. Mail!DropHead
  BY <1>1, <1>5, <1>6, <1>8 DEF Mail!DropHead
<1>10. OrderInv'
  <2>1. <<>> \o Tail(queue) = Tail(queue)
    BY <1>5, Sequences, HeadTailProperties, NothingTaken
  <2>2. QED
    BY <1>1, <1>6, <1>8, <2>1 DEF OrderInv, Pending
<1>11. QED
  BY <1>3, <1>4, <1>7, <1>9, <1>10, BatchAlone
     DEF Orderly, MailNext, Mail!AtLeastOnceNext

LEMMA TrimIsOrderly ==
  ASSUME TypeOK, ModeInv, ExclusiveInv, BatchInv, OrderInv, NoLapse,
         NothingWrong' => NothingWrong, NEW c \in Process, Trim(c)
  PROVE  Orderly
<1>1. /\ UNCHANGED <<mode, sent, handled>> /\ call[c].at = "ltrim"
      /\ queue' = Trimmed(c)
  BY DEF Trim, history
<1>2. /\ call'[c].at = "handle" /\ call'[c].batch = call[c].batch
      /\ \A d \in Process \ {c} : call'[d] = call[d]
  BY GotoSteps DEF Goes
<1>3. mode.consume = "bulk"
  BY <1>1, OneConsumer DEF ModeInv, Fits
<1>4. Alone(c)
  BY <1>1, <1>2, GoesAlone DEF Draining
<1>5. PICK n \in 1..Len(queue) :
        /\ call[c].batch = SubSeq(queue, 1, n)
        /\ queue' = SubSeq(queue, n + 1, Len(queue))
        /\ call[c].batch \o queue' = queue
  BY <1>1, TrimmedIsRest
<1>6. /\ Taken = <<>> /\ Taken' = call[c].batch
      /\ ~HeadWasHandled /\ ~HeadWasHandled'
  BY <1>1, <1>2, <1>3, <1>4, TakenAlone
<1>7. HeldIsOldest(c)'
  BY <1>1, <1>2, <1>3 DEF HeldIsOldest
<1>8. Mail!TakeBatch(n)
  BY <1>1, <1>5, <1>6 DEF Mail!TakeBatch
<1>9. OrderInv'
  <2>1. <<>> \o queue = queue
    BY Sequences, NothingTaken
  <2>2. QED
    BY <1>1, <1>5, <1>6, <2>1 DEF OrderInv, Pending
<1>10. QED
  BY <1>3, <1>4, <1>5, <1>7, <1>8, <1>9, BatchAlone
     DEF Orderly, MailNext, Mail!AtMostOnceNext

LEMMA ThrowIsOrderly ==
  ASSUME TypeOK, ModeInv, ExclusiveInv, BatchInv, NoLapse, NEW c \in Process, Throw(c)
  PROVE  Orderly
<1>1. /\ UNCHANGED <<mode, sent>> /\ call[c].at \in Draining
      /\ handled' = IF call[c].at = "handle" THEN handled \o call[c].batch ELSE handled
      /\ \/ UNCHANGED queue
         \/ call[c].at = "pop" /\ queue' = Popped
         \/ call[c].at = "ltrim" /\ queue' = Trimmed(c)
  BY DEF Throw, Draining
<1>2. call'[c].at = "leave" /\ \A d \in Process \ {c} : call'[d] = call[d]
  BY ThrowGoes DEF Goes
<1>3. Alone(c)
  BY <1>1, <1>2, GoesAlone
<1>4. HeldIsOldest(c)'
  BY <1>2 DEF HeldIsOldest
<1>5. OrderInv'
  <2>1. throws' # MaxThrows
    BY ProcessAssumption DEF Throw, TypeOK
  <2>2. QED
    BY <2>1 DEF OrderInv, NothingWrong
<1>6. Taken' = <<>>
  BY <1>1, <1>2, <1>3, TakenAlone
<1>7. CASE mode.consume = "single"
  <2>1. Taken = <<>>
    BY <1>1, <1>3, <1>7, TakenAlone
  <2>2. CASE call[c].at = "handle"
    <3>1. queue # <<>> /\ handled' = Append(handled, Head(queue)) /\ UNCHANGED queue
      BY <1>1, <1>7, <2>2, HandledHead
    <3>2. Mail!HandleHead
      BY <1>1, <1>6, <2>1, <3>1 DEF Mail!HandleHead
    <3>3. QED
      BY <1>3, <1>4, <1>5, <1>7, <3>2, BatchAlone
         DEF Orderly, MailNext, Mail!AtLeastOnceNext
  <2>3. CASE call[c].at = "pop" /\ queue' = Popped
    <3>1. queue # <<>> /\ \E i \in DOMAIN handled : handled[i] = Head(queue)
      BY <1>7, <2>3 DEF BatchInv, HeldIsOldest
    <3>2. Mail!DropHead
      BY <1>1, <1>6, <2>1, <2>3, <3>1 DEF Popped, Mail!DropHead
    <3>3. QED
      BY <1>3, <1>4, <1>5, <1>7, <3>2, BatchAlone
         DEF Orderly, MailNext, Mail!AtLeastOnceNext
  <2>4. CASE call[c].at # "handle" /\ UNCHANGED queue
    <3>1. UNCHANGED Mail!mailVars
      BY <1>1, <1>6, <2>1, <2>4
    <3>2. QED
      BY <1>3, <1>4, <1>5, <3>1, BatchAlone DEF Orderly
  <2>5. call[c].at # "ltrim"
    BY <1>7 DEF ModeInv, Fits
  <2>6. QED
    BY <1>1, <2>2, <2>3, <2>4, <2>5
<1>8. CASE mode.consume = "bulk"
  <2>1. CASE call[c].at = "handle"
    <3>1. Taken = call[c].batch
      BY <1>1, <1>3, <1>8, <2>1, TakenAlone
    <3>2. Mail!HandleBatch
      BY <1>1, <1>6, <2>1, <3>1 DEF Mail!HandleBatch
    <3>3. QED
      BY <1>3, <1>4, <1>5, <1>8, <3>2, BatchAlone
         DEF Orderly, MailNext, Mail!AtMostOnceNext
  <2>2. CASE call[c].at = "ltrim" /\ queue' = Trimmed(c)
    <3>1. PICK n \in 1..Len(queue) : queue' = SubSeq(queue, n + 1, Len(queue))
      BY <2>2, TrimmedIsRest
    <3>2. Taken = <<>>
      BY <1>1, <1>3, <2>2, TakenAlone
    <3>3. Mail!LoseOldest(n)
      BY <1>1, <1>6, <2>2, <3>1, <3>2 DEF Mail!LoseOldest
    <3>4. QED
      BY <1>3, <1>4, <1>5, <1>8, <3>1, <3>3, BatchAlone
         DEF Orderly, MailNext, Mail!AtMostOnceNext
  <2>3. CASE call[c].at # "handle" /\ UNCHANGED queue
    <3>1. Taken = <<>>
      BY <1>1, <1>3, <2>3, TakenAlone
    <3>2. UNCHANGED Mail!mailVars
      BY <1>1, <1>6, <2>3, <3>1
    <3>3. QED
      BY <1>3, <1>4, <1>5, <3>2, BatchAlone DEF Orderly
  <2>4. call[c].at # "pop"
    BY <1>8 DEF ModeInv, Fits
  <2>5. QED
    BY <1>1, <2>1, <2>2, <2>3, <2>4
<1>9. QED
  BY <1>7, <1>8, OneConsumer

LEMMA CrashIsOrderly ==
  ASSUME TypeOK, ModeInv, ExclusiveInv, BatchInv, NoLapse, NEW c \in Process, Crash(c)
  PROVE  Orderly
<1>1. UNCHANGED <<mode, queue, sent, handled>>
  BY DEF Crash, history
<1>2. call'[c].at = "crashed" /\ \A d \in Process \ {c} : call'[d] = call[d]
  BY GotoSteps DEF Goes
<1>3. OrderInv'
  <2>1. crashes' # MaxCrashes
    BY ProcessAssumption DEF Crash, TypeOK
  <2>2. QED
    BY <2>1 DEF OrderInv, NothingWrong
<1>4. BatchInv'
  BY <1>1, <1>2 DEF BatchInv, HeldIsOldest
<1>5. CASE call[c].at = "handle" /\ mode.consume = "bulk"
  <2>1. Alone(c)
    BY <1>2, <1>5, GoesAlone DEF Draining
  <2>2. Taken' = <<>>
    BY <1>1, <1>2, <2>1, TakenAlone
  <2>3. Mail!LoseBatch
    BY <1>1, <2>2 DEF Mail!LoseBatch
  <2>4. QED
    BY <1>3, <1>4, <1>5, <2>3 DEF Orderly, MailNext, Mail!AtMostOnceNext
<1>6. CASE ~(call[c].at = "handle" /\ mode.consume = "bulk")
  <2>1. InHand' = InHand /\ c \notin InHand
    BY <1>1, <1>2, <1>6 DEF InHand
  <2>2. Taken' = Taken
    <3>1. CASE InHand = {}
      BY <2>1, <3>1 DEF Taken
    <3>2. CASE InHand # {}
      <4>1. (CHOOSE d \in InHand : TRUE) \in InHand
        BY <3>2
      <4>2. \A d \in InHand : call'[d].batch = call[d].batch
        BY <1>2, <2>1 DEF InHand
      <4>3. QED
        BY <2>1, <3>2, <4>1, <4>2 DEF Taken
    <3>3. QED
      BY <3>1, <3>2
  <2>3. UNCHANGED Mail!mailVars
    BY <1>1, <2>2
  <2>4. QED
    BY <1>3, <1>4, <2>3 DEF Orderly
<1>7. QED
  BY <1>5, <1>6

\* What can go wrong and has, never comes back either.
LEMMA RightBefore ==
  ASSUME TypeOK, [Next]_vars, NothingWrong'
  PROVE  NothingWrong
<1> USE DEF history, budgets
<1>1. /\ throws \in 0..MaxThrows /\ crashes \in 0..MaxCrashes
      /\ MaxThrows \in Nat /\ MaxCrashes \in Nat
  BY ProcessAssumption DEF TypeOK
<1>2. throws' = throws \/ (throws' = throws - 1)
  <2>1. ASSUME NEW c \in Process, Outside(c) \/ Inside(c) \/ Timer(c)
        PROVE  throws' = throws \/ throws' = throws - 1
    BY <2>1, SMTT(60) DEF Outside, Enqueue, Poll, TimeOut, Start, Refused, ReleaseLock,
                ReleaseThrows, EnqueueThrows, AcquireThrows, ShiftThrows,
                Inside, Prepare, Size, Peek, Pop, ReadAll, Trim, Wake, Throw,
                Timer, TimeUp, Beat, BeatRefused, BeatAgain,
                BeatThrows
  <2>2. ASSUME NEW c \in Process,
               \/ Several(c) \/ TryAcquire(c) \/ LeaveDrain(c) \/ Crash(c)
               \/ Handle(c) \/ Commit(c) \/ Recheck(c)
        PROVE  throws' = throws \/ throws' = throws - 1
    BY <2>2 DEF Several, ResolveAct, NotifyCommit, Shift, TryAcquire, LeaveDrain,
                Crash, Handle, Commit, Recheck
  <2>3. CASE Elsewhere \/ UNCHANGED vars
    BY <2>3 DEF Elsewhere, ResolvedExpires, Expire, LeaseLapses, vars
  <2>4. QED
    BY <2>1, <2>2, <2>3, NextGroups
<1>3. crashes' = crashes \/ (crashes' = crashes - 1)
  <2>1. ASSUME NEW c \in Process, Outside(c) \/ Inside(c) \/ Timer(c)
        PROVE  crashes' = crashes
    BY <2>1, SMTT(60) DEF Outside, Enqueue, Poll, TimeOut, Start, Refused, ReleaseLock,
                ReleaseThrows, EnqueueThrows, AcquireThrows, ShiftThrows,
                Inside, Prepare, Size, Peek, Pop, ReadAll, Trim, Wake, Throw,
                Timer, TimeUp, Beat, BeatRefused, BeatAgain,
                BeatThrows
  <2>2. ASSUME NEW c \in Process,
               \/ Several(c) \/ TryAcquire(c) \/ LeaveDrain(c) \/ Crash(c)
               \/ Handle(c) \/ Commit(c) \/ Recheck(c)
        PROVE  crashes' = crashes \/ crashes' = crashes - 1
    BY <2>2 DEF Several, ResolveAct, NotifyCommit, Shift, TryAcquire, LeaveDrain,
                Crash, Handle, Commit, Recheck
  <2>3. CASE Elsewhere \/ UNCHANGED vars
    BY <2>3 DEF Elsewhere, ResolvedExpires, Expire, LeaseLapses, vars
  <2>4. QED
    BY <2>1, <2>2, <2>3, NextGroups, SMTT(60)
<1>4. throws = MaxThrows
  BY <1>1, <1>2 DEF NothingWrong
<1>5. crashes = MaxCrashes
  BY <1>1, <1>3 DEF NothingWrong
<1>6. NoLapse
  BY LeaseStep, CalmBefore DEF NothingWrong
<1>7. QED
  BY <1>4, <1>5, <1>6 DEF NothingWrong

LEMMA OrderlyStep ==
  ASSUME TypeOK, ModeInv, ExclusiveInv, BatchInv, OrderInv, [Next]_vars, NoLapse
  PROVE  Orderly
<1>1. NothingWrong' => NothingWrong
  BY RightBefore
<1>2. Message \subseteq Process
  BY ProcessAssumption DEF Message
<1>3. ASSUME NEW c \in Process, Enqueue(c) PROVE Orderly
  <2>1. /\ c \in Message /\ queue' = Append(queue, c) /\ sent' = Append(sent, c)
        /\ UNCHANGED <<mode, handled>>
    BY <1>3 DEF Enqueue
  <2>2. \A d \in Process : Keeps(d)
    BY <1>3, OutsideKeeps DEF Outside
  <2>3. QED
    BY <1>1, <2>1, <2>2, PushIsOrderly
<1>4. ASSUME NEW c \in Process, EnqueueThrows(c) PROVE Orderly
  <2>1. /\ c \in Message /\ UNCHANGED <<mode, handled>>
        /\ \/ queue' = Append(queue, c) /\ sent' = Append(sent, c)
           \/ UNCHANGED <<queue, sent>>
    BY <1>4 DEF EnqueueThrows
  <2>2. \A d \in Process : Keeps(d)
    BY <1>4, OutsideKeeps DEF Outside
  <2>3. CASE queue' = Append(queue, c) /\ sent' = Append(sent, c)
    BY <1>1, <2>1, <2>2, <2>3, PushIsOrderly
  <2>4. CASE UNCHANGED <<queue, sent>>
    BY <1>1, <2>1, <2>2, <2>4, QuietIsOrderly DEF Quiet
  <2>5. QED
    BY <2>1, <2>3, <2>4
<1>5. ASSUME NEW c \in Process,
             \/ Peek(c) \/ ReadAll(c) \/ ResolveAct(c) \/ Handle(c) \/ Pop(c)
             \/ Trim(c) \/ Throw(c) \/ Crash(c)
      PROVE  Orderly
  BY <1>1, <1>5, PeekIsOrderly, ReadAllIsOrderly, ResolveActIsOrderly, HandleIsOrderly,
     PopIsOrderly, TrimIsOrderly, ThrowIsOrderly, CrashIsOrderly
<1>6. ASSUME NEW c \in Process,
             \/ Poll(c) \/ TimeOut(c) \/ Start(c) \/ Refused(c) \/ ReleaseLock(c)
             \/ ReleaseThrows(c) \/ AcquireThrows(c) \/ ShiftThrows(c)
             \/ Prepare(c) \/ Size(c) \/ Wake(c) \/ Timer(c) \/ NotifyCommit(c)
             \/ Shift(c) \/ TryAcquire(c) \/ LeaveDrain(c) \/ Commit(c) \/ Recheck(c)
      PROVE  Orderly
  BY <1>1, <1>6, QuietSteps, QuietIsOrderly
<1>7. CASE Elsewhere \/ UNCHANGED vars
  <2>1. UNCHANGED <<mode, queue, sent, handled, call>>
    BY <1>7 DEF Elsewhere, ResolvedExpires, Expire, LeaseLapses, vars, history
  <2>2. QED
    BY <1>1, <2>1, QuietIsOrderly DEF Quiet, Keeps
<1>8. QED
  BY <1>3, <1>4, <1>5, <1>6, <1>7, NextGroups DEF Outside, Inside, Several

-----------------------------------------------------------------------------
(* The invariant of the drain, and what follows from it *)

\* The type, the conjuncts that are needed for what post and send answer, and
\* the ones that are needed for the order of the handling.
DrainInv ==
  TypeOK /\ AnswerInv /\ ModeInv /\ ExclusiveInv /\ BatchInv /\ OrderInv

LEMMA DrainInit == Init => DrainInv
<1> SUFFICES ASSUME Init PROVE DrainInv
  OBVIOUS
<1>1. \A c \in Process :
        /\ call[c].at = "idle" /\ call[c].local = {} /\ call[c].loop = {}
        /\ call[c].metas = {} /\ call[c].result = "none"
  BY DEF Init, NewCall
<1>2. TypeOK /\ ModeInv
  BY TypeInit, ModeInit
<1>3. AnswerInv
  <2>1. Message \subseteq Process
    BY ProcessAssumption DEF Message
  <2>2. committed = {} /\ resolved = {}
    BY DEF Init
  <2>3. AnswersAreTrue
    BY <1>1, <2>1 DEF AnswersAreTrue
  <2>4. KnownIsTrue
    BY <1>1, <2>2 DEF KnownIsTrue
  <2>5. QED
    BY <2>3, <2>4 DEF AnswerInv
<1>4. ExclusiveInv /\ BatchInv
  BY <1>1 DEF Init, LeaseInit, ExclusiveInv, BatchInv, HeldIsOldest
<1>5. OrderInv
  <2>1. queue = <<>> /\ sent = <<>> /\ handled = <<>>
    BY DEF Init
  <2>2. ~HeadWasHandled /\ Taken = <<>>
    BY <1>1 DEF HeadWasHandled, Taken, InHand
  <2>3. <<>> \o <<>> = <<>>
    BY NothingTaken
  <2>4. QED
    BY <2>1, <2>2, <2>3 DEF OrderInv, Pending
<1>6. QED
  BY <1>2, <1>3, <1>4, <1>5 DEF DrainInv

LEMMA DrainStep == DrainInv /\ [Next]_vars => DrainInv'
<1> SUFFICES ASSUME DrainInv, [Next]_vars
             PROVE  DrainInv'
  OBVIOUS
<1>1. TypeOK /\ AnswerInv /\ ModeInv /\ ExclusiveInv /\ BatchInv /\ OrderInv
  BY DEF DrainInv
<1>2. TypeOK' /\ AnswerInv' /\ ModeInv' /\ ExclusiveInv'
  BY <1>1, TypeStep, AnswerStep, ModeStep, ExclusiveStep
<1>3. CASE NoLapse
  BY <1>1, <1>2, <1>3, OrderlyStep DEF Orderly, DrainInv
<1>4. CASE ~NoLapse
  <2>1. ~NoLapse'
    BY <1>1, <1>4, LeaseStep, CalmBefore
  <2>2. QED
    BY <1>2, <2>1 DEF BatchInv, OrderInv, NothingWrong, DrainInv
<1>5. QED
  BY <1>3, <1>4

LEMMA DrainInvariance == Spec => []DrainInv
BY DrainInit, DrainStep, PTL DEF Spec

\* The beginning of a concatenation.
LEMMA FirstOfTwo ==
  ASSUME NEW h \in Seq(Message), NEW s \in Seq(Message)
  PROVE  Len(h) <= Len(h \o s) /\ h = SubSeq(h \o s, 1, Len(h))
<1>1. Len(h) \in Nat /\ Len(s) \in Nat /\ Len(h \o s) = Len(h) + Len(s)
  BY ConcatProperties
<1>2. CASE h = <<>>
  BY <1>2, SubSeqEmpty
<1>3. CASE h # <<>>
  <2>1. 1 \in 1..Len(h) /\ Len(h) \in 1..Len(h)
    BY <1>1, <1>3, EmptySeq
  <2>2. SubSeq(h \o s, 1, Len(h)) = SubSeq(h, 1, Len(h))
    BY <2>1, SubSeqOfConcat1
  <2>3. QED
    BY <1>1, <2>2, SubSeqFull
<1>4. QED
  BY <1>1, <1>2, <1>3

LEMMA OrderHolds == DrainInv => HandledInOrder
<1> SUFFICES ASSUME DrainInv, NothingWrong
             PROVE  Len(handled) <= Len(sent) /\ handled = SubSeq(sent, 1, Len(handled))
  BY DEF HandledInOrder, NothingWrong
<1>1. TypeOK /\ NoLapse /\ BatchInv /\ sent = handled \o Pending
  BY DEF DrainInv, OrderInv, NothingWrong
<1>2. Pending \in Seq(Message)
  <2>1. CASE HeadWasHandled
    <3>1. queue # <<>>
      BY <1>1, <2>1 DEF HeadWasHandled, BatchInv, HeldIsOldest
    <3>2. QED
      BY <1>1, <2>1, <3>1, Sequences, HeadTailProperties DEF Pending
  <2>2. CASE ~HeadWasHandled
    <3>1. Taken \o queue \in Seq(Message)
      BY <1>1, TakenType, Sequences, ConcatProperties
    <3>2. QED
      BY <2>2, <3>1 DEF Pending
  <2>3. QED
    BY <2>1, <2>2
<1>3. handled \in Seq(Message)
  BY <1>1, Sequences
<1>4. QED
  BY <1>1, <1>2, <1>3, FirstOfTwo

\* What the drain of process.ts is for: while nothing dies, throws or lapses the
\* messages are handled once each, in the order of the pushes, across a shift
\* (process.ts:320-322); and, whatever goes wrong, post and send answer true
\* only for what was done (message.ts:12-24). For any number of calls of each
\* kind, any policies, and both consumers and awaiters.
THEOREM DrainIsCorrect == Spec => []DrainInvariant
<1>1. DrainInv => DrainInvariant
  BY OrderHolds DEF DrainInv, AnswerInv, DrainInvariant
<1>2. QED
  BY <1>1, DrainInvariance, PTL

\* Until a lease lapses the queue keeps its promise, whatever throws and whoever
\* dies: in single mode only the oldest message is handled and only a handled
\* one leaves the queue, in bulk mode a batch leaves it once and is handled once
\* or gone (process.ts:107-110 and the table of the README of actor-system).
THEOREM QueueIsMailbox == Spec => ImplementsMailbox
<1>1. Init => Mail!MailInit
  <2> SUFFICES ASSUME Init PROVE Mail!MailInit
    OBVIOUS
  <2>1. \A c \in Process : call[c].at = "idle"
    BY DEF Init, NewCall
  <2>2. Taken = <<>>
    BY <2>1 DEF Taken, InHand
  <2>3. QED
    BY <2>2 DEF Init, Mail!MailInit
<1>2. DrainInv /\ [Next]_vars
        => [NoLapse => IF mode.consume = "bulk" THEN Mail!AtMostOnceNext
                       ELSE Mail!AtLeastOnceNext]_(Mail!mailVars)
  BY OrderlyStep DEF DrainInv, Orderly, MailNext
<1>3. QED
  BY <1>1, <1>2, DrainInvariance, PTL DEF Spec, ImplementsMailbox, Mail!MailSpec

-----------------------------------------------------------------------------
(* Shifts *)

\* As long as no lease lapsed, no beat is under way, whoever works or releases
\* owns the lock and knows its token, and a call that is about to shift has
\* given the lock back.
Holds(c) ==
  /\ c \notin beating
  /\ call[c].at \in Draining \cup {"release"} => owner = c /\ c \in token
  /\ call[c].at = "shift" => owner # c
ShiftInv == NoLapse => \A c \in Process : Holds(c)

LEMMA NobodysPlaces ==
  /\ "shift" \notin Draining /\ "release" \notin Draining
  /\ {"acquire", "done", "await", "polled", "failed", "crashed", "idle"}
       \cap (Draining \cup {"release", "shift"}) = {}
BY DEF Draining

\* A call that goes on within the drain, or outside, with the lock and the beats
\* as they were.
LEMMA HoldsOn ==
  ASSUME ShiftInv, NoLapse, UNCHANGED <<owner, beating, token>>,
         \A d \in Process :
           /\ call'[d].at \in Draining \cup {"release"} =>
                call[d].at \in Draining \cup {"release"}
           /\ call'[d].at = "shift" => call[d].at = "shift"
  PROVE  \A d \in Process : Holds(d)'
BY DEF ShiftInv, Holds

\* Whoever is resolved is done, and whoever resolves goes on in the drain.
LEMMA ResolveHolds ==
  ASSUME TypeOK, NEW c \in Process, NEW ms \in SUBSET Message, NEW place \in Draining,
         Resolve(c, ms, place), call[c].at \in Draining, NEW d \in Process
  PROVE  /\ call'[d].at \in Draining \cup {"release"} =>
              call[d].at \in Draining \cup {"release"}
         /\ call'[d].at = "shift" => call[d].at = "shift"
<1>1. call[d] \in CallState /\ place \in Place
  BY CallTypes, Places
<1>2. \/ d = c /\ call'[d] = [call[d] EXCEPT !.at = place]
      \/ call'[d] = Finished(call[d], "true")
      \/ call'[d] = call[d]
  BY DEF Resolve
<1>3. [call[d] EXCEPT !.at = place].at = place
  BY <1>1, At
<1>4. Finished(call[d], "true").at = "done"
  BY <1>1, FinishedIs
<1>5. QED
  BY <1>2, <1>3, <1>4, NobodysPlaces

LEMMA ShiftStep == TypeOK /\ ExclusiveInv /\ ShiftInv /\ [Next]_vars => ShiftInv'
<1> SUFFICES ASSUME TypeOK, ExclusiveInv, ShiftInv, [Next]_vars, NoLapse'
             PROVE  \A d \in Process : Holds(d)'
  BY DEF ShiftInv
<1> USE DEF leaseUnchanged, leaseVars, beats
<1>1. NoLapse /\ \A d \in Process : Holds(d)
  BY LeaseStep, CalmBefore DEF ShiftInv
<1>2. working = {c \in Process : call[c].at \in Draining}
  BY DEF TypeOK
<1>3. ASSUME NEW c \in Process,
             \/ Enqueue(c) \/ Poll(c) \/ TimeOut(c) \/ Start(c) \/ Refused(c)
             \/ EnqueueThrows(c) \/ ShiftThrows(c)
      PROVE  \A d \in Process : Holds(d)'
  <2>1. UNCHANGED <<owner, beating, token>>
    BY <1>3 DEF Enqueue, Poll, TimeOut, Start, Refused, EnqueueThrows, ShiftThrows
  <2>2. /\ call'[c].at \in {"acquire", "done", "await", "polled", "failed"}
        /\ \A d \in Process \ {c} : call'[d] = call[d]
    BY <1>3, EnqueueGoes, PollGoes, TimeOutGoes, RefusedGoes, GotoSteps DEF Goes
  <2>3. QED
    BY <1>1, <2>1, <2>2, HoldsOn, NobodysPlaces
<1>4. ASSUME NEW c \in Process, ReleaseLock(c) PROVE \A d \in Process : Holds(d)'
  <2>1. call[c].at = "release" /\ owner = c /\ c \in token
    BY <1>1, <1>4 DEF ReleaseLock, Holds
  <2>2. /\ owner' = NoOwner /\ owner' # c /\ token' = token \ {c}
        /\ UNCHANGED beating
    BY <1>4, <2>1, ProcessAssumption DEF ReleaseLock, Release
  <2>3. /\ call'[c].at \in {"failed", "shift", "done", "await"}
        /\ \A d \in Process \ {c} : call'[d] = call[d]
    BY <1>4, ReleaseLockGoes DEF Goes
  <2>4. QED
    BY <1>1, <2>1, <2>2, <2>3, NobodysPlaces, ProcessAssumption DEF Holds
<1>5. ASSUME NEW c \in Process, ReleaseThrows(c) \/ AcquireThrows(c)
      PROVE  \A d \in Process : Holds(d)'
  <2>1. /\ UNCHANGED <<beating, token>>
        /\ owner' = owner \/ owner' = NoOwner \/ owner' = c
        /\ call[c].at = "release" \/ owner' = owner \/ owner = NoOwner
    BY <1>5 DEF ReleaseThrows, AcquireThrows, Release, Take
  <2>2. /\ call'[c].at = "failed" /\ \A d \in Process \ {c} : call'[d] = call[d]
    BY <1>5, GotoSteps DEF Goes
  <2>3. call[c].at = "release" => owner = c
    BY <1>1 DEF Holds
  <2>4. QED
    BY <1>1, <2>1, <2>2, <2>3, NobodysPlaces, ProcessAssumption DEF Holds
<1>6. ASSUME NEW c \in Process, Inside(c) \/ Handle(c) \/ Commit(c) \/ Recheck(c)
      PROVE  \A d \in Process : Holds(d)'
  <2>1. UNCHANGED <<owner, beating, token>> /\ call[c].at \in Draining
    BY <1>6 DEF Inside, Prepare, Size, Peek, Pop, ReadAll, Trim, Wake, Throw,
                Handle, Commit, Recheck, Draining
  <2>2. AfterHandling(c) # "shift"
    BY DEF AfterHandling
  <2>3. call'[c].at # "shift" /\ \A d \in Process \ {c} : call'[d] = call[d]
    BY <1>6, <2>2, InsideGoes, HandleSteps, CommitSteps, RecheckSteps, FirstStepIs
       DEF Goes
  <2>4. QED
    BY <1>1, <2>1, <2>3, HoldsOn, SMTT(60)
<1>7. ASSUME NEW c \in Process, TryAcquire(c) PROVE \A d \in Process : Holds(d)'
  <2>1. /\ owner = NoOwner /\ owner' = c /\ token' = token \cup {c}
        /\ UNCHANGED beating
    BY <1>7 DEF TryAcquire, Acquire
  <2>2. /\ call'[c].at \in Draining /\ \A d \in Process \ {c} : call'[d] = call[d]
    BY <1>7, TryAcquireGoes DEF Goes, Draining
  <2>3. QED
    BY <1>1, <2>1, <2>2, NobodysPlaces, ProcessAssumption DEF Holds
<1>8. ASSUME NEW c \in Process, LeaveDrain(c) PROVE \A d \in Process : Holds(d)'
  <2>1. UNCHANGED <<owner, beating, token>> /\ call[c].at \in Draining
    BY <1>8 DEF LeaveDrain, Leave, Draining
  <2>2. call'[c].at = "release" /\ \A d \in Process \ {c} : call'[d] = call[d]
    BY <1>8, LeaveDrainGoes DEF Goes
  <2>3. QED
    BY <1>1, <2>1, <2>2, HoldsOn
<1>9. ASSUME NEW c \in Process, Crash(c) PROVE \A d \in Process : Holds(d)'
  <2>1. owner' = owner /\ beating' = beating \ {c} /\ token' = token \ {c}
    BY <1>9 DEF Crash, Leave
  <2>2. call'[c].at = "crashed" /\ \A d \in Process \ {c} : call'[d] = call[d]
    BY <1>9, GotoSteps DEF Goes
  <2>3. QED
    BY <1>1, <2>1, <2>2, NobodysPlaces DEF Holds
<1>10. ASSUME NEW c \in Process, TimeUp(c) PROVE \A d \in Process : Holds(d)'
  <2>1. UNCHANGED <<owner, beating, token>>
    BY <1>10 DEF TimeUp
  <2>2. /\ call'[c].at = call[c].at
        /\ \A d \in Process \ {c} : call'[d] = call[d]
    BY <1>10, TimeUpGoes DEF Goes
  <2>3. QED
    BY <1>1, <2>1, <2>2, HoldsOn
\* Nobody's renewal is refused, so that no beat goes on to a re-acquisition.
<1>11. ASSUME NEW c \in Process, Beat(c) PROVE FALSE
  <2>1. c \notin beating
    BY <1>1 DEF Holds
  <2>2. BeatRefused(c)
    BY <1>11, <2>1 DEF Beat, BeatAgain, BeatThrows
  <2>3. call[c].at \in Draining \cup {"release"}
    BY <1>2, <2>2 DEF BeatRefused
  <2>4. QED
    BY <1>1, <2>2, <2>3 DEF BeatRefused, Holds
<1>12. ASSUME NEW c \in Process, ResolveAct(c) PROVE \A d \in Process : Holds(d)'
  <2> DEFINE ms == {m \in call[c].local : Policy[m] = "Act"}
             place == IF mode.consume = "single" THEN "pop" ELSE NextBatch(call[c])
  <2>1. place \in Draining /\ call[c].at \in Draining
    BY <1>12 DEF ResolveAct, NextBatch, Draining
  <2>2. ms \in SUBSET Message
    BY CallTypes, FieldTypes
  <2>3. Resolve(c, ms, place) /\ UNCHANGED <<owner, beating, token>>
    BY <1>12 DEF ResolveAct
  <2> HIDE DEF ms, place
  <2>4. QED
    BY <1>1, <2>1, <2>2, <2>3, ResolveHolds, HoldsOn
<1>13. ASSUME NEW c \in Process, NotifyCommit(c) PROVE \A d \in Process : Holds(d)'
  <2> DEFINE ms == {m \in call[c].loop : Policy[m] = "Commit"}
             place == "recheck"
  <2>1. place \in Draining /\ call[c].at \in Draining
    BY <1>13 DEF NotifyCommit, Draining
  <2>2. ms \in SUBSET Message
    BY CallTypes, FieldTypes
  <2>3. Resolve(c, ms, place) /\ UNCHANGED <<owner, beating, token>>
    BY <1>13 DEF NotifyCommit
  <2> HIDE DEF ms, place
  <2>4. QED
    BY <1>1, <2>1, <2>2, <2>3, ResolveHolds, HoldsOn
<1>14. ASSUME NEW c \in Process, Shift(c) PROVE \A d \in Process : Holds(d)'
  <2>1. UNCHANGED <<owner, beating, token>>
    BY <1>14 DEF Shift
  <2>2. PICK s \in Successor :
          /\ call'[s].at = "acquire" /\ call'[c].at \in {"done", "await"}
          /\ \A d \in Process \ {c, s} : call'[d] = call[d]
    BY <1>14, ShiftSteps
  <2>3. QED
    BY <1>1, <2>1, <2>2, HoldsOn, NobodysPlaces
<1>15. CASE Elsewhere \/ UNCHANGED vars
  <2>1. UNCHANGED <<call, beating, token>>
    BY <1>15 DEF Elsewhere, ResolvedExpires, Expire, LeaseLapses, vars
  <2>2. CASE owner' = owner
    BY <1>1, <2>1, <2>2, HoldsOn
  <2>3. CASE Expire
    <3>1. owner \notin working /\ call[owner].at # "release" /\ owner' = NoOwner
      BY <2>3 DEF Expire, Release
    <3>2. \A d \in Process : call[d].at \notin Draining \cup {"release"}
      BY <1>1, <1>2, <3>1 DEF Holds
    <3>3. QED
      BY <1>1, <2>1, <3>1, <3>2, ProcessAssumption DEF Holds
  <2>4. CASE LeaseLapses
    BY <1>1, <2>4, ProcessAssumption DEF LeaseLapses, Lapse, NoLapse, TypeOK
  <2>5. QED
    BY <1>15, <2>2, <2>3, <2>4 DEF Elsewhere, ResolvedExpires, vars
<1>16. QED
  BY <1>3, <1>4, <1>5, <1>6, <1>7, <1>8, <1>9, <1>10, <1>11, <1>12, <1>13, <1>14,
     <1>15, NextGroups DEF Outside, Several, Timer

\* Unless a lease has lapsed, a successor starts only when the call that shifts
\* to it has given the lock back, so that the lock the successor waits for is
\* not its caller's own (process.ts:183-184): until then every renewal finds
\* its key, so that no beat is on its way to take the lock again when the
\* release comes. For any number of calls, whatever throws or dies.
THEOREM ShiftFollowsRelease == Spec => SuccessorCanAcquire
<1> DEFINE A == \A c \in Process, s \in Successor :
                  call[c].at = "shift" /\ call'[c].at # "shift"
                    /\ call[s].at = "idle" /\ call'[s].at # "idle"
                    /\ NoLapse => owner # c
<1>1. Init => ShiftInv
  <2> SUFFICES ASSUME Init PROVE ShiftInv
    OBVIOUS
  <2>1. \A c \in Process : call[c].at = "idle"
    BY DEF Init, NewCall
  <2>2. QED
    BY <2>1, NobodysPlaces DEF Init, ShiftInv, Holds
<1>2. DrainInv /\ ShiftInv /\ [Next]_vars => ShiftInv'
  BY ShiftStep DEF DrainInv
<1>3. ShiftInv /\ [Next]_vars => [A]_vars
  BY DEF ShiftInv, Holds
<1>4. QED
  BY <1>1, <1>2, <1>3, DrainInvariance, PTL DEF Spec, SuccessorCanAcquire

=============================================================================
