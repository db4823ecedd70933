---------------------------- MODULE ActorProcess ----------------------------
(***************************************************************************)
(* post, send and tryToProcess (actor-system/src): calls that push a       *)
(* message, that drain the queue of the actor under its lock, and that     *)
(* wait until their message was processed.                                 *)
(*                                                                         *)
(* The lock is the lease of ActorLease, which ActorLock is shown to        *)
(* implement. Every await of the code ends a step: the store executes the  *)
(* awaited command, or the awaited callback runs, together with the code   *)
(* up to the next await. The check "still ours" is made before an await,   *)
(* so what follows the await runs on an answer that may be stale.          *)
(*                                                                         *)
(* A message is named by the call that pushed it.                          *)
(***************************************************************************)
EXTENDS ActorLease, Sequences, Functions

CONSTANTS Post,        \* the calls of post
          SendCall,    \* the calls of send
          Worker,      \* the calls of tryToProcess
          Successor,   \* the calls of tryToProcess that a shift may start
          Policy,      \* the AwaitPolicy of every pushed message
          Patient,     \* the calls with awaitTimeoutMillis > 0
          Once,        \* the one-shot calls
          Timed,       \* the calls with aliveMillis
          Shiftable,   \* the calls with shiftable and a shift callback
          Modes,       \* the consumers and awaiters the actor may be given
          MaxThrows,   \* callbacks and round trips that throw
          MaxCrashes   \* calls whose process dies

ASSUME ProcessAssumption ==
  /\ Process = Post \cup SendCall \cup Worker \cup Successor
  /\ Post \cap SendCall = {}
  /\ (Post \cup SendCall) \cap (Worker \cup Successor) = {}
  /\ Worker \cap Successor = {}
  /\ NoOwner \notin Process
  /\ Policy \in [Post \cup SendCall -> {"Forget", "Act", "Commit"}]
  /\ Patient \subseteq Process /\ Once \subseteq Process
  /\ Timed \subseteq Process /\ Shiftable \subseteq Timed
  /\ Modes \subseteq [consume : {"single", "bulk"},
                     awaiter : {"redis", "memory"}]
  /\ MaxLapses \in Nat /\ MaxThrows \in Nat /\ MaxCrashes \in Nat

Message == Post \cup SendCall

VARIABLES mode,       \* the consumer and the awaiter of the actor
          beating,    \* the calls whose beat awaits the re-acquisition
          token,      \* the calls whose release will know the token of the key
          queue,      \* the queue in the store
          call,       \* the state of every call
          resolved,   \* the awaiter keys in the store
          sent,       \* the messages in the order of the pushes (history)
          handled,    \* the messages in the order of the handling (history)
          committed,  \* the messages of passes that were completed (history)
          throws, crashes   \* what may still go wrong

vars == <<owner, working, lapses, beating, token, mode, queue, call, resolved,
          sent, handled, committed, throws, crashes>>

\* at: the await the call is in.         alive: aliveMillis has not run out.
\* lost: lockLost.                       batch: the messages being handled.
\* local: handled in this pass.          loop: in the passes of this cycle.
\* metas: in the cycles before.          shifting: shiftOnTimeout.
\* failing: the drain threw.             result: what post or send answered.
Draining == {"prepare", "size", "peek", "handle", "resolve", "pop", "commit",
             "lrange", "ltrim", "notify", "recheck", "sleep", "leave"}
Ended == {"done", "failed", "crashed"}
Place == {"idle", "acquire", "release", "shift", "await", "polled"}
           \cup Draining \cup Ended

NewCall == [at |-> "idle", alive |-> TRUE, lost |-> FALSE, batch |-> <<>>,
            local |-> {}, loop |-> {}, metas |-> {}, shifting |-> FALSE,
            failing |-> FALSE, result |-> "none"]

TypeOK ==
  /\ owner \in Process \cup {NoOwner}
  /\ working = {c \in Process : call[c].at \in Draining}
  /\ lapses \in 0..MaxLapses
  /\ beating \subseteq Process /\ token \subseteq Process
  /\ mode \in Modes
  /\ queue \in Seq(Message)
  /\ call \in [Process -> [at : Place, alive : BOOLEAN, lost : BOOLEAN,
                           batch : Seq(Message), local : SUBSET Message,
                           loop : SUBSET Message, metas : SUBSET Message,
                           shifting : BOOLEAN, failing : BOOLEAN,
                           result : {"none", "true", "false"}]]
  /\ resolved \subseteq Message
  /\ sent \in Seq(Message) /\ handled \in Seq(Message)
  /\ committed \subseteq Message
  /\ throws \in 0..MaxThrows /\ crashes \in 0..MaxCrashes

Init ==
  /\ LeaseInit
  /\ beating = {} /\ token = {}
  /\ mode \in Modes
  /\ queue = <<>>
  /\ call = [c \in Process |-> NewCall]
  /\ resolved = {}
  /\ sent = <<>> /\ handled = <<>> /\ committed = {}
  /\ throws = MaxThrows /\ crashes = MaxCrashes

beats == <<beating, token>>
leaseUnchanged == UNCHANGED <<leaseVars, beats>>
history == <<sent, handled, committed>>
budgets == <<throws, crashes>>

Goto(c, place) == call' = [call EXCEPT ![c].at = place]

-----------------------------------------------------------------------------
(* Push and wait *)

Finished(r, answer) == [r EXCEPT !.at = "done", !.result = answer]

\* awaitMessage. The Redis awaiter answers a wait without a timeout at once.
Waiting(c, r) ==
  IF mode.awaiter = "redis" /\ c \notin Patient
    THEN Finished(r, "false")
    ELSE [r EXCEPT !.at = "await"]

\* What follows tryToProcess: it returns to its caller, and send answers for
\* its own message or waits for it.
Returned(c, r) ==
  IF c \notin SendCall THEN [r EXCEPT !.at = "done"]
  ELSE IF Policy[c] = "Forget" \/ c \in r.metas THEN Finished(r, "true")
  ELSE Waiting(c, r)

\* enqueue, then what post and send do next.
Enqueue(c) ==
  /\ c \in Message
  /\ call[c].at = "idle"
  /\ queue' = Append(queue, c)
  /\ sent' = Append(sent, c)
  /\ call' = [call EXCEPT ![c] =
                IF c \in SendCall THEN [@ EXCEPT !.at = "acquire"]
                ELSE IF Policy[c] = "Forget" THEN Finished(@, "true")
                ELSE Waiting(c, @)]
  /\ leaseUnchanged
  /\ UNCHANGED <<mode, resolved, handled, committed, throws, crashes>>

\* The Redis awaiter polls the key of its message.
Poll(c) ==
  /\ mode.awaiter = "redis"
  /\ call[c].at \in {"await", "polled"}
  /\ call' = [call EXCEPT ![c] = IF c \in resolved THEN Finished(@, "true")
                                 ELSE [@ EXCEPT !.at = "polled"]]
  /\ leaseUnchanged
  /\ UNCHANGED <<mode, queue, resolved, history, budgets>>

\* The timeout of the wait; the Redis awaiter polls at least once before.
TimeOut(c) ==
  /\ c \in Patient
  /\ call[c].at = IF mode.awaiter = "redis" THEN "polled" ELSE "await"
  /\ call' = [call EXCEPT ![c] = Finished(@, "false")]
  /\ leaseUnchanged
  /\ UNCHANGED <<mode, queue, resolved, history, budgets>>

\* The key that marks a message as resolved lives for one second.
ResolvedExpires(m) ==
  /\ m \in resolved
  /\ resolved' = resolved \ {m}
  /\ leaseUnchanged
  /\ UNCHANGED <<mode, queue, call, history, budgets>>

\* Mutant: a resolution is recorded, and nobody who waits is woken.
ResolveSilently(c, ms, place) ==
  /\ resolved' = resolved \cup ms
  /\ Goto(c, place)

\* awaiter.resolve for the messages ms, by a call that goes on at place: the
\* Redis awaiter sets their keys, the other one wakes who is waiting now.
Resolve(c, ms, place) ==
  /\ resolved' = IF mode.awaiter = "redis" THEN resolved \cup ms ELSE resolved
  /\ call' = [d \in Process |->
                IF d = c THEN [call[d] EXCEPT !.at = place]
                ELSE IF /\ mode.awaiter = "memory"
                        /\ d \in ms /\ call[d].at = "await"
                  THEN Finished(call[d], "true")
                ELSE call[d]]

-----------------------------------------------------------------------------
(* The lock *)

StillOurs(r) == r.alive /\ ~r.lost

\* Where a drain cycle begins, and whether one begins at all.
FirstStep == IF mode.consume = "single" THEN "prepare" ELSE "lrange"
Cycle(r) == IF StillOurs(r) THEN FirstStep ELSE "leave"

\* tryToProcess is called, by its caller or as the successor of a shift.
Start(c) ==
  /\ c \in Worker
  /\ call[c].at = "idle"
  /\ Goto(c, "acquire")
  /\ leaseUnchanged
  /\ UNCHANGED <<mode, queue, resolved, history, budgets>>

TryAcquire(c) ==
  /\ call[c].at = "acquire"
  /\ Acquire(c)
  /\ token' = token \cup {c} /\ UNCHANGED beating
  /\ call' = [call EXCEPT ![c].at = Cycle(call[c])]
  /\ UNCHANGED <<mode, queue, resolved, history, budgets>>

\* Somebody owns the actor: a one-shot call, and one whose time is over,
\* return; any other sleeps and tries again.
Refused(c) ==
  /\ call[c].at = "acquire"
  /\ owner # NoOwner
  /\ c \in Once \/ ~call[c].alive
  /\ call' = [call EXCEPT ![c] = Returned(c, @)]
  /\ leaseUnchanged
  /\ UNCHANGED <<mode, queue, resolved, history, budgets>>

\* A renewal is answered: the key is not this call's, and its token is
\* dropped. The renewal of a call that has left its work is still answered,
\* before its release is; the timer of the beats starts no other.
BeatRefused(c) ==
  /\ c \in working \/ (call[c].at = "release" /\ c \in token)
  /\ c \notin beating /\ ~call[c].lost
  /\ owner # c \/ c \notin token
  /\ beating' = beating \cup {c}
  /\ token' = token \ {c}
  /\ UNCHANGED <<leaseVars, mode, queue, call, resolved, history, budgets>>

\* The re-acquisition that follows, wherever the call is by now: the lock was
\* free and is taken, or it is lost. A release issued before does not know of
\* the token.
BeatAgain(c) ==
  /\ c \in beating
  /\ beating' = beating \ {c}
  /\ \/ /\ Take(c)
        /\ token' = IF c \in working THEN token \cup {c} ELSE token
        /\ UNCHANGED call
     \/ /\ owner # NoOwner
        /\ call' = [call EXCEPT ![c].lost = TRUE]
        /\ UNCHANGED <<leaseVars, token>>
  /\ UNCHANGED <<mode, queue, resolved, history, budgets>>

\* Mutant: the shift comes before the release.
LeaveDrainShifting(c) ==
  /\ call[c].at = "leave"
  /\ Leave(c) /\ UNCHANGED beats
  /\ call' = [call EXCEPT ![c].at = IF /\ c \in Shiftable
                                      /\ ~call[c].failing /\ ~call[c].alive
                                     THEN "shift" ELSE "release"]
  /\ UNCHANGED <<mode, queue, resolved, history, budgets>>

\* The loop is left: shiftOnTimeout is decided, unless it was left by a
\* throw, and the finally block stops the heartbeat.
LeaveDrain(c) ==
  /\ call[c].at = "leave"
  /\ Leave(c) /\ UNCHANGED beats
  /\ call' = [call EXCEPT ![c].at = "release",
                          ![c].shifting =
                            /\ c \in Shiftable
                            /\ ~call[c].failing /\ ~call[c].alive]
  /\ UNCHANGED <<mode, queue, resolved, history, budgets>>

\* lock.release, and what follows the finally block.
ReleaseLock(c) ==
  /\ call[c].at = "release"
  /\ IF owner = c /\ c \in token THEN Release(c) ELSE UNCHANGED leaseVars
  /\ token' = token \ {c} /\ UNCHANGED beating
  /\ call' = [call EXCEPT ![c] =
                IF @.failing THEN [@ EXCEPT !.at = "failed"]
                ELSE IF @.shifting THEN [@ EXCEPT !.at = "shift"]
                ELSE Returned(c, @)]
  /\ UNCHANGED <<mode, queue, resolved, history, budgets>>

\* The round trip of the release fails: its error replaces the result, the
\* shift included.
ReleaseThrows(c) ==
  /\ call[c].at = "release"
  /\ throws > 0 /\ throws' = throws - 1
  /\ \/ owner = c /\ c \in token /\ Release(c)
     \/ UNCHANGED leaseVars
  /\ Goto(c, "failed")
  /\ UNCHANGED <<beats, mode, queue, resolved, history, crashes>>

\* shift(id) invokes a successor, which starts by taking the lock.
Shift(c) ==
  /\ call[c].at = "shift"
  /\ \E s \in Successor :
       /\ call[s].at = "idle"
       /\ call' = [call EXCEPT ![s].at = "acquire", ![c] = Returned(c, @)]
  /\ leaseUnchanged
  /\ UNCHANGED <<mode, queue, resolved, history, budgets>>

-----------------------------------------------------------------------------
(* Single mode: peek, handle, then pop *)

\* processQueueInLock goes on while the call is alive and the actor is its
\* own; then the pass is committed.
NextMessage(r) == IF StillOurs(r) THEN "size" ELSE "commit"

\* Bulk mode goes on the same way, one batch after another.
NextBatch(r) == IF StillOurs(r) THEN "lrange" ELSE "commit"

\* onPrepare has returned.
Prepare(c) ==
  /\ call[c].at = "prepare"
  /\ Goto(c, NextMessage(call[c]))
  /\ leaseUnchanged
  /\ UNCHANGED <<mode, queue, resolved, history, budgets>>

Size(c) ==
  /\ call[c].at = "size"
  /\ Goto(c, IF queue = <<>> THEN "commit" ELSE "peek")
  /\ leaseUnchanged
  /\ UNCHANGED <<mode, queue, resolved, history, budgets>>

\* Mutant: the message is popped where it should be peeked.
PeekAndPop(c) ==
  /\ call[c].at = "peek"
  /\ call' = [call EXCEPT ![c] =
                IF queue = <<>> THEN [@ EXCEPT !.at = "commit"]
                ELSE [@ EXCEPT !.at = "handle", !.batch = <<Head(queue)>>]]
  /\ queue' = IF queue = <<>> THEN queue ELSE Tail(queue)
  /\ leaseUnchanged
  /\ UNCHANGED <<mode, resolved, history, budgets>>

Peek(c) ==
  /\ call[c].at = "peek"
  /\ call' = [call EXCEPT ![c] =
                IF queue = <<>> THEN [@ EXCEPT !.at = "commit"]
                ELSE [@ EXCEPT !.at = "handle", !.batch = <<Head(queue)>>]]
  /\ leaseUnchanged
  /\ UNCHANGED <<mode, queue, resolved, history, budgets>>

\* onMessage, or onMessages, has run. What it throws is caught.
AfterHandling(c) ==
  IF mode.consume = "bulk" \/ \E m \in Range(call[c].batch) : Policy[m] = "Act"
    THEN "resolve" ELSE "pop"

Handle(c) ==
  /\ call[c].at = "handle"
  /\ handled' = handled \o call[c].batch
  /\ call' = [call EXCEPT ![c].at = AfterHandling(c),
                          ![c].local = @ \cup Range(call[c].batch)]
  /\ leaseUnchanged
  /\ UNCHANGED <<mode, queue, resolved, sent, committed, budgets>>

\* Mutant: every awaiter is told, the one that waits for the commit too.
ResolveEveryone(c) ==
  /\ call[c].at = "resolve"
  /\ Resolve(c, call[c].local,
             IF mode.consume = "single" THEN "pop" ELSE NextBatch(call[c]))
  /\ leaseUnchanged
  /\ UNCHANGED <<mode, queue, history, budgets>>

\* The awaiters of Act are told: of this message, or of the whole pass.
ResolveAct(c) ==
  /\ call[c].at = "resolve"
  /\ Resolve(c, {m \in call[c].local : Policy[m] = "Act"},
             IF mode.consume = "single" THEN "pop" ELSE NextBatch(call[c]))
  /\ leaseUnchanged
  /\ UNCHANGED <<mode, queue, history, budgets>>

\* LPOP removes the head of the queue, whichever message that is by now.
Popped == IF queue = <<>> THEN <<>> ELSE Tail(queue)
Pop(c) ==
  /\ call[c].at = "pop"
  /\ queue' = Popped
  /\ call' = [call EXCEPT ![c].at = NextMessage(call[c]), ![c].batch = <<>>]
  /\ leaseUnchanged
  /\ UNCHANGED <<mode, resolved, history, budgets>>

-----------------------------------------------------------------------------
(* Bulk mode: flush, then handle *)

\* LRANGE 0 -1.
ReadAll(c) ==
  /\ call[c].at = "lrange"
  /\ call' = [call EXCEPT ![c] =
                IF queue = <<>> THEN [@ EXCEPT !.at = "commit"]
                ELSE [@ EXCEPT !.at = "ltrim", !.batch = queue]]
  /\ leaseUnchanged
  /\ UNCHANGED <<mode, queue, resolved, history, budgets>>

\* LTRIM by the number of messages read.
Trimmed(c) == SubSeq(queue, Len(call[c].batch) + 1, Len(queue))
Trim(c) ==
  /\ call[c].at = "ltrim"
  /\ queue' = Trimmed(c)
  /\ Goto(c, "handle")
  /\ leaseUnchanged
  /\ UNCHANGED <<mode, resolved, history, budgets>>

-----------------------------------------------------------------------------
(* The end of a pass, and of a drain cycle *)

\* onCommit has returned, which bulk mode does not have: the pass is complete.
Commit(c) ==
  /\ call[c].at = "commit"
  /\ committed' = committed \cup call[c].local
  /\ call' = [call EXCEPT ![c].at = "notify", ![c].batch = <<>>,
                          ![c].local = {}, ![c].loop = @ \cup call[c].local]
  /\ leaseUnchanged
  /\ UNCHANGED <<mode, queue, resolved, sent, handled, budgets>>

\* The awaiters of Commit are told, of every pass of this cycle.
NotifyCommit(c) ==
  /\ call[c].at = "notify"
  /\ Resolve(c, {m \in call[c].loop : Policy[m] = "Commit"}, "recheck")
  /\ leaseUnchanged
  /\ UNCHANGED <<mode, queue, history, budgets>>

\* Mutant: an empty queue ends every call, not just the one-shot ones.
RecheckOnce(c) ==
  /\ call[c].at = "recheck"
  /\ IF queue # <<>> /\ StillOurs(call[c])
       THEN Goto(c, FirstStep)
       ELSE call' = [call EXCEPT ![c].at = "leave",
                                 ![c].metas = @ \cup call[c].loop,
                                 ![c].loop = {}]
  /\ leaseUnchanged
  /\ UNCHANGED <<mode, queue, resolved, history, budgets>>

\* Another message: another pass. Otherwise the cycle is over; a one-shot call
\* leaves, and any other sleeps.
Recheck(c) ==
  /\ call[c].at = "recheck"
  /\ IF queue # <<>> /\ StillOurs(call[c])
       THEN Goto(c, FirstStep)
       ELSE call' = [call EXCEPT ![c].at = IF c \in Once \/ ~StillOurs(call[c])
                                             THEN "leave" ELSE "sleep",
                                 ![c].metas = @ \cup call[c].loop,
                                 ![c].loop = {}]
  /\ leaseUnchanged
  /\ UNCHANGED <<mode, queue, resolved, history, budgets>>

Wake(c) ==
  /\ call[c].at = "sleep"
  /\ Goto(c, Cycle(call[c]))
  /\ leaseUnchanged
  /\ UNCHANGED <<mode, queue, resolved, history, budgets>>

-----------------------------------------------------------------------------
(* What goes wrong *)

\* A callback or a round trip throws, which ends the drain; a pop or a trim
\* may have been executed. onError is what throws after onMessage did.
Throw(c) ==
  /\ call[c].at \in {"prepare", "size", "peek", "handle", "pop", "lrange",
                     "ltrim", "recheck"}
       \cup IF mode.consume = "single" THEN {"commit"} ELSE {}
  /\ throws > 0 /\ throws' = throws - 1
  /\ \/ UNCHANGED queue
     \/ call[c].at = "pop" /\ queue' = Popped
     \/ call[c].at = "ltrim" /\ queue' = Trimmed(c)
  /\ handled' = IF call[c].at = "handle" THEN handled \o call[c].batch
                ELSE handled
  /\ call' = [call EXCEPT ![c].at = "leave", ![c].failing = TRUE,
                          ![c].batch = <<>>]
  /\ leaseUnchanged
  /\ UNCHANGED <<mode, resolved, sent, committed, crashes>>

\* The push fails for its caller; the message may be queued.
EnqueueThrows(c) ==
  /\ c \in Message
  /\ call[c].at = "idle"
  /\ throws > 0 /\ throws' = throws - 1
  /\ \/ queue' = Append(queue, c) /\ sent' = Append(sent, c)
     \/ UNCHANGED <<queue, sent>>
  /\ Goto(c, "failed")
  /\ leaseUnchanged
  /\ UNCHANGED <<mode, resolved, handled, committed, crashes>>

\* So does the acquisition; the lock may be taken.
AcquireThrows(c) ==
  /\ call[c].at = "acquire"
  /\ throws > 0 /\ throws' = throws - 1
  /\ Take(c) \/ UNCHANGED leaseVars
  /\ Goto(c, "failed")
  /\ UNCHANGED <<beats, mode, queue, resolved, history, crashes>>

\* So does the re-acquisition of a beat; the next beat tries again.
BeatThrows(c) ==
  /\ c \in beating
  /\ throws > 0 /\ throws' = throws - 1
  /\ Take(c) \/ UNCHANGED leaseVars
  /\ beating' = beating \ {c}
  /\ UNCHANGED <<token, mode, queue, call, resolved, history, crashes>>

\* The invocation of the successor fails, and the call with it.
ShiftThrows(c) ==
  /\ call[c].at = "shift"
  /\ throws > 0 /\ throws' = throws - 1
  /\ Goto(c, "failed")
  /\ leaseUnchanged
  /\ UNCHANGED <<mode, queue, resolved, history, crashes>>

\* aliveMillis runs out.
TimeUp(c) ==
  /\ c \in Timed
  /\ call[c].at \notin {"idle"} \cup Ended /\ call[c].alive
  /\ call' = [call EXCEPT ![c].alive = FALSE]
  /\ leaseUnchanged
  /\ UNCHANGED <<mode, queue, resolved, history, budgets>>

\* A process dies, and its call with it. The calls of the memory awaiter share
\* one process, which leaves nobody behind.
Crash(c) ==
  /\ mode.awaiter = "redis"
  /\ call[c].at \notin {"idle"} \cup Ended
  /\ crashes > 0 /\ crashes' = crashes - 1
  /\ Goto(c, "crashed")
  /\ IF c \in working THEN Leave(c) ELSE UNCHANGED leaseVars
  /\ beating' = beating \ {c} /\ token' = token \ {c}
  /\ UNCHANGED <<mode, queue, resolved, history, throws>>

\* The lease of an owner that neither works nor releases it expires.
Expire ==
  /\ owner # NoOwner
  /\ call[owner].at # "release"
  /\ Release(owner)
  /\ UNCHANGED <<beats, mode, queue, call, resolved, history, budgets>>

LeaseLapses ==
  /\ Lapse
  /\ UNCHANGED <<beats, mode, queue, call, resolved, history, budgets>>

-----------------------------------------------------------------------------

Next ==
  \/ \E c \in Process :
       \/ Enqueue(c) \/ Poll(c) \/ TimeOut(c)
       \/ Start(c) \/ TryAcquire(c) \/ Refused(c)
       \/ BeatRefused(c) \/ BeatAgain(c) \/ BeatThrows(c)
       \/ LeaveDrain(c) \/ ReleaseLock(c) \/ ReleaseThrows(c) \/ Shift(c)
       \/ Prepare(c) \/ Size(c) \/ Peek(c) \/ Handle(c) \/ ResolveAct(c)
       \/ Pop(c) \/ ReadAll(c) \/ Trim(c)
       \/ Commit(c) \/ NotifyCommit(c) \/ Recheck(c) \/ Wake(c)
       \/ EnqueueThrows(c) \/ AcquireThrows(c) \/ Throw(c) \/ ShiftThrows(c)
       \/ TimeUp(c) \/ Crash(c)
  \/ \E m \in Message : ResolvedExpires(m)
  \/ Expire
  \/ LeaseLapses

Spec == Init /\ [][Next]_vars

-----------------------------------------------------------------------------
(* Safety *)

\* The queue as a mailbox (process.ts:107-110 and the table of the README of
\* actor-system): in single mode only the oldest message is handled, and only a
\* handled one leaves the queue; in bulk mode a batch leaves the queue and is
\* handled once, or gone. Whatever throws or dies, until a lease lapses.
InHand == {c \in Process : call[c].at = "handle" /\ mode.consume = "bulk"}
Taken == IF InHand = {} THEN <<>> ELSE call[CHOOSE c \in InHand : TRUE].batch
NoLapse == lapses = MaxLapses
Mail == INSTANCE Mailbox WITH taken <- Taken, calm <- NoLapse,
                              atMostOnce <- mode.consume = "bulk"
ImplementsMailbox == Mail!MailSpec

\* While nothing dies, throws or lapses, the messages are handled once each, in
\* the order of the pushes, across a shift (process.ts:320-322).
HandledInOrder ==
  NoLapse /\ throws = MaxThrows /\ crashes = MaxCrashes =>
    /\ Len(handled) <= Len(sent)
    /\ handled = SubSeq(sent, 1, Len(handled))

\* post and send answer true only for what was done: the handler ran for Act,
\* the pass was committed for Commit (message.ts:12-24).
AnswersAreTrue ==
  \A c \in Message :
    call[c].result = "true" =>
      /\ Policy[c] = "Act" => c \in Range(handled)
      /\ Policy[c] = "Commit" => c \in committed

\* A successor starts only when the call that shifts to it has given the lock
\* back (process.ts:183-184), unless a lease has lapsed: a beat that was under
\* way at the release may then have taken the lock again.
SuccessorCanAcquire ==
  [][\A c \in Process, s \in Successor :
       call[c].at = "shift" /\ call'[c].at # "shift"
         /\ call[s].at = "idle" /\ call'[s].at # "idle"
         /\ NoLapse => owner # c]_vars

-----------------------------------------------------------------------------
(* Liveness *)

\* Round trips and callbacks end, timers fire and expired keys disappear.
\* Nothing makes a caller push, a process die or a lease lapse.
Fairness ==
  /\ \A c \in Process :
       /\ WF_vars(Poll(c) /\ call[c].at = "await")
       /\ WF_vars(TimeOut(c))
       /\ WF_vars(Start(c))
       /\ WF_vars(TryAcquire(c)) /\ WF_vars(Refused(c))
       /\ WF_vars(BeatRefused(c)) /\ WF_vars(BeatAgain(c))
       /\ WF_vars(LeaveDrain(c)) /\ WF_vars(ReleaseLock(c)) /\ WF_vars(Shift(c))
       /\ WF_vars(Prepare(c) \/ Size(c) \/ Peek(c) \/ Handle(c)
                    \/ ResolveAct(c) \/ Pop(c) \/ ReadAll(c) \/ Trim(c)
                    \/ Commit(c) \/ NotifyCommit(c) \/ Recheck(c) \/ Wake(c))
       /\ WF_vars(TimeUp(c))
  /\ WF_vars(Expire)

FairSpec == Spec /\ Fairness

\* Every message is handled (awaiting.ts:42-43), whoever dies; in bulk mode,
\* which is at most once, unless somebody dies.
MayBeLost == mode.consume = "bulk" /\ crashes < MaxCrashes
EveryMessageHandled ==
  \A m \in Message : m \in Range(sent) ~> m \in Range(handled) \/ MayBeLost

\* A post or send that waits with a timeout returns (awaiter.ts:1).
WaitsReturn ==
  \A c \in Patient \cap Message :
    call[c].at \in {"await", "polled"} ~> call[c].at \in Ended

\* A post that waits without a timeout is woken once its message was handled
\* (awaiter.ts:1).
HandledIsAnswered ==
  \A c \in Post :
    call[c].at = "await" /\ c \in Range(handled)
      ~> call[c].at \in Ended

\* The drain of process.ts: what it handled it handled in order and once, and what it
\* answered is so.
DrainInvariant == TypeOK /\ HandledInOrder /\ AnswersAreTrue

\* Whoever waits in post or send comes back: by its timeout, or because its message was
\* handled (awaiting.ts, awaiter.ts).
WaitsEnd == WaitsReturn /\ HandledIsAnswered
=============================================================================
