----------------------------- MODULE ActorLock ------------------------------
(***************************************************************************)
(* The lock of one actor, as the invocations that compete for the actor    *)
(* use it: createRedisLock (actor-system-redis/src/lock.ts), the heartbeat *)
(* that keeps its lease (actor-system/src/lockHeartbeat.ts) and the        *)
(* acquire / work / release skeleton of eventLoop and tryToProcess.        *)
(*                                                                         *)
(* The lock is one key of the store. An acquisition writes a fresh token   *)
(* under it if it is absent and keeps the token in the map of the lock     *)
(* object; a release or a renewal names the token it read from that map    *)
(* when it was ISSUED, and acts if the key still holds it when it is       *)
(* EXECUTED. The two moments are apart: a command waits in the FIFO of the *)
(* client's only connection, behind the others of that client; a renewal   *)
(* is urgent and goes before those that are not on the wire yet.           *)
(*                                                                         *)
(* A heartbeat runs beside the work: renew, and when the lease is gone,    *)
(* acquire again. Stopping the heartbeat clears its timer and leaves a     *)
(* beat that is in flight alone.                                           *)
(*                                                                         *)
(* A fault loses one command (it is rejected before it is executed) or its *)
(* reply (it is executed and the caller sees an error all the same).       *)
(***************************************************************************)
EXTENDS Naturals, Sequences

CONSTANTS Process,          \* invocations of eventLoop / tryToProcess
          NoOne,            \* the owner in the token of a free key
          Client,           \* lock objects, each with a connection of its own
          ClientOf,         \* the lock object every invocation was given
          Persistent,       \* the invocations that retry until they acquire
          Heartbeat,        \* whether a renew interval is configured
          Lease,            \* whether the key expires (lockTimeout > 0)
          ReleaseAttempts,  \* eventLoop releases twice, tryToProcess once
          MaxLapses,        \* leases that lapse under a running owner
          MaxFaults,        \* commands or replies lost
          MaxCrashes        \* processes that die

ASSUME LockAssumption ==
  /\ NoOne \notin Process
  /\ ClientOf \in [Process -> Client]
  /\ Persistent \subseteq Process
  /\ Heartbeat \in BOOLEAN
  /\ Lease \in BOOLEAN
  /\ ReleaseAttempts \in Nat \ {0}
  /\ MaxLapses \in Nat /\ MaxFaults \in Nat /\ MaxCrashes \in Nat

VARIABLES key,       \* the token the store holds
          minted,    \* how many tokens each invocation wrote (history)
          tokens,    \* the token map of every lock object, at this actor
          pc,        \* where an invocation stands
          mainTok,   \* the token its release in flight names
          attempt,   \* how many times it issued a release
          beat,      \* what its heartbeat is awaiting
          beatTok,   \* the token its renewal in flight names
          lost,      \* lockLost: the heartbeat gave the actor up
          pipe,      \* the commands on the connection of every client
          lapsed,    \* the lease lapsed since the last acquisition (history)
          lapses, faults, crashes   \* what may still go wrong

lockVars == <<key, minted, tokens, pc, mainTok, attempt, beat, beatTok, lost,
              pipe, lapsed, lapses, faults, crashes>>

\* A random UUID is unique, so who wrote it and when identifies it.
NoToken == [by |-> NoOne, n |-> 0]
Token == [by : Process, n : Nat]

Live == {"waiting", "acquiring", "working", "releasing"}
Ended == {"done", "refused", "failed", "crashed"}

TypeOK ==
  /\ key \in Token \cup {NoToken}
  /\ minted \in [Process -> Nat]
  /\ tokens \in [Client -> Token \cup {NoToken}]
  /\ pc \in [Process -> {"idle"} \cup Live \cup Ended]
  /\ mainTok \in [Process -> Token \cup {NoToken}]
  /\ attempt \in [Process -> 0..ReleaseAttempts]
  /\ beat \in [Process -> {"quiet", "renewing", "reacquiring"}]
  /\ beatTok \in [Process -> Token \cup {NoToken}]
  /\ lost \in [Process -> BOOLEAN]
  /\ pipe \in [Client -> Seq(Process \X {"main", "beat"})]
  /\ lapsed \in [Process -> BOOLEAN]
  /\ lapses \in 0..MaxLapses
  /\ faults \in 0..MaxFaults
  /\ crashes \in 0..MaxCrashes

LockInit ==
  /\ key = NoToken
  /\ minted = [p \in Process |-> 0]
  /\ tokens = [c \in Client |-> NoToken]
  /\ pc = [p \in Process |-> "idle"]
  /\ mainTok = [p \in Process |-> NoToken]
  /\ attempt = [p \in Process |-> 0]
  /\ beat = [p \in Process |-> "quiet"]
  /\ beatTok = [p \in Process |-> NoToken]
  /\ lost = [p \in Process |-> FALSE]
  /\ pipe = [c \in Client |-> <<>>]
  /\ lapsed = [p \in Process |-> FALSE]
  /\ lapses = MaxLapses
  /\ faults = MaxFaults
  /\ crashes = MaxCrashes

-----------------------------------------------------------------------------
(* The connection *)

\* p's command of kind k is the next one its connection answers.
AtHead(p, k) ==
  /\ pipe[ClientOf[p]] # <<>>
  /\ Head(pipe[ClientOf[p]]) = <<p, k>>

Issue(p, k) == pipe' = [pipe EXCEPT ![ClientOf[p]] = Append(@, <<p, k>>)]
\* An urgent command overtakes all but the one that is being answered.
IssueUrgent(p, k) ==
  pipe' = [pipe EXCEPT ![ClientOf[p]] =
             IF @ = <<>> THEN << <<p, k>> >>
             ELSE <<Head(@), <<p, k>> >> \o Tail(@)]
Answer(p) == pipe' = [pipe EXCEPT ![ClientOf[p]] = Tail(@)]
AnswerAndIssue(p, k) ==
  pipe' = [pipe EXCEPT ![ClientOf[p]] = Append(Tail(@), <<p, k>>)]

Fault == faults > 0 /\ faults' = faults - 1

\* SET NX writes the fresh token of p.
FreshToken(p) == [by |-> p, n |-> minted[p] + 1]

\* Mutant: SET without NX.
SetAnyway(p) ==
  /\ key' = FreshToken(p)
  /\ minted' = [minted EXCEPT ![p] = @ + 1]

SetNX(p) ==
  /\ key = NoToken
  /\ key' = FreshToken(p)
  /\ minted' = [minted EXCEPT ![p] = @ + 1]

\* Mutant: a bare DEL.
DeletedAnyway(token) == NoToken

\* The scripts delete the key only while it holds the token they were given.
DeletedBy(token) == IF key = token THEN NoToken ELSE key

-----------------------------------------------------------------------------
(* Acquire *)

\* lock.tryAcquire is called: the first time, or again after the idle pause.
TryAcquire(p) ==
  /\ pc[p] \in {"idle", "waiting"}
  /\ pc' = [pc EXCEPT ![p] = "acquiring"]
  /\ Issue(p, "main")
  /\ UNCHANGED <<key, minted, tokens, mainTok, attempt, beat, beatTok, lost,
                 lapsed, lapses, faults, crashes>>

\* It wrote the token: the map keeps it, the heartbeat starts and the work
\* begins.
Acquired(p) ==
  /\ pc[p] = "acquiring" /\ AtHead(p, "main")
  /\ SetNX(p)
  /\ tokens' = [tokens EXCEPT ![ClientOf[p]] = FreshToken(p)]
  /\ pc' = [pc EXCEPT ![p] = "working"]
  /\ lapsed' = [lapsed EXCEPT ![p] = FALSE]
  /\ Answer(p)
  /\ UNCHANGED <<mainTok, attempt, beat, beatTok, lost, lapses, faults,
                 crashes>>

\* Somebody holds the key. A one-shot call, and eventLoop, give up; a call
\* that asked to stay alive sleeps and tries again.
Refused(p) ==
  /\ pc[p] = "acquiring" /\ AtHead(p, "main")
  /\ key # NoToken
  /\ pc' = [pc EXCEPT ![p] = IF p \in Persistent THEN "waiting" ELSE "refused"]
  /\ Answer(p)
  /\ UNCHANGED <<key, minted, tokens, mainTok, attempt, beat, beatTok, lost,
                 lapsed, lapses, faults, crashes>>

\* The round trip fails, and the call with it; the key may be written.
AcquireFails(p) ==
  /\ pc[p] = "acquiring" /\ AtHead(p, "main")
  /\ Fault
  /\ \/ SetNX(p)
     \/ UNCHANGED <<key, minted>>
  /\ pc' = [pc EXCEPT ![p] = "failed"]
  /\ Answer(p)
  /\ UNCHANGED <<tokens, mainTok, attempt, beat, beatTok, lost, lapsed, lapses,
                 crashes>>

-----------------------------------------------------------------------------
(* Release *)

\* lock.release reads the token of the map and issues a compare-and-delete
\* that names it.
ReleaseIssued(p) ==
  /\ tokens[ClientOf[p]] # NoToken
  /\ pc' = [pc EXCEPT ![p] = "releasing"]
  /\ mainTok' = [mainTok EXCEPT ![p] = tokens[ClientOf[p]]]
  /\ attempt' = [attempt EXCEPT ![p] = @ + 1]

\* Without a token, or without an attempt left, there is nothing more to do.
ReleaseOver(p) ==
  /\ pc' = [pc EXCEPT ![p] = "done"]
  /\ UNCHANGED <<mainTok, attempt>>

\* The work ends, by a return or by a throw: stopHeartbeat, then release.
Finish(p) ==
  /\ pc[p] = "working"
  /\ \/ ReleaseIssued(p) /\ Issue(p, "main")
     \/ tokens[ClientOf[p]] = NoToken /\ ReleaseOver(p) /\ UNCHANGED pipe
  /\ UNCHANGED <<key, minted, tokens, beat, beatTok, lost, lapsed, lapses,
                 faults, crashes>>

\* The store answers; whatever token the map holds by now is dropped.
Released(p) ==
  /\ pc[p] = "releasing" /\ AtHead(p, "main")
  /\ key' = DeletedBy(mainTok[p])
  /\ tokens' = [tokens EXCEPT ![ClientOf[p]] = NoToken]
  /\ pc' = [pc EXCEPT ![p] = "done"]
  /\ Answer(p)
  /\ UNCHANGED <<minted, mainTok, attempt, beat, beatTok, lost, lapsed, lapses,
                 faults, crashes>>

\* Mutant: the release is retried as long as it fails.
ReleaseRetried(p) ==
  /\ pc[p] = "releasing" /\ AtHead(p, "main")
  /\ Fault
  /\ UNCHANGED key
  /\ ReleaseIssued(p)
  /\ AnswerAndIssue(p, "main")
  /\ UNCHANGED <<minted, tokens, beat, beatTok, lost, lapsed, lapses, crashes>>

\* The round trip fails: the token stays, and the release is tried again if
\* an attempt is left.
ReleaseFails(p) ==
  /\ pc[p] = "releasing" /\ AtHead(p, "main")
  /\ Fault
  /\ \/ key' = DeletedBy(mainTok[p])
     \/ UNCHANGED key
  /\ \/ /\ attempt[p] < ReleaseAttempts
        /\ ReleaseIssued(p)
        /\ AnswerAndIssue(p, "main")
     \/ /\ attempt[p] = ReleaseAttempts \/ tokens[ClientOf[p]] = NoToken
        /\ ReleaseOver(p)
        /\ Answer(p)
  /\ UNCHANGED <<minted, tokens, beat, beatTok, lost, lapsed, lapses, crashes>>

-----------------------------------------------------------------------------
(* The heartbeat *)

\* The timer fires: unless a beat is in flight or the lock is lost, renew.
\* Without a token renew answers false at once and the beat acquires.
Tick(p) ==
  /\ Heartbeat
  /\ pc[p] = "working"
  /\ beat[p] = "quiet" /\ ~lost[p]
  /\ IF tokens[ClientOf[p]] = NoToken
       THEN /\ beat' = [beat EXCEPT ![p] = "reacquiring"]
            /\ Issue(p, "beat")
            /\ UNCHANGED beatTok
       ELSE /\ beat' = [beat EXCEPT ![p] = "renewing"]
            /\ IssueUrgent(p, "beat")
            /\ beatTok' = [beatTok EXCEPT ![p] = tokens[ClientOf[p]]]
  /\ UNCHANGED <<key, minted, tokens, pc, mainTok, attempt, lost, lapsed,
                 lapses, faults, crashes>>

\* compareAndExtend finds the token: the lease is extended.
Renewed(p) ==
  /\ beat[p] = "renewing" /\ AtHead(p, "beat")
  /\ key = beatTok[p]
  /\ beat' = [beat EXCEPT ![p] = "quiet"]
  /\ Answer(p)
  /\ UNCHANGED <<key, minted, tokens, pc, mainTok, attempt, beatTok, lost,
                 lapsed, lapses, faults, crashes>>

\* Mutant: a lease that is gone is taken for a lost actor.
RenewalLost(p) ==
  /\ beat[p] = "renewing" /\ AtHead(p, "beat")
  /\ key # beatTok[p]
  /\ tokens' = [tokens EXCEPT ![ClientOf[p]] = NoToken]
  /\ lost' = [lost EXCEPT ![p] = TRUE]
  /\ beat' = [beat EXCEPT ![p] = "quiet"]
  /\ Answer(p)
  /\ UNCHANGED <<key, minted, pc, mainTok, attempt, beatTok, lapsed, lapses,
                 faults, crashes>>

\* It finds something else: the token is dropped and the same beat goes on to
\* acquire.
RenewalRefused(p) ==
  /\ beat[p] = "renewing" /\ AtHead(p, "beat")
  /\ key # beatTok[p]
  /\ tokens' = [tokens EXCEPT ![ClientOf[p]] = NoToken]
  /\ beat' = [beat EXCEPT ![p] = "reacquiring"]
  /\ AnswerAndIssue(p, "beat")
  /\ UNCHANGED <<key, minted, pc, mainTok, attempt, beatTok, lost, lapsed,
                 lapses, faults, crashes>>

\* Nobody took the key in the meantime.
Reacquired(p) ==
  /\ beat[p] = "reacquiring" /\ AtHead(p, "beat")
  /\ SetNX(p)
  /\ tokens' = [tokens EXCEPT ![ClientOf[p]] = FreshToken(p)]
  /\ lapsed' = [lapsed EXCEPT ![p] = FALSE]
  /\ beat' = [beat EXCEPT ![p] = "quiet"]
  /\ Answer(p)
  /\ UNCHANGED <<pc, mainTok, attempt, beatTok, lost, lapses, faults, crashes>>

\* The key is taken: onLost.
GiveUp(p) ==
  /\ beat[p] = "reacquiring" /\ AtHead(p, "beat")
  /\ key # NoToken
  /\ lost' = [lost EXCEPT ![p] = TRUE]
  /\ beat' = [beat EXCEPT ![p] = "quiet"]
  /\ Answer(p)
  /\ UNCHANGED <<key, minted, tokens, pc, mainTok, attempt, beatTok, lapsed,
                 lapses, faults, crashes>>

\* Mutant: inFlight stays set after a failed beat.
BeatHangs(p) ==
  /\ beat[p] # "quiet" /\ AtHead(p, "beat")
  /\ Fault
  /\ Answer(p)
  /\ UNCHANGED <<key, minted, tokens, pc, mainTok, attempt, beat, beatTok, lost,
                 lapsed, lapses, crashes>>

\* A round trip of the beat fails, which is logged and proves nothing; a SET
\* may have been executed.
BeatFails(p) ==
  /\ beat[p] # "quiet" /\ AtHead(p, "beat")
  /\ Fault
  /\ \/ beat[p] = "reacquiring" /\ SetNX(p)
     \/ UNCHANGED <<key, minted>>
  /\ beat' = [beat EXCEPT ![p] = "quiet"]
  /\ Answer(p)
  /\ UNCHANGED <<tokens, pc, mainTok, attempt, beatTok, lost, lapsed, lapses,
                 crashes>>

-----------------------------------------------------------------------------
(* The environment *)

\* The lease expires before it is renewed, the key is evicted, or somebody
\* breaks the lock by hand.
Lapse ==
  /\ key # NoToken
  /\ lapses > 0
  /\ lapses' = lapses - 1
  /\ key' = NoToken
  /\ lapsed' = [lapsed EXCEPT ![key.by] = TRUE]
  /\ UNCHANGED <<minted, tokens, pc, mainTok, attempt, beat, beatTok, lost,
                 pipe, faults, crashes>>

\* A lease nobody renews any more expires.
Expire ==
  /\ Lease
  /\ key # NoToken
  /\ pc[key.by] # "working"
  /\ key' = NoToken
  /\ UNCHANGED <<minted, tokens, pc, mainTok, attempt, beat, beatTok, lost,
                 pipe, lapsed, lapses, faults, crashes>>

\* The operating-system process of a client dies with all it runs.
Crash(c) ==
  LET dead == {p \in Process : ClientOf[p] = c /\ pc[p] \in Live} IN
  /\ crashes > 0
  /\ crashes' = crashes - 1
  /\ dead # {}
  /\ pc' = [p \in Process |-> IF p \in dead THEN "crashed" ELSE pc[p]]
  /\ beat' = [p \in Process |->
                IF ClientOf[p] = c THEN "quiet" ELSE beat[p]]
  /\ tokens' = [tokens EXCEPT ![c] = NoToken]
  /\ pipe' = [pipe EXCEPT ![c] = <<>>]
  /\ UNCHANGED <<key, minted, mainTok, attempt, beatTok, lost, lapsed, lapses,
                 faults>>

-----------------------------------------------------------------------------

LockNext ==
  \/ \E p \in Process :
       \/ TryAcquire(p) \/ Acquired(p) \/ Refused(p) \/ AcquireFails(p)
       \/ Finish(p) \/ Released(p) \/ ReleaseFails(p)
       \/ Tick(p) \/ Renewed(p) \/ RenewalRefused(p)
       \/ Reacquired(p) \/ GiveUp(p) \/ BeatFails(p)
  \/ Lapse
  \/ Expire
  \/ \E c \in Client : Crash(c)

LockSpec == LockInit /\ [][LockNext]_lockVars

-----------------------------------------------------------------------------
(* Safety *)

\* An invocation that is working, and whose lease did not lapse since it last
\* acquired the lock, is the one the store names: its key holds the token its
\* lock object remembers (lock.ts:49-52). Two invocations can therefore work
\* on the same actor only after a lapse.
HolderKeepsKey ==
  \A p \in Process :
    pc[p] = "working" /\ ~lapsed[p] =>
      key # NoToken /\ key.by = p /\ key = tokens[ClientOf[p]]

\* Every invocation has a lock object of its own.
OwnLocks == \A p, q \in Process : ClientOf[p] = ClientOf[q] => p = q

\* Why it does: what a lock object remembers is its own invocation's; nobody
\* else can name the key of a holder; and as long as the lease did not lapse,
\* a renewal in flight names the current token and finds it.
HolderInv ==
  \A p \in Process :
    /\ tokens[ClientOf[p]] # NoToken => tokens[ClientOf[p]].by = p
    /\ mainTok[p] # NoToken => mainTok[p].by = p
    /\ pc[p] = "releasing" => mainTok[p] # NoToken
    /\ pc[p] \in {"idle", "waiting", "acquiring"} => beat[p] = "quiet"
    /\ pc[p] = "working" =>
         /\ ~lapsed[p] => /\ key # NoToken /\ key.by = p
                          /\ key = tokens[ClientOf[p]]
         /\ beat[p] = "renewing" => beatTok[p] = tokens[ClientOf[p]]
         /\ beat[p] = "reacquiring" => lapsed[p]

\* The abstract lease: an invocation never takes away the key of another, and
\* only a lapse takes it from its owner.
Working == {p \in Process : pc[p] = "working"}
ActorLeaseOf == INSTANCE ActorLease
            WITH NoOwner <- NoOne, owner <- key.by, working <- Working
ImplementsLease == ActorLeaseOf!LeaseSpec

\* The heartbeat gives the actor up only when another invocation has it, as
\* long as no command and no reply is lost (lockHeartbeat.ts:23-24): a lost
\* reply can make a token of its own look like somebody else's.
LostMeansTaken ==
  [][\A p \in Process :
       lost'[p] /\ ~lost[p] /\ faults = MaxFaults
         => key # NoToken /\ key.by # p]_lockVars

\* An invocation that has returned, and awaits nothing more, has left no lock
\* of its own behind (eventLoop.ts:108-109).
NothingLeftBehind ==
  \A p \in Process : pc[p] = "done" /\ beat[p] = "quiet" => key.by # p

\* Whatever lapses meanwhile, an invocation that acquired the lock once leaves
\* nothing behind although a round trip fails: the second release makes up for
\* the first (eventLoop.ts:114-116).
ReleaseMakesUp ==
  MaxFaults - faults < ReleaseAttempts =>
    \A p \in Process :
      pc[p] = "done" /\ beat[p] = "quiet" /\ minted[p] = 1 => key.by # p

-----------------------------------------------------------------------------
(* Liveness *)

\* Commands are answered, a timer that is set fires, a waiting call wakes up,
\* and a lease nobody renews expires. Nothing is assumed about the work: a
\* game may go on for ever.
Fairness ==
  /\ \A p \in Process :
       /\ WF_lockVars(TryAcquire(p) /\ pc[p] = "waiting")
       /\ WF_lockVars(Acquired(p) \/ Refused(p))
       /\ WF_lockVars(Released(p))
       /\ WF_lockVars(Tick(p))
       /\ WF_lockVars(Renewed(p) \/ RenewalRefused(p))
       /\ WF_lockVars(Reacquired(p) \/ GiveUp(p))
  /\ WF_lockVars(Expire)

FairLockSpec == LockSpec /\ Fairness

\* Work ends: a game is a finite loop, and its next poll throws once the lock
\* is lost.
WorkEnds == \A p \in Process : WF_lockVars(Finish(p))

\* A working invocation whose lease lapsed gets it back or learns that it is
\* lost (lockHeartbeat.ts:18-24), however long its game goes on.
LapseIsSettled ==
  \A p \in Process :
    pc[p] = "working" /\ lapsed[p] ~>
      ~lapsed[p] \/ lost[p] \/ pc[p] # "working"

\* The actor of a process that died can be started again: the key it left
\* behind disappears (lockHeartbeat.ts:19-20).
OrphanIsFreed ==
  \A p \in Process :
    pc[p] \in Ended /\ key.by = p ~> key.by # p

\* A call that retries gets the actor if every work comes to its end
\* (process.ts:106-108).
WaiterIsServed ==
  WorkEnds =>
    \A p \in Persistent :
      pc[p] \in {"waiting", "acquiring"} ~>
        pc[p] \in {"working", "failed", "crashed"}

\* The actor becomes available again: after one failed release, after a lapse, after a
\* process that died, and for a call that retries (lock.ts, lockHeartbeat.ts,
\* eventLoop.ts:108-117).
LockRecovers ==
  /\ []ReleaseMakesUp
  /\ LapseIsSettled
  /\ OrphanIsFreed
  /\ WaiterIsServed
=============================================================================
