-------------------------- MODULE ActorLock_proofs --------------------------
(***************************************************************************)
(* Proofs about ActorLock, for any number of invocations and clients and   *)
(* any budget of lapses, faults and crashes.                               *)
(***************************************************************************)
EXTENDS ActorLock, TLAPS

Commands == Process \X {"main", "beat"}

LEMMA TokenFacts ==
  /\ NoToken.by = NoOne
  /\ NoToken \notin Token
  /\ \A t \in Token : t.by \in Process /\ t # NoToken
BY LockAssumption DEF NoToken, Token

LEMMA FreshTokenType ==
  ASSUME TypeOK, NEW p \in Process
  PROVE  FreshToken(p) \in Token /\ FreshToken(p).by = p
BY DEF FreshToken, Token, TypeOK

LEMMA SequenceTypes ==
  ASSUME NEW S, NEW s \in Seq(S), NEW e \in S
  PROVE  /\ Append(s, e) \in Seq(S)
         /\ <<e>> \in Seq(S)
         /\ s # <<>> => /\ Tail(s) \in Seq(S)
                       /\ <<Head(s), e>> \o Tail(s) \in Seq(S)
OBVIOUS

LEMMA PipeType ==
  ASSUME TypeOK, NEW p \in Process, NEW k \in {"main", "beat"}
  PROVE  /\ Issue(p, k) => pipe' \in [Client -> Seq(Commands)]
         /\ IssueUrgent(p, k) => pipe' \in [Client -> Seq(Commands)]
         /\ AtHead(p, k) /\ Answer(p) => pipe' \in [Client -> Seq(Commands)]
         /\ AtHead(p, k) =>
              \A j \in {"main", "beat"} :
                AnswerAndIssue(p, j) => pipe' \in [Client -> Seq(Commands)]
<1> DEFINE queue == pipe[ClientOf[p]]
<1>1. /\ ClientOf[p] \in Client
      /\ pipe \in [Client -> Seq(Commands)]
      /\ queue \in Seq(Commands)
  BY LockAssumption DEF TypeOK, Commands
<1>2. \A j \in {"main", "beat"} : <<p, j>> \in Commands
  BY DEF Commands
<1> HIDE DEF queue
<1>3. \A j \in {"main", "beat"} : /\ Append(queue, <<p, j>>) \in Seq(Commands)
                                  /\ << <<p, j>> >> \in Seq(Commands)
  BY <1>1, <1>2, SequenceTypes, Zenon
<1>4. ASSUME queue # <<>>
      PROVE  /\ Tail(queue) \in Seq(Commands)
             /\ \A j \in {"main", "beat"} :
                  /\ Append(Tail(queue), <<p, j>>) \in Seq(Commands)
                  /\ <<Head(queue), <<p, j>> >> \o Tail(queue) \in Seq(Commands)
  BY <1>1, <1>2, <1>4, SequenceTypes, Zenon
<1>5. Issue(p, k) => pipe' \in [Client -> Seq(Commands)]
  BY <1>1, <1>3 DEF Issue, queue
<1>8. IssueUrgent(p, k) => pipe' \in [Client -> Seq(Commands)]
  BY <1>1, <1>3, <1>4 DEF IssueUrgent, queue
<1>6. AtHead(p, k) /\ Answer(p) => pipe' \in [Client -> Seq(Commands)]
  BY <1>1, <1>4 DEF Answer, AtHead, queue
<1>7. ASSUME AtHead(p, k), NEW j \in {"main", "beat"}, AnswerAndIssue(p, j)
      PROVE  pipe' \in [Client -> Seq(Commands)]
  BY <1>1, <1>4, <1>7 DEF AnswerAndIssue, AtHead, queue
<1> QED
  BY <1>5, <1>6, <1>7, <1>8

\* An attempt is left as long as nothing was released.
AttemptInv ==
  \A p \in Process :
    pc[p] \in {"idle", "waiting", "acquiring", "working"} => attempt[p] = 0

LEMMA ReleaseType ==
  ASSUME TypeOK, NEW p \in Process,
         \/ ReleaseIssued(p) /\ attempt[p] < ReleaseAttempts
         \/ ReleaseOver(p)
  PROVE  /\ pc' \in [Process -> {"idle"} \cup Live \cup Ended]
         /\ mainTok' \in [Process -> Token \cup {NoToken}]
         /\ attempt' \in [Process -> 0..ReleaseAttempts]
<1>1. ClientOf[p] \in Client
  BY LockAssumption
<1>2. CASE ReleaseIssued(p) /\ attempt[p] < ReleaseAttempts
  <2>1. attempt[p] + 1 \in 0..ReleaseAttempts
    BY <1>2, LockAssumption DEF TypeOK
  <2> QED
    BY <1>1, <1>2, <2>1 DEF ReleaseIssued, TypeOK, Live, Ended
<1>3. CASE ReleaseOver(p)
  BY <1>3 DEF ReleaseOver, TypeOK, Live, Ended
<1> QED
  BY <1>2, <1>3

LEMMA FaultType == TypeOK /\ Fault => faults' \in 0..MaxFaults
BY LockAssumption DEF TypeOK, Fault

\* A SET NX that was executed, or not, keeps the key and the history typed.
LEMMA SetType ==
  ASSUME TypeOK, NEW p \in Process, SetNX(p) \/ UNCHANGED <<key, minted>>
  PROVE  key' \in Token \cup {NoToken} /\ minted' \in [Process -> Nat]
<1>1. CASE SetNX(p)
  <2>1. key' \in Token
    BY <1>1, FreshTokenType DEF SetNX
  <2>2. minted' \in [Process -> Nat]
    BY <1>1 DEF SetNX, TypeOK
  <2> QED
    BY <2>1, <2>2
<1>2. CASE UNCHANGED <<key, minted>>
  BY <1>2 DEF TypeOK
<1> QED
  BY <1>1, <1>2

LEMMA TypeStep == TypeOK /\ AttemptInv /\ [LockNext]_lockVars => TypeOK'
<1> SUFFICES ASSUME TypeOK, AttemptInv, [LockNext]_lockVars
             PROVE  TypeOK'
  OBVIOUS
<1> USE LockAssumption, TokenFacts
<1>1. ASSUME NEW p \in Process, TryAcquire(p) PROVE TypeOK'
  BY <1>1, PipeType DEF TryAcquire, TypeOK, Live, Ended, Commands
<1>2. ASSUME NEW p \in Process, Acquired(p) PROVE TypeOK'
  BY <1>2, PipeType, FreshTokenType, SMTT(60) DEF Acquired, SetNX, TypeOK, Live, Ended, Commands
<1>3. ASSUME NEW p \in Process, Refused(p) PROVE TypeOK'
  BY <1>3, PipeType DEF Refused, TypeOK, Live, Ended, Commands
<1>4. ASSUME NEW p \in Process, AcquireFails(p) PROVE TypeOK'
  BY <1>4, PipeType, SetType, FaultType DEF AcquireFails, TypeOK, Live, Ended, Commands
<1>5. ASSUME NEW p \in Process, Finish(p) PROVE TypeOK'
  <2>1. attempt[p] < ReleaseAttempts
    BY <1>5 DEF AttemptInv, Finish
  <2> QED
    BY <1>5, <2>1, PipeType, ReleaseType DEF Finish, TypeOK, Commands
<1>6. ASSUME NEW p \in Process, Released(p) PROVE TypeOK'
  BY <1>6, PipeType DEF Released, DeletedBy, TypeOK, Live, Ended, Commands
<1>7. ASSUME NEW p \in Process, ReleaseFails(p) PROVE TypeOK'
  BY <1>7, PipeType, FaultType, ReleaseType DEF ReleaseFails, DeletedBy, TypeOK, Commands
<1>8. ASSUME NEW p \in Process, Tick(p) PROVE TypeOK'
  BY <1>8, PipeType, ZenonT(60) DEF Tick, TypeOK, Commands
<1>9. ASSUME NEW p \in Process, Renewed(p) PROVE TypeOK'
  BY <1>9, PipeType DEF Renewed, TypeOK, Commands
<1>10. ASSUME NEW p \in Process, RenewalRefused(p) PROVE TypeOK'
  BY <1>10, PipeType DEF RenewalRefused, TypeOK, Commands
<1>11. ASSUME NEW p \in Process, Reacquired(p) PROVE TypeOK'
  BY <1>11, PipeType, FreshTokenType, SetType DEF Reacquired, TypeOK, Commands
<1>12. ASSUME NEW p \in Process, GiveUp(p) PROVE TypeOK'
  BY <1>12, PipeType DEF GiveUp, TypeOK, Commands
<1>13. ASSUME NEW p \in Process, BeatFails(p) PROVE TypeOK'
  BY <1>13, PipeType, SetType, FaultType DEF BeatFails, TypeOK, Commands
<1>14. CASE Lapse
  BY <1>14 DEF Lapse, TypeOK
<1>15. CASE Expire
  BY <1>15 DEF Expire, TypeOK
<1>16. ASSUME NEW c \in Client, Crash(c) PROVE TypeOK'
  BY <1>16 DEF Crash, TypeOK, Live, Ended
<1>17. CASE UNCHANGED lockVars
  BY <1>17 DEF lockVars, TypeOK
<1> QED
  BY <1>1, <1>2, <1>3, <1>4, <1>5, <1>6, <1>7, <1>8, <1>9, <1>10, <1>11,
     <1>12, <1>13, <1>14, <1>15, <1>16, <1>17 DEF LockNext

LEMMA AttemptStep == TypeOK /\ AttemptInv /\ [LockNext]_lockVars => AttemptInv'
<1> SUFFICES ASSUME TypeOK, AttemptInv, [LockNext]_lockVars, NEW q \in Process,
                    pc'[q] \in {"idle", "waiting", "acquiring", "working"}
             PROVE  attempt'[q] = 0
  BY DEF AttemptInv
<1>1. CASE \E p \in Process : \/ TryAcquire(p) \/ Acquired(p) \/ Refused(p)
                             \/ AcquireFails(p)
  BY <1>1 DEF TryAcquire, Acquired, Refused, AcquireFails, AttemptInv, TypeOK
<1>2. CASE \E p \in Process : Finish(p) \/ Released(p) \/ ReleaseFails(p)
  BY <1>2 DEF Finish, Released, ReleaseFails, ReleaseIssued, ReleaseOver,
              AttemptInv, TypeOK
<1>3. CASE \E p \in Process : \/ Tick(p) \/ Renewed(p) \/ RenewalRefused(p)
                             \/ Reacquired(p) \/ GiveUp(p) \/ BeatFails(p)
  BY <1>3 DEF Tick, Renewed, RenewalRefused, Reacquired, GiveUp, BeatFails,
              AttemptInv
<1>4. CASE Lapse \/ Expire \/ UNCHANGED lockVars
  BY <1>4 DEF Lapse, Expire, lockVars, AttemptInv
<1>5. CASE \E c \in Client : Crash(c)
  BY <1>5 DEF Crash, AttemptInv
<1> QED
  BY <1>1, <1>2, <1>3, <1>4, <1>5 DEF LockNext

LEMMA TypeInit == LockInit => TypeOK /\ AttemptInv
BY LockAssumption, TokenFacts DEF LockInit, TypeOK, AttemptInv, Live, Ended

\* Every state variable keeps its type, whatever the budgets; in particular a
\* release is never tried more often than ReleaseAttempts (eventLoop.ts:121-133).
THEOREM TypeCorrect == LockSpec => []TypeOK
BY TypeInit, TypeStep, AttemptStep, PTL DEF LockSpec

-----------------------------------------------------------------------------
(* The holder of the lock *)

\* The conjuncts of HolderInv about one invocation.
Holder(p) ==
  /\ tokens[ClientOf[p]] # NoToken => tokens[ClientOf[p]].by = p
  /\ mainTok[p] # NoToken => mainTok[p].by = p
  /\ pc[p] = "releasing" => mainTok[p] # NoToken
  /\ pc[p] \in {"idle", "waiting", "acquiring"} => beat[p] = "quiet"
  /\ pc[p] = "working" =>
       /\ ~lapsed[p] => /\ key # NoToken /\ key.by = p
                        /\ key = tokens[ClientOf[p]]
       /\ beat[p] = "renewing" => beatTok[p] = tokens[ClientOf[p]]
       /\ beat[p] = "reacquiring" => lapsed[p]

LEMMA HolderByProcess == HolderInv <=> \A p \in Process : Holder(p)
BY DEF HolderInv, Holder

LEMMA HolderStep ==
  ASSUME OwnLocks, TypeOK, TypeOK', HolderInv, [LockNext]_lockVars
  PROVE  HolderInv'
<1> USE LockAssumption, TokenFacts
<1>a. SUFFICES ASSUME NEW q \in Process
               PROVE  Holder(q)'
  BY HolderByProcess DEF HolderInv, Holder
<1>b. Holder(q) /\ \A p \in Process : Holder(p)
  BY HolderByProcess
<1>c. /\ ClientOf[q] \in Client
      /\ \A p \in Process : ClientOf[p] = ClientOf[q] => p = q
  BY DEF OwnLocks
<1> USE <1>b, <1>c
<1>1. ASSUME NEW p \in Process, TryAcquire(p) PROVE Holder(q)'
  BY <1>1 DEF TryAcquire, TypeOK, Holder
<1>2. ASSUME NEW p \in Process, Acquired(p) PROVE Holder(q)'
  BY <1>2, FreshTokenType, SMTT(60) DEF Acquired, SetNX, TypeOK, Holder
<1>3. ASSUME NEW p \in Process, Refused(p) PROVE Holder(q)'
  BY <1>3 DEF Refused, TypeOK, Holder
<1>4. ASSUME NEW p \in Process, AcquireFails(p) PROVE Holder(q)'
  BY <1>4 DEF AcquireFails, SetNX, TypeOK, Holder
<1>5. ASSUME NEW p \in Process, Finish(p) PROVE Holder(q)'
  BY <1>5, SMTT(60) DEF Finish, ReleaseIssued, ReleaseOver, TypeOK, Holder
<1>6. ASSUME NEW p \in Process, Released(p) PROVE Holder(q)'
  BY <1>6 DEF Released, DeletedBy, TypeOK, Holder
<1>7. ASSUME NEW p \in Process, ReleaseFails(p) PROVE Holder(q)'
  BY <1>7, SMTT(60) DEF ReleaseFails, ReleaseIssued, ReleaseOver, DeletedBy, TypeOK, Holder
<1>8. ASSUME NEW p \in Process, Tick(p) PROVE Holder(q)'
  BY <1>8 DEF Tick, TypeOK, Holder
<1>9. ASSUME NEW p \in Process, Renewed(p) PROVE Holder(q)'
  BY <1>9, SMTT(60) DEF Renewed, TypeOK, Holder
<1>10. ASSUME NEW p \in Process, RenewalRefused(p) PROVE Holder(q)'
  BY <1>10 DEF RenewalRefused, TypeOK, Holder
<1>11. ASSUME NEW p \in Process, Reacquired(p) PROVE Holder(q)'
  <2>1. /\ FreshToken(p) # NoToken /\ FreshToken(p).by = p
        /\ key = NoToken /\ key' = FreshToken(p)
        /\ tokens' = [tokens EXCEPT ![ClientOf[p]] = FreshToken(p)]
        /\ lapsed' = [lapsed EXCEPT ![p] = FALSE]
        /\ beat' = [beat EXCEPT ![p] = "quiet"]
        /\ UNCHANGED <<pc, mainTok, beatTok>>
    BY <1>11, FreshTokenType DEF Reacquired, SetNX
  <2>2. CASE p = q
    BY <2>1, <2>2 DEF TypeOK, Holder
  <2>3. CASE p # q
    BY <2>1, <2>3, SMTT(60) DEF TypeOK, Holder
  <2> QED
    BY <2>2, <2>3
<1>12. ASSUME NEW p \in Process, GiveUp(p) PROVE Holder(q)'
  BY <1>12 DEF GiveUp, TypeOK, Holder
<1>13. ASSUME NEW p \in Process, BeatFails(p) PROVE Holder(q)'
  BY <1>13, SMTT(60) DEF BeatFails, SetNX, TypeOK, Holder
<1>14. CASE Lapse
  <2>1. key.by \in Process
    BY <1>14 DEF Lapse, TypeOK
  <2>2. lapsed' = [lapsed EXCEPT ![key.by] = TRUE] /\ lapsed \in [Process -> BOOLEAN]
    BY <1>14 DEF Lapse, TypeOK
  <2>3. q = key.by => lapsed'[q]
    BY <2>1, <2>2
  <2>4. q # key.by => lapsed'[q] = lapsed[q]
    BY <2>1, <2>2
  <2>5. ASSUME pc[q] = "working", ~lapsed[q] PROVE q = key.by
    BY <2>5 DEF Holder
  <2> QED
    BY <1>14, <2>3, <2>4, <2>5 DEF Lapse, Holder
<1>15. CASE Expire
  BY <1>15 DEF Expire, TypeOK, Holder
<1>16. ASSUME NEW c \in Client, Crash(c) PROVE Holder(q)'
  BY <1>16 DEF Crash, TypeOK, Live, Holder
<1>17. CASE UNCHANGED lockVars
  BY <1>17 DEF lockVars, Holder
<1> QED
  BY <1>1, <1>2, <1>3, <1>4, <1>5, <1>6, <1>7, <1>8, <1>9, <1>10, <1>11,
     <1>12, <1>13, <1>14, <1>15, <1>16, <1>17 DEF LockNext

LEMMA HolderInit == LockInit => HolderInv
<1> SUFFICES ASSUME LockInit, NEW p \in Process
             PROVE  Holder(p)
  BY HolderByProcess
<1>1. ClientOf[p] \in Client
  BY LockAssumption
<1>2. tokens[ClientOf[p]] = NoToken
  BY <1>1 DEF LockInit
<1> QED
  BY <1>2 DEF LockInit, Holder

LEMMA HolderInvariant == ASSUME OwnLocks PROVE LockSpec => [](TypeOK /\ HolderInv)
<1>1. LockInit => HolderInv
  BY HolderInit
<1>2. TypeOK /\ TypeOK' /\ HolderInv /\ [LockNext]_lockVars => HolderInv'
  BY HolderStep
<1> QED
  BY <1>1, <1>2, TypeCorrect, PTL DEF LockSpec

\* Whoever works with a lease that did not lapse is the one the store names,
\* under the token it will renew and release.
THEOREM HolderIsExclusive ==
  ASSUME OwnLocks PROVE LockSpec => []HolderKeepsKey
<1>1. HolderInv => HolderKeepsKey
  BY DEF HolderInv, HolderKeepsKey
<1> QED
  BY <1>1, HolderInvariant, PTL

-----------------------------------------------------------------------------
(* The refinement of ActorLease *)

\* How Working follows pc: one invocation starts, one leaves, or none moves.
LEMMA WorkingFacts ==
  ASSUME TypeOK, NEW p \in Process, NEW v, pc' = [pc EXCEPT ![p] = v]
  PROVE  /\ v = "working" => Working' = Working \cup {p}
         /\ v # "working" => Working' = Working \ {p}
         /\ p \in Working <=> pc[p] = "working"
BY DEF TypeOK, Working

LEMMA WorkingUndisturbed ==
  ASSUME TypeOK, NEW p \in Process, pc[p] # "working",
         NEW v, v # "working", pc' = [pc EXCEPT ![p] = v]
  PROVE  Working' = Working
BY DEF TypeOK, Working

LEMMA RefinementInit == LockInit => ActorLeaseOf!LeaseInit
BY DEF LockInit, ActorLeaseOf!LeaseInit, NoToken, Working

\* A free key names no owner, and a token names an invocation.
LEMMA OwnerFacts ==
  TypeOK => /\ key = NoToken => key.by = NoOne
            /\ key # NoToken => key.by \in Process
BY TokenFacts DEF TypeOK

\* A release deletes the key of the invocation itself, or nothing.
LEMMA ReleaseRefined ==
  ASSUME TypeOK, HolderInv, NEW p \in Process, pc[p] = "releasing",
         key' = DeletedBy(mainTok[p]) \/ UNCHANGED key,
         NEW v \in {"releasing", "done"}, pc' = [pc EXCEPT ![p] = v],
         UNCHANGED lapses
  PROVE  [ActorLeaseOf!LeaseNext]_(ActorLeaseOf!leaseVars)
<1>1. Working' = Working /\ p \notin Working
  BY WorkingFacts DEF Working
<1>2. CASE key' = key
  BY <1>1, <1>2 DEF ActorLeaseOf!leaseVars
<1>3. CASE key' # key
  <2>1. key' = NoToken /\ key = mainTok[p] /\ key # NoToken
    BY <1>3 DEF DeletedBy
  <2>2. key.by = p /\ key'.by = NoOne
    BY <2>1, TokenFacts DEF HolderInv
  <2>3. ActorLeaseOf!Release(p)
    BY <1>1, <2>2 DEF ActorLeaseOf!Release
  <2> QED
    BY <2>3 DEF ActorLeaseOf!LeaseNext
<1> QED
  BY <1>2, <1>3

LEMMA RefinementStep ==
  ASSUME OwnLocks, TypeOK, HolderInv, [LockNext]_lockVars
  PROVE  [ActorLeaseOf!LeaseNext]_(ActorLeaseOf!leaseVars)
<1> USE LockAssumption, TokenFacts, OwnerFacts
<1> DEFINE Refined == [ActorLeaseOf!LeaseNext]_(ActorLeaseOf!leaseVars)
<1>1. ASSUME NEW p \in Process, TryAcquire(p) PROVE Refined
  <2>1. Working' = Working
    BY <1>1, WorkingUndisturbed DEF TryAcquire
  <2> QED
    BY <1>1, <2>1 DEF TryAcquire, ActorLeaseOf!leaseVars
<1>2. ASSUME NEW p \in Process, Acquired(p) PROVE Refined
  <2>1. ActorLeaseOf!Acquire(p)
    BY <1>2, WorkingFacts, FreshTokenType DEF Acquired, SetNX, ActorLeaseOf!Acquire
  <2> QED
    BY <2>1 DEF ActorLeaseOf!LeaseNext
<1>3. ASSUME NEW p \in Process, Refused(p) PROVE Refined
  <2>1. \E v \in {"waiting", "refused"} : pc' = [pc EXCEPT ![p] = v]
    BY <1>3 DEF Refused
  <2>2. Working' = Working
    BY <1>3, <2>1, WorkingUndisturbed DEF Refused
  <2> QED
    BY <1>3, <2>2 DEF Refused, ActorLeaseOf!leaseVars
<1>4. ASSUME NEW p \in Process, AcquireFails(p) PROVE Refined
  <2>1. Working' = Working
    BY <1>4, WorkingUndisturbed DEF AcquireFails
  <2>2. CASE SetNX(p)
    <3>1. ActorLeaseOf!Take(p)
      BY <1>4, <2>1, <2>2, FreshTokenType DEF AcquireFails, SetNX, ActorLeaseOf!Take
    <3> QED
      BY <3>1 DEF ActorLeaseOf!LeaseNext
  <2>3. CASE UNCHANGED key
    BY <1>4, <2>1, <2>3 DEF AcquireFails, ActorLeaseOf!leaseVars
  <2> QED
    BY <1>4, <2>2, <2>3 DEF AcquireFails
<1>5. ASSUME NEW p \in Process, Finish(p) PROVE Refined
  <2>1. ActorLeaseOf!Leave(p)
    BY <1>5, WorkingFacts
       DEF Finish, ReleaseIssued, ReleaseOver, ActorLeaseOf!Leave
  <2> QED
    BY <2>1 DEF ActorLeaseOf!LeaseNext
<1>6. ASSUME NEW p \in Process, Released(p) PROVE Refined
  BY <1>6, ReleaseRefined DEF Released
<1>7. ASSUME NEW p \in Process, ReleaseFails(p) PROVE Refined
  BY <1>7, ReleaseRefined DEF ReleaseFails, ReleaseIssued, ReleaseOver
<1>8. ASSUME NEW p \in Process, Tick(p) PROVE Refined
  BY <1>8 DEF Tick, Working, ActorLeaseOf!leaseVars
<1>9. ASSUME NEW p \in Process, Renewed(p) PROVE Refined
  BY <1>9 DEF Renewed, Working, ActorLeaseOf!leaseVars
<1>10. ASSUME NEW p \in Process, RenewalRefused(p) PROVE Refined
  BY <1>10 DEF RenewalRefused, Working, ActorLeaseOf!leaseVars
<1>11. ASSUME NEW p \in Process, Reacquired(p) PROVE Refined
  <2>1. ActorLeaseOf!Take(p)
    BY <1>11, FreshTokenType DEF Reacquired, SetNX, Working, ActorLeaseOf!Take
  <2> QED
    BY <2>1 DEF ActorLeaseOf!LeaseNext
<1>12. ASSUME NEW p \in Process, GiveUp(p) PROVE Refined
  BY <1>12 DEF GiveUp, Working, ActorLeaseOf!leaseVars
<1>13. ASSUME NEW p \in Process, BeatFails(p) PROVE Refined
  <2>1. CASE SetNX(p)
    <3>1. ActorLeaseOf!Take(p)
      BY <1>13, <2>1, FreshTokenType DEF BeatFails, SetNX, Working, ActorLeaseOf!Take
    <3> QED
      BY <3>1 DEF ActorLeaseOf!LeaseNext
  <2>2. CASE UNCHANGED key
    BY <1>13, <2>2 DEF BeatFails, Working, ActorLeaseOf!leaseVars
  <2> QED
    BY <1>13, <2>1, <2>2 DEF BeatFails
<1>14. CASE Lapse
  <2>1. ActorLeaseOf!Lapse
    BY <1>14 DEF Lapse, TypeOK, Working, ActorLeaseOf!Lapse
  <2> QED
    BY <2>1 DEF ActorLeaseOf!LeaseNext
<1>15. CASE Expire
  <2>1. ActorLeaseOf!Release(key.by)
    BY <1>15 DEF Expire, Working, ActorLeaseOf!Release
  <2> QED
    BY <1>15, <2>1 DEF Expire, ActorLeaseOf!LeaseNext
<1>16. ASSUME NEW c \in Client, Crash(c) PROVE Refined
  <2>1. UNCHANGED <<key, lapses>>
    BY <1>16 DEF Crash
  <2>2. CASE \E p \in Working : ClientOf[p] = c
    <3>1. PICK p \in Working : ClientOf[p] = c
      BY <2>2
    <3>2. Working' = Working \ {p}
      BY <1>16, <3>1 DEF Crash, OwnLocks, Working, Live, TypeOK
    <3>3. ActorLeaseOf!Leave(p)
      BY <2>1, <3>1, <3>2 DEF ActorLeaseOf!Leave
    <3> QED
      BY <3>1, <3>3 DEF Working, ActorLeaseOf!LeaseNext
  <2>3. CASE ~\E p \in Working : ClientOf[p] = c
    <3>1. Working' = Working
      BY <1>16, <2>3 DEF Crash, Working, Live, TypeOK
    <3> QED
      BY <2>1, <3>1 DEF ActorLeaseOf!leaseVars
  <2> QED
    BY <2>2, <2>3
<1>17. CASE UNCHANGED lockVars
  BY <1>17 DEF lockVars, Working, ActorLeaseOf!leaseVars
<1> QED
  BY <1>1, <1>2, <1>3, <1>4, <1>5, <1>6, <1>7, <1>8, <1>9, <1>10, <1>11,
     <1>12, <1>13, <1>14, <1>15, <1>16, <1>17 DEF LockNext

\* Only a lapse takes the lease from a working invocation, and nobody takes it
\* from anyone else.
THEOREM LockImplementsLease ==
  ASSUME OwnLocks PROVE LockSpec => ImplementsLease
<1>1. LockInit => ActorLeaseOf!LeaseInit
  BY RefinementInit
<1>2. TypeOK /\ HolderInv /\ [LockNext]_lockVars
        => [ActorLeaseOf!LeaseNext]_(ActorLeaseOf!leaseVars)
  BY RefinementStep
<1> QED
  BY <1>1, <1>2, HolderInvariant, PTL
     DEF LockSpec, ImplementsLease, ActorLeaseOf!LeaseSpec

-----------------------------------------------------------------------------
(* Giving the actor up *)

\* As long as no command and no reply was lost, an invocation knows the token
\* of its own key: it remembers it while it works, a renewal in flight names
\* it, and nothing of its own is in the store when it acquires.
KnowsOwnKey(p) ==
  key.by = p =>
    /\ pc[p] = "working" => key = tokens[ClientOf[p]]
    /\ beat[p] = "renewing" => key = beatTok[p]
    /\ beat[p] # "reacquiring"
    /\ pc[p] \notin {"idle", "waiting", "acquiring"}

NoFault == faults = MaxFaults

OwnKeyInv == NoFault => \A p \in Process : KnowsOwnKey(p)

\* Only a lost command or reply spends a fault.
LEMMA FaultSpends == ASSUME TypeOK, Fault PROVE ~NoFault'
BY LockAssumption DEF TypeOK, Fault, NoFault

LEMMA OwnKeyStep ==
  ASSUME OwnLocks, TypeOK, HolderInv, OwnKeyInv, [LockNext]_lockVars
  PROVE  OwnKeyInv'
<1> USE LockAssumption, TokenFacts
<1>a. SUFFICES ASSUME NoFault', NEW q \in Process, key'.by = q
               PROVE  KnowsOwnKey(q)'
  BY DEF OwnKeyInv, KnowsOwnKey
<1>b. \/ faults' = faults
      \/ Fault
  BY DEF LockNext, lockVars, TryAcquire, Acquired, Refused, AcquireFails,
         Finish, Released, ReleaseFails, Tick, Renewed, RenewalRefused,
         Reacquired, GiveUp, BeatFails, Lapse, Expire, Crash
<1>c. ~Fault /\ faults' = faults
  BY <1>a, <1>b, FaultSpends
<1>d. KnowsOwnKey(q) /\ Holder(q)
  BY <1>a, <1>c, HolderByProcess DEF OwnKeyInv, NoFault
<1>e. /\ ClientOf[q] \in Client
      /\ \A p \in Process : ClientOf[p] = ClientOf[q] => p = q
  BY DEF OwnLocks
<1> USE <1>a, <1>c, <1>d, <1>e
<1>1. ASSUME NEW p \in Process, TryAcquire(p) PROVE KnowsOwnKey(q)'
  BY <1>1 DEF TryAcquire, TypeOK, KnowsOwnKey
<1>2. ASSUME NEW p \in Process, Acquired(p) PROVE KnowsOwnKey(q)'
  BY <1>2, FreshTokenType DEF Acquired, SetNX, TypeOK, KnowsOwnKey, Holder
<1>3. ASSUME NEW p \in Process, Refused(p) PROVE KnowsOwnKey(q)'
  BY <1>3 DEF Refused, TypeOK, KnowsOwnKey
<1>4. ASSUME NEW p \in Process, AcquireFails(p) \/ ReleaseFails(p) \/ BeatFails(p)
      PROVE  KnowsOwnKey(q)'
  BY <1>4 DEF AcquireFails, ReleaseFails, BeatFails
<1>5. ASSUME NEW p \in Process, Finish(p) PROVE KnowsOwnKey(q)'
  BY <1>5 DEF Finish, ReleaseIssued, ReleaseOver, TypeOK, KnowsOwnKey
<1>6. ASSUME NEW p \in Process, Released(p) PROVE KnowsOwnKey(q)'
  BY <1>6 DEF Released, DeletedBy, TypeOK, KnowsOwnKey
<1>7. ASSUME NEW p \in Process, Tick(p) PROVE KnowsOwnKey(q)'
  BY <1>7 DEF Tick, TypeOK, KnowsOwnKey
<1>8. ASSUME NEW p \in Process, Renewed(p) PROVE KnowsOwnKey(q)'
  BY <1>8 DEF Renewed, TypeOK, KnowsOwnKey
<1>9. ASSUME NEW p \in Process, RenewalRefused(p) PROVE KnowsOwnKey(q)'
  BY <1>9 DEF RenewalRefused, TypeOK, KnowsOwnKey
<1>10. ASSUME NEW p \in Process, Reacquired(p) PROVE KnowsOwnKey(q)'
  BY <1>10, FreshTokenType, ZenonT(60) DEF Reacquired, SetNX, TypeOK, KnowsOwnKey, Holder
<1>11. ASSUME NEW p \in Process, GiveUp(p) PROVE KnowsOwnKey(q)'
  BY <1>11 DEF GiveUp, TypeOK, KnowsOwnKey
<1>12. CASE Lapse \/ Expire
  BY <1>12 DEF Lapse, Expire
<1>13. ASSUME NEW c \in Client, Crash(c) PROVE KnowsOwnKey(q)'
  BY <1>13 DEF Crash, TypeOK, Live, KnowsOwnKey
<1>14. CASE UNCHANGED lockVars
  BY <1>14 DEF lockVars, KnowsOwnKey
<1> QED
  BY <1>1, <1>2, <1>3, <1>4, <1>5, <1>6, <1>7, <1>8, <1>9, <1>10, <1>11,
     <1>12, <1>13, <1>14 DEF LockNext

LEMMA OwnKeyInit == LockInit => OwnKeyInv
BY LockAssumption, TokenFacts DEF LockInit, OwnKeyInv, KnowsOwnKey

\* Only onLost gives the actor up, and the SET before it found a key.
LEMMA LostByGivingUp ==
  ASSUME TypeOK, NEW p \in Process, lost'[p], ~lost[p], [LockNext]_lockVars
  PROVE  key # NoToken /\ beat[p] = "reacquiring"
<1>1. ~UNCHANGED lost
  OBVIOUS
<1>2. PICK q \in Process : GiveUp(q)
  BY <1>1 DEF LockNext, lockVars, TryAcquire, Acquired, Refused, AcquireFails, Finish,
              Released, ReleaseFails, Tick, Renewed, RenewalRefused, Reacquired,
              BeatFails, Lapse, Expire, Crash
<1>3. QED
  BY <1>2 DEF GiveUp, TypeOK

\* As long as no command and no reply is lost, the heartbeat reports the actor
\* lost only when another invocation holds its key (lockHeartbeat.ts:23-24).
THEOREM LostToAnother ==
  ASSUME OwnLocks PROVE LockSpec => LostMeansTaken
<1>1. LockInit => OwnKeyInv
  BY OwnKeyInit
<1>2. TypeOK /\ HolderInv /\ OwnKeyInv /\ [LockNext]_lockVars => OwnKeyInv'
  BY OwnKeyStep
<1>3. ASSUME TypeOK, OwnKeyInv, [LockNext]_lockVars
      PROVE  [\A p \in Process :
                lost'[p] /\ ~lost[p] /\ faults = MaxFaults
                  => key # NoToken /\ key.by # p]_lockVars
  BY <1>3, LostByGivingUp DEF OwnKeyInv, NoFault, KnowsOwnKey
<1> QED
  BY <1>1, <1>2, <1>3, HolderInvariant, PTL DEF LockSpec, LostMeansTaken

=============================================================================
