------------------------- MODULE AllTogether_proofs -------------------------
(***************************************************************************)
(* Proofs about AllTogether, for any finite sets of members and            *)
(* connections, any tick policy and any setup.                             *)
(***************************************************************************)
EXTENDS AllTogether, FiniteSetTheorems, TLAPS

-----------------------------------------------------------------------------
(* Helpers *)

\* What the division of the owed time promises, for an interval i.
LEMMA StepsFit ==
  ASSUME NEW owed \in Nat, NEW k \in Nat, NEW i \in Nat, i > 0, k <= owed \div i
  PROVE  k * i \in Nat /\ k * i <= owed
OBVIOUS

LEMMA AllStepsLeaveLessThanOne ==
  ASSUME NEW owed \in Nat, NEW i \in Nat, i > 0
  PROVE  owed \div i \in Nat /\ owed - (owed \div i) * i < i
OBVIOUS

LEMMA MoreSteps ==
  ASSUME NEW steps \in Nat, NEW k \in Nat, NEW i \in Nat
  PROVE  steps * i \in Nat /\ (steps + k) * i = steps * i + k * i
OBVIOUS

LEMMA SequenceTypes ==
  ASSUME NEW S, NEW s \in Seq(S), NEW e \in S
  PROVE  /\ Append(s, e) \in Seq(S)
         /\ s # <<>> => Head(s) \in S /\ Tail(s) \in Seq(S)
OBVIOUS

LEMMA MessageType ==
  ASSUME NEW c \in Connection, NEW type \in {"enter", "leave", "move"}
  PROVE  Msg(type, c) \in Message
BY DEF Msg, Message

\* Deliveries and drops that fail are counted.
LEMMA CountedFailures ==
  ASSUME NEW S \in SUBSET Connection
  PROVE  Cardinality(S) \in Nat
<1>1. IsFiniteSet(S)
  BY PartyAssumption, FS_Subset
<1>2. QED
  BY <1>1, FS_CardinalityType

-----------------------------------------------------------------------------
(* Type correctness *)

\* The loop processes a message when it has one, and repeats when a round is
\* left.
LoopInv ==
  /\ pc = "batch" => batch # <<>>
  /\ pc \in {"end", "drop"} => rounds > 0

USE DEF loop, gateway, context, outcome, outside

LEMMA SetupType ==
  ASSUME TypeOK
  PROVE  /\ setup.clock \in Nat /\ setup.moves \in Nat /\ setup.faults \in Nat
         /\ faults \in Nat /\ clock.now \in Nat
BY PartyAssumption DEF TypeOK

LEMMA ClockType ==
  ASSUME TypeOK
  PROVE  /\ clock.now \in Nat /\ clock.now <= setup.clock /\ clock.owed \in Nat
         /\ clock.steps \in Nat /\ clock.dropped \in Nat
         /\ Interval \in Nat /\ Interval > 0
<1>1. clock \in [now : 0..setup.clock, owed : Nat, steps : Nat, dropped : Nat]
  BY DEF TypeOK
<1>2. setup.clock \in Nat
  BY SetupType
<1>3. Interval \in Nat /\ Interval > 0
  BY PartyAssumption
<1>4. QED
  BY <1>1, <1>2, <1>3

LEMMA FaultsLeft ==
  ASSUME TypeOK
  PROVE  faults \in Nat /\ faults <= setup.faults /\ setup.faults \in Nat
<1>1. faults \in 0..setup.faults
  BY DEF TypeOK
<1>2. QED
  BY <1>1, SetupType

LEMMA FaultType ==
  ASSUME TypeOK, Fault
  PROVE  faults' \in 0..setup.faults
BY FaultsLeft DEF Fault

LEMMA AfterType ==
  ASSUME TypeOK, NEW b
  PROVE  /\ After(b) \in {"batch", "tick", "announce"}
         /\ After(b) = "batch" => b # <<>>
BY DEF After, TypeOK

LEMMA EndType ==
  ASSUME TypeOK, NEW why \in {"cleared", "timeout", "notEnoughPlayers", "error"},
         ToTheEnd(why)
  PROVE  /\ stage' = "end" /\ pc' = "end" /\ rounds' \in 0..Repeats /\ rounds' > 0
         /\ reason' \in {"none", "cleared", "timeout", "notEnoughPlayers", "error"}
         /\ ending' = ending
BY PartyAssumption DEF ToTheEnd

LEMMA ClosedType ==
  ASSUME TypeOK, NEW cs
  PROVE  Closed(cs) \in [Connection ->
            {"new", "connecting", "open", "refused", "closed", "gone"}]
BY DEF Closed, TypeOK

\* What every message does to the loop.
LEMMA ReceivesType ==
  ASSUME TypeOK, LoopInv, NEW type, Receives(type)
  PROVE  /\ Head(batch).connectionId \in Connection
         /\ batch' \in Seq(Message)
         /\ pc' \in {"batch", "tick", "announce"}
         /\ pc' = "batch" => batch' # <<>>
         /\ over' \in BOOLEAN
         /\ UNCHANGED <<setup, tooLate, mapping, moves, queue, stage, alive, reason,
                        rounds, ending, clock>>
<1>1. Head(batch) \in Message /\ Tail(batch) \in Seq(Message)
  BY SequenceTypes DEF Receives, LoopInv, TypeOK
<1>2. Head(batch).connectionId \in Connection
  BY <1>1 DEF Message
<1>3. over' \in BOOLEAN
  BY DEF Receives, GameMayEnd, TypeOK
<1>4. QED
  BY <1>1, <1>2, <1>3, AfterType DEF Receives

LEMMA BroadcastType ==
  ASSUME TypeOK, Broadcast
  PROVE  /\ faults' \in 0..setup.faults
         /\ users' \in [Member \cup Observer -> Connection \cup {Nobody}]
         /\ connectedUsers' \in [Connection -> Member \cup {Nobody}]
         /\ conn' = conn
<1>1. PICK undelivered \in SUBSET Bound :
        /\ faults' = faults - Cardinality({c \in undelivered : conn[c] = "open"})
        /\ faults' >= 0
        /\ connectedUsers' = [c \in Connection |->
             IF c \in undelivered THEN Nobody ELSE connectedUsers[c]]
        /\ users' = [m \in DOMAIN users |->
             IF m \in {connectedUsers[c] : c \in undelivered} THEN Nobody
             ELSE users[m]]
  BY DEF Broadcast
<1>2. Cardinality({c \in undelivered : conn[c] = "open"}) \in Nat
  BY CountedFailures DEF Bound
<1>3. faults' \in 0..setup.faults
  BY <1>1, <1>2, FaultsLeft
<1>4. QED
  BY <1>1, <1>3 DEF TypeOK, Broadcast

LEMMA TypeInit == Init => TypeOK /\ LoopInv
<1> SUFFICES ASSUME Init PROVE TypeOK /\ LoopInv
  OBVIOUS
<1>1. setup.clock \in Nat /\ setup.moves \in Nat /\ setup.faults \in Nat
  BY PartyAssumption DEF Init
<1>2. clock \in [now : 0..setup.clock, owed : Nat, steps : Nat, dropped : Nat]
  BY <1>1 DEF Init
<1>3. rounds \in 0..Repeats
  BY PartyAssumption DEF Init
<1>4. moves \in 0..setup.moves /\ faults \in 0..setup.faults
  BY <1>1 DEF Init
<1>5. queue \in Seq(Message) /\ batch \in Seq(Message)
  BY DEF Init
<1>6. QED
  BY <1>2, <1>3, <1>4, <1>5 DEF Init, TypeOK, LoopInv

LEMMA GatewayType ==
  ASSUME TypeOK, LoopInv, NEW c \in Connection, Gateway(c)
  PROVE  TypeOK' /\ LoopInv'
<1> DEFINE Conn == {"new", "connecting", "open", "refused", "closed", "gone"}
<1>1. \A type \in {"enter", "leave", "move"} :
        Append(queue, Msg(type, c)) \in Seq(Message)
  BY MessageType, SequenceTypes DEF TypeOK
<1>2. /\ conn' \in [Connection -> Conn] /\ mapping' \subseteq Connection
      /\ tooLate' \subseteq Connection
      /\ queue' \in Seq(Message)
      /\ moves' \in 0..setup.moves /\ faults' \in 0..setup.faults
      /\ UNCHANGED loop
  <2>1. CASE Connect(c)
    BY <1>1, <2>1 DEF Connect, TypeOK
  <2>2. CASE LetIn(c)
    BY <2>2 DEF LetIn, TypeOK
  <2>8. CASE ConnectFails(c)
    BY <2>8, FaultType DEF ConnectFails, TypeOK
  <2>3. CASE Move(c)
    BY <1>1, <2>3, SetupType, SMTT(60) DEF Move, TypeOK
  <2>4. CASE ClientCloses(c)
    BY <2>4 DEF ClientCloses, TypeOK
  <2>5. CASE Disconnect(c)
    BY <1>1, <2>5 DEF Disconnect, TypeOK
  <2>6. CASE DisconnectFails(c)
    BY <1>1, <2>6, FaultType DEF DisconnectFails, TypeOK
  <2>7. CASE MappingExpires(c)
    BY <2>7, FaultType DEF MappingExpires, TypeOK
  <2>9. QED
    BY <2>1, <2>2, <2>3, <2>4, <2>5, <2>6, <2>7, <2>8 DEF Gateway
<1>3. QED
  BY <1>2, SMTT(60) DEF TypeOK, LoopInv

LEMMA StepsType ==
  ASSUME TypeOK, RunFixedSteps
  PROVE  /\ clock' \in [now : 0..setup.clock, owed : Nat, steps : Nat, dropped : Nat]
         /\ over' \in BOOLEAN
<1>1. CASE ~setup.fixed
  BY <1>1 DEF RunFixedSteps, TypeOK
<1>2. CASE setup.fixed
  <2>1. PICK elapsed \in 0..(setup.clock - clock.now), k \in 0..MaxSteps :
          LET owed == clock.owed + elapsed
              rest == Rest(owed, k)
              overrun == ~(over' /\ k > 0) /\ rest >= Interval
          IN /\ k <= owed \div Interval
             /\ over' \in {over, TRUE}
             /\ clock' = [now |-> clock.now + elapsed,
                          owed |-> IF overrun THEN 0 ELSE rest,
                          steps |-> clock.steps + k,
                          dropped |-> clock.dropped + IF overrun THEN rest ELSE 0]
    BY <1>2, Zenon DEF RunFixedSteps
  <2>2. /\ clock.owed \in Nat /\ clock.steps \in Nat /\ clock.dropped \in Nat
        /\ elapsed \in Nat /\ k \in Nat /\ clock.now + elapsed \in 0..setup.clock
        /\ Interval \in Nat /\ Interval > 0
    <3>1. setup.clock \in Nat /\ MaxSteps \in Nat
      BY SetupType, PartyAssumption
    <3>2. QED
      BY <3>1, ClockType
  <2>3. Rest(clock.owed + elapsed, k) \in Nat
    BY <2>1, <2>2, StepsFit DEF Rest
  <2>4. clock' = [now |-> clock.now + elapsed,
                 owed |-> clock'.owed, steps |-> clock.steps + k,
                 dropped |-> clock'.dropped]
    BY <2>1
  <2>5. clock'.owed \in {0, Rest(clock.owed + elapsed, k)}
    BY <2>1
  <2>6. clock'.dropped \in
          {clock.dropped, clock.dropped + Rest(clock.owed + elapsed, k)}
    BY <2>1, <2>2
  <2>7. clock'.owed \in Nat /\ clock'.dropped \in Nat
    BY <2>2, <2>3, <2>5, <2>6
  <2>8. over' \in BOOLEAN
    BY <2>1 DEF TypeOK
  <2>9. QED
    BY <2>2, <2>4, <2>7, <2>8
<1>3. QED
  BY <1>1, <1>2

LEMMA LoopType ==
  ASSUME TypeOK, LoopInv, Loop
  PROVE  TypeOK' /\ LoopInv'
<1>1. CASE Poll
  BY <1>1, AfterType DEF Poll, TypeOK, LoopInv
<1>2. CASE PassFails
  BY <1>2, EndType, FaultType DEF PassFails, TypeOK, LoopInv
<1>3. CASE WaitEnds
  BY <1>3, EndType DEF WaitEnds, TypeOK, LoopInv
<1>4. CASE RunningEnds
  BY <1>4, EndType DEF RunningEnds, TypeOK, LoopInv
<1>5. CASE EntersAsObserver
  BY <1>5, ReceivesType DEF EntersAsObserver, TypeOK, LoopInv
<1>6. CASE Enters
  BY <1>6, ReceivesType, FaultType, ClosedType, ZenonT(60)
     DEF Enters, Unbound, TypeOK, LoopInv
<1>7. CASE EnterThrows
  BY <1>7, ReceivesType, FaultType DEF EnterThrows, Unbound, TypeOK, LoopInv
<1>8. CASE Leaves
  BY <1>8, ReceivesType DEF Leaves, TypeOK, LoopInv
<1>9. CASE Moves
  BY <1>9, ReceivesType DEF Moves, TypeOK, LoopInv
<1>10. CASE RunFixedSteps
  <2>1. pc' = IF over' THEN "poll" ELSE "announce"
    BY <1>10, Zenon DEF RunFixedSteps
  <2>2. UNCHANGED <<gateway, queue, stage, alive, batch, context, outcome, moves,
                    faults>>
    BY <1>10, Zenon DEF RunFixedSteps
  <2>3. clock' \in [now : 0..setup.clock, owed : Nat, steps : Nat, dropped : Nat]
        /\ over' \in BOOLEAN
    BY <1>10, StepsType
  <2>4. QED
    BY <2>1, <2>2, <2>3 DEF TypeOK, LoopInv, gateway, context, outcome
<1>11. CASE Announce
  BY <1>11, BroadcastType, SMTT(30) DEF Announce, TypeOK, LoopInv
<1>12. CASE AnnounceEnd
  <2>1. /\ pc' \in {"end", "drop"} /\ rounds' \in 0..Repeats /\ rounds' > 0
        /\ ending' \subseteq Connection
    BY <1>12, PartyAssumption, SMTT(60) DEF AnnounceEnd, TypeOK, LoopInv
  <2>2. UNCHANGED <<outside, queue, stage, alive, batch, over, reason, clock>>
    BY <1>12 DEF AnnounceEnd
  <2>3. Broadcast
    BY <1>12 DEF AnnounceEnd
  <2>4. QED
    BY <2>1, <2>2, <2>3, BroadcastType, SMTT(60) DEF TypeOK, LoopInv
<1>13. CASE DropAll
  <2>1. PICK failing \in SUBSET {c \in ending : conn[c] = "open"} :
          /\ Cardinality(failing) <= faults
          /\ faults' = faults - Cardinality(failing)
          /\ conn' = Closed(ending \ failing)
    BY <1>13 DEF DropAll
  <2>2. Cardinality(failing) \in Nat
    BY CountedFailures DEF TypeOK
  <2>3. faults' \in 0..setup.faults
    BY <2>1, <2>2, FaultsLeft
  <2>4. /\ rounds' \in 0..Repeats
        /\ pc' \in {"drop", "done"}
        /\ pc' = "drop" => rounds' > 0
    BY <1>13, PartyAssumption, SMTT(60) DEF DropAll, RoundsLeft, TypeOK, LoopInv
  <2>5. QED
    BY <1>13, <2>1, <2>3, <2>4, ClosedType, SMTT(60) DEF DropAll, TypeOK, LoopInv
<1>14. QED
  BY <1>1, <1>2, <1>3, <1>4, <1>5, <1>6, <1>7, <1>8, <1>9, <1>10, <1>11,
     <1>12, <1>13 DEF Loop

LEMMA TypeStep == TypeOK /\ LoopInv /\ [Next]_vars => TypeOK' /\ LoopInv'
<1> SUFFICES ASSUME TypeOK, LoopInv, [Next]_vars PROVE TypeOK' /\ LoopInv'
  OBVIOUS
<1>1. CASE UNCHANGED vars
  BY <1>1 DEF vars, TypeOK, LoopInv
<1>2. CASE TimeUp
  BY <1>2 DEF TimeUp, TypeOK, LoopInv
<1>3. QED
  BY <1>1, <1>2, GatewayType, LoopType DEF Next

\* The loop never has a message that was not queued, a round that is not left
\* or a budget that is overdrawn (runGameAllTogether.ts, doInStageRunning.ts).
THEOREM TypeCorrect == Spec => []TypeOK
<1>1. TypeOK /\ LoopInv /\ [Next]_vars => TypeOK' /\ LoopInv'
  BY TypeStep
<1>2. QED
  BY <1>1, TypeInit, PTL DEF Spec

-----------------------------------------------------------------------------
(* Who is bound *)

LEMMA BoundByMessage ==
  ASSUME TypeOK, LoopInv, BoundOnce,
         EntersAsObserver \/ Enters \/ EnterThrows \/ Leaves
  PROVE  BoundOnce'
<1> DEFINE c == Head(batch).connectionId
           m == MemberOf[c]
<1>1. c \in Connection
  BY ReceivesType DEF EntersAsObserver, Enters, EnterThrows, Leaves
<1>2. /\ users \in [Member \cup Observer -> Connection \cup {Nobody}]
      /\ connectedUsers \in [Connection -> Member \cup {Nobody}]
      /\ Nobody \notin Member \cup Observer \cup Connection
      /\ \A o \in Observer : o \notin Member
  BY PartyAssumption DEF TypeOK
<1>3. \A d \in Connection : connectedUsers[d] # Nobody => users[connectedUsers[d]] = d
  BY DEF BoundOnce, Bound
<1> SUFFICES ASSUME NEW d \in Connection, connectedUsers'[d] # Nobody
             PROVE  users'[connectedUsers'[d]] = d
  BY DEF BoundOnce, Bound
<1> HIDE DEF c
<1>4. CASE EntersAsObserver
  BY <1>1, <1>2, <1>3, <1>4 DEF EntersAsObserver, c
<1>5. CASE Enters
  <2>1. /\ m \in Member
        /\ users' = [users EXCEPT ![m] = c]
        /\ connectedUsers' = [Unbound(m, c) EXCEPT ![c] = m]
    BY <1>5 DEF Enters, c
  <2>2. CASE d = c
    BY <1>1, <1>2, <2>1, <2>2 DEF Unbound
  <2>3. CASE d # c
    \* Whoever else was bound to m is superseded.
    <3>1. connectedUsers'[d] = Unbound(m, c)[d]
      BY <2>1, <2>3
    <3>2. connectedUsers[d] # m
      <4>1. SUFFICES ASSUME connectedUsers[d] = m PROVE FALSE
        OBVIOUS
      <4>2. users[m] = d
        BY <1>2, <1>3, <2>1, <4>1
      <4>3. Supersedes(m, c)
        BY <1>2, <2>3, <4>1, <4>2 DEF Supersedes
      <4>4. Unbound(m, c)[d] = Nobody
        BY <1>2, <4>2, <4>3 DEF Unbound
      <4>5. QED
        BY <3>1, <4>4
    <3>3. connectedUsers'[d] = connectedUsers[d]
      BY <1>2, <3>1 DEF Unbound
    <3>4. QED
      BY <1>2, <1>3, <2>1, <3>2, <3>3
  <2>4. QED
    BY <2>2, <2>3
<1>6. CASE EnterThrows
  BY <1>2, <1>3, <1>6 DEF EnterThrows, Unbound
<1>7. CASE Leaves
  <2> DEFINE observing == {o \in Observer : users[o] = c}
             leaver == IF observing = {} THEN {connectedUsers[c]} ELSE observing
  <2>1. /\ users' = [u \in DOMAIN users |-> IF u \in leaver THEN Nobody ELSE users[u]]
        /\ connectedUsers' = [connectedUsers EXCEPT
                               ![c] = IF observing = {} THEN Nobody ELSE @]
    BY <1>7 DEF Leaves, c
  <2>2. CASE observing = {}
    <3>1. d # c /\ connectedUsers'[d] = connectedUsers[d]
      BY <1>1, <1>2, <2>1, <2>2
    <3>2. connectedUsers[d] # connectedUsers[c]
      BY <1>1, <1>3, <3>1
    <3>3. QED
      BY <1>2, <1>3, <2>1, <2>2, <3>1, <3>2
  <2>3. CASE observing # {}
    BY <1>1, <1>2, <1>3, <2>1, <2>3
  <2>4. QED
    BY <2>2, <2>3
<1>8. QED
  BY <1>4, <1>5, <1>6, <1>7

LEMMA BoundByBroadcast ==
  ASSUME TypeOK, BoundOnce, Broadcast
  PROVE  BoundOnce'
<1>1. PICK undelivered \in SUBSET Bound :
        /\ connectedUsers' = [c \in Connection |->
             IF c \in undelivered THEN Nobody ELSE connectedUsers[c]]
        /\ users' = [m \in DOMAIN users |->
             IF m \in {connectedUsers[c] : c \in undelivered} THEN Nobody
             ELSE users[m]]
  BY DEF Broadcast
<1>2. SUFFICES ASSUME NEW d \in Connection, connectedUsers'[d] # Nobody
               PROVE  users'[connectedUsers'[d]] = d
  BY DEF BoundOnce, Bound
<1>3. d \notin undelivered /\ connectedUsers'[d] = connectedUsers[d]
  BY <1>1, <1>2
<1>4. \A c \in Bound : users[connectedUsers[c]] = c
  BY DEF BoundOnce
<1>5. connectedUsers[d] \notin {connectedUsers[c] : c \in undelivered}
  BY <1>1, <1>2, <1>3, <1>4 DEF Bound
<1>6. QED
  BY <1>1, <1>2, <1>3, <1>4, <1>5 DEF TypeOK, Bound

LEMMA BoundStep ==
  TypeOK /\ LoopInv /\ BoundOnce /\ [Next]_vars => BoundOnce'
<1> SUFFICES ASSUME TypeOK, LoopInv, BoundOnce, [Next]_vars PROVE BoundOnce'
  OBVIOUS
<1>1. CASE UNCHANGED context
  BY <1>1 DEF BoundOnce, Bound
<1>2. CASE EntersAsObserver \/ Enters \/ EnterThrows \/ Leaves
  BY <1>2, BoundByMessage
<1>3. CASE Announce \/ AnnounceEnd
  BY <1>3, BoundByBroadcast DEF Announce, AnnounceEnd
<1>4. UNCHANGED context \/ EntersAsObserver \/ Enters \/ EnterThrows \/ Leaves
      \/ Announce \/ AnnounceEnd
  <2>1. CASE UNCHANGED vars
    BY <2>1 DEF vars
  <2>2. CASE \E c \in Connection : Gateway(c)
    BY <2>2 DEF Gateway, Connect, LetIn, ConnectFails, Move, ClientCloses, Disconnect,
                DisconnectFails, MappingExpires
  <2>3. CASE TimeUp
    BY <2>3 DEF TimeUp
  <2>4. CASE Loop
    BY <2>4 DEF Loop, Poll, PassFails, WaitEnds, RunningEnds, Moves,
                RunFixedSteps, DropAll
  <2>5. QED
    BY <2>1, <2>2, <2>3, <2>4 DEF Next
<1>5. QED
  BY <1>1, <1>2, <1>3, <1>4

\* The map of connections and the members agree, so that no member is bound
\* to two connections and the wait stage counts members
\* (processEnter.ts:55-73, processLeave.ts:15-31, doInStageWait.ts:59-64).
THEOREM NobodyIsBoundTwice == Spec => []BoundOnce
<1>1. Init => BoundOnce
  BY DEF Init, BoundOnce, Bound
<1>2. TypeOK /\ LoopInv /\ BoundOnce /\ [Next]_vars
      => TypeOK' /\ LoopInv' /\ BoundOnce'
  BY TypeStep, BoundStep
<1>3. QED
  BY <1>1, <1>2, TypeInit, PTL DEF Spec

-----------------------------------------------------------------------------
(* The clock *)

\* SimulationFollowsClock is not inductive: a rest that is owed could exceed what
\* was not simulated. The time is accounted for without a gap.
ClockInv ==
  setup.fixed =>
    /\ clock.now = clock.steps * Interval + clock.owed + clock.dropped
    /\ clock.dropped = 0 /\ ~over => clock.owed < Interval

LEMMA ClockStep ==
  ASSUME TypeOK, ClockInv, RunFixedSteps
  PROVE  ClockInv'
<1>1. SUFFICES ASSUME setup.fixed
               PROVE  /\ clock'.now = clock'.steps * Interval + clock'.owed
                                      + clock'.dropped
                      /\ clock'.dropped = 0 /\ ~over' => clock'.owed < Interval
  BY DEF ClockInv, RunFixedSteps
<1> DEFINE owed(elapsed) == clock.owed + elapsed
           rest(elapsed, k) == Rest(owed(elapsed), k)
           overrun(elapsed, k) == ~(over' /\ k > 0) /\ rest(elapsed, k) >= Interval
<1>2. PICK elapsed \in 0..(setup.clock - clock.now), k \in 0..MaxSteps :
        /\ k <= owed(elapsed) \div Interval
        /\ clock' = [now |-> clock.now + elapsed,
                     owed |-> IF overrun(elapsed, k) THEN 0 ELSE rest(elapsed, k),
                     steps |-> clock.steps + k,
                     dropped |-> clock.dropped +
                       IF overrun(elapsed, k) THEN rest(elapsed, k) ELSE 0]
  BY <1>1, ZenonT(40) DEF RunFixedSteps
<1>3. /\ clock.now \in Nat /\ clock.owed \in Nat /\ clock.steps \in Nat
      /\ clock.dropped \in Nat /\ elapsed \in Nat /\ k \in Nat
      /\ owed(elapsed) \in Nat /\ Interval \in Nat /\ Interval > 0
  <2>1. setup.clock \in Nat /\ MaxSteps \in Nat
    BY SetupType, PartyAssumption
  <2>2. QED
    BY <2>1, ClockType
<1>4. /\ k * Interval \in Nat /\ rest(elapsed, k) \in Nat
      /\ owed(elapsed) = k * Interval + rest(elapsed, k)
  BY <1>2, <1>3, StepsFit DEF Rest
<1>5. /\ clock.steps * Interval \in Nat
      /\ (clock.steps + k) * Interval = clock.steps * Interval + k * Interval
  BY <1>3, MoreSteps
<1>6. clock.now = clock.steps * Interval + clock.owed + clock.dropped
  BY <1>1 DEF ClockInv
<1> HIDE DEF overrun, rest
<1>7. CASE overrun(elapsed, k)
  <2>1. /\ clock'.now = clock.now + elapsed /\ clock'.owed = 0
        /\ clock'.steps = clock.steps + k
        /\ clock'.dropped = clock.dropped + rest(elapsed, k)
    BY <1>2, <1>7
  <2>2. rest(elapsed, k) > 0
    BY <1>3, <1>4, <1>7 DEF overrun
  <2>3. QED
    BY <1>3, <1>4, <1>5, <1>6, <2>1, <2>2
<1>8. CASE ~overrun(elapsed, k)
  <2>1. /\ clock'.now = clock.now + elapsed /\ clock'.owed = rest(elapsed, k)
        /\ clock'.steps = clock.steps + k
        /\ clock'.dropped = clock.dropped
    BY <1>2, <1>3, <1>8
  <2>2. ~over' => rest(elapsed, k) < Interval
    BY <1>3, <1>4, <1>8 DEF overrun
  <2>3. QED
    BY <1>3, <1>4, <1>5, <1>6, <2>1, <2>2
<1>9. QED
  BY <1>7, <1>8

LEMMA ClockUnchanged ==
  ASSUME TypeOK, ClockInv, [Next]_vars, ~RunFixedSteps
  PROVE  ClockInv'
<1>1. UNCHANGED <<setup, clock>> /\ (over => over')
  <2>1. CASE UNCHANGED vars
    BY <2>1 DEF vars
  <2>2. CASE \E c \in Connection : Gateway(c)
    BY <2>2 DEF Gateway, Connect, LetIn, ConnectFails, Move, ClientCloses, Disconnect,
                DisconnectFails, MappingExpires
  <2>3. CASE TimeUp
    BY <2>3 DEF TimeUp
  <2>4. CASE EntersAsObserver \/ Enters \/ EnterThrows \/ Leaves \/ Moves
    <3>1. PICK type : Receives(type)
      BY <2>4, Zenon DEF EntersAsObserver, Enters, EnterThrows, Leaves, Moves
    <3>2. QED
      BY <3>1 DEF Receives, GameMayEnd, TypeOK
  <2>5. CASE Poll \/ PassFails \/ WaitEnds \/ RunningEnds
    BY <2>5 DEF Poll, PassFails, WaitEnds, RunningEnds
  <2>6. CASE Announce \/ AnnounceEnd \/ DropAll
    BY <2>6 DEF Announce, AnnounceEnd, DropAll
  <2>7. QED
    BY <2>1, <2>2, <2>3, <2>4, <2>5, <2>6 DEF Next, Loop
<1>2. QED
  BY <1>1 DEF ClockInv

\* The simulation of fixed ticks never runs ahead of the clock and, unless a
\* backlog was dropped, is never a whole step behind it, for any interval, any
\* number of steps to catch up with and any time between the passes
\* (doInStageRunning.ts:132-178).
THEOREM TicksFollowClock == Spec => []SimulationFollowsClock
<1>1. Init => ClockInv
  BY PartyAssumption DEF Init, ClockInv
<1>2. TypeOK /\ LoopInv /\ ClockInv /\ [Next]_vars
      => TypeOK' /\ LoopInv' /\ ClockInv'
  BY TypeStep, ClockStep, ClockUnchanged
<1>3. TypeOK /\ ClockInv => SimulationFollowsClock
  <2> SUFFICES ASSUME TypeOK, ClockInv, setup.fixed
               PROVE  /\ clock.steps * Interval <= clock.now
                      /\ clock.dropped = 0 /\ ~over =>
                           clock.now - clock.steps * Interval < Interval
    BY DEF SimulationFollowsClock
  <2>1. /\ clock.steps \in Nat /\ clock.owed \in Nat /\ clock.dropped \in Nat
        /\ Interval \in Nat
    BY ClockType
  <2>2. clock.steps * Interval \in Nat
    BY <2>1, MoreSteps
  <2>3. QED
    BY <2>1, <2>2 DEF ClockInv
<1>4. QED
  BY <1>1, <1>2, <1>3, TypeInit, PTL DEF Spec

-----------------------------------------------------------------------------
(* The end *)

\* The connection of a message on its way was opened, and a leave follows the
\* end of its socket.
Announced(m, sockets) ==
  /\ sockets[m.connectionId] # "new"
  /\ m.type = "leave" => sockets[m.connectionId] = "gone"
OnTheWay(s, sockets) == \A i \in 1..Len(s) : Announced(s[i], sockets)

\* A socket that was closed stays closed, whoever acts, and one that is let in
\* during or after the drops is noted.
Aging ==
  /\ tooLate \subseteq tooLate'
  /\ \A c \in Connection :
       /\ conn[c] # "new" => conn'[c] # "new"
       /\ conn[c] = "gone" => conn'[c] = "gone"
       /\ conn'[c] = "open" /\ pc \in {"drop", "done"} =>
            conn[c] = "open" \/ c \in tooLate'

LEMMA SocketsAge ==
  ASSUME TypeOK, LoopInv, [Next]_vars
  PROVE  Aging
<1>1. CASE UNCHANGED <<conn, tooLate>>
  BY <1>1 DEF Aging
<1>2. ASSUME NEW c \in Connection, Gateway(c) PROVE Aging
  BY <1>2 DEF Gateway, Connect, LetIn, ConnectFails, Move, ClientCloses, Disconnect,
              DisconnectFails, MappingExpires, Aging, TypeOK
<1>3. CASE Enters
  <2>1. PICK cs : UNCHANGED tooLate /\ (conn' = Closed(cs) \/ conn' = conn)
    BY <1>3, Zenon DEF Enters, Receives
  <2> QED
    BY <2>1, Zenon DEF Closed, Aging
<1>4. CASE DropAll
  <2>1. PICK cs : conn' = Closed(cs) /\ UNCHANGED tooLate
    BY <1>4 DEF DropAll
  <2> QED
    BY <2>1, Zenon DEF Closed, Aging
<1>5. UNCHANGED <<conn, tooLate>> \/ (\E c \in Connection : Gateway(c)) \/ Enters \/ DropAll
  BY DEF Next, vars, TimeUp, Loop, Poll, PassFails, WaitEnds, RunningEnds,
         EntersAsObserver, EnterThrows, Leaves, Moves, Receives, RunFixedSteps,
         Announce, AnnounceEnd, Broadcast
<1> QED
  BY <1>1, <1>2, <1>3, <1>4, <1>5

\* What is appended to a sequence or taken from it leaves the rest as it was.
LEMMA AppendSteps ==
  ASSUME NEW s \in Seq(Message), NEW e \in Message
  PROVE  \A i \in 1..Len(Append(s, e)) :
           Append(s, e)[i] = e \/ \E j \in 1..Len(s) : Append(s, e)[i] = s[j]
OBVIOUS

LEMMA TailSteps ==
  ASSUME NEW s \in Seq(Message), s # <<>>
  PROVE  \A i \in 1..Len(Tail(s)) : \E j \in 1..Len(s) : Tail(s)[i] = s[j]
<1> SUFFICES ASSUME NEW i \in 1..Len(Tail(s))
             PROVE  \E j \in 1..Len(s) : Tail(s)[i] = s[j]
  OBVIOUS
<1>1. i + 1 \in 1..Len(s) /\ Tail(s)[i] = s[i + 1]
  OBVIOUS
<1> QED
  BY <1>1

\* How a step changes what is on the way.
LEMMA WayOfMessages ==
  ASSUME TypeOK, LoopInv, [Next]_vars
  PROVE  /\ \/ queue' = queue
            \/ queue' = <<>>
            \/ \E c \in Connection, type \in {"enter", "leave", "move"} :
                 /\ queue' = Append(queue, Msg(type, c))
                 /\ conn'[c] # "new"
                 /\ type = "leave" => conn'[c] = "gone"
         /\ \/ batch' = batch
            \/ batch' = queue
            \/ batch # <<>> /\ batch' = Tail(batch)
<1>1. ASSUME NEW c \in Connection, Gateway(c)
      PROVE  /\ batch' = batch
             /\ \/ queue' = queue
                \/ \E type \in {"enter", "leave", "move"} :
                     /\ queue' = Append(queue, Msg(type, c))
                     /\ conn'[c] # "new"
                     /\ type = "leave" => conn'[c] = "gone"
  <2>1. CASE Connect(c)
    BY <2>1 DEF Connect, TypeOK
  <2>2. CASE LetIn(c) \/ ConnectFails(c)
    BY <2>2 DEF LetIn, ConnectFails
  <2>3. CASE Move(c)
    BY <2>3 DEF Move, TypeOK
  <2>4. CASE ClientCloses(c) \/ MappingExpires(c)
    BY <2>4 DEF ClientCloses, MappingExpires
  <2>5. CASE Disconnect(c)
    BY <2>5 DEF Disconnect, TypeOK
  <2>6. CASE DisconnectFails(c)
    BY <2>6 DEF DisconnectFails, TypeOK
  <2> QED
    BY <1>1, <2>1, <2>2, <2>3, <2>4, <2>5, <2>6 DEF Gateway
<1>2. CASE EntersAsObserver \/ Enters \/ EnterThrows \/ Leaves \/ Moves
  <2>1. PICK type : Receives(type)
    BY <1>2, Zenon DEF EntersAsObserver, Enters, EnterThrows, Leaves, Moves
  <2> QED
    BY <2>1 DEF Receives, LoopInv
<1>3. CASE Poll
  BY <1>3 DEF Poll
<1>4. UNCHANGED <<queue, batch>> \/ (\E c \in Connection : Gateway(c)) \/ Poll
      \/ EntersAsObserver \/ Enters \/ EnterThrows \/ Leaves \/ Moves
  BY DEF Next, vars, TimeUp, Loop, PassFails, WaitEnds, RunningEnds,
         RunFixedSteps, Announce, AnnounceEnd, DropAll
<1> QED
  BY <1>1, <1>2, <1>3, <1>4

LEMMA WayOfAge ==
  ASSUME TypeOK, Aging, NEW s \in Seq(Message), OnTheWay(s, conn)
  PROVE  OnTheWay(s, conn')
<1>1. ASSUME NEW i \in 1..Len(s) PROVE s[i].connectionId \in Connection
  <2>1. s[i] \in Message
    OBVIOUS
  <2> QED
    BY <2>1 DEF Message
<1> QED
  BY <1>1 DEF Aging, OnTheWay, Announced

LEMMA WayAppended ==
  ASSUME NEW s \in Seq(Message), NEW m \in Message, NEW sockets,
         OnTheWay(s, sockets), Announced(m, sockets)
  PROVE  OnTheWay(Append(s, m), sockets)
<1>1. \A i \in 1..Len(Append(s, m)) :
        Append(s, m)[i] = m \/ \E j \in 1..Len(s) : Append(s, m)[i] = s[j]
  BY AppendSteps
<1> QED
  BY <1>1, Zenon DEF OnTheWay

LEMMA WayTaken ==
  ASSUME NEW s \in Seq(Message), s # <<>>, NEW sockets, OnTheWay(s, sockets)
  PROVE  Announced(Head(s), sockets) /\ OnTheWay(Tail(s), sockets)
<1>1. Head(s) \in Message /\ Head(s) = s[1] /\ 1 \in 1..Len(s)
  OBVIOUS
<1>2. \A i \in 1..Len(Tail(s)) : \E j \in 1..Len(s) : Tail(s)[i] = s[j]
  BY TailSteps
<1> QED
  BY <1>1, <1>2, Zenon DEF OnTheWay

LEMMA WayStep ==
  ASSUME TypeOK, LoopInv, OnTheWay(queue, conn), OnTheWay(batch, conn),
         [Next]_vars
  PROVE  OnTheWay(queue', conn') /\ OnTheWay(batch', conn')
<1>1. queue \in Seq(Message) /\ batch \in Seq(Message)
  BY DEF TypeOK
<1>2. OnTheWay(queue, conn') /\ OnTheWay(batch, conn')
  BY <1>1, SocketsAge, WayOfAge
<1>3. OnTheWay(<<>>, conn')
  BY DEF OnTheWay
<1>4. ASSUME NEW c \in Connection, NEW type \in {"enter", "leave", "move"},
             conn'[c] # "new", type = "leave" => conn'[c] = "gone"
      PROVE  OnTheWay(Append(queue, Msg(type, c)), conn')
  <2>1. Msg(type, c) \in Message /\ Announced(Msg(type, c), conn')
    BY <1>4, MessageType DEF Announced, Msg
  <2> QED
    BY <1>1, <1>2, <2>1, WayAppended
<1>5. batch # <<>> => OnTheWay(Tail(batch), conn')
  BY <1>1, <1>2, WayTaken
<1> QED
  BY <1>2, <1>3, <1>4, <1>5, WayOfMessages

\* Whoever is bound is bound to its own member, by an enter that announced it.
BoundAreKnown ==
  \A c \in Bound : conn[c] # "new" /\ connectedUsers[c] = MemberOf[c]

LEMMA KnownStep ==
  ASSUME TypeOK, LoopInv, OnTheWay(batch, conn), BoundAreKnown, [Next]_vars
  PROVE  BoundAreKnown'
<1>1. SUFFICES ASSUME NEW c \in Connection, connectedUsers'[c] # Nobody
               PROVE  conn[c] # "new" /\ connectedUsers'[c] = MemberOf[c]
  BY SocketsAge DEF BoundAreKnown, Bound, Aging
<1>2. CASE connectedUsers'[c] = connectedUsers[c]
  BY <1>1, <1>2, SMTT(60) DEF BoundAreKnown, Bound
<1>3. CASE Enters
  <2>1. batch \in Seq(Message) /\ batch # <<>>
    BY <1>3 DEF Enters, Receives, LoopInv, TypeOK
  <2>2. Announced(Head(batch), conn)
    BY <2>1, WayTaken
  <2> QED
    BY <1>1, <1>2, <1>3, <2>2 DEF Enters, Unbound, TypeOK, Announced
<1>4. CASE EnterThrows
  BY <1>1, <1>2, <1>4 DEF EnterThrows, Unbound, TypeOK
<1>5. CASE Leaves
  BY <1>1, <1>2, <1>5 DEF Leaves, TypeOK
<1>6. CASE Announce \/ AnnounceEnd
  BY <1>1, <1>2, <1>6 DEF Announce, AnnounceEnd, Broadcast
<1>7. connectedUsers' = connectedUsers \/ Enters \/ EnterThrows \/ Leaves
      \/ Announce \/ AnnounceEnd
  BY DEF Next, vars, Gateway, Connect, LetIn, ConnectFails, Move, ClientCloses,
         Disconnect, DisconnectFails, MappingExpires, TimeUp, Loop, Poll,
         PassFails, WaitEnds, RunningEnds, EntersAsObserver, Moves,
         RunFixedSteps, DropAll
<1> QED
  BY <1>2, <1>3, <1>4, <1>5, <1>6, <1>7

\* The drops of the end are those of the bound, and whoever is still open cost
\* every round so far a fault, if it was let in before the drops.
StillOpen == {c \in Bound \ tooLate : conn[c] = "open"}
DropInv ==
  pc \in {"drop", "done"} =>
    /\ ending = Bound
    /\ pc = "done" => rounds = 0
    /\ StillOpen # {} => faults + (Repeats - rounds) <= setup.faults

LEMMA DropAllStep ==
  ASSUME TypeOK, LoopInv, DropInv, DropAll
  PROVE  DropInv'
<1>1. PICK failing \in SUBSET {c \in ending : conn[c] = "open"} :
        /\ Cardinality(failing) <= faults
        /\ faults' = faults - Cardinality(failing)
        /\ conn' = Closed(ending \ failing)
  BY DEF DropAll
<1>2. /\ pc = "drop" /\ rounds' = rounds - 1 /\ pc' \in {"drop", "done"}
      /\ pc' = "done" => rounds' = 0
      /\ UNCHANGED <<setup, tooLate, connectedUsers, ending>>
  BY DEF DropAll, RoundsLeft
<1>3. Bound' = Bound /\ ending = Bound
  BY <1>2 DEF Bound, DropInv
<1>4. SUFFICES ASSUME StillOpen' # {}
               PROVE  faults' + (Repeats - rounds') <= setup'.faults
  BY <1>2, <1>3 DEF DropInv
<1>5. StillOpen' \subseteq failing
  BY <1>1, <1>2, <1>3 DEF StillOpen, Closed, Bound
<1>6. StillOpen' \subseteq StillOpen
  BY <1>1, <1>2, <1>3, <1>5 DEF StillOpen
<1>7. Cardinality(failing) >= 1
  <2>1. IsFiniteSet(failing) /\ failing \subseteq Connection
    BY <1>3, PartyAssumption, FS_Subset DEF Bound
  <2>2. Cardinality(failing) \in Nat
    BY <2>1, CountedFailures
  <2>3. Cardinality(failing) # 0
    BY <1>4, <1>5, <2>1, FS_EmptySet
  <2> QED
    BY <2>2, <2>3
<1>8. Cardinality(failing) \in Nat
  <2>1. failing \in SUBSET Connection
    BY <1>3 DEF Bound
  <2> QED
    BY <2>1, CountedFailures
<1>9. faults + (Repeats - rounds) <= setup.faults
  BY <1>2, <1>4, <1>5, <1>6 DEF DropInv
<1>10. rounds \in Nat /\ Repeats \in Nat
  BY PartyAssumption DEF TypeOK
<1> QED
  BY <1>1, <1>2, <1>7, <1>8, <1>9, <1>10, FaultsLeft

LEMMA DropStep ==
  ASSUME TypeOK, LoopInv, BoundAreKnown, DropInv, [Next]_vars
  PROVE  DropInv'
<1>1. CASE DropAll
  BY <1>1, DropAllStep
<1>2. CASE AnnounceEnd
  <2>1. SUFFICES ASSUME pc' \in {"drop", "done"} PROVE DropInv'
    BY DEF DropInv
  <2>2. pc' = "drop" /\ rounds' = Repeats /\ ending' = Bound' /\ setup' = setup
    BY <1>2, <2>1 DEF AnnounceEnd, Bound
  <2>3. faults' <= setup.faults /\ faults' \in Nat
    BY <1>2, BroadcastType, SetupType DEF AnnounceEnd
  <2> QED
    BY <2>2, <2>3, PartyAssumption DEF DropInv
<1>3. CASE pc \in {"drop", "done"} /\ ~DropAll /\ ~AnnounceEnd
  <2>1. UNCHANGED <<setup, pc, rounds, ending, connectedUsers>>
    BY <1>3 DEF Next, vars, Gateway, Connect, LetIn, ConnectFails, Move, ClientCloses,
         Disconnect, DisconnectFails, MappingExpires, TimeUp, Loop, Poll, Polls,
         PassFails, WaitEnds, RunningEnds, EntersAsObserver, Enters, EnterThrows,
         Leaves, Moves, Receives, RunFixedSteps, Announce
  <2>2. faults' \in Nat /\ faults' <= faults
    <3> SUFFICES faults' = faults \/ Fault
      BY FaultsLeft DEF Fault
    <3>1. CASE \E c \in Connection : Gateway(c)
      BY <3>1 DEF Gateway, Connect, LetIn, ConnectFails, Move, ClientCloses,
                  Disconnect, DisconnectFails, MappingExpires
    <3>2. CASE TimeUp \/ UNCHANGED vars
      BY <3>2 DEF TimeUp, vars
    <3>3. CASE Loop
      <4>1. Poll \/ PassFails \/ WaitEnds \/ RunningEnds \/ Announce =>
              pc \in {"poll", "announce"}
        BY DEF Poll, Polls, PassFails, WaitEnds, RunningEnds, Announce
      <4>2. EntersAsObserver \/ Enters \/ EnterThrows \/ Leaves \/ Moves =>
              pc = "batch"
        BY Zenon DEF EntersAsObserver, Enters, EnterThrows, Leaves, Moves, Receives
      <4>3. RunFixedSteps => pc = "tick"
        BY Zenon DEF RunFixedSteps
      <4> QED
        BY <1>3, <3>3, <4>1, <4>2, <4>3 DEF Loop
    <3> QED
      BY <3>1, <3>2, <3>3 DEF Next
  <2>3. Bound' = Bound
    BY <2>1 DEF Bound
  <2>4. StillOpen' \subseteq StillOpen
    BY <1>3, <2>3, SocketsAge DEF StillOpen, Aging, Bound
  <2>5. /\ Repeats \in Nat /\ rounds \in Nat /\ faults \in Nat
        /\ setup.faults \in Nat
    BY FaultsLeft, PartyAssumption DEF TypeOK
  <2> QED
    BY <1>3, <2>1, <2>2, <2>3, <2>4, <2>5, SMTT(60) DEF DropInv
<1>4. CASE pc \notin {"drop", "done"} /\ ~AnnounceEnd
  <2>1. pc' \notin {"drop", "done"}
    BY <1>4, AfterType DEF Next, vars, Gateway, Connect, LetIn, ConnectFails, Move,
         ClientCloses, Disconnect, DisconnectFails, MappingExpires, TimeUp, Loop,
         Poll, PassFails, WaitEnds, RunningEnds, EntersAsObserver, Enters,
         EnterThrows, Leaves, Moves, Receives, RunFixedSteps, Announce, DropAll,
         ToTheEnd
  <2> QED
    BY <2>1, SMTT(60) DEF DropInv
<1> QED
  BY <1>1, <1>2, <1>3, <1>4

PartyInv ==
  /\ OnTheWay(queue, conn) /\ OnTheWay(batch, conn)
  /\ BoundAreKnown

LEMMA PartyInvStep ==
  TypeOK /\ LoopInv /\ PartyInv /\ [Next]_vars => PartyInv'
<1> SUFFICES ASSUME TypeOK, LoopInv, PartyInv, [Next]_vars PROVE PartyInv'
  OBVIOUS
<1>1. OnTheWay(queue', conn') /\ OnTheWay(batch', conn')
  BY WayStep DEF PartyInv
<1>2. BoundAreKnown'
  BY KnownStep DEF PartyInv
<1>3. OnTheWay(queue, conn)' /\ OnTheWay(batch, conn)'
  BY <1>1 DEF OnTheWay, Announced
<1> QED
  BY <1>2, <1>3 DEF PartyInv

LEMMA PartyInvInit == Init => PartyInv
BY DEF Init, PartyInv, OnTheWay, BoundAreKnown, Bound

\* If there are more rounds of drops than drops that fail, a connection that is
\* bound at the end and was let in before the drops is closed after it: whoever
\* is still open has cost every round a fault (runGameAllTogether.ts:60-74).
THEOREM TheBoundAreDropped == Spec => []BoundIsDropped
<1>1. Init => DropInv
  BY DEF Init, DropInv
<1>2. TypeOK /\ LoopInv /\ PartyInv /\ DropInv /\ [Next]_vars => DropInv'
  BY DropStep DEF PartyInv
<1>3. TypeOK /\ DropInv => BoundIsDropped
  <2> SUFFICES ASSUME TypeOK, DropInv, pc = "done", Repeats > setup.faults,
                      NEW c \in Bound \ tooLate, conn[c] = "open"
               PROVE  FALSE
    BY DEF BoundIsDropped
  <2>1. StillOpen # {}
    BY DEF StillOpen
  <2>2. faults + Repeats <= setup.faults
    BY <2>1, PartyAssumption DEF DropInv
  <2> QED
    BY <2>2, FaultsLeft, PartyAssumption
<1> QED
  BY <1>1, <1>2, <1>3, TypeInit, TypeStep, PartyInvInit, PartyInvStep, PTL
     DEF Spec

-----------------------------------------------------------------------------
(* The refinement of Party *)

\* A member holds the connection that is bound to it, and there is one at most.
HeldBy(m) ==
  /\ \A c \in Connection : connectedUsers[c] = m <=> Held[m] = c
  /\ Held[m] = Nobody \/ (Held[m] \in Bound /\ connectedUsers[Held[m]] = m)

LEMMA HeldFacts ==
  TypeOK /\ BoundOnce => \A m \in Member : HeldBy(m)
<1> SUFFICES ASSUME TypeOK, BoundOnce, NEW m \in Member
             PROVE  HeldBy(m)
  OBVIOUS
<1>1. /\ Nobody \notin Member /\ Nobody \notin Connection
      /\ connectedUsers \in [Connection -> Member \cup {Nobody}]
  BY PartyAssumption DEF TypeOK
<1>2. Held[m] = ConnectionHeld(m)
  BY DEF Held
<1>3. \A d \in Bound : connectedUsers[d] = m => users[m] = d
  BY DEF BoundOnce
<1>4. CASE \E d \in Bound : connectedUsers[d] = m
  <2>1. ConnectionHeld(m) \in Bound /\ connectedUsers[ConnectionHeld(m)] = m
    BY <1>4, Zenon DEF ConnectionHeld
  <2> QED
    BY <1>1, <1>2, <1>3, <2>1 DEF HeldBy, Bound
<1>5. CASE ~\E d \in Bound : connectedUsers[d] = m
  <2>1. ConnectionHeld(m) = Nobody
    BY <1>5, Zenon DEF ConnectionHeld
  <2> QED
    BY <1>1, <1>2, <1>5, <2>1 DEF HeldBy, Bound
<1> QED
  BY <1>4, <1>5

LEMMA HeldFactsNext == TypeOK' /\ BoundOnce' => (\A m \in Member : HeldBy(m))'
BY HeldFacts, PTL

\* How Held follows the map: one is bound, or some are unbound.
LEMMA HeldBinds ==
  ASSUME TypeOK, TypeOK', BoundOnce, BoundOnce', NEW m \in Member,
         NEW c \in Connection, connectedUsers'[c] = m,
         \A d \in Connection : d # c =>
           \/ connectedUsers'[d] = connectedUsers[d]
           \/ connectedUsers[d] = m /\ connectedUsers'[d] = Nobody,
         connectedUsers[c] \in {m, Nobody}
  PROVE  Held' = [Held EXCEPT ![m] = c]
<1>1. Nobody \notin Member /\ Nobody \notin Connection
  BY PartyAssumption
<1>2. Held'[m] = c
  BY HeldFactsNext DEF HeldBy, Bound
<1>3. ASSUME NEW n \in Member, n # m PROVE Held'[n] = Held[n]
  <2>1. \A d \in Connection : connectedUsers'[d] = n <=> connectedUsers[d] = n
    BY <1>1, <1>3
  <2>2. \A d \in Connection : Held'[n] = d <=> Held[n] = d
    BY <1>3, <2>1, HeldFacts, HeldFactsNext DEF HeldBy, Bound
  <2>3. Held[n] \in Connection \cup {Nobody} /\ Held'[n] \in Connection \cup {Nobody}
    BY <1>3, HeldFacts, HeldFactsNext DEF HeldBy, Bound
  <2> QED
    BY <2>2, <2>3
<1>4. Held = [n \in Member |-> Held[n]] /\ Held' = [n \in Member |-> Held'[n]]
  BY DEF Held
<1> HIDE DEF Held
<1> QED
  BY <1>2, <1>3, <1>4

LEMMA HeldUnbinds ==
  ASSUME TypeOK, TypeOK', BoundOnce, BoundOnce', NEW cs \in SUBSET Bound,
         connectedUsers' = [c \in Connection |->
                              IF c \in cs THEN Nobody ELSE connectedUsers[c]]
  PROVE  LET S == {connectedUsers[c] : c \in cs} IN
         /\ S \subseteq {m \in Member : Held[m] # Nobody}
         /\ Held' = [m \in Member |-> IF m \in S THEN Nobody ELSE Held[m]]
<1> DEFINE S == {connectedUsers[c] : c \in cs}
<1>1. /\ Nobody \notin Member /\ Nobody \notin Connection
      /\ connectedUsers \in [Connection -> Member \cup {Nobody}]
      /\ cs \subseteq Connection
  BY PartyAssumption DEF TypeOK, Bound
<1>2. ASSUME NEW m \in S PROVE m \in Member /\ Held[m] # Nobody
  <2>1. PICK c \in cs : m = connectedUsers[c]
    OBVIOUS
  <2>2. m \in Member
    BY <1>1, <2>1 DEF Bound
  <2> QED
    BY <1>1, <2>1, <2>2, HeldFacts DEF HeldBy, Bound
<1>3. ASSUME NEW m \in Member
      PROVE  Held'[m] = IF m \in S THEN Nobody ELSE Held[m]
  <2>1. CASE m \in S
    <3>1. ASSUME NEW d \in Connection PROVE connectedUsers'[d] # m
      <4>1. SUFFICES ASSUME connectedUsers'[d] = m PROVE FALSE
        OBVIOUS
      <4>2. d \notin cs /\ connectedUsers[d] = m
        BY <1>1, <4>1
      <4>3. PICK c \in cs : connectedUsers[c] = m
        BY <2>1
      <4>4. users[m] = c /\ users[m] = d
        BY <1>1, <4>2, <4>3 DEF BoundOnce, Bound
      <4> QED
        BY <4>2, <4>3, <4>4
    <3>2. Held'[m] \notin Connection
      BY <3>1, HeldFactsNext DEF HeldBy, Bound
    <3> QED
      BY <2>1, <3>2, HeldFactsNext DEF HeldBy, Bound
  <2>2. CASE m \notin S
    <3>1. \A d \in Connection : connectedUsers'[d] = m <=> connectedUsers[d] = m
      BY <1>1, <2>2
    <3>2. \A d \in Connection : Held'[m] = d <=> Held[m] = d
      BY <3>1, HeldFacts, HeldFactsNext DEF HeldBy, Bound
    <3>3. Held[m] \in Connection \cup {Nobody} /\ Held'[m] \in Connection \cup {Nobody}
      BY HeldFacts, HeldFactsNext DEF HeldBy, Bound
    <3> QED
      BY <2>2, <3>2, <3>3
  <2> QED
    BY <2>1, <2>2
<1>4. Held' = [m \in Member |-> Held'[m]]
  BY DEF Held
<1> QED
  BY <1>2, <1>3, <1>4

LEMMA SameCardinality == \A S : P!Cardinality(S) = Cardinality(S)
BY Zenon DEF Cardinality, P!Cardinality

\* As many members are here as connections are bound, and as many of some
\* members speak through open sockets as of their connections are open.
LEMMA CountedOnce ==
  ASSUME TypeOK, BoundOnce, NEW cs \in SUBSET Bound
  PROVE  /\ Cardinality({connectedUsers[c] : c \in cs}) = Cardinality(cs)
         /\ Cardinality(cs) \in Nat
         /\ {m \in {connectedUsers[c] : c \in cs} : Held[m] \in Sockets}
              = {connectedUsers[c] : c \in {d \in cs : conn[d] = "open"}}
<1>1. /\ Nobody \notin Member /\ Nobody \notin Connection
      /\ connectedUsers \in [Connection -> Member \cup {Nobody}]
      /\ cs \subseteq Connection /\ IsFiniteSet(cs)
  BY PartyAssumption, FS_Subset DEF TypeOK, Bound
<1>2. \A c \in cs : connectedUsers[c] \in Member /\ Held[connectedUsers[c]] = c
  BY <1>1, HeldFacts DEF HeldBy, Bound
<1>3. Cardinality({connectedUsers[c] : c \in cs}) = Cardinality(cs)
  <2> DEFINE f == [c \in cs |-> connectedUsers[c]]
  <2>1. \A c, d \in cs : connectedUsers[c] = connectedUsers[d] => c = d
    BY <1>2
  <2>2. f \in Bijection(cs, {connectedUsers[c] : c \in cs})
    BY <2>1 DEF Bijection, Injection, Surjection, IsInjective
  <2> HIDE DEF f
  <2>3. ExistsBijection(cs, {connectedUsers[c] : c \in cs})
    BY <2>2 DEF ExistsBijection
  <2> QED
    BY <1>1, <2>3, FS_Bijection
<1>4. Cardinality(cs) \in Nat
  BY <1>1, FS_CardinalityType
<1>5. \A c \in cs : Held[connectedUsers[c]] \in Sockets <=> conn[c] = "open"
  BY <1>1, <1>2 DEF Sockets
<1> QED
  BY <1>1, <1>3, <1>4, <1>5

LEMMA HereFacts ==
  ASSUME TypeOK, BoundOnce
  PROVE  /\ P!Here = {connectedUsers[c] : c \in Bound}
         /\ Cardinality(P!Here) = Cardinality(Bound)
         /\ Cardinality(Bound) = Cardinality(Member) => P!Here = Member
<1>1. /\ Nobody \notin Member /\ Nobody \notin Connection
      /\ connectedUsers \in [Connection -> Member \cup {Nobody}]
  BY PartyAssumption DEF TypeOK
<1>2. P!Here = {connectedUsers[c] : c \in Bound}
  <2>1. ASSUME NEW m \in P!Here PROVE \E c \in Bound : connectedUsers[c] = m
    BY <2>1, HeldFacts DEF HeldBy, P!Here
  <2>2. ASSUME NEW c \in Bound PROVE connectedUsers[c] \in P!Here
    BY <1>1, <2>2, HeldFacts DEF HeldBy, Bound, P!Here
  <2> QED
    BY <2>1, <2>2
<1>3. Cardinality(P!Here) = Cardinality(Bound)
  BY <1>2, CountedOnce
<1>4. Cardinality(Bound) = Cardinality(Member) => P!Here = Member
  <2>1. P!Here \subseteq Member
    BY DEF P!Here
  <2> QED
    BY <1>3, <2>1, PartyAssumption, FS_Subset
<1> QED
  BY <1>2, <1>3, <1>4

\* The loop has left its stages when it announces the end and drops.
StageInv == stage = "end" => pc \in {"end", "drop", "done"}

LEMMA StageStep == LoopInv /\ StageInv /\ [Next]_vars => StageInv'
<1> SUFFICES ASSUME LoopInv, StageInv, [Next]_vars, stage' = "end"
             PROVE  pc' \in {"end", "drop", "done"}
  BY DEF StageInv
<1>1. CASE \E c \in Connection : Gateway(c)
  BY <1>1 DEF Gateway, Connect, LetIn, ConnectFails, Move, ClientCloses, Disconnect,
              DisconnectFails, MappingExpires, StageInv
<1>2. CASE TimeUp \/ UNCHANGED vars
  BY <1>2 DEF TimeUp, vars, StageInv
<1>3. CASE Poll \/ PassFails \/ WaitEnds \/ RunningEnds
  BY <1>3, SMTT(60) DEF Poll, Polls, PassFails, WaitEnds, RunningEnds, ToTheEnd, StageInv
<1>4. CASE EntersAsObserver \/ Enters \/ EnterThrows \/ Leaves \/ Moves
  BY <1>4 DEF EntersAsObserver, Enters, EnterThrows, Leaves, Moves, Receives,
              StageInv
<1>5. CASE RunFixedSteps
  <2>1. pc = "tick" /\ UNCHANGED stage
    BY <1>5, Zenon DEF RunFixedSteps
  <2> QED
    BY <2>1 DEF StageInv
<1>6. CASE Announce \/ AnnounceEnd \/ DropAll
  BY <1>6 DEF Announce, AnnounceEnd, DropAll, StageInv
<1> QED
  BY <1>1, <1>2, <1>3, <1>4, <1>5, <1>6 DEF Next, Loop

\* A step of the loop's own that leaves the members alone is nobody's.
LEMMA OutsideRefined ==
  ASSUME UNCHANGED <<connectedUsers, stage>>, ~alive => ~alive'
  PROVE  P!Outside
BY DEF P!Outside, Held, ConnectionHeld, Bound

LEMMA EndRefined ==
  ASSUME NEW why, ToTheEnd(why), stage # "end",
         UNCHANGED <<connectedUsers, conn, alive>>
  PROVE  P!End
BY DEF P!End, ToTheEnd, Held, ConnectionHeld, Bound, Sockets

LEMMA LeaveRefined ==
  ASSUME TypeOK, TypeOK', BoundOnce, BoundOnce', NEW cs \in SUBSET Bound,
         connectedUsers' = [c \in Connection |->
                              IF c \in cs THEN Nobody ELSE connectedUsers[c]],
         Cardinality({c \in cs : conn[c] = "open"}) <= faults - faults',
         UNCHANGED <<conn, stage, alive>>
  PROVE  \E S \in SUBSET P!Here : P!Leave(S)
<1> DEFINE S == {connectedUsers[c] : c \in cs}
           opened == {c \in cs : conn[c] = "open"}
<1>1. /\ S \subseteq {m \in Member : Held[m] # Nobody}
      /\ Held' = [m \in Member |-> IF m \in S THEN Nobody ELSE Held[m]]
  BY HeldUnbinds, Zenon
<1>2. {m \in S : Held[m] \in Sockets} = {connectedUsers[c] : c \in opened}
  BY CountedOnce, Zenon
<1>3. Cardinality({connectedUsers[c] : c \in opened}) = Cardinality(opened)
  <2>1. opened \in SUBSET Bound
    OBVIOUS
  <2> QED
    BY <2>1, CountedOnce, Zenon
<1>4. Sockets' = Sockets
  BY DEF Sockets
<1> HIDE DEF S
<1>5. P!Leave(S)
  BY <1>1, <1>2, <1>3, <1>4, SameCardinality DEF P!Leave
<1>6. S \in SUBSET P!Here
  BY <1>1 DEF P!Here
<1> QED
  BY <1>5, <1>6

LEMMA EnterRefined ==
  ASSUME TypeOK, TypeOK', LoopInv, BoundOnce, BoundOnce', BoundAreKnown, Enters
  PROVE  \E m \in Member, c \in Connection : P!Enter(m, c)
<1> DEFINE c == Head(batch).connectionId
           m == MemberOf[c]
           previous == users[m]
<1>1. /\ c \in Connection
      /\ UNCHANGED <<stage, alive>>
  BY ReceivesType DEF Enters
<1>2. /\ m \in Member
      /\ users' = [users EXCEPT ![m] = c]
      /\ connectedUsers' = [Unbound(m, c) EXCEPT ![c] = m]
      /\ \/ /\ conn' = Closed(IF Supersedes(m, c) THEN {previous} ELSE {})
            /\ UNCHANGED faults
         \/ Supersedes(m, c) /\ Fault /\ UNCHANGED conn
  BY DEF Enters
<1>3. /\ Nobody \notin Member /\ Nobody \notin Connection
      /\ connectedUsers \in [Connection -> Member \cup {Nobody}]
      /\ users \in [Member \cup Observer -> Connection \cup {Nobody}]
  BY PartyAssumption DEF TypeOK
<1> HIDE DEF c
<1>4. connectedUsers[c] \in {m, Nobody}
  BY <1>1, <1>3 DEF BoundAreKnown, Bound
<1>5. ASSUME NEW d \in Connection, connectedUsers[d] = m PROVE users[m] = d
  BY <1>2, <1>3, <1>5 DEF BoundOnce, Bound
<1> HIDE DEF m
<1>6. Held' = [Held EXCEPT ![m] = c]
  <2>1. connectedUsers'[c] = m
    BY <1>1, <1>2, <1>3 DEF Unbound
  <2>2. \A d \in Connection : d # c =>
           \/ connectedUsers'[d] = connectedUsers[d]
           \/ connectedUsers[d] = m /\ connectedUsers'[d] = Nobody
    BY <1>1, <1>2, <1>3 DEF Unbound, Supersedes
  <2> QED
    BY <1>1, <1>2, <1>4, <2>1, <2>2, HeldBinds
<1>7. Supersedes(m, c) => Held[m] = previous /\ previous \in Connection
  BY <1>2, <1>3, HeldFacts DEF Supersedes, HeldBy
<1>8. Held[m] \in Connection \ {c} => Supersedes(m, c)
  BY <1>2, <1>3, <1>5, HeldFacts DEF Supersedes, HeldBy, Bound
<1>9. CASE UNCHANGED conn /\ Supersedes(m, c) /\ Fault
  <2>1. Sockets' = Sockets
    BY <1>9 DEF Sockets
  <2>2. faults' < faults
    BY <1>9, FaultsLeft DEF Fault
  <2>3. P!Enter(m, c)
    BY <1>1, <1>6, <2>1, <2>2 DEF P!Enter
  <2> QED
    BY <1>1, <1>2, <2>3
<1>10. CASE /\ conn' = Closed(IF Supersedes(m, c) THEN {previous} ELSE {})
            /\ UNCHANGED faults
  <2>1. CASE Supersedes(m, c)
    <3>1. Sockets' = Sockets \ {Held[m]}
      BY <1>7, <1>10, <2>1 DEF Sockets, Closed
    <3> HIDE DEF Held
    <3>2. P!Enter(m, c)
      BY <1>1, <1>6, <3>1 DEF P!Enter
    <3> QED
      BY <1>1, <1>2, <3>2
  <2>2. CASE ~Supersedes(m, c)
    <3>1. Sockets' = Sockets /\ Sockets \subseteq Connection
      BY <1>10, <2>2 DEF Sockets, Closed, TypeOK
    <3>2. Held[m] \notin Connection \ {c}
      BY <1>8, <2>2
    <3>3. P!Enter(m, c)
      BY <1>1, <1>6, <3>1, <3>2 DEF P!Enter
    <3> QED
      BY <1>1, <1>2, <3>3
  <2> QED
    BY <2>1, <2>2
<1> QED
  BY <1>2, <1>9, <1>10

\* Those who leave, by a message or by a broadcast that does not reach them.
LEMMA SingleConnection ==
  ASSUME TypeOK, NEW c \in Bound
  PROVE  /\ conn[c] # "open" => Cardinality({d \in {c} : conn[d] = "open"}) = 0
         /\ Cardinality({d \in {c} : conn[d] = "open"}) <= 1
<1>1. CASE conn[c] = "open"
  <2>1. {d \in {c} : conn[d] = "open"} = {c}
    BY <1>1
  <2> QED
    BY <1>1, <2>1, FS_Singleton
<1>2. CASE conn[c] # "open"
  <2>1. {d \in {c} : conn[d] = "open"} = {}
    BY <1>2
  <2> QED
    BY <2>1, FS_EmptySet
<1> QED
  BY <1>1, <1>2

LEMMA LeavesRefined ==
  ASSUME TypeOK, TypeOK', LoopInv, BoundOnce, BoundOnce', PartyInv,
         EnterThrows \/ Leaves \/ Announce \/ AnnounceEnd
  PROVE  P!Outside \/ \E S \in SUBSET P!Here : P!Leave(S)
<1>1. CASE EnterThrows
  <2> DEFINE c == Head(batch).connectionId
             m == MemberOf[c]
             previous == users[m]
  <2>1. /\ m \in Member /\ Supersedes(m, c)
        /\ connectedUsers' = Unbound(m, c)
        /\ Fault /\ UNCHANGED <<conn, stage, alive>>
    BY <1>1, ReceivesType DEF EnterThrows
  <2> HIDE DEF m, c
  <2>2. previous \in Bound
    BY <2>1, PartyAssumption DEF Supersedes, Bound, TypeOK
  <2>3. connectedUsers' = [d \in Connection |->
                            IF d \in {previous} THEN Nobody ELSE connectedUsers[d]]
    BY <2>1, <2>2 DEF Unbound, TypeOK
  <2>4. faults - faults' = 1
    BY <2>1, FaultsLeft DEF Fault
  <2>5. {previous} \in SUBSET Bound
    BY <2>2
  <2>6. Cardinality({d \in {previous} : conn[d] = "open"}) <= faults - faults'
    BY <2>2, <2>4, SingleConnection
  <2> HIDE DEF previous
  <2> QED
    BY <2>1, <2>3, <2>5, <2>6, LeaveRefined
<1>2. CASE Leaves
  <2> DEFINE c == Head(batch).connectionId
  <2>1. /\ connectedUsers' = connectedUsers
           \/ connectedUsers' = [connectedUsers EXCEPT ![c] = Nobody]
        /\ UNCHANGED <<conn, faults, stage, alive>>
    BY <1>2, ReceivesType DEF Leaves, TypeOK
  <2>2. CASE connectedUsers' = connectedUsers
    BY <2>1, <2>2, OutsideRefined
  <2>3. CASE connectedUsers' # connectedUsers
    <3>1. /\ connectedUsers' = [connectedUsers EXCEPT ![c] = Nobody]
          /\ c \in Bound
      BY <2>1, <2>3, SMTT(60) DEF Bound, TypeOK
    <3>2. conn[c] = "gone"
      <4>1. batch \in Seq(Message) /\ batch # <<>> /\ Head(batch).type = "leave"
        BY <1>2 DEF Leaves, Receives, LoopInv, TypeOK
      <4> QED
        BY <4>1, WayTaken DEF PartyInv, Announced
    <3> HIDE DEF c
    <3>3. connectedUsers' = [d \in Connection |->
                              IF d \in {c} THEN Nobody ELSE connectedUsers[d]]
      BY <3>1 DEF TypeOK
    <3>4. {c} \in SUBSET Bound
      BY <3>1
    <3>5. Cardinality({d \in {c} : conn[d] = "open"}) <= faults - faults'
      BY <2>1, <3>1, <3>2, SingleConnection, FaultsLeft
    <3> QED
      BY <2>1, <3>3, <3>4, <3>5, LeaveRefined
  <2> QED
    BY <2>2, <2>3
<1>3. CASE Announce \/ AnnounceEnd
  <2>1. Broadcast /\ UNCHANGED <<stage, alive>>
    BY <1>3 DEF Announce, AnnounceEnd
  <2>2. PICK undelivered \in SUBSET Bound :
          /\ faults' = faults - Cardinality({c \in undelivered : conn[c] = "open"})
          /\ connectedUsers' = [c \in Connection |->
               IF c \in undelivered THEN Nobody ELSE connectedUsers[c]]
    BY <2>1 DEF Broadcast
  <2>3. {c \in undelivered : conn[c] = "open"} \in SUBSET Connection
    BY DEF Bound
  <2>4. Cardinality({c \in undelivered : conn[c] = "open"}) <= faults - faults'
    BY <2>2, <2>3, CountedFailures, FaultsLeft
  <2>5. UNCHANGED conn
    BY <2>1 DEF Broadcast
  <2> QED
    BY <2>1, <2>2, <2>4, <2>5, LeaveRefined
<1> QED
  BY <1>1, <1>2, <1>3

LEMMA WaitRefined ==
  ASSUME TypeOK, BoundOnce, WaitEnds
  PROVE  P!Start \/ P!End
<1>1. CASE Cardinality(Bound) >= MinPlayers
  <2>1. /\ stage = "wait" /\ stage' = "running" /\ alive'
        /\ ~alive \/ P!Here = Member
        /\ Cardinality(P!Here) >= MinPlayers
        /\ UNCHANGED <<conn, connectedUsers>>
    BY <1>1, HereFacts DEF WaitEnds, AllConnected
  <2>2. UNCHANGED <<Held, Sockets>>
    BY <2>1 DEF Held, ConnectionHeld, Bound, Sockets
  <2> QED
    BY <2>1, <2>2, SameCardinality DEF P!Start
<1>2. CASE ~(Cardinality(Bound) >= MinPlayers)
  BY <1>2, EndRefined DEF WaitEnds
<1> QED
  BY <1>1, <1>2

LEMMA PartyStep ==
  ASSUME TypeOK, TypeOK', LoopInv, BoundOnce, BoundOnce', PartyInv, StageInv,
         [Next]_vars
  PROVE  [P!PartyNext]_(P!partyVars)
<1>1. CASE Enters
  BY <1>1, EnterRefined DEF PartyInv, P!PartyNext
<1>2. CASE EnterThrows \/ Leaves \/ Announce \/ AnnounceEnd
  BY <1>2, LeavesRefined DEF P!PartyNext
<1>3. CASE WaitEnds
  BY <1>3, WaitRefined DEF P!PartyNext
<1>4. CASE PassFails \/ RunningEnds
  <2>1. stage # "end"
    BY <1>4 DEF PassFails, RunningEnds, Polls, StageInv
  <2>2. UNCHANGED <<connectedUsers, conn, alive>> /\ \E why : ToTheEnd(why)
    BY <1>4 DEF PassFails, RunningEnds
  <2> QED
    BY <2>1, <2>2, EndRefined DEF P!PartyNext
<1>5. \/ UNCHANGED <<connectedUsers, stage>> /\ (~alive => ~alive')
      \/ Enters \/ EnterThrows \/ Leaves \/ Announce \/ AnnounceEnd \/ WaitEnds
      \/ PassFails \/ RunningEnds
  BY DEF Next, vars, Gateway, Connect, LetIn, ConnectFails, Move, ClientCloses,
         Disconnect, DisconnectFails, MappingExpires, TimeUp, Loop, Poll,
         EntersAsObserver, Moves, Receives, RunFixedSteps, DropAll
<1> QED
  BY <1>1, <1>2, <1>3, <1>4, <1>5, OutsideRefined DEF P!PartyNext

LEMMA PartyStart ==
  ASSUME Init
  PROVE  P!PartyInit
<1>1. Bound = {}
  BY DEF Init, Bound
<1>2. Held = [m \in Member |-> Nobody]
  BY <1>1 DEF Held, ConnectionHeld
<1>3. Sockets = {}
  BY DEF Init, Sockets
<1> QED
  BY <1>2, <1>3 DEF Init, P!PartyInit

\* What the members see of the loop: a place is taken over by the connection
\* that entered last and lost only with its connection, and the game starts with
\* everyone, or in time with enough distinct members (processEnter.ts:39-73,
\* processLeave.ts:15-31, broadcastStage.ts:52-60, doInStageWait.ts:40-45).
THEOREM LoopImplementsParty == Spec => ImplementsParty
<1>1. Init => /\ TypeOK /\ LoopInv /\ BoundOnce /\ PartyInv /\ StageInv
              /\ P!PartyInit
  BY TypeInit, PartyInvInit, PartyStart
     DEF Init, BoundOnce, Bound, StageInv
<1>2. TypeOK /\ LoopInv /\ BoundOnce /\ PartyInv /\ StageInv /\ [Next]_vars
      => (TypeOK /\ LoopInv /\ BoundOnce /\ PartyInv /\ StageInv)'
  BY TypeStep, BoundStep, PartyInvStep, StageStep
<1>3. TypeOK /\ TypeOK' /\ LoopInv /\ BoundOnce /\ BoundOnce' /\ PartyInv
        /\ StageInv /\ [Next]_vars
      => [P!PartyNext]_(P!partyVars)
  BY PartyStep
<1> QED
  BY <1>1, <1>2, <1>3, PTL DEF Spec, ImplementsParty, P!PartySpec

=============================================================================
