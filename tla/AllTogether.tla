---------------------------- MODULE AllTogether -----------------------------
(***************************************************************************)
(* A game everyone plays together (gamebase-all-together), with the        *)
(* gateway handlers that feed it (lambda-gamebase/src/handlers).           *)
(*                                                                         *)
(* A connection is opened by a $connect handler, which stores the mapping  *)
(* of the connection to the game and queues an enter, and lets the client  *)
(* in when it returns: until then nothing can be sent to the connection,   *)
(* nor is there anything to drop. $default queues a message and            *)
(* $disconnect a leave, if the mapping is still there. The loop polls the  *)
(* queue, first waiting for the members, then playing, and at the end      *)
(* announces that and drops the connections.                               *)
(*                                                                         *)
(* The loop is sequential, and between two of its polls the rest of the    *)
(* system can only push to the queue and close sockets; what it awaits for *)
(* one message is one step. The commands of one handler are one step as    *)
(* well, as nobody else reads the mapping between them, but what the       *)
(* return of $connect does is another.                                     *)
(***************************************************************************)
EXTENDS Integers, Sequences, FiniteSets

CONSTANTS Member, Observer,
          Connection,
          MemberOf,     \* whose connection it is
          Nobody,       \* no member, no connection
          MinPlayers,
          Repeats,      \* endRepeatCount
          Interval,     \* tick.intervalMillis
          MaxSteps,     \* tick.maxCatchUpSteps
          Setups        \* the games that are played

ASSUME PartyAssumption ==
  /\ IsFiniteSet(Member) /\ IsFiniteSet(Connection)
  /\ Member \cap Observer = {} /\ Nobody \notin Member \cup Observer \cup Connection
  /\ MemberOf \in [Connection -> Member \cup Observer]
  /\ MinPlayers \in Nat /\ MinPlayers <= Cardinality(Member)
  /\ Repeats \in Nat \ {0} /\ Interval \in Nat \ {0} /\ MaxSteps \in Nat \ {0}
  /\ \A s \in Setups :
       /\ s.clients \subseteq Connection
       /\ s.fixed \in BOOLEAN /\ s.prunes \in BOOLEAN
       /\ s.clock \in Nat /\ s.moves \in Nat /\ s.faults \in Nat

\* A setup has the connections whose clients come, whether tick.mode is
\* "fixed", dropUndeliveredConnections as prunes, and the bounds of the clock of
\* the running stage, of the messages of clients, and of the round trips,
\* deliveries and drops that fail.
VARIABLES setup,
          conn,            \* the socket of each connection
          tooLate,         \* let in with nobody left to bind or drop them
          mapping,         \* the connections whose mapping is stored
          queue,           \* the messages queued for the game
          pc,              \* what the loop does next
          stage, alive,    \* the stage, and whether its ticker is alive
          batch,           \* the polled messages that are not processed
          users,           \* connectionId of the members and observers
          connectedUsers,  \* the member a connection is bound to, or Nobody
          over,            \* isGameOver
          reason,          \* of the end
          rounds,          \* repeats left
          ending,          \* endingConnections
          clock,           \* the time and the steps of the running stage
          moves, faults    \* what may still happen

gateway == <<setup, conn, tooLate, mapping>>
context == <<users, connectedUsers>>
outcome == <<reason, rounds, ending>>
vars == <<gateway, queue, pc, stage, alive, batch, context, over, outcome,
          clock, moves, faults>>

Message == [type : {"enter", "leave", "move"}, connectionId : Connection]
Msg(type, c) == [type |-> type, connectionId |-> c]

TypeOK ==
  /\ setup \in Setups
  /\ conn \in [Connection ->
       {"new", "connecting", "open", "refused", "closed", "gone"}]
  /\ tooLate \subseteq Connection
  /\ mapping \subseteq Connection
  /\ queue \in Seq(Message) /\ batch \in Seq(Message)
  /\ pc \in {"poll", "batch", "tick", "announce", "end", "drop", "done"}
  /\ stage \in {"wait", "running", "end"} /\ alive \in BOOLEAN
  /\ users \in [Member \cup Observer -> Connection \cup {Nobody}]
  /\ connectedUsers \in [Connection -> Member \cup {Nobody}]
  /\ over \in BOOLEAN
  /\ reason \in {"none", "cleared", "timeout", "notEnoughPlayers", "error"}
  /\ rounds \in 0..Repeats
  /\ ending \subseteq Connection
  /\ clock \in [now : 0..setup.clock, owed : Nat, steps : Nat, dropped : Nat]
  /\ moves \in 0..setup.moves /\ faults \in 0..setup.faults

Init ==
  /\ conn = [c \in Connection |-> "new"] /\ tooLate = {} /\ mapping = {}
  /\ queue = <<>> /\ batch = <<>>
  /\ pc = "poll" /\ stage = "wait" /\ alive = TRUE
  /\ users = [m \in Member \cup Observer |-> Nobody]
  /\ connectedUsers = [c \in Connection |-> Nobody]
  /\ over = FALSE /\ reason = "none" /\ rounds = 0 /\ ending = {}
  /\ clock = [now |-> 0, owed |-> 0, steps |-> 0, dropped |-> 0]
  /\ setup \in Setups
  /\ moves = setup.moves /\ faults = setup.faults

-----------------------------------------------------------------------------
(* The gateway *)

Bound == {c \in Connection : connectedUsers[c] # Nobody}
Fault == faults > 0 /\ faults' = faults - 1

loop == <<setup, pc, stage, alive, batch, context, over, outcome, clock>>

\* $connect: the mapping is stored and the enter queued.
Connect(c) ==
  /\ conn[c] = "new" /\ c \in setup.clients
  /\ conn' = [conn EXCEPT ![c] = "connecting"]
  /\ mapping' = mapping \cup {c}
  /\ queue' = Append(queue, Msg("enter", c))
  /\ UNCHANGED <<loop, tooLate, moves, faults>>

\* The loop has not taken the enter of the connection.
Entering(c) == \E q \in {queue, batch} : \E i \in DOMAIN q : q[i] = Msg("enter", c)

\* $connect returns, and the client is let in: perhaps after the loop has bound
\* it, pruned it or superseded it, and even after the last drops.
LetIn(c) ==
  /\ conn[c] = "connecting"
  /\ conn' = [conn EXCEPT ![c] = "open"]
  /\ tooLate' = IF pc \in {"drop", "done"} \/ (c \notin Bound /\ ~Entering(c))
                 THEN tooLate \cup {c} ELSE tooLate
  /\ UNCHANGED <<mapping, queue, loop, moves, faults>>

\* A round trip fails, and what was done before it stays: the client is
\* refused, although its enter may be queued, or taken.
ConnectFails(c) ==
  /\ \/ conn[c] = "connecting" /\ UNCHANGED mapping
     \/ /\ conn[c] = "new" /\ c \in setup.clients
        /\ mapping' \in {mapping, mapping \cup {c}}
  /\ Fault
  /\ conn' = [conn EXCEPT ![c] = "refused"]
  /\ UNCHANGED <<tooLate, queue, loop, moves>>

\* $default: a message of the client, stamped with its connection.
Move(c) ==
  /\ conn[c] = "open" /\ c \in mapping
  /\ moves > 0 /\ moves' = moves - 1
  /\ queue' = Append(queue, Msg("move", c))
  /\ UNCHANGED <<gateway, loop, faults>>

ClientCloses(c) ==
  /\ conn[c] = "open"
  /\ conn' = [conn EXCEPT ![c] = "closed"]
  /\ UNCHANGED <<tooLate, mapping, queue, loop, moves, faults>>

\* Mutant: the leave is not queued.
DisconnectSilent(c) ==
  /\ conn[c] = "closed"
  /\ conn' = [conn EXCEPT ![c] = "gone"]
  /\ mapping' = mapping \ {c}
  /\ UNCHANGED <<tooLate, queue, loop, moves, faults>>

\* $disconnect: without a mapping there is nothing to tell the game.
Disconnect(c) ==
  /\ conn[c] = "closed"
  /\ conn' = [conn EXCEPT ![c] = "gone"]
  /\ mapping' = mapping \ {c}
  /\ queue' = IF c \in mapping THEN Append(queue, Msg("leave", c)) ELSE queue
  /\ UNCHANGED <<loop, tooLate, moves, faults>>

\* A round trip fails before or after the leave is queued.
DisconnectFails(c) ==
  /\ conn[c] = "closed"
  /\ Fault
  /\ conn' = [conn EXCEPT ![c] = "gone"]
  /\ queue' \in {queue} \cup
       (IF c \in mapping THEN {Append(queue, Msg("leave", c))} ELSE {})
  /\ UNCHANGED <<tooLate, mapping, loop, moves>>

\* The TTL of the mapping of a connection that sends nothing.
MappingExpires(c) ==
  /\ c \in mapping /\ conn[c] \in {"open", "closed"}
  /\ Fault
  /\ mapping' = mapping \ {c}
  /\ UNCHANGED <<conn, tooLate, queue, loop, moves>>

-----------------------------------------------------------------------------
(* The loop *)

outside == <<setup, tooLate, mapping, moves>>

AllConnected == Cardinality(Bound) = Cardinality(Member)

ToTheEnd(why) ==
  /\ stage' = "end" /\ pc' = "end" /\ rounds' = Repeats
  /\ reason' = why
  /\ UNCHANGED ending

TimeUp ==
  /\ stage # "end" /\ alive
  /\ alive' = FALSE
  /\ UNCHANGED <<gateway, queue, pc, stage, batch, context, over, outcome,
                 clock, moves, faults>>

Polls ==
  /\ pc = "poll" /\ alive
  /\ IF stage = "wait" THEN ~AllConnected ELSE ~over

\* Where a pass goes on once it has the messages b left.
After(b) ==
  IF b # <<>> THEN "batch" ELSE IF stage = "running" THEN "tick" ELSE "announce"

Poll ==
  /\ Polls
  /\ batch' = queue /\ queue' = <<>>
  /\ pc' = After(queue)
  /\ UNCHANGED <<gateway, stage, alive, context, over, outcome, clock, moves,
                 faults>>

\* What a stage does not catch ends the game.
PassFails ==
  /\ Polls \/ (pc = "announce" /\ stage # "end")
  /\ Fault
  /\ ToTheEnd("error")
  /\ UNCHANGED <<gateway, queue, alive, batch, context, over, clock, moves>>

WaitEnds ==
  /\ pc = "poll" /\ stage = "wait"
  /\ ~alive \/ AllConnected
  /\ IF Cardinality(Bound) >= MinPlayers
       THEN /\ stage' = "running" /\ alive' = TRUE
            /\ UNCHANGED <<pc, outcome>>
       ELSE ToTheEnd("notEnoughPlayers") /\ UNCHANGED alive
  /\ UNCHANGED <<gateway, queue, batch, context, over, clock, moves, faults>>

RunningEnds ==
  /\ pc = "poll" /\ stage = "running"
  /\ ~alive \/ over
  /\ ToTheEnd(IF over THEN "cleared" ELSE "timeout")
  /\ UNCHANGED <<gateway, queue, alive, batch, context, over, clock, moves,
                 faults>>

-----------------------------------------------------------------------------
(* One message of the batch *)

\* The callbacks of the game that follow a message may end it.
GameMayEnd(type) ==
  over' \in IF stage = "running" /\ (type = "move" \/ ~setup.fixed)
              THEN {over, TRUE} ELSE {over}

Receives(type) ==
  /\ pc = "batch" /\ Head(batch).type = type
  /\ batch' = Tail(batch) /\ pc' = After(Tail(batch))
  /\ GameMayEnd(type)
  /\ UNCHANGED <<outside, queue, stage, alive, outcome, clock>>

EntersAsObserver ==
  /\ Receives("enter")
  /\ LET c == Head(batch).connectionId
     IN MemberOf[c] \in Observer /\ users' = [users EXCEPT ![MemberOf[c]] = c]
  /\ UNCHANGED <<connectedUsers, conn, faults>>

Closed(cs) == [c \in Connection |->
                IF c \in cs /\ conn[c] = "open" THEN "closed" ELSE conn[c]]

Supersedes(m, c) ==
  LET previous == users[m]
  IN previous \notin {Nobody, c} /\ connectedUsers[previous] = m

\* Mutant: the binding of the previous connection stays.
UnboundKept(m, c) == connectedUsers

\* The map without the connection that c supersedes.
Unbound(m, c) ==
  IF Supersedes(m, c) THEN [connectedUsers EXCEPT ![users[m]] = Nobody]
  ELSE connectedUsers

\* A member is bound to its connection, and the one it had is dropped.
Enters ==
  /\ Receives("enter")
  /\ LET c == Head(batch).connectionId
         m == MemberOf[c]
     IN /\ m \in Member
        /\ users' = [users EXCEPT ![m] = c]
        /\ connectedUsers' = [Unbound(m, c) EXCEPT ![c] = m]
        /\ \/ /\ conn' = Closed(IF Supersedes(m, c) THEN {users[m]} ELSE {})
              /\ UNCHANGED faults
           \/ Supersedes(m, c) /\ Fault /\ UNCHANGED conn

\* The drop of the superseded connection throws: the member has none.
EnterThrows ==
  /\ Receives("enter")
  /\ LET c == Head(batch).connectionId
         m == MemberOf[c]
     IN /\ m \in Member /\ Supersedes(m, c)
        /\ connectedUsers' = Unbound(m, c)
  /\ Fault
  /\ UNCHANGED <<users, conn>>

\* Mutant: a leave clears the place of its member, whoever has it.
LeavesAnyhow ==
  /\ Receives("leave")
  /\ LET m == MemberOf[Head(batch).connectionId]
     IN /\ users' = [users EXCEPT ![m] = Nobody]
        /\ connectedUsers' = [c \in Connection |->
             IF connectedUsers[c] = m THEN Nobody ELSE connectedUsers[c]]
  /\ UNCHANGED <<conn, faults>>

\* Whoever is bound to the connection, a superseded one being bound to nobody.
Leaves ==
  /\ Receives("leave")
  /\ LET c == Head(batch).connectionId
         observing == {o \in Observer : users[o] = c}
         leaver == IF observing = {} THEN {connectedUsers[c]} ELSE observing
     IN /\ users' = [m \in DOMAIN users |->
                       IF m \in leaver THEN Nobody ELSE users[m]]
        /\ connectedUsers' = [connectedUsers EXCEPT
                                ![c] = IF observing = {} THEN Nobody ELSE @]
  /\ UNCHANGED <<conn, faults>>

Moves == Receives("move") /\ UNCHANGED <<context, conn, faults>>

-----------------------------------------------------------------------------
(* The rest of a pass *)

\* Mutant: one step more is taken off.
RestOverdrawn(owed, k) == owed - (k + 1) * Interval

\* Mutant: the time that is left over is forgotten.
RestForgotten(owed, k) == 0

Rest(owed, k) == owed - k * Interval

\* The elapsed time becomes whole steps; the game may end in each of them. A
\* backlog is dropped. A game that ended before still gets one step.
RunFixedSteps ==
  /\ pc = "tick"
  /\ IF ~setup.fixed THEN UNCHANGED <<clock, over>> ELSE
     \E elapsed \in 0..(setup.clock - clock.now), k \in 0..MaxSteps :
       LET owed == clock.owed + elapsed
           due == owed \div Interval
           rest == Rest(owed, k)
           stopped == over' /\ k > 0
           overrun == ~stopped /\ rest >= Interval
       IN /\ k <= due
          /\ over' \in {over, TRUE}
          /\ IF over THEN k = (IF due = 0 THEN 0 ELSE 1)
             ELSE IF over' THEN k > 0 ELSE k = due \/ k = MaxSteps
          /\ clock' = [now |-> clock.now + elapsed,
                       owed |-> IF overrun THEN 0 ELSE rest,
                       steps |-> clock.steps + k,
                       dropped |-> clock.dropped + IF overrun THEN rest ELSE 0]
  /\ pc' = IF over' THEN "poll" ELSE "announce"
  /\ UNCHANGED <<gateway, queue, stage, alive, batch, context, outcome, moves,
                 faults>>

\* A broadcast reaches everybody, or some are pruned; that of an open
\* connection fails by a fault, and that of one not let in yet without any.
Broadcast ==
  /\ UNCHANGED conn
  /\ \E undelivered \in IF setup.prunes THEN SUBSET Bound ELSE {{}} :
       /\ faults' = faults - Cardinality({c \in undelivered : conn[c] = "open"})
       /\ faults' >= 0
       /\ connectedUsers' = [c \in Connection |->
            IF c \in undelivered THEN Nobody ELSE connectedUsers[c]]
       /\ users' = [m \in DOMAIN users |->
            IF m \in {connectedUsers[c] : c \in undelivered} THEN Nobody
            ELSE users[m]]

Announce ==
  /\ pc = "announce"
  /\ pc' = "poll"
  /\ Broadcast
  /\ UNCHANGED <<outside, queue, stage, alive, batch, over, outcome, clock>>

\* One round of the announcements of the end. Those who are left are dropped.
AnnounceEnd ==
  /\ pc = "end"
  /\ Broadcast
  /\ IF rounds > 1
       THEN rounds' = rounds - 1 /\ UNCHANGED <<pc, ending>>
       ELSE /\ rounds' = Repeats /\ pc' = "drop"
            /\ ending' = {c \in Connection : connectedUsers'[c] # Nobody}
  /\ UNCHANGED <<outside, queue, stage, alive, batch, over, reason, clock>>

\* Mutant: the drops are not repeated.
NoneLeft == 0

RoundsLeft == rounds - 1

\* One round of the drops, each of which may fail.
DropAll ==
  /\ pc = "drop"
  /\ \E failing \in SUBSET {c \in ending : conn[c] = "open"} :
       /\ Cardinality(failing) <= faults
       /\ faults' = faults - Cardinality(failing)
       /\ conn' = Closed(ending \ failing)
  /\ rounds' = RoundsLeft
  /\ pc' = IF RoundsLeft = 0 THEN "done" ELSE "drop"
  /\ UNCHANGED <<outside, queue, stage, alive, batch, context, over, reason,
                 ending, clock>>

-----------------------------------------------------------------------------

Gateway(c) ==
  \/ Connect(c) \/ LetIn(c) \/ ConnectFails(c) \/ Move(c) \/ ClientCloses(c)
  \/ Disconnect(c) \/ DisconnectFails(c) \/ MappingExpires(c)

Loop ==
  \/ Poll \/ PassFails \/ WaitEnds \/ RunningEnds
  \/ EntersAsObserver \/ Enters \/ EnterThrows \/ Leaves \/ Moves
  \/ RunFixedSteps \/ Announce \/ AnnounceEnd \/ DropAll

Next == (\E c \in Connection : Gateway(c)) \/ TimeUp \/ Loop

Spec == Init /\ [][Next]_vars

-----------------------------------------------------------------------------
(* Safety *)

\* The loop is a party: a member loses its place only to a connection of its
\* own or by closing, and the game starts with enough distinct members
\* (processEnter.ts:39-43, processLeave.ts, doInStageWait.ts:40-45).
ConnectionHeld(m) ==
  IF \E c \in Bound : connectedUsers[c] = m
    THEN CHOOSE c \in Bound : connectedUsers[c] = m
    ELSE Nobody
Held == [m \in Member |-> ConnectionHeld(m)]
Sockets == {c \in Connection : conn[c] = "open"}
P == INSTANCE Party WITH
       here <- Held, open <- Sockets, phase <- stage, late <- ~alive
ImplementsParty == P!PartySpec

\* The map and the members agree on who speaks through which connection, so
\* that nobody is counted twice (processEnter.ts:55-57, processLeave.ts:22-30,
\* broadcastStage.ts:52-60).
BoundOnce == \A c \in Bound : users[connectedUsers[c]] = c

\* A connection that a member is bound to at the end is closed after it, if
\* there are more rounds than drops that fail and $connect returned before them
\* (runGameAllTogether.ts:60-74).
BoundIsDropped ==
  pc = "done" /\ Repeats > setup.faults =>
    \A c \in Bound \ tooLate : conn[c] # "open"

\* The simulation is never ahead of the clock and, unless a backlog was
\* dropped, less than a step behind it (doInStageRunning.ts:132-136).
SimulationFollowsClock ==
  setup.fixed =>
    /\ clock.steps * Interval <= clock.now
    /\ clock.dropped = 0 /\ ~over =>
         clock.now - clock.steps * Interval < Interval

\* Every connection that the game knows of is dropped at its end
\* (runGameAllTogether.ts:95-100).
EveryConnectionIsDropped ==
  pc = "done" =>
    \A m \in Member \cup Observer :
      users[m] # Nobody => conn[users[m]] # "open"

-----------------------------------------------------------------------------
(* Liveness *)

\* Handlers run, and the loop goes on. A stage may last for ever.
Fairness ==
  /\ WF_vars(Loop)
  /\ \A c \in Connection : WF_vars(LetIn(c)) /\ WF_vars(Disconnect(c))

FairSpec == Spec /\ Fairness

Unless(c) == stage = "end" \/ faults < setup.faults

\* As long as nothing fails and the game is on: an open connection of a member
\* comes to be the one it speaks through, or is dropped, unless it was let in
\* after the loop had given it up; and a closed one is unbound
\* (handleConnect.ts:210-225, handleDisconnect.ts:46-66).
PresenceFollowsSockets ==
  \A c \in Connection :
    MemberOf[c] \in Member =>
      /\ conn[c] = "open" /\ c \notin tooLate
           ~> c \in Bound \/ conn[c] # "open" \/ Unless(c)
      /\ c \in Bound /\ conn[c] \in {"closed", "gone"}
           ~> c \notin Bound \/ Unless(c)

\* Every game ends, whatever fails, if its stages run out of time
\* (runGameAllTogether.ts:164-177).
GameEnds == WF_vars(TimeUp) => <>(pc = "done")

\* The game knows who is there, and it ends (runGameAllTogether.ts).
LoopGoesOn == PresenceFollowsSockets /\ GameEnds
=============================================================================
