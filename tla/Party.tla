------------------------------- MODULE Party --------------------------------
(***************************************************************************)
(* What the members of a game see of its loop: which connection, if any,   *)
(* each of them speaks through, and when the game starts and ends. It has  *)
(* no queue, no map of connections and no counters.                        *)
(*                                                                         *)
(* A member's place is taken over by the connection that entered last, and *)
(* lost only when the connection that holds it is closed. The game starts  *)
(* when everyone is here or, once the waiting time is over, when enough    *)
(* are.                                                                    *)
(***************************************************************************)
EXTENDS Naturals, FiniteSets

CONSTANTS Member, Connection, Nobody, MinPlayers

VARIABLES here,    \* the connection each member speaks through, or Nobody
          open,    \* the connections whose sockets are open
          phase,   \* "wait", "running" or "end"
          late,    \* the time of the phase has run out
          faults   \* the deliveries and drops that may still fail

partyVars == <<here, open, phase, late, faults>>

PartyInit ==
  /\ here = [m \in Member |-> Nobody]
  /\ open = {}
  /\ phase = "wait" /\ ~late

Here == {m \in Member : here[m] # Nobody}

\* Sockets open and close, time passes, deliveries fail.
Outside ==
  /\ late => late'
  /\ UNCHANGED <<here, phase>>

\* A member takes its place, and the connection that had it is closed.
Enter(m, c) ==
  /\ here' = [here EXCEPT ![m] = c]
  /\ open' \in {open, open \ {here[m]}}
  /\ here[m] \in open' \ {c} => faults' < faults
  /\ UNCHANGED <<phase, late>>

\* Members lose their places: their connections are closed, or as many fail.
Leave(S) ==
  /\ here' = [m \in Member |-> IF m \in S THEN Nobody ELSE here[m]]
  /\ Cardinality({m \in S : here[m] \in open}) <= faults - faults'
  /\ UNCHANGED <<open, phase, late>>

Start ==
  /\ phase = "wait"
  /\ \/ Here = Member
     \/ late /\ Cardinality(Here) >= MinPlayers
  /\ phase' = "running" /\ ~late'
  /\ UNCHANGED <<here, open>>

End ==
  /\ phase # "end"
  /\ phase' = "end"
  /\ UNCHANGED <<here, open, late>>

PartyNext ==
  \/ Outside
  \/ \E m \in Member, c \in Connection : Enter(m, c)
  \/ \E S \in SUBSET Here : Leave(S)
  \/ Start
  \/ End

PartySpec == PartyInit /\ [][PartyNext]_partyVars

=============================================================================
