--------------------------- MODULE MCActorProcess ---------------------------
(***************************************************************************)
(* Small instances of ActorProcess: p and r push and wait for the handler, *)
(* q pushes and waits for the commit, w and x drain.                       *)
(***************************************************************************)
EXTENDS ActorProcess

CONSTANTS p, q, r, w, x

Calls == Post \cup SendCall \cup Worker \cup Successor

Policies == [m \in Post \cup SendCall |-> IF m = q THEN "Commit" ELSE "Act"]

\* The consumers and awaiters a deployment combines.
RedisModes == [consume : {"single", "bulk"}, awaiter : {"redis"}]
AllModes == RedisModes \cup {[consume |-> "single", awaiter |-> "memory"]}
SingleMode == {[consume |-> "single", awaiter |-> "redis"]}

\* A throw and a crash, or a lapse; with a lapse, the throw is one of a beat,
\* and at most one message is pushed.
LapseAlone ==
  lapses < MaxLapses =>
    /\ crashes = MaxCrashes
    /\ throws < MaxThrows => Len(sent) <= 1
    /\ \A c \in Process : call[c].at # "failed" /\ ~call[c].failing

=============================================================================
