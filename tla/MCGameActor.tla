---------------------------- MODULE MCGameActor -----------------------------
(***************************************************************************)
(* Small instances of GameActor: the invocations p1 and p2 of one game,    *)
(* and two handlers that push. The sets are given by the .cfg files.       *)
(***************************************************************************)
EXTENDS GameActor

\* A round trip, an invocation and a push fail, or a lease lapses and one of
\* them does.
FewFaults ==
  lapses < MaxLapses =>
    throws + crashes + pushFaults >= MaxThrows + MaxCrashes + MaxPushFaults - 1

=============================================================================
