--------------------------- MODULE MCAllTogether ----------------------------
(***************************************************************************)
(* Small instances of AllTogether: the connections c1 and c2 of the member *)
(* m1, c3 of m2, and c4 of an observer. Four games: both members with no   *)
(* failure; a member that comes twice, with a failure; two members with a  *)
(* failure; a member and the observer in a simulation with fixed ticks.    *)
(***************************************************************************)
EXTENDS AllTogether, TLC

CONSTANTS m1, m2, watcher, c1, c2, c3, c4

OwnerOf == (c1 :> m1) @@ (c2 :> m1) @@ (c3 :> m2) @@ (c4 :> watcher)
ConnectionOwner == [c \in Connection |-> OwnerOf[c]]

FourGames == {
  [clients |-> {c1, c2, c3}, fixed |-> FALSE, prunes |-> FALSE,
   clock |-> 0, moves |-> 0, faults |-> 0],
  [clients |-> {c1, c2}, fixed |-> FALSE, prunes |-> TRUE,
   clock |-> 0, moves |-> 0, faults |-> 1],
  [clients |-> {c1, c3}, fixed |-> FALSE, prunes |-> TRUE,
   clock |-> 0, moves |-> 0, faults |-> 1],
  [clients |-> {c3, c4}, fixed |-> TRUE, prunes |-> FALSE,
   clock |-> 4, moves |-> 1, faults |-> 0]}

=============================================================================
