----------------------------- MODULE ActorLease -----------------------------
(***************************************************************************)
(* What the lock of one actor promises to the invocations that compete for *)
(* it, with no token, no round trip and no heartbeat: an owner, the set of *)
(* invocations that are running their work, and a budget of lapses.        *)
(*                                                                         *)
(* A lapse is the only way an owner can lose the lease against its will:   *)
(* the lease expires, the key is evicted, or somebody breaks it by hand.   *)
(* Every other loss of ownership is the owner's own release, made after    *)
(* its own work ended.                                                     *)
(***************************************************************************)
EXTENDS Naturals

CONSTANTS Process,     \* the invocations that compete for the actor
          NoOwner,     \* the owner of a free lease
          MaxLapses    \* how many leases may lapse while their owner runs

VARIABLES owner,       \* the invocation the store names as the owner
          working,     \* the invocations between their acquire and their exit
          lapses       \* the lapses still to come

leaseVars == <<owner, working, lapses>>

LeaseInit ==
  /\ owner = NoOwner
  /\ working = {}
  /\ lapses = MaxLapses

\* A free lease is acquired, and the acquirer starts to work.
Acquire(p) ==
  /\ owner = NoOwner
  /\ owner' = p
  /\ working' = working \cup {p}
  /\ UNCHANGED lapses

\* A free lease is taken by an invocation that does not start any work with
\* it: one that works already or no more (its lease had lapsed), or one that
\* never hears that its acquisition succeeded.
Take(p) ==
  /\ owner = NoOwner
  /\ owner' = p
  /\ UNCHANGED <<working, lapses>>

\* An invocation ends its work, for whatever reason.
Leave(p) ==
  /\ p \in working
  /\ working' = working \ {p}
  /\ UNCHANGED <<owner, lapses>>

\* An invocation that has ended its work gives its own lease back.
Release(p) ==
  /\ owner = p
  /\ p \notin working
  /\ owner' = NoOwner
  /\ UNCHANGED <<working, lapses>>

\* The lease of a running owner lapses.
Lapse ==
  /\ owner # NoOwner
  /\ lapses > 0
  /\ owner' = NoOwner
  /\ lapses' = lapses - 1
  /\ UNCHANGED working

LeaseNext ==
  \/ \E p \in Process : Acquire(p) \/ Take(p) \/ Leave(p) \/ Release(p)
  \/ Lapse

LeaseSpec == LeaseInit /\ [][LeaseNext]_leaseVars

=============================================================================
