---------------------------- MODULE MCActorLock -----------------------------
(***************************************************************************)
(* Small instances of ActorLock: every invocation has a lock object.       *)
(***************************************************************************)
EXTENDS ActorLock

\* Every invocation has a lock object of its own: handleActor creates the
\* actor subsystem, and with it the lock, anew on every call.
OwnClient == [p \in Process |-> p]

=============================================================================
