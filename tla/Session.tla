------------------------------- MODULE Session -------------------------------
(***************************************************************************)
(* The session of game-kit: adopting a token, the clock that ends it, its  *)
(* storage and sign-in (packages/game-kit/src/session.ts), what ends with  *)
(* it (runtime.ts, index.ts), and a poller that lives in it (polling.ts).  *)
(*                                                                         *)
(* A generation is one session or the time between two.  Time passes when  *)
(* a timer fires; a timer of ten minutes before expiry fires before the    *)
(* one of expiry.                                                          *)
(***************************************************************************)
EXTENDS Naturals, Sequences, FiniteSets

CONSTANTS
  Token, NoToken,
  MaxEpoch,       \* epochs of the poller
  SessionSetups   \* [polls, adopts, faults, toggles]: whether there is a poller
                  \* (and no sign-in or restore, to bound the states); tokens
                  \* adopted; failures of storage and clock; changes of
                  \* foreground and of the poller's interest

ASSUME SessionAssumption ==
  /\ NoToken \notin Token /\ MaxEpoch \in Nat
  /\ \A s \in SessionSetups : /\ s.polls \in BOOLEAN
                              /\ {s.adopts, s.faults, s.toggles} \subseteq Nat

VARIABLES
  identity,       \* the token of the session
  generation,
  anchor,         \* the generation whose clock is synchronized, or 0
  alarms,         \* which of "expiring" and "expired" are scheduled
  warnings,       \* how often this generation emitted "expiring"
  syncs,          \* requests for the time: their kind and generation
  storageTail,    \* what is to be stored or cleared, in order
  held,           \* the token in the storage
  login,          \* a sign-in is open
  restores,       \* generations in which a load is under way
  foreground, disposed,
  interested,     \* the poller is wanted
  epoch, armed,   \* of the poller
  flying,         \* flying[e]: refreshes of epoch e under way
  flight,         \* the epoch of the flight it knows, or 0
  scene,          \* the setup of this behaviour
  adopts, faults, toggles, storageFailed

runtimeVars == <<identity, generation, foreground, disposed>>
clockVars == <<anchor, alarms, warnings, syncs>>
storageVars == <<storageTail, held, storageFailed, restores>>
pollVars == <<interested, epoch, armed, flying, flight>>
sessionBounds == <<scene, adopts, faults, toggles>>
sessionVars == <<runtimeVars, clockVars, storageVars, login, pollVars,
                 sessionBounds>>

----------------------------------------------------------------------------
(* The poller: one refresh at a time, then the timer.                     *)

Allowed == foreground /\ identity # NoToken /\ ~disposed /\ interested

\* wake(): e is its epoch, `may` whether it may poll after the event.
Wake(e, known, may) ==
  /\ armed' = FALSE
  /\ epoch' = e
  /\ IF may /\ known # e
     THEN flight' = e /\ flying' = [flying EXCEPT ![e] = @ + 1]
     ELSE flight' = known /\ UNCHANGED flying

\* stop(): what is under way belongs to an epoch that is over.
StopPoller ==
  /\ epoch' = epoch + 1 /\ armed' = FALSE /\ flight' = 0
  /\ UNCHANGED flying

PollTimer ==
  /\ armed
  /\ Wake(epoch, flight, Allowed)
  /\ UNCHANGED <<runtimeVars, clockVars, storageVars, login, interested,
                 sessionBounds>>

\* A refresh ends, well or not: only one of the present epoch goes on.
RefreshEnds(e) ==
  /\ flying[e] > 0
  /\ flying' = [flying EXCEPT ![e] = @ - 1]
  /\ IF e = epoch THEN flight' = 0 /\ armed' = Allowed
     ELSE UNCHANGED <<flight, armed>>
  /\ UNCHANGED <<runtimeVars, clockVars, storageVars, login, interested, epoch,
                 sessionBounds>>

\* The first listener comes, the last one goes.
Interest ==
  /\ scene.polls /\ toggles < scene.toggles /\ toggles' = toggles + 1
  /\ interested' = ~interested
  /\ IF interested THEN StopPoller
     ELSE Wake(epoch, flight, foreground /\ identity # NoToken /\ ~disposed)
  /\ UNCHANGED <<runtimeVars, clockVars, storageVars, login, scene, adopts,
                 faults>>

----------------------------------------------------------------------------
(* The session.                                                           *)

Queued(op) == storageTail' = Append(storageTail, op)

\* The token becomes the identity; storage comes first, then the clock.
Adopt(t) ==
  /\ ~disposed
  /\ adopts < scene.adopts /\ adopts' = adopts + 1
  /\ identity' = t
  /\ generation' = generation + 1
  /\ anchor' = 0 /\ alarms' = {} /\ warnings' = 0
  /\ login' = FALSE
  /\ Queued([op |-> "store", token |-> t])
  /\ Wake(epoch + 1, 0, foreground /\ interested)
  /\ UNCHANGED <<syncs, held, storageFailed, foreground, disposed, interested,
                 scene, faults, toggles>>

FromToken(t) == Adopt(t) /\ UNCHANGED restores

\* runtime.stop(): the token is over, refused or signed out.
EndSession ==
  /\ identity' = NoToken
  /\ generation' = generation + 1
  /\ anchor' = 0 /\ alarms' = {} /\ warnings' = 0
  /\ login' = FALSE
  /\ Queued([op |-> "clear", token |-> NoToken])
  /\ StopPoller
  /\ UNCHANGED <<foreground, disposed, interested, held, storageFailed>>

\* A request of the session is answered with 401.
Unauthorized ==
  /\ identity # NoToken
  /\ EndSession
  /\ UNCHANGED <<syncs, restores, sessionBounds>>

SignOutWithout ==
  /\ identity = NoToken
  /\ adopts < scene.adopts /\ adopts' = adopts + 1
  /\ generation' = generation + 1
  /\ login' = FALSE
  /\ Queued([op |-> "clear", token |-> NoToken])
  /\ UNCHANGED <<identity, foreground, disposed, clockVars, held, storageFailed,
                 restores, pollVars, scene, faults, toggles>>

\* signOut() of a session is what a refused request does.
UserSignOut == SignOutWithout \/ Unauthorized

\* signIn: the window opens and comes back with a token, or it does not
\* (closed, refused, timed out, cancelled).
SignIn ==
  /\ ~disposed /\ ~login /\ ~scene.polls
  /\ login' = TRUE
  /\ UNCHANGED <<runtimeVars, clockVars, storageVars, pollVars, sessionBounds>>

LoginReturns(t) == login /\ Adopt(t) /\ UNCHANGED restores

LoginFails ==
  /\ login /\ login' = FALSE
  /\ UNCHANGED <<runtimeVars, clockVars, storageVars, pollVars, sessionBounds>>

\* restore: what the storage held is adopted unless the session changed.
Restore ==
  /\ generation \notin restores /\ ~scene.polls
  /\ restores' = restores \cup {generation}
  /\ UNCHANGED <<runtimeVars, clockVars, storageTail, held, storageFailed,
                 login, pollVars, sessionBounds>>

RestoreLoaded(g) ==
  /\ g \in restores
  /\ restores' = restores \ {g}
  /\ IF g = generation /\ held # NoToken /\ ~disposed
     THEN Adopt(held)
     ELSE UNCHANGED <<runtimeVars, clockVars, storageTail, held, storageFailed,
                      login, pollVars, sessionBounds>>

----------------------------------------------------------------------------
(* Storage and clock.                                                     *)

AskTime(kind) == syncs' = syncs \cup {[kind |-> kind, of |-> generation]}

\* The storage does what is next; a store is followed by its clock request,
\* for whatever generation there is by then.
StorageDone ==
  /\ storageTail # <<>>
  /\ storageTail' = Tail(storageTail)
  /\ held' = Head(storageTail).token
  /\ IF Head(storageTail).op = "store" THEN AskTime("adopt") ELSE UNCHANGED syncs
  /\ UNCHANGED <<runtimeVars, anchor, alarms, warnings, restores, storageFailed,
                 login, pollVars, sessionBounds>>

\* It fails: the next one goes on; a token that was not stored stays adopted.
StorageFails ==
  /\ storageTail # <<>> /\ faults < scene.faults
  /\ faults' = faults + 1
  /\ storageTail' = Tail(storageTail)
  /\ storageFailed' = TRUE
  /\ UNCHANGED <<runtimeVars, clockVars, held, restores, login, pollVars,
                 scene, adopts, toggles>>

\* Mutant: an answer of a former session is used.
AnyAnswer(s) == identity # NoToken /\ ~disposed

Current(s) == s.of = generation /\ identity # NoToken /\ ~disposed

\* The time arrives.  A token that is over ends the session.
Synchronized(s) ==
  /\ s \in syncs
  /\ syncs' = syncs \ {s}
  /\ IF ~Current(s)
     THEN UNCHANGED <<runtimeVars, anchor, alarms, warnings, storageTail, held,
                      storageFailed, login, pollVars>>
     ELSE \/ /\ anchor' = s.of
             /\ alarms' = {"expiring", "expired"}
             /\ UNCHANGED <<runtimeVars, warnings, storageTail, held,
                            storageFailed, login, pollVars>>
          \/ EndSession
  /\ UNCHANGED <<restores, sessionBounds>>

ClockFails(s) ==
  /\ s \in syncs /\ faults < scene.faults
  /\ faults' = faults + 1
  /\ syncs' = syncs \ {s}
  /\ UNCHANGED <<runtimeVars, anchor, alarms, warnings, storageVars, login,
                 pollVars, scene, adopts, toggles>>

Expiring ==
  /\ "expiring" \in alarms
  /\ alarms' = alarms \ {"expiring"}
  /\ warnings' = warnings + 1
  /\ UNCHANGED <<runtimeVars, anchor, syncs, storageVars, login, pollVars,
                 sessionBounds>>

Expired ==
  /\ alarms = {"expired"}
  /\ EndSession
  /\ UNCHANGED <<syncs, restores, sessionBounds>>

----------------------------------------------------------------------------
(* The kit.                                                               *)

Resyncing == \E s \in syncs : s.kind = "resync"

\* Foreground: the poller wakes, and a session without a clock asks again.
SetForeground ==
  /\ toggles < scene.toggles /\ toggles' = toggles + 1
  /\ ~disposed
  /\ foreground' = ~foreground
  /\ IF ~foreground /\ identity # NoToken /\ anchor = 0 /\ ~Resyncing
     THEN AskTime("resync") ELSE UNCHANGED syncs
  /\ IF foreground
     THEN armed' = FALSE /\ UNCHANGED <<epoch, flight, flying>>
     ELSE Wake(epoch, flight, identity # NoToken /\ interested)
  /\ UNCHANGED <<identity, generation, disposed, anchor, alarms, warnings,
                 storageVars, login, interested, scene, adopts, faults>>

Dispose ==
  /\ ~disposed /\ disposed' = TRUE
  /\ generation' = generation + 1
  /\ identity' = NoToken
  /\ alarms' = {} /\ login' = FALSE /\ warnings' = 0
  /\ StopPoller
  /\ UNCHANGED <<foreground, anchor, syncs, storageVars, interested, sessionBounds>>

----------------------------------------------------------------------------

SessionInit ==
  /\ scene \in SessionSetups
  /\ identity = NoToken /\ generation = 0
  /\ anchor = 0 /\ alarms = {} /\ warnings = 0 /\ syncs = {}
  /\ storageTail = <<>> /\ held \in Token \cup {NoToken}
  /\ login = FALSE /\ restores = {}
  /\ foreground = TRUE /\ disposed = FALSE
  /\ interested = scene.polls /\ epoch = 1 /\ armed = FALSE /\ flight = 0
  /\ flying = [e \in 1..MaxEpoch |-> 0]
  /\ adopts = 0 /\ faults = 0 /\ toggles = 0 /\ storageFailed = FALSE

SessionNext ==
  \/ \E t \in Token : FromToken(t) \/ LoginReturns(t)
  \/ SignIn \/ LoginFails \/ UserSignOut
  \/ Restore \/ \E g \in restores : RestoreLoaded(g)
  \/ StorageDone \/ StorageFails
  \/ \E s \in syncs : Synchronized(s) \/ ClockFails(s)
  \/ Expiring \/ Expired
  \/ SetForeground \/ Dispose \/ Interest
  \/ PollTimer \/ \E e \in 1..MaxEpoch : RefreshEnds(e)

SessionSpec == SessionInit /\ [][SessionNext]_sessionVars

\* Timers fire; requests and the storage answer, one way or the other.
SessionFairness ==
  /\ WF_sessionVars(Expiring) /\ WF_sessionVars(Expired)
  /\ WF_sessionVars(StorageDone)

----------------------------------------------------------------------------
(* Properties.                                                            *)

SessionTypeOK ==
  /\ identity \in Token \cup {NoToken} /\ held \in Token \cup {NoToken}
  /\ generation \in Nat /\ anchor \in 0..generation
  /\ alarms \subseteq {"expiring", "expired"}
  /\ \A s \in syncs : s.kind \in {"adopt", "resync"} /\ s.of \in 0..generation
  /\ restores \subseteq 0..generation
  /\ epoch \in 1..MaxEpoch /\ flight \in 0..epoch
  /\ flight # 0 => flying[flight] > 0
  /\ flying \in [1..MaxEpoch -> Nat]
  /\ {login, foreground, disposed, interested, armed, storageFailed} \subseteq BOOLEAN

\* The clock is that of this session, and a session with a clock will end by
\* itself: no second answer, new token, foreground or sign-out takes its alarm.
AnchorIsOwn ==
  anchor # 0 /\ ~disposed =>
                /\ anchor = generation
                /\ identity # NoToken
                /\ "expired" \in alarms

\* A synchronized session ends.
SessionEnds == []<>(anchor = 0 \/ disposed)

\* Whatever the order in which tokens are adopted, refused and cleared, the
\* storage ends up with that of the session, and with none after it.
StorageFollows ==
  storageTail = <<>> /\ generation > 0 /\ ~storageFailed /\ ~disposed =>
    held = identity

\* One refresh of the poller's present epoch is under way, or none.
OneRefresh == flying[epoch] <= 1

\* A poller that may poll does: no event loses both its timer and its flight.
PollingGoesOn == Allowed => armed \/ (flight = epoch /\ flying[epoch] > 0)

\* As the README of the kit says of each adopted token.
ExpiringFiresOnce == warnings <= 1

\* The session has its own clock, its own token in the storage and one refresh at a time,
\* and it ends (session.ts, polling.ts).
SessionPromise ==
  /\ [](SessionTypeOK /\ AnchorIsOwn /\ StorageFollows /\ OneRefresh /\ PollingGoesOn)
  /\ SessionEnds
=============================================================================
