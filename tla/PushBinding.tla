----------------------------- MODULE PushBinding -----------------------------
(***************************************************************************)
(* The push registration of game-kit (packages/game-kit/src/push.ts): the  *)
(* device's FCM token is registered for the signed-in player and the       *)
(* device subscribed to a topic; both are undone when the session ends.    *)
(* Registrations and cleanings go through one lane.                        *)
(*                                                                         *)
(* A player has one session token; a request that fails may have been      *)
(* served.                                                                 *)
(***************************************************************************)
EXTENDS Naturals, Sequences, SequencesExt

CONSTANTS
  Account, NoAccount,
  Handset,        \* FCM tokens of the device
  BindingSetups   \* [registers, unregisters, sessions, faults]: bounds

\* No token is called as the marks of no token and of the topic are.
ASSUME BindingAssumption ==
  /\ NoAccount \notin Account /\ "none" \notin Handset /\ "topic" \notin Handset
  /\ \A s \in BindingSetups :
       {s.registers, s.unregisters, s.sessions, s.faults} \subseteq Nat

VARIABLES
  owner,          \* owner[h]: for whom the service has h registered
  subscribed,     \* the device has the topic
  whose,          \* the player of the session
  session,        \* the generation
  over,           \* disposed
  binding,        \* [fcm, user, session, id]
  lane,           \* the tasks: [kind, fcm, user, session, step, old, next]
  bound,          \* bindings made
  left,           \* what a failed cleaning has left behind
  supply          \* the setup, with what is left of it

bindingVars == <<owner, subscribed, whose, session, over, binding, lane, bound,
                 left, supply>>

NoBinding == [fcm |-> "none", user |-> NoAccount, session |-> 0, id |-> 0]

Takes(what) == supply[what] > 0 /\ supply' = [supply EXCEPT ![what] = @ - 1]

Task(kind, fcm, old) ==
  [kind |-> kind, fcm |-> fcm, user |-> whose, session |-> session,
   step |-> "start", old |-> old, next |-> "end"]

----------------------------------------------------------------------------
(* The session, and calls.                                                *)

\* What is bound when the session ends or changes is cleaned, in its turn.
Cleanup == IF binding = NoBinding THEN lane
           ELSE Append(lane, Task("clean", binding.fcm, binding))

\* fromToken, signOut, dispose.
SessionBecomes(u, ended) ==
  /\ ~over /\ Takes("sessions")
  /\ u = NoAccount => whose # NoAccount \/ ended
  /\ u # NoAccount => ~ended
  /\ whose' = u /\ session' = session + 1 /\ over' = ended
  /\ lane' = Cleanup
  /\ UNCHANGED <<owner, subscribed, binding, bound, left>>

Register(h) ==
  /\ whose # NoAccount /\ Takes("registers")
  /\ lane' = Append(lane, Task("register", h, NoBinding))
  /\ UNCHANGED <<owner, subscribed, whose, session, over, binding, bound, left>>

Unregister ==
  /\ Takes("unregisters")
  /\ lane' = Append(lane, Task("unregister", "none", NoBinding))
  /\ UNCHANGED <<owner, subscribed, whose, session, over, binding, bound, left>>

----------------------------------------------------------------------------
(* The lane.                                                              *)

InTurn(k) == k = 1 /\ lane # <<>>

Ends_(k) == lane' = RemoveAt(lane, k)
Steps(k, step) == lane' = [lane EXCEPT ![k].step = step]
Cleans(k, old, next) ==
  lane' = [lane EXCEPT ![k].step = "delete", ![k].old = old, ![k].next = next]

Stale(k) == lane[k].session # session

\* The binding is known from before its request is sent.
Binds(k) ==
  /\ binding' = [fcm |-> lane[k].fcm, user |-> lane[k].user,
                 session |-> lane[k].session, id |-> bound + 1]
  /\ bound' = bound + 1

\* Mutant: only another player's binding is cleaned before the next.
MustCleanOthers(k) == binding.user # lane[k].user

MustClean(k) == binding.fcm # lane[k].fcm \/ binding.user # lane[k].user

Starts(k) ==
  /\ InTurn(k) /\ lane[k].step = "start"
  /\ CASE lane[k].kind = "clean" ->
            Cleans(k, lane[k].old, "end") /\ UNCHANGED <<binding, bound>>
       [] lane[k].kind = "unregister" ->
            /\ IF binding = NoBinding THEN Ends_(k) ELSE Cleans(k, binding, "end")
            /\ UNCHANGED <<binding, bound>>
       [] lane[k].kind = "register" /\ Stale(k) ->
            Ends_(k) /\ UNCHANGED <<binding, bound>>
       [] OTHER ->
            IF binding # NoBinding /\ MustClean(k)
            THEN Cleans(k, binding, "bind") /\ UNCHANGED <<binding, bound>>
            ELSE Binds(k) /\ Steps(k, "put")
  /\ UNCHANGED <<owner, subscribed, whose, session, over, left, supply>>

\* clean(): the token is unregistered, the topic unsubscribed; a failure of
\* either is only logged.
Deletes_(k, ok) ==
  /\ InTurn(k) /\ lane[k].step = "delete"
  /\ LET old == lane[k].old
     IN  IF ok
         THEN /\ owner' = [owner EXCEPT ![old.fcm] = IF @ = old.user THEN NoAccount ELSE @]
              /\ left' = IF owner[old.fcm] = old.user THEN left \ {old.fcm} ELSE left
              /\ UNCHANGED supply
         ELSE /\ Takes("faults") /\ left' = left \cup {old.fcm} /\ UNCHANGED owner
  /\ Steps(k, "unsubscribe")
  /\ UNCHANGED <<subscribed, whose, session, over, binding, bound>>

\* The binding is forgotten; then what the task cleaned for.
Unsubscribes(k, ok) ==
  /\ InTurn(k) /\ lane[k].step = "unsubscribe"
  /\ IF ok THEN subscribed' = FALSE /\ left' = left \ {"topic"} /\ UNCHANGED supply
     ELSE Takes("faults") /\ left' = left \cup {"topic"} /\ UNCHANGED subscribed
  /\ IF lane[k].next = "bind" /\ ~Stale(k)
     THEN Binds(k) /\ Steps(k, "put")
     ELSE /\ binding' = IF binding = lane[k].old THEN NoBinding ELSE binding
          /\ Ends_(k) /\ UNCHANGED bound
  /\ UNCHANGED <<owner, whose, session, over>>

\* register() of the service, which keeps one player for a token.
Puts(k, ok, served) ==
  /\ InTurn(k) /\ lane[k].step = "put"
  /\ ok => served
  /\ IF ok THEN UNCHANGED supply ELSE Takes("faults")
  /\ owner' = IF served THEN [owner EXCEPT ![lane[k].fcm] = lane[k].user] ELSE owner
  /\ IF ~ok \/ Stale(k) THEN Cleans(k, binding, "end") ELSE Steps(k, "subscribe")
  /\ UNCHANGED <<subscribed, whose, session, over, binding, bound, left>>

Subscribes(k, ok, served) ==
  /\ InTurn(k) /\ lane[k].step = "subscribe"
  /\ ok => served
  /\ IF ok THEN UNCHANGED supply ELSE Takes("faults")
  /\ subscribed' = (subscribed \/ served)
  /\ IF ~ok \/ Stale(k) THEN Cleans(k, binding, "end") ELSE Ends_(k)
  /\ left' = IF ok /\ ~Stale(k) THEN left \ {"topic"} ELSE left
  /\ UNCHANGED <<owner, whose, session, over, binding, bound>>

----------------------------------------------------------------------------

BindingInit ==
  /\ supply \in BindingSetups
  /\ owner = [h \in Handset |-> NoAccount] /\ subscribed = FALSE
  /\ whose = NoAccount /\ session = 1 /\ over = FALSE
  /\ binding = NoBinding /\ lane = <<>> /\ bound = 0 /\ left = {}

BindingNext ==
  \/ \E u \in Account \cup {NoAccount}, ended \in BOOLEAN : SessionBecomes(u, ended)
  \/ \E h \in Handset : Register(h)
  \/ Unregister
  \/ \E k \in DOMAIN lane :
       \/ Starts(k)
       \/ \E ok \in BOOLEAN : Deletes_(k, ok) \/ Unsubscribes(k, ok)
       \/ \E ok, served \in BOOLEAN : Puts(k, ok, served) \/ Subscribes(k, ok, served)

BindingSpec == BindingInit /\ [][BindingNext]_bindingVars

----------------------------------------------------------------------------
(* Properties.                                                            *)

\* Types; and one task of the lane is under way at a time (push.ts enqueue).
BindingTypeOK ==
  /\ owner \in [Handset -> Account \cup {NoAccount}] /\ subscribed \in BOOLEAN
  /\ binding.user \in Account \cup {NoAccount} /\ binding.session \in 0..session
  /\ \A k \in 2..Len(lane) : lane[k].step = "start"

\* What the kit takes for its registration is the service's, is subscribed, and
\* belongs to the session that is: a cleaning left over from a former session
\* never undoes it (push.ts cleanup, register).
BoundIsServed ==
  lane = <<>> /\ binding # NoBinding =>
    /\ owner[binding.fcm] = binding.user /\ subscribed
    /\ binding.session = session /\ binding.user = whose

\* Whatever session ended between two steps of a registration: once the lane is
\* empty, which sign-out waits for, nothing is registered or subscribed but what
\* is bound, if no cleaning failed (index.ts signOut, push.ts register).
NothingIsLeft ==
  lane = <<>> =>
    /\ \A h \in Handset : owner[h] # NoAccount => h = binding.fcm \/ h \in left
    /\ subscribed => binding # NoBinding \/ "topic" \in left

\* The registration the kit believes in is the one the service has, and no other is left
\* (push.ts).
BindingInvariant == BindingTypeOK /\ BoundIsServed /\ NothingIsLeft
=============================================================================
