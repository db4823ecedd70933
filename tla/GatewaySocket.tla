---------------------------- MODULE GatewaySocket ----------------------------
(***************************************************************************)
(* The gateway client (packages/gamebase-client/src): one logical          *)
(* connection over the sockets it opens, with its close codes, backoff and *)
(* timers (gateway-socket.ts), the lobby and game clients on top of it and *)
(* the map of the peers in view (peer-map.ts).                             *)
(*                                                                         *)
(* Sockets are numbered; what a socket will report waits in its wire.      *)
(***************************************************************************)
EXTENDS Naturals, Sequences, FiniteSets, SequencesExt

CONSTANTS
  Peer, Zone,
  SocketSetups,       \* [kind, attempts, refuses] records
  MaxSockets,         \* sockets a behaviour opens
  MaxRefusals,        \* maxHandshakeFailures
  MaxFrames           \* peer frames the gateway sends

ASSUME SocketAssumption ==
  /\ MaxSockets \in Nat \ {0} /\ MaxRefusals \in Nat \ {0} /\ MaxFrames \in Nat
  /\ \A s \in SocketSetups : s.kind \in {"lobby", "q"}

NoSocket == 0
NoZone == "none"

VARIABLES
  setup,
  state,       \* the state the client reports
  socket,      \* the current socket
  opened,      \* the current socket opened
  ready,       \* frames may be sent
  refusals,    \* handshakeFailures
  attempts,    \* of the backoff, since it was reset
  closedByUser,
  override,    \* closeOverride
  timers,      \* which of "hello" and "reconnect" runs
  promise,     \* of connect(): none, pending, resolved or rejected
  outcomes,    \* the terminal events: stopped, aborted, finished
  zone, peers, \* the peer map
  wire,        \* wire[s]: what socket s has still to report
  remote,      \* remote[s]: the gateway's end of s
  view,        \* the zone and the peers the gateway shows on the socket
  opens, frames, refusedInARow

clientVars ==
  <<state, socket, opened, ready, refusals, attempts, closedByUser, override,
    timers, promise, outcomes, zone, peers>>
gatewayEnd == <<wire, remote, view, frames, refusedInARow>>
socketVars == <<setup, clientVars, gatewayEnd, opens>>

----------------------------------------------------------------------------
(* Close codes.                                                           *)

Codes == {"replaced", "aborted", "policy", "normal", "lost", "refused"}

\* classifyClose
Disposition(code) ==
  CASE code = "replaced" -> "stop"
    [] code = "aborted"  -> IF setup.kind = "q" THEN "aborted" ELSE "stop"
    [] code = "policy"   -> "clientBug"
    [] code = "normal"   -> IF setup.kind = "q" THEN "finished" ELSE "stop"
    [] OTHER             -> "reconnect"

----------------------------------------------------------------------------
(* Helpers of the socket.  Each sets what its name says and the promise.  *)

Settle(how) == promise' = IF promise = "pending" THEN how ELSE promise

\* What the application hears of the end: a run that was aborted or finished is
\* told apart by the game client alone.
Outcome(how) ==
  IF setup.kind = "q" /\ how \in {"aborted", "finished"} THEN how ELSE "stopped"

Stop(how) ==
  /\ state' = "closed"
  /\ outcomes' = Append(outcomes, Outcome(how))
  /\ Settle("rejected")

\* A new socket, or a constructor that throws.
OpenSocket ==
  /\ opens < MaxSockets
  /\ \/ /\ opens' = opens + 1
        /\ socket' = opens + 1
        /\ opened' = FALSE
        /\ remote' = [remote EXCEPT ![opens + 1] = "asked"]
        /\ state' = IF state = "reconnecting" THEN state ELSE "connecting"
        /\ UNCHANGED <<outcomes, promise>>
     \/ /\ Stop("stop")
        /\ UNCHANGED <<opens, socket, opened, remote>>

ForgetPeers == zone' = NoZone /\ peers' = {}

GivesUp(failures) == ~opened /\ failures >= MaxRefusals

MayRetry == attempts < setup.attempts

\* The socket is gone: reconnect with backoff, or stop for good.  A handler
\* of `disconnected` that closes the client does so before the timer is set.
Closed(code, closes) ==
  LET kind == IF override # "none" THEN override ELSE Disposition(code)
      failures == refusals + (IF opened THEN 0 ELSE 1)
      again == kind = "reconnect"
               /\ ~GivesUp(failures)
               /\ MayRetry
  IN  /\ socket' = NoSocket /\ ready' = FALSE
      /\ override' = "none"
      /\ refusals' = failures
      /\ ForgetPeers
      /\ closedByUser' = closes
      /\ IF again
         THEN /\ state' = IF closes THEN "closed" ELSE "reconnecting"
              /\ attempts' = attempts + 1
              /\ timers' = {"reconnect"}
              /\ IF closes THEN Settle("rejected") ELSE UNCHANGED promise
              /\ UNCHANGED outcomes
         ELSE /\ Stop(IF kind = "reconnect" THEN "stop" ELSE kind)
              /\ timers' = {}
              /\ UNCHANGED attempts

MarkReady ==
  /\ ready' = TRUE /\ state' = "connected" /\ attempts' = 0
  /\ Settle("resolved")

\* The peer map: a snapshot replaces it, frames of another zone are ignored.
Peers(f) ==
  CASE f.type = "snapshot"                -> f.peers
    [] f.type = "enter" /\ f.zone = zone -> peers \cup {f.peer}
    [] f.type = "leave" /\ f.zone = zone -> peers \ {f.peer}
    [] OTHER                              -> peers

----------------------------------------------------------------------------
(* The client.                                                            *)

Connect ==
  /\ state = "idle" /\ promise = "none"
  /\ ~closedByUser
  /\ opens' = 1 /\ socket' = 1 /\ opened' = FALSE
  /\ remote' = [remote EXCEPT ![1] = "asked"]
  /\ state' = "connecting"
  /\ promise' = "pending"
  /\ UNCHANGED <<setup, ready, refusals, attempts, closedByUser, override,
                 timers, outcomes, zone, peers, wire, view, frames,
                 refusedInARow>>

\* Mutant: a timer that outlived close() opens a socket.
TimerOpensAnyway ==
  /\ "reconnect" \in timers
  /\ timers' = timers \ {"reconnect"}
  /\ OpenSocket
  /\ UNCHANGED <<setup, ready, refusals, attempts, closedByUser, override,
                 zone, peers, wire, view, frames, refusedInARow>>

ReconnectTimer ==
  /\ "reconnect" \in timers
  /\ timers' = timers \ {"reconnect"}
  /\ IF closedByUser
     THEN UNCHANGED <<state, socket, opened, promise, outcomes, remote, opens>>
     ELSE OpenSocket
  /\ UNCHANGED <<setup, ready, refusals, attempts, closedByUser, override,
                 zone, peers, wire, view, frames, refusedInARow>>

\* The client gives up on its socket, which then reports its close and nothing
\* else; the override goes before the code of a close that was on its way.
LocalClose(how) ==
  /\ override' = how
  /\ remote' = [remote EXCEPT ![socket] = "gone"]
  /\ wire' = [wire EXCEPT ![socket] =
       IF remote[socket] = "gone" THEN <<Last(@)>>
       ELSE <<[type |-> "close", code |-> "lost"]>>]

HelloTimer ==
  /\ "hello" \in timers
  /\ timers' = timers \ {"hello"}
  /\ LocalClose("reconnect")
  /\ UNCHANGED <<setup, state, socket, opened, ready, refusals, attempts,
                 closedByUser, promise, outcomes, zone, peers, view, opens,
                 frames, refusedInARow>>

\* close(), by the application: also from a handler of an event.
Close ==
  /\ ~closedByUser /\ closedByUser' = TRUE
  /\ timers' = {}
  /\ socket' = NoSocket /\ ready' = FALSE /\ state' = "closed"
  /\ ForgetPeers
  /\ Settle("rejected")
  /\ remote' = IF socket = NoSocket THEN remote
               ELSE [remote EXCEPT ![socket] = "gone"]
  /\ UNCHANGED <<setup, opened, refusals, attempts, override, outcomes, wire,
                 view, opens, frames, refusedInARow>>

----------------------------------------------------------------------------
(* What a socket reports.                                                 *)

Opened(f, closes) ==
  /\ opened' = TRUE /\ refusals' = 0
  /\ CASE ~f.bearer ->
            /\ ~closes
            /\ LocalClose("stop")
            /\ UNCHANGED <<state, socket, ready, attempts, closedByUser, timers,
                           promise, zone, peers>>
       \* A handler of `connected` closes the game client: the socket is gone,
       \* and the client is marked ready all the same.
       [] f.bearer /\ setup.kind = "q" /\ closes ->
            /\ closedByUser' = TRUE /\ timers' = {} /\ socket' = NoSocket
            /\ ready' = TRUE /\ state' = "connected" /\ attempts' = 0
            /\ Settle("rejected") /\ ForgetPeers
            /\ remote' = [remote EXCEPT ![socket] = "gone"]
            /\ UNCHANGED override
       [] f.bearer /\ setup.kind = "q" /\ ~closes ->
            /\ MarkReady
            /\ UNCHANGED <<override, socket, closedByUser, timers, remote,
                           zone, peers>>
       [] OTHER ->
            /\ ~closes
            /\ timers' = timers \cup {"hello"}
            /\ UNCHANGED <<state, socket, ready, attempts, closedByUser,
                           promise, override, remote, zone, peers>>
  /\ UNCHANGED outcomes

\* The lobby client hands the frames about peers to its map.
LobbyFrame(f) ==
  /\ peers' = IF setup.kind = "lobby" THEN Peers(f) ELSE peers
  /\ zone' = IF f.type = "snapshot" THEN f.zone ELSE zone

Message(f) ==
  /\ IF setup.kind = "lobby" /\ ~ready
     THEN IF f.type = "hello"
          THEN /\ MarkReady
               /\ timers' = timers \ {"hello"}
               /\ ForgetPeers
          ELSE UNCHANGED <<ready, state, attempts, promise, timers, zone, peers>>
     ELSE /\ LobbyFrame(f)
          /\ UNCHANGED <<ready, state, attempts, promise, timers>>
  /\ UNCHANGED <<socket, opened, refusals, closedByUser, override, outcomes,
                 remote>>

Report(s) ==
  /\ wire[s] # <<>>
  /\ LET f == Head(wire[s])
         rest == [wire EXCEPT ![s] = Tail(@)]
     IN  CASE s # socket -> wire' = rest /\ UNCHANGED <<clientVars, remote>>
           [] s = socket /\ f.type = "open" ->
                \E closes \in BOOLEAN :
                  /\ Opened(f, closes)
                  /\ IF f.bearer THEN wire' = rest ELSE TRUE
           [] s = socket /\ f.type = "close" ->
                /\ \E closes \in BOOLEAN : Closed(f.code, closes)
                /\ wire' = rest
                /\ UNCHANGED <<opened, remote>>
           [] OTHER -> Message(f) /\ wire' = rest
  /\ UNCHANGED <<setup, view, opens, frames, refusedInARow>>

----------------------------------------------------------------------------
(* The gateway and the network.                                           *)

Tell(s, f) == wire' = [wire EXCEPT ![s] = Append(@, f)]

Accepts(s) ==
  /\ remote[s] = "asked"
  /\ ~setup.refuses
  /\ remote' = [remote EXCEPT ![s] = "open"]
  /\ \E bearer \in BOOLEAN : Tell(s, [type |-> "open", bearer |-> bearer])
  /\ refusedInARow' = 0
  /\ view' = [zone |-> NoZone, peers |-> {}]
  /\ UNCHANGED <<setup, clientVars, opens, frames>>

\* 401, 404 or no network: a browser sees a close and nothing else.
Refuses(s) ==
  /\ remote[s] = "asked"
  /\ remote' = [remote EXCEPT ![s] = "gone"]
  /\ Tell(s, [type |-> "close", code |-> "refused"])
  /\ refusedInARow' = refusedInARow + 1
  /\ UNCHANGED <<setup, clientVars, view, opens, frames>>

Greets(s) ==
  /\ remote[s] = "open"
  /\ remote' = [remote EXCEPT ![s] = "greeted"]
  /\ Tell(s, [type |-> "hello"])
  /\ UNCHANGED <<setup, clientVars, view, opens, frames, refusedInARow>>

Closes(s) ==
  /\ remote[s] \in {"open", "greeted"}
  /\ opens < MaxSockets
  /\ remote' = [remote EXCEPT ![s] = "gone"]
  /\ \E code \in Codes : Tell(s, [type |-> "close", code |-> code])
  /\ UNCHANGED <<setup, clientVars, view, opens, frames, refusedInARow>>

\* The answer to a position: the zone and its peers, then who comes and goes;
\* a frame of the zone that was left may still follow.
Shows(s) ==
  /\ remote[s] = "greeted" /\ setup.kind = "lobby"
  /\ frames < MaxFrames /\ frames' = frames + 1
  /\ \/ \E z \in Zone, P \in SUBSET Peer :
          /\ z # view.zone
          /\ view' = [zone |-> z, peers |-> P]
          /\ Tell(s, [type |-> "snapshot", zone |-> z, peers |-> P])
     \/ \E p \in Peer :
          /\ view.zone # NoZone
          /\ IF p \in view.peers
             THEN /\ view' = [view EXCEPT !.peers = @ \ {p}]
                  /\ Tell(s, [type |-> "leave", zone |-> view.zone, peer |-> p])
             ELSE /\ view' = [view EXCEPT !.peers = @ \cup {p}]
                  /\ Tell(s, [type |-> "enter", zone |-> view.zone, peer |-> p])
     \/ \E p \in Peer, z \in Zone, t \in {"enter", "leave"} :
          /\ view.zone \notin {z, NoZone}
          /\ UNCHANGED view
          /\ Tell(s, [type |-> t, zone |-> z, peer |-> p])
  /\ UNCHANGED <<setup, clientVars, remote, opens, refusedInARow>>

----------------------------------------------------------------------------

SocketInit ==
  /\ setup \in SocketSetups
  /\ state = "idle" /\ socket = NoSocket /\ opened = FALSE /\ ready = FALSE
  /\ refusals = 0 /\ attempts = 0 /\ closedByUser = FALSE /\ override = "none"
  /\ timers = {} /\ promise = "none" /\ outcomes = <<>>
  /\ zone = NoZone /\ peers = {}
  /\ wire = [s \in 1..MaxSockets |-> <<>>]
  /\ remote = [s \in 1..MaxSockets |-> "none"]
  /\ view = [zone |-> NoZone, peers |-> {}]
  /\ opens = 0 /\ frames = 0 /\ refusedInARow = 0

Handshake(s) == Accepts(s) \/ Refuses(s)

SocketNext ==
  \/ Connect \/ ReconnectTimer \/ HelloTimer \/ Close
  \/ \E s \in 1..MaxSockets :
       Report(s) \/ Handshake(s) \/ Greets(s) \/ Closes(s) \/ Shows(s)

SocketSpec == SocketInit /\ [][SocketNext]_socketVars

\* Timers fire, sockets report, a handshake ends one way or the other.
SocketFairness ==
  /\ WF_socketVars(ReconnectTimer) /\ WF_socketVars(HelloTimer)
  /\ \A s \in 1..MaxSockets : WF_socketVars(Report(s)) /\ WF_socketVars(Handshake(s))

----------------------------------------------------------------------------
(* Properties.                                                            *)

SocketTypeOK ==
  /\ state \in {"idle", "connecting", "connected", "reconnecting", "closed"}
  /\ socket \in 0..opens /\ opens \in 0..MaxSockets
  /\ opened \in BOOLEAN /\ ready \in BOOLEAN /\ closedByUser \in BOOLEAN
  /\ refusals \in Nat /\ attempts \in Nat
  /\ override \in {"none", "stop", "reconnect"}
  /\ timers \subseteq {"hello", "reconnect"}
  /\ "hello" \in timers => opened /\ socket # NoSocket
  /\ "reconnect" \in timers => socket = NoSocket
  /\ promise \in {"none", "pending", "resolved", "rejected"}
  /\ zone \in Zone \cup {NoZone} /\ peers \subseteq Peer

\* A client that was closed or has stopped is gone for good, even when a
\* handler closed it while it was preparing to reconnect and the timer was set
\* after that: nothing opens a socket again, and it stops at most once.
EndIsFinal ==
  /\ closedByUser \/ outcomes # <<>> => socket = NoSocket /\ state \in {"closed", "connected"}
  /\ Len(outcomes) <= 1

\* A refused handshake looks like a lost network, so a token that is refused
\* over and over ends the client after maxHandshakeFailures, however patient
\* the backoff is; a handshake that succeeds in between starts over.
RefusalsAreBounded ==
  /\ refusedInARow <= MaxRefusals
  /\ state = "reconnecting" /\ socket = NoSocket => refusals = refusedInARow

Announced(s) == wire[s] = <<>> /\ remote[s] = "greeted" /\ socket = s /\ ready

\* The peers a lobby shows are those of the gateway once its frames are
\* applied: nothing of a former socket, a former zone or the time between
\* (peer-map.ts, gateway-socket.ts).
ViewIsCurrent ==
  /\ \A s \in 1..MaxSockets :
       Announced(s) /\ setup.kind = "lobby" => zone = view.zone /\ peers = view.peers
  /\ state # "connected" => peers = {}

\* connect() answers: the hello timer, the refusals and the close codes leave
\* no way to wait for ever.
ConnectAnswers ==
  []<>(promise # "pending" \/ opens = MaxSockets)

\* The gateway client answers, shows what is, and stays closed (gateway-socket.ts,
\* peer-map.ts).
SocketPromise ==
  /\ [](SocketTypeOK /\ EndIsFinal /\ RefusalsAreBounded /\ ViewIsCurrent)
  /\ ConnectAnswers
=============================================================================
