------------------------------- MODULE Tickets -------------------------------
(***************************************************************************)
(* Deferred matchmaking (packages/game-kit/src/matchmaking.ts): a player   *)
(* submits a ticket, follows it by polling, accepts or declines what is    *)
(* proposed, and cancels.                                                  *)
(*                                                                         *)
(* The service is the fake one of the tests (test-support/                 *)
(* platform-fakes.ts), which proposes a match to the two that wait; but a  *)
(* reply to a ticket that is not proposed is refused, with the conflicts   *)
(* the client handles (matchmaking.ts 185-196), where the fake says 200.   *)
(* A request takes effect some time between its call and its answer, in    *)
(* any order.  An epoch is the time between two stops.                     *)
(***************************************************************************)
EXTENDS Naturals, FiniteSets

CONSTANTS
  Seeker,          \* the players
  TicketSetups     \* [submits, cancels, replies, looks, naps: [Seeker -> Nat];
                   \*  refusals, breaks, expiries: Nat]

ASSUME TicketAssumption ==
  /\ Cardinality(Seeker) = 2
  /\ \A s \in TicketSetups : {s.refusals, s.breaks, s.expiries} \subseteq Nat

VARIABLES
  ticket,       \* ticket[u]: what the service has, [state, match, accepted]
  cooling,      \* who is in a cooldown
  matches,      \* matches proposed
  span,         \* span[u]: epoch
  following,    \* following[u]: active
  clocked,      \* clocked[u]: the timer is set
  shown,        \* shown[u]: lastTicket, cleared by a stop
  inFront,      \* inFront[u]: foreground
  lookup,       \* lookup[u]: the epoch of `reading`, or 0
  reads,        \* reads[u]: status reads: [span, auto, woken, step, ticket, old]
  calls,        \* calls[u]: performs and cancels: [kind, span, step, answer]
  quiet,        \* quiet[u]: no request was on its way when u cancelled
  freed,        \* freed[u]: such a cancel has succeeded since the last submit
  crossed,      \* crossed[u]: a read that a call of u overtook has been published,
                \* or a call of a former epoch was served
  luck          \* the setup, with what is left of its bounds

clientOf == <<span, following, clocked, shown, inFront, lookup, reads, calls>>
serverSide == <<ticket, cooling, matches>>
ghostsOf == <<quiet, freed, crossed>>
ticketVars == <<serverSide, clientOf, ghostsOf, luck>>

NoTicket == [state |-> "none", match |-> 0, accepted |-> FALSE]
Waiting_ == [state |-> "waiting", match |-> 0, accepted |-> FALSE]

Spend(bound) == luck[bound] > 0 /\ luck' = [luck EXCEPT ![bound] = @ - 1]
SpendOf(bound, u) ==
  luck[bound][u] > 0 /\ luck' = [luck EXCEPT ![bound][u] = @ - 1]

----------------------------------------------------------------------------
(* The service.                                                           *)

\* Two who wait are proposed to each other.
MatchReady(t, n) ==
  LET waiting == {u \in Seeker : t[u].state = "waiting"}
  IN  IF Cardinality(waiting) < 2 THEN t
      ELSE [u \in Seeker |-> IF u \in waiting
              THEN [state |-> "proposed", match |-> n, accepted |-> FALSE] ELSE t[u]]

Partners(u) == {v \in Seeker \ {u} : /\ ticket[v].state = "proposed"
                                     /\ ticket[v].match = ticket[u].match}

BackToWaiting(u) ==
  [v \in Seeker |-> IF ticket[u].state = "proposed" /\ v \in Partners(u)
                    THEN Waiting_ ELSE ticket[v]]

SubmitServed(u) ==
  IF u \in cooling THEN [tickets |-> ticket, answer |-> "retry"]
  ELSE IF ticket[u].state = "proposed" THEN [tickets |-> ticket, answer |-> "look"]
  ELSE [tickets |-> MatchReady([ticket EXCEPT ![u] = Waiting_], matches + 1),
        answer |-> "ticket"]

AcceptServed(u) ==
  LET all == \A v \in Partners(u) : ticket[v].accepted
  IN  IF ticket[u].state # "proposed" THEN [tickets |-> ticket, answer |-> "look"]
      ELSE [tickets |-> [v \in Seeker |->
              IF v = u \/ (all /\ v \in Partners(u))
              THEN [ticket[v] EXCEPT !.state = IF all THEN "confirmed" ELSE @,
                                     !.accepted = TRUE]
              ELSE ticket[v]],
            answer |-> "ticket"]

DeclineServed(u) ==
  IF ticket[u].state # "proposed" THEN [tickets |-> ticket, answer |-> "look"]
  ELSE [tickets |-> [BackToWaiting(u) EXCEPT ![u].state = "declined"], answer |-> "ticket"]

CancelServed(u) ==
  [tickets |-> [BackToWaiting(u) EXCEPT ![u] = NoTicket], answer |-> "gone"]

ServedAs(u, kind) ==
  CASE kind = "submit"  -> SubmitServed(u)
    [] kind = "accept"  -> AcceptServed(u)
    [] kind = "decline" -> DeclineServed(u)
    [] OTHER            -> CancelServed(u)

CallServed(u, c) ==
  /\ c \in calls[u] /\ c.step = "asked"
  /\ LET served == ServedAs(u, c.kind)
     IN  /\ ticket' = served.tickets
         /\ matches' = IF \E v \in Seeker : served.tickets[v].match > matches
                       THEN matches + 1 ELSE matches
         /\ cooling' = IF c.kind = "decline" /\ served.answer = "ticket"
                       THEN cooling \cup {u} ELSE cooling
         /\ calls' = [calls EXCEPT ![u] = (@ \ {c}) \cup
               {[c EXCEPT !.step = "answered", !.answer = served.answer,
                          !.ticket = served.tickets[u]]}]
         /\ reads' = [reads EXCEPT ![u] =
               {[r EXCEPT !.old = r.step = "answered"] : r \in @}]
  /\ crossed' = [crossed EXCEPT ![u] = @ \/ c.span # span[u]]
  /\ UNCHANGED <<span, following, clocked, shown, inFront, lookup, quiet, freed, luck>>

\* It refuses (busy, throttled, confirming), or no answer is heard: of what was
\* served, or of what was not.
CallRefused(u, c) ==
  /\ c \in calls[u] /\ c.step = "asked" /\ Spend("refusals")
  /\ calls' = [calls EXCEPT ![u] = (@ \ {c}) \cup
                 {[c EXCEPT !.step = "answered", !.answer = "retry"]}]
  /\ UNCHANGED <<serverSide, span, following, clocked, shown, inFront, lookup,
                 reads, ghostsOf>>

CallBreaks(u, c) ==
  /\ c \in calls[u] /\ Spend("breaks")
  /\ \/ c.step = "asked"
     \/ c.step = "answered" /\ c.answer = "ticket"
  /\ calls' = [calls EXCEPT ![u] = @ \ {c}]
  /\ UNCHANGED <<serverSide, span, following, clocked, shown, inFront, lookup,
                 reads, ghostsOf>>

ReadServed(u, r) ==
  /\ r \in reads[u] /\ r.step = "asked"
  /\ reads' = [reads EXCEPT ![u] = (@ \ {r}) \cup
                 {[r EXCEPT !.step = "answered", !.ticket = ticket[u]]}]
  /\ UNCHANGED <<serverSide, span, following, clocked, shown, inFront, lookup,
                 calls, ghostsOf, luck>>

\* A proposal that was not accepted in time, or a wait that was too long.
Expires(u) ==
  /\ ticket[u].state \in {"waiting", "proposed"} /\ Spend("expiries")
  /\ ticket' = [v \in Seeker |-> IF v = u \/ (ticket[u].state = "proposed" /\ v \in Partners(u))
                                 THEN [ticket[v] EXCEPT !.state = "expired"] ELSE ticket[v]]
  /\ UNCHANGED <<cooling, matches, clientOf, ghostsOf>>

CooldownEnds(u) ==
  /\ u \in cooling /\ cooling' = cooling \ {u}
  /\ UNCHANGED <<ticket, matches, clientOf, ghostsOf, luck>>

----------------------------------------------------------------------------
(* Reads.                                                                 *)

Alive(t) == t.state \in {"waiting", "proposed"}

Forgets(known, r) == IF known = r.span THEN 0 ELSE known

\* read(): the one under way, or another.
StartRead(u, e, auto, known) ==
  IF known = e
  THEN /\ reads' = [reads EXCEPT ![u] = {IF r.span = e THEN [r EXCEPT !.woken = @ \/ auto]
                                          ELSE r : r \in @}]
       /\ UNCHANGED lookup
  ELSE /\ reads' = [reads EXCEPT ![u] = @ \cup
            {[span |-> e, auto |-> auto, woken |-> auto, step |-> "gap", ticket |-> NoTicket,
              old |-> FALSE]}]
       /\ lookup' = [lookup EXCEPT ![u] = e]

\* The minimum gap has passed; an automatic read stops in the background.
GapOver(u, r) ==
  /\ r \in reads[u] /\ r.step = "gap"
  /\ IF r.auto /\ ~inFront[u]
     THEN /\ reads' = [reads EXCEPT ![u] = @ \ {r}]
          /\ lookup' = [lookup EXCEPT ![u] = Forgets(@, r)]
          /\ calls' = [calls EXCEPT ![u] = {c \in @ : ~(c.step = "look" /\ c.span = r.span)}]
     ELSE /\ reads' = [reads EXCEPT ![u] = (@ \ {r}) \cup {[r EXCEPT !.step = "asked"]}]
          /\ UNCHANGED <<lookup, calls>>
  /\ UNCHANGED <<serverSide, span, following, clocked, shown, inFront, ghostsOf, luck>>

\* publish(), of this epoch.
ShowsTicket(u, t) ==
  /\ following' = [following EXCEPT ![u] = Alive(t)]
  /\ shown' = [shown EXCEPT ![u] = IF t = NoTicket THEN @ ELSE t]
  /\ clocked' = [clocked EXCEPT ![u] = Alive(t) /\ inFront[u]]

\* The end of a read, for those who wait for it.
ReadOver(u, r) ==
  /\ reads' = [reads EXCEPT ![u] = @ \ {r}]
  /\ lookup' = [lookup EXCEPT ![u] = Forgets(@, r)]
  /\ calls' = [calls EXCEPT ![u] = {c \in @ : ~(c.step = "look" /\ c.span = r.span)}]

ReadEnds(u, r) ==
  /\ r \in reads[u] /\ r.step = "answered"
  /\ IF r.span = span[u] /\ (~r.auto \/ inFront[u])
     THEN /\ ShowsTicket(u, r.ticket)
          /\ crossed' = [crossed EXCEPT ![u] = @ \/ r.old]
     ELSE /\ clocked' = [clocked EXCEPT ![u] =
                           IF r.span = span[u] /\ r.woken
                           THEN following[u] /\ inFront[u] ELSE @]
          /\ UNCHANGED <<following, shown, crossed>>
  /\ ReadOver(u, r)
  /\ UNCHANGED <<serverSide, span, inFront, quiet, freed, luck>>

\* It fails: a poll is set again, after a longer delay.
ReadFails(u, r) ==
  /\ r \in reads[u] /\ r.step = "asked" /\ Spend("breaks")
  /\ clocked' = [clocked EXCEPT ![u] = IF r.span = span[u] /\ r.woken
                                        THEN following[u] /\ inFront[u] ELSE @]
  /\ ReadOver(u, r)
  /\ UNCHANGED <<serverSide, span, following, shown, inFront, ghostsOf>>

\* status()
Looks(u) ==
  /\ SpendOf("looks", u)
  /\ StartRead(u, span[u], FALSE, lookup[u])
  /\ UNCHANGED <<serverSide, span, following, clocked, shown, inFront, calls, ghostsOf>>

TimerRings(u) ==
  /\ clocked[u]
  /\ clocked' = [clocked EXCEPT ![u] = FALSE]
  /\ IF inFront[u] /\ following[u] THEN StartRead(u, span[u], TRUE, lookup[u])
     ELSE UNCHANGED <<reads, lookup>>
  /\ UNCHANGED <<serverSide, span, following, shown, inFront, calls, ghostsOf, luck>>

\* To the background; back, whatever there is is discovered.
Hides(u) ==
  /\ inFront[u] /\ SpendOf("naps", u)
  /\ inFront' = [inFront EXCEPT ![u] = FALSE]
  /\ clocked' = [clocked EXCEPT ![u] = FALSE]
  /\ UNCHANGED <<serverSide, span, following, shown, lookup, reads, calls, ghostsOf>>

Resumes(u) ==
  /\ ~inFront[u]
  /\ inFront' = [inFront EXCEPT ![u] = TRUE]
  /\ following' = [following EXCEPT ![u] = TRUE]
  /\ clocked' = [clocked EXCEPT ![u] = FALSE]
  /\ StartRead(u, span[u], TRUE, lookup[u])
  /\ UNCHANGED <<serverSide, span, shown, calls, ghostsOf, luck>>

----------------------------------------------------------------------------
(* Calls.                                                                 *)

Asked(kind, e) ==
  [kind |-> kind, span |-> e, step |-> "asked", answer |-> "none", ticket |-> NoTicket]

\* Mutant: the timer is stopped, and nothing that waits for a retry.
StopsTimer(u, call) ==
  /\ following' = [following EXCEPT ![u] = FALSE]
  /\ clocked' = [clocked EXCEPT ![u] = FALSE]
  /\ shown' = [shown EXCEPT ![u] = NoTicket]
  /\ calls' = [calls EXCEPT ![u] = @ \cup {Asked(call, span[u])}]
  /\ UNCHANGED <<span, lookup, reads>>

\* stop(), and the call that did it: what waits for a delay is rejected.
Stops(u, call) ==
  /\ span' = [span EXCEPT ![u] = @ + 1]
  /\ following' = [following EXCEPT ![u] = FALSE]
  /\ clocked' = [clocked EXCEPT ![u] = FALSE]
  /\ lookup' = [lookup EXCEPT ![u] = 0]
  /\ shown' = [shown EXCEPT ![u] = NoTicket]
  /\ reads' = [reads EXCEPT ![u] = {r \in @ : r.step # "gap"}]
  /\ calls' = [calls EXCEPT ![u] = {c \in @ : c.step # "pause"}
                                   \cup {Asked(call, span[u] + 1)}]

Submits(u) ==
  /\ SpendOf("submits", u)
  /\ Stops(u, "submit")
  /\ freed' = [freed EXCEPT ![u] = FALSE]
  /\ quiet' = [quiet EXCEPT ![u] = FALSE]
  /\ crossed' = [crossed EXCEPT ![u] = FALSE]
  /\ UNCHANGED <<serverSide, inFront>>

Cancels(u) ==
  /\ SpendOf("cancels", u)
  /\ Stops(u, "cancel")
  /\ quiet' = [quiet EXCEPT ![u] = \A c \in calls[u] : c.step # "asked"]
  /\ UNCHANGED <<serverSide, inFront, freed, crossed>>

\* accept() and decline(), of the proposal that was shown.
Replies(u, kind) ==
  /\ shown[u].state = "proposed" /\ SpendOf("replies", u)
  /\ calls' = [calls EXCEPT ![u] = @ \cup {Asked(kind, span[u])}]
  /\ UNCHANGED <<serverSide, span, following, clocked, shown, inFront, lookup,
                 reads, ghostsOf>>

\* The answer to a call.  Of a former epoch it is not heard; a refusal for now
\* waits and asks again; a state in conflict is looked up.
CallEnds(u, c) ==
  /\ c \in calls[u] /\ c.step = "answered"
  /\ LET rest == calls[u] \ {c}
         becomes(step) == calls' = [calls EXCEPT ![u] = rest \cup {[c EXCEPT !.step = step]}]
         ends == calls' = [calls EXCEPT ![u] = rest]
     IN  CASE c.answer = "gone" ->
                /\ ends /\ freed' = [freed EXCEPT ![u] = c.span = span[u] /\ quiet[u]]
                /\ UNCHANGED <<following, clocked, shown, lookup, reads>>
           [] c.answer # "gone" /\ c.span # span[u] ->
                ends /\ UNCHANGED <<freed, following, clocked, shown, lookup, reads>>
           [] c.answer = "ticket" /\ c.span = span[u] ->
                ends /\ ShowsTicket(u, c.ticket) /\ UNCHANGED <<freed, lookup, reads>>
           [] c.answer = "retry" /\ c.span = span[u] ->
                becomes("pause") /\ UNCHANGED <<freed, following, clocked, shown, lookup, reads>>
           [] OTHER ->
                /\ becomes("look") /\ StartRead(u, span[u], FALSE, lookup[u])
                /\ UNCHANGED <<freed, following, clocked, shown>>
  /\ UNCHANGED <<serverSide, span, inFront, quiet, crossed, luck>>

PauseOver(u, c) ==
  /\ c \in calls[u] /\ c.step = "pause"
  /\ calls' = [calls EXCEPT ![u] = (@ \ {c}) \cup {[c EXCEPT !.step = "asked"]}]
  /\ UNCHANGED <<serverSide, span, following, clocked, shown, inFront, lookup,
                 reads, ghostsOf, luck>>

----------------------------------------------------------------------------

TicketsInit ==
  /\ luck \in TicketSetups
  /\ ticket = [u \in Seeker |-> NoTicket] /\ cooling = {} /\ matches = 0
  /\ span = [u \in Seeker |-> 1] /\ following = [u \in Seeker |-> FALSE]
  /\ clocked = [u \in Seeker |-> FALSE] /\ shown = [u \in Seeker |-> NoTicket]
  /\ inFront = [u \in Seeker |-> TRUE] /\ lookup = [u \in Seeker |-> 0]
  /\ reads = [u \in Seeker |-> {}] /\ calls = [u \in Seeker |-> {}]
  /\ quiet = [u \in Seeker |-> FALSE] /\ freed = [u \in Seeker |-> FALSE]
  /\ crossed = [u \in Seeker |-> FALSE]

\* What goes on by itself: requests are served and answered, delays pass.
Proceeds(u) ==
  \/ \E c \in calls[u] : CallServed(u, c) \/ CallEnds(u, c) \/ PauseOver(u, c)
  \/ \E r \in reads[u] : GapOver(u, r) \/ ReadServed(u, r) \/ ReadEnds(u, r)
  \/ TimerRings(u) \/ Resumes(u)

TicketsNext ==
  \E u \in Seeker :
    \/ Proceeds(u)
    \/ \E c \in calls[u] : CallRefused(u, c) \/ CallBreaks(u, c)
    \/ \E r \in reads[u] : ReadFails(u, r)
    \/ Expires(u) \/ CooldownEnds(u)
    \/ Looks(u) \/ Hides(u) \/ Submits(u) \/ Cancels(u)
    \/ \E kind \in {"accept", "decline"} : Replies(u, kind)

TicketsFairness ==
  \A u \in Seeker :
    /\ WF_ticketVars(\E r \in reads[u] : GapOver(u, r) \/ ReadServed(u, r) \/ ReadEnds(u, r))
    /\ WF_ticketVars(\E c \in calls[u] : CallServed(u, c) \/ CallEnds(u, c))
    /\ WF_ticketVars(TimerRings(u)) /\ WF_ticketVars(Resumes(u))

TicketsSpec == TicketsInit /\ [][TicketsNext]_ticketVars /\ TicketsFairness

----------------------------------------------------------------------------
(* Properties.                                                            *)

TicketsTypeOK ==
  \A u \in Seeker :
    /\ ticket[u].state \in {"none", "waiting", "proposed", "confirmed", "declined", "expired"}
    /\ \A r \in reads[u] : r.span \in 1..span[u]
    /\ lookup[u] \in {0, span[u]}
    /\ lookup[u] # 0 => \E r \in reads[u] : r.span = span[u]
    /\ clocked[u] => following[u] /\ inFront[u]

\* However a timer, status(), a conflict and the return to the foreground fall
\* together, a player reads its ticket once at a time (matchmaking.ts read).
OneLookup ==
  \A u \in Seeker : Cardinality({r \in reads[u] : r.span = span[u]}) <= 1

\* A cancel that succeeds, with no earlier request on its way, leaves no ticket
\* behind: no retry of a submit comes after it (matchmaking.ts cancel).
CancelLeavesNothing ==
  \A u \in Seeker : freed[u] => ticket[u] = NoTicket

\* Who was shown a ticket that is alive is shown what becomes of it, whatever
\* read fails and however often the app sleeps (matchmaking.ts wake, arm); unless
\* requests crossed: a read that its own call overtook may end the polling.
OutcomeIsShown ==
  []<>(\A u \in Seeker : Alive(shown[u]) /\ ~crossed[u] /\ ticket[u] # NoTicket =>
                            shown[u] = ticket[u])

\* A ticket is followed by one read at a time to its outcome, and a cancel ends it
\* (matchmaking.ts).
TicketPromise ==
  /\ [](TicketsTypeOK /\ OneLookup /\ CancelLeavesNothing)
  /\ OutcomeIsShown
=============================================================================
