------------------------------- MODULE Content -------------------------------
(***************************************************************************)
(* The content reader of game-kit (packages/game-kit/src/content.ts): a    *)
(* cache of one entry, refreshed in the background by one request at a     *)
(* time, polled while somebody subscribes to it.                           *)
(***************************************************************************)
EXTENDS Naturals, FiniteSets

CONSTANT ContentSetups   \* [edits, gets, subscribes, sessions, toggles, faults]

ASSUME ContentAssumption ==
  \A s \in ContentSetups : {s.edits, s.gets, s.subscribes, s.sessions, s.toggles,
                            s.faults} \subseteq Nat

VARIABLES
  edition,      \* the version the service has, 0 before there is one
  season,       \* the generation
  signedIn, visible,
  page,         \* the cached version and the session it was read in
  requests,     \* [season, step, version, rearms, again]: refreshes under way
  pendingOf,    \* the session of the request in `pending`, or 0
  ringing,      \* the timer is set
  subscriber,   \* somebody subscribes
  heard,        \* the versions the subscriber was told in this session, its last
                \* one and whether they grew: [last, season, grew]
  stock         \* the setup, with what is left of it

contentVars == <<edition, season, signedIn, visible, page, requests, pendingOf,
                 ringing, subscriber, heard, stock>>

Blank == [version |-> 0, season |-> 0]
Unheard_ == [last |-> 0, season |-> 0, grew |-> TRUE]

Draws(what) == stock[what] > 0 /\ stock' = [stock EXCEPT ![what] = @ - 1]

----------------------------------------------------------------------------

\* arm()
Rings(shows, signed, wanted) == shows /\ signed /\ wanted

Joins_(e, known) == known = e

\* refresh() in session e, from `flights` with `known` pending: another request,
\* unless one is pending; the timer's is to set it again, and one that the
\* foreground waits for is repeated.
Refresh(flights, e, known, rearms, again) ==
  IF Joins_(e, known)
  THEN /\ requests' = {IF r.season = e
                       THEN [r EXCEPT !.rearms = @ \/ rearms, !.again = @ \/ again]
                       ELSE r : r \in flights}
       /\ pendingOf' = known
  ELSE /\ requests' = flights \cup {[season |-> e, step |-> "asked", version |-> 0,
                                     rearms |-> rearms, again |-> FALSE]}
       /\ pendingOf' = e

Keep(flights, known) == requests' = flights /\ pendingOf' = known

Hears_(v) ==
  heard' = IF ~subscriber THEN heard
           ELSE [last |-> v, season |-> season,
                 grew |-> heard.grew /\ (heard.season = season => heard.last < v)]

Edited ==
  /\ Draws("edits") /\ edition' = edition + 1
  /\ UNCHANGED <<season, signedIn, visible, page, requests, pendingOf, ringing,
                 subscriber, heard>>

RequestServed(r) ==
  /\ r \in requests /\ r.step = "asked"
  /\ requests' = (requests \ {r}) \cup {[r EXCEPT !.step = "answered", !.version = edition]}
  /\ UNCHANGED <<edition, season, signedIn, visible, page, pendingOf, ringing,
                 subscriber, heard, stock>>

\* Mutant: an answer of the former session is taken.
AnySession(r) == TRUE

OfThisSession(r) == r.season = season

Rearms(r, ok) == r.rearms /\ Rings(visible, signedIn, subscriber)

\* The answer, or the failure: it leaves the cache, tells what is new, and sets
\* the timer or is repeated for those who waited for it.
RequestEnds(r, ok) ==
  /\ r \in requests
  /\ IF ok THEN r.step = "answered" /\ UNCHANGED stock ELSE Draws("faults")
  /\ LET taken == ok /\ OfThisSession(r)
         known == IF r.season = pendingOf THEN 0 ELSE pendingOf
     IN  /\ page' = IF taken THEN [version |-> r.version, season |-> r.season] ELSE page
         /\ IF taken /\ (page = Blank \/ page.version # r.version)
            THEN Hears_(r.version) ELSE UNCHANGED heard
         /\ ringing' = (ringing \/ Rearms(r, ok))
         /\ IF r.again /\ visible /\ signedIn
            THEN Refresh(requests \ {r}, season, known, FALSE, FALSE)
            ELSE Keep(requests \ {r}, known)
  /\ UNCHANGED <<edition, season, signedIn, visible, subscriber>>

TimerRefreshes ==
  /\ ringing
  /\ ringing' = FALSE
  /\ Refresh(requests, season, pendingOf, TRUE, FALSE)
  /\ UNCHANGED <<edition, season, signedIn, visible, page, subscriber, heard, stock>>

----------------------------------------------------------------------------

\* get(): what is cached, with a refresh behind it.
Gets ==
  /\ signedIn /\ Draws("gets")
  /\ Refresh(requests, season, pendingOf, FALSE, FALSE)
  /\ UNCHANGED <<edition, season, signedIn, visible, page, ringing, subscriber, heard>>

Subscribes_ ==
  /\ ~subscriber /\ Draws("subscribes")
  /\ subscriber' = TRUE
  /\ heard' = IF page = Blank THEN Unheard_
              ELSE [last |-> page.version, season |-> season, grew |-> TRUE]
  /\ IF signedIn THEN Refresh(requests, season, pendingOf, FALSE, FALSE)
     ELSE Keep(requests, pendingOf)
  /\ ringing' = Rings(visible, signedIn, TRUE)
  /\ UNCHANGED <<edition, season, signedIn, visible, page>>

Unsubscribes_ ==
  /\ subscriber
  /\ subscriber' = FALSE /\ ringing' = FALSE /\ heard' = Unheard_
  /\ UNCHANGED <<edition, season, signedIn, visible, page, requests, pendingOf, stock>>

\* The "stop" and "change" events: nothing read so far is kept.
Leaves ==
  /\ signedIn /\ Draws("sessions")
  /\ signedIn' = FALSE /\ season' = season + 1
  /\ page' = Blank /\ ringing' = FALSE /\ Keep(requests, 0)
  /\ UNCHANGED <<edition, visible, subscriber, heard>>

Enters ==
  /\ Draws("sessions")
  /\ signedIn' = TRUE /\ season' = season + 1 /\ page' = Blank
  /\ ringing' = Rings(visible, TRUE, subscriber)
  /\ IF subscriber THEN Refresh(requests, season + 1, 0, FALSE, FALSE)
     ELSE Keep(requests, 0)
  /\ UNCHANGED <<edition, visible, subscriber, heard>>

\* To the background; back, what is pending is waited for and repeated.
Covers ==
  /\ visible /\ Draws("toggles")
  /\ visible' = FALSE /\ ringing' = FALSE
  /\ UNCHANGED <<edition, season, signedIn, page, requests, pendingOf, subscriber, heard>>

Uncovers ==
  /\ ~visible
  /\ visible' = TRUE
  /\ IF subscriber /\ (signedIn \/ pendingOf # 0)
     THEN Refresh(requests, season, pendingOf, FALSE, TRUE)
     ELSE Keep(requests, pendingOf)
  /\ ringing' = Rings(TRUE, signedIn, subscriber)
  /\ UNCHANGED <<edition, season, signedIn, page, subscriber, heard, stock>>

----------------------------------------------------------------------------

ContentInit ==
  /\ stock \in ContentSetups
  /\ edition = 0 /\ season = 1 /\ signedIn = FALSE /\ visible = TRUE
  /\ page = Blank /\ requests = {} /\ pendingOf = 0 /\ ringing = FALSE
  /\ subscriber = FALSE /\ heard = Unheard_

RequestMoves == \E r \in requests : RequestServed(r) \/ RequestEnds(r, TRUE)

ContentNext ==
  \/ Edited \/ RequestMoves \/ \E r \in requests : RequestEnds(r, FALSE)
  \/ TimerRefreshes \/ Gets \/ Subscribes_ \/ Unsubscribes_ \/ Leaves \/ Enters
  \/ Covers \/ Uncovers

ContentFairness ==
  WF_contentVars(RequestMoves) /\ WF_contentVars(TimerRefreshes)

ContentSpec == ContentInit /\ [][ContentNext]_contentVars /\ ContentFairness

----------------------------------------------------------------------------
(* Properties.                                                            *)

\* Types; and one request of a session at a time (content.ts refresh).
ContentTypeOK ==
  /\ page.version \in 0..edition /\ page.season \in 0..season
  /\ pendingOf \in {0, season}
  /\ \A r, q \in requests : r.season = q.season => r = q
  /\ pendingOf # 0 => \E r \in requests : r.season = pendingOf
  /\ ringing => subscriber /\ signedIn /\ visible

\* The cache is of the session that is.
CacheIsOwn == page # Blank => page.season = season

\* A subscriber is never told, in a session, what it was told, nor an older
\* version after a newer one, and its last is the cached one.
ToldInOrder == heard.grew /\ (page # Blank /\ subscriber => heard.last = page.version)

\* A subscriber in the foreground of a session hears of every last edition,
\* whatever request fails.
SubscriberCatchesUp ==
  []<>( \/ ~subscriber \/ ~signedIn \/ ~visible
        \/ page # Blank /\ heard.season = season /\ heard.last = edition )

\* Who subscribes to content hears of each last edition, in order, of its own session
\* (content.ts).
ContentPromise ==
  /\ [](ContentTypeOK /\ CacheIsOwn /\ ToldInOrder)
  /\ SubscriberCatchesUp
=============================================================================
