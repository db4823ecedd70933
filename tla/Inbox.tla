-------------------------------- MODULE Inbox --------------------------------
(***************************************************************************)
(* The inbox of game-kit: letters that several devices of a player claim   *)
(* (packages/game-kit/src/mail.ts), and the two polls that tell what has   *)
(* arrived, that of the letters and that of the friend requests            *)
(* (friends.ts).                                                           *)
(*                                                                         *)
(* An item is a letter or a request.  A letter's number is the order of    *)
(* its key; the listing goes from the last key to the first.  Generations  *)
(* of a device belong to its two players in turn.                          *)
(***************************************************************************)
EXTENDS Naturals, Sequences, FiniteSets, SequencesExt, FiniteSetsExt

CONSTANTS
  Device,
  RecipientOf,    \* [1..n -> {0, 1}]: whose each item is
  MaxAt,          \* bound of the server's clock
  InboxSetups     \* [feed: {"mail", "requests"}, listeners: the devices that poll,
                  \*  page: letters of a page, posts,
                  \*  claims, switches, naps: changes of foreground, lost: answers
                  \*  to claims that are lost, cut: FALSE, until a handler's nap
                  \*  keeps arrivals from being emitted]

Item == DOMAIN RecipientOf

ASSUME InboxAssumption ==
  /\ RecipientOf \in Seq({0, 1}) /\ MaxAt \in Nat
  /\ \A s \in InboxSetups : /\ s.feed \in {"mail", "requests"} /\ s.page > 0
                           /\ s.listeners \subseteq Device

VARIABLES
  box,          \* [Item -> [version, at, there]]: versions outlive the item
  serverTime,
  era,          \* era[d]: the generation of the device
  awake,        \* awake[d]: foreground
  polls,        \* polls[d]: refreshes under way: [era, below, got, all]
  known,        \* known[d]: `seen`
  watermark,
  told,         \* told[d]: the items emitted in this generation
  claim,        \* claim[d]: the claim under way: [step, item, version, era]
  won,          \* won[d]: the versions whose claim returned them
  mail          \* the setup, with what is left of its bounds

inboxVars == <<box, serverTime, era, awake, polls, known, watermark, told, claim,
               won, mail>>

UserOf(e) == e % 2

Own(d) == {i \in Item : RecipientOf[i] = UserOf(era[d])}

NoClaim == [step |-> "none", item |-> 0, version |-> 0, era |-> 0]

Less(bound) == mail[bound] > 0 /\ mail' = [mail EXCEPT ![bound] = @ - 1]

----------------------------------------------------------------------------
(* The service.                                                           *)

ServerTicks ==
  /\ serverTime < MaxAt /\ serverTime' = serverTime + 1
  /\ UNCHANGED <<box, era, awake, polls, known, watermark, told, claim, won, mail>>

\* Somebody sends: a letter under a new key, the platform under any key.
Posted(i) ==
  /\ Less("posts")
  /\ box' = [box EXCEPT ![i] = [version |-> @.version + 1, at |-> serverTime,
                                there |-> TRUE]]
  /\ UNCHANGED <<serverTime, era, awake, polls, known, watermark, told, claim, won>>

Gone(i) == [box EXCEPT ![i].there = FALSE]

\* DELETE with if-match, a missing row being an error.
Deletes(i, v) == box[i].there /\ box[i].version = v

----------------------------------------------------------------------------
(* Claims.                                                                *)

ClaimReads(d, i) ==
  /\ mail.feed = "mail" /\ Less("claims")
  /\ claim[d] = NoClaim /\ i \in Own(d) /\ box[i].there
  /\ claim' = [claim EXCEPT ![d] = [step |-> "read", item |-> i,
                                    version |-> box[i].version, era |-> era[d]]]
  /\ UNCHANGED <<box, serverTime, era, awake, polls, known, watermark, told, won>>

\* The conditional delete; signed out, the claim goes no further.
ClaimDeletes(d) ==
  /\ claim[d].step = "read"
  /\ IF claim[d].era = era[d] /\ Deletes(claim[d].item, claim[d].version)
     THEN /\ box' = Gone(claim[d].item)
          /\ claim' = [claim EXCEPT ![d].step = "deleted"]
     ELSE /\ claim' = [claim EXCEPT ![d] = NoClaim]
          /\ UNCHANGED box
  /\ UNCHANGED <<serverTime, era, awake, polls, known, watermark, told, won, mail>>

\* The letter is returned, unless the session is another one by now.
ClaimReturns(d) ==
  /\ claim[d].step = "deleted"
  /\ claim' = [claim EXCEPT ![d] = NoClaim]
  /\ won' = IF claim[d].era # era[d] THEN won
            ELSE [won EXCEPT ![d] = @ \cup {<<claim[d].item, claim[d].version>>}]
  /\ UNCHANGED <<box, serverTime, era, awake, polls, known, watermark, told, mail>>

\* The answer to the delete is lost: the letter is gone and nobody has it.
ClaimIsLost(d) ==
  /\ claim[d].step = "deleted" /\ Less("lost")
  /\ claim' = [claim EXCEPT ![d] = NoClaim]
  /\ UNCHANGED <<box, serverTime, era, awake, polls, known, watermark, told, won>>

\* remove(), or a friend request that is accepted, declined or withdrawn.
Removed(i) ==
  /\ box[i].there /\ Less("claims")
  /\ box' = Gone(i)
  /\ UNCHANGED <<serverTime, era, awake, polls, known, watermark, told, claim, won>>

----------------------------------------------------------------------------
(* The polls.                                                             *)

Polling(e) == [era |-> e, below |-> Len(RecipientOf) + 1, got |-> {}, all |-> FALSE]

\* on() of either feed: there are listeners, and it is in the foreground.
Listens(d) == d \in mail.listeners /\ awake[d]

\* The poller's timer, or its wake: one refresh of a generation at a time.
Wakes(d) ==
  /\ Listens(d)
  /\ \A p \in polls[d] : p.era # era[d]
  /\ polls' = [polls EXCEPT ![d] = @ \cup {Polling(era[d])}]
  /\ UNCHANGED <<box, serverTime, era, awake, known, watermark, told, claim, won, mail>>

Below(p) == {i \in Item : /\ RecipientOf[i] = UserOf(p.era)
                          /\ box[i].there /\ i < p.below}

\* The next page of the listing; the requests are one answer.
Listed(p) ==
  LET rest == Below(p)
      page == {i \in rest : \/ mail.feed = "requests"
                            \/ Cardinality({j \in rest : j > i}) < mail.page}
  IN  [p EXCEPT !.got = @ \cup {[item |-> i, at |-> box[i].at] : i \in page},
                !.below = IF page = {} THEN 0 ELSE Min(page),
                !.all = page = rest]

\* list() goes from page to page while the session is the same.
Pages(d, p) ==
  /\ p \in polls[d] /\ ~p.all
  /\ polls' = [polls EXCEPT ![d] =
                 (@ \ {p}) \cup (IF p.era = era[d] THEN {Listed(p)} ELSE {})]
  /\ UNCHANGED <<box, serverTime, era, awake, known, watermark, told, claim, won, mail>>

\* Who has asked and had not when the requests were last listed (friends.ts).
NewRequests(d, got) == {g \in got : g.item \notin known[d]}

Arrivals(d, got) ==
  IF mail.feed = "requests" THEN NewRequests(d, got)
  ELSE {g \in got : g.at >= watermark[d] /\ g.item \notin known[d]}

\* The letters from the newest; the requests as they are.
InOrder(arrived) ==
  SetToSortSeq(arrived, LAMBDA g, h : g.at > h.at \/ (g.at = h.at /\ g.item > h.item))

\* What is known is noted, then the arrivals are emitted.  After any of them a
\* handler may put the app in the background or change its user: no more are.
Emits(d, p, then) ==
  LET arrived == InOrder(Arrivals(d, p.got))
      items == {g.item : g \in p.got}
  IN  /\ known' = [known EXCEPT ![d] = IF then = "switch" THEN {}
                                       ELSE IF mail.feed = "mail" THEN @ \cup items
                                       ELSE items]
      /\ watermark' = [watermark EXCEPT ![d] =
                         IF then = "switch" \/ mail.feed = "requests" THEN 0
                         ELSE Max({@} \cup {g.at : g \in p.got})]
      /\ CASE then = "none" ->
                /\ told' = [told EXCEPT ![d] = @ \o [k \in 1..Len(arrived) |-> arrived[k].item]]
                /\ UNCHANGED <<era, awake, mail>>
           [] then = "nap" ->
                /\ mail.naps > 0
                /\ \E n \in 1..Len(arrived) :
                     /\ told' = [told EXCEPT ![d] = @ \o [k \in 1..n |-> arrived[k].item]]
                     /\ mail' = [mail EXCEPT !.naps = @ - 1,
                                            !.cut = @ \/ n < Len(arrived)]
                /\ awake' = [awake EXCEPT ![d] = FALSE]
                /\ UNCHANGED era
           [] OTHER ->
                /\ Less("switches") /\ arrived # <<>>
                /\ told' = [told EXCEPT ![d] = <<>>]
                /\ era' = [era EXCEPT ![d] = @ + 1]
                /\ UNCHANGED awake

\* Mutant: the pages of the former session are published in this one.
PublishesAnyhow(d, p) ==
  /\ p \in polls[d] /\ p.all
  /\ polls' = [polls EXCEPT ![d] = @ \ {p}]
  /\ IF ~awake[d]
     THEN UNCHANGED <<era, awake, known, watermark, told, mail>>
     ELSE \E then \in {"none", "nap", "switch"} : Emits(d, p, then)
  /\ UNCHANGED <<box, serverTime, claim, won>>

\* A complete listing of this session, in the foreground, is published.
Publishes(d, p) ==
  /\ p \in polls[d] /\ p.all
  /\ polls' = [polls EXCEPT ![d] = @ \ {p}]
  /\ IF p.era # era[d] \/ ~awake[d]
     THEN UNCHANGED <<era, awake, known, watermark, told, mail>>
     ELSE \E then \in {"none", "nap", "switch"} : Emits(d, p, then)
  /\ UNCHANGED <<box, serverTime, claim, won>>

\* The app goes to the background, or comes back.
Naps(d) ==
  /\ awake[d] => Less("naps")
  /\ ~awake[d] => UNCHANGED mail
  /\ awake' = [awake EXCEPT ![d] = ~@]
  /\ UNCHANGED <<box, serverTime, era, polls, known, watermark, told, claim, won>>

\* Another player signs in on the device.
Switches(d) ==
  /\ Less("switches")
  /\ era' = [era EXCEPT ![d] = @ + 1]
  /\ known' = [known EXCEPT ![d] = {}] /\ watermark' = [watermark EXCEPT ![d] = 0]
  /\ told' = [told EXCEPT ![d] = <<>>]
  /\ UNCHANGED <<box, serverTime, awake, polls, claim, won>>

----------------------------------------------------------------------------

InboxInit ==
  /\ mail \in InboxSetups
  /\ box = [i \in Item |-> [version |-> 0, at |-> 0, there |-> FALSE]]
  /\ serverTime = 1
  /\ era = [d \in Device |-> 0] /\ awake = [d \in Device |-> TRUE]
  /\ polls = [d \in Device |-> {}] /\ known = [d \in Device |-> {}]
  /\ watermark = [d \in Device |-> 0] /\ told = [d \in Device |-> <<>>]
  /\ claim = [d \in Device |-> NoClaim] /\ won = [d \in Device |-> {}]

Refreshes(d) == Wakes(d) \/ \E p \in polls[d] : Pages(d, p) \/ Publishes(d, p)

InboxNext ==
  \/ ServerTicks
  \/ \E i \in Item : Posted(i) \/ Removed(i)
  \/ \E d \in Device :
       \/ \E i \in Item : ClaimReads(d, i)
       \/ ClaimDeletes(d) \/ ClaimReturns(d) \/ ClaimIsLost(d)
       \/ Refreshes(d) \/ Naps(d) \/ Switches(d)

\* Timers fire, requests are answered, and the app comes to the foreground
\* again.
InboxFairness ==
  \A d \in Device : WF_inboxVars(Refreshes(d)) /\ WF_inboxVars(~awake[d] /\ Naps(d))

InboxSpec == InboxInit /\ [][InboxNext]_inboxVars /\ InboxFairness

----------------------------------------------------------------------------
(* Properties.                                                            *)

InboxTypeOK ==
  /\ serverTime \in 1..MaxAt
  /\ \A d \in Device :
       /\ {p.era : p \in polls[d]} \subseteq 0..era[d]
       /\ \A p, r \in polls[d] : p.era = r.era => p = r
       /\ claim[d].step \in {"none", "read", "deleted"}
       /\ known[d] \subseteq Item /\ watermark[d] \in 0..MaxAt

\* Of those who claim a version of a letter one gets it, and it is then in the
\* box no more (mail.ts claim).
ClaimedOnce ==
  /\ \A d, e \in Device : d # e => won[d] \cap won[e] = {}
  /\ \A d \in Device : \A w \in won[d] :
       ~(box[w[1]].there /\ box[w[1]].version = w[2])

\* An arrival is emitted once in a session; a request once for each time it
\* was made (mail.ts and friends.ts, the refresh of the poller).
ToldOnce ==
  \A d \in Device, i \in Item :
    Cardinality({k \in DOMAIN told[d] : told[d][k] = i}) <=
      IF mail.feed = "mail" THEN 1 ELSE box[i].version

\* Nobody hears of the items of who was signed in before.
ToldIsOwn == \A d \in Device : Range(told[d]) \subseteq Own(d)

\* What is in the box while its player is signed in is told, where the listing
\* is one page and no handler cuts its emission short.
ArrivalsAreTold ==
  []<>(mail.page >= Len(RecipientOf) /\ ~mail.cut =>
         \A d \in mail.listeners, i \in Item :
           box[i].there /\ i \in Own(d) => i \in Range(told[d]))

\* What arrives is told, once, to whose it is, and claimed once (mail.ts, friends.ts).
InboxPromise ==
  /\ [](InboxTypeOK /\ ClaimedOnce /\ ToldOnce /\ ToldIsOwn)
  /\ ArrivalsAreTold
=============================================================================
