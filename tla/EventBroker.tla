----------------------------- MODULE EventBroker -----------------------------
(***************************************************************************)
(* One event of the broker of packages/event-broker: its registrations,    *)
(* and the fires that overlap while they await handlers.                   *)
(*                                                                         *)
(* A registration is [id, handler, once]; one handler may be registered    *)
(* several times. What a handler does to the broker while it is awaited is *)
(* a call like any other.                                                  *)
(***************************************************************************)
EXTENDS Naturals, Sequences, FiniteSets

CONSTANTS Handler,
          BrokerSetups   \* [adds, offs, fires, throws]

ASSUME BrokerAssumption ==
  \A s \in BrokerSetups : {s.adds, s.offs, s.fires, s.throws} \subseteq Nat

VARIABLES
  listening,    \* the registrations, in order
  made,         \* how many registrations there were
  firings,      \* of each fire: its snapshot, how many of it were called, its state and the
                \* registrations there were when it began (history)
  soFar,        \* the calls, in order: [fire, id] (history)
  programme     \* the setup, with what is left of it

brokerVars == <<listening, made, firings, soFar, programme>>

Performs(what) == programme[what] > 0 /\ programme' = [programme EXCEPT ![what] = @ - 1]

LeavesOut(list, i) == SubSeq(list, 1, i - 1) \o SubSeq(list, i + 1, Len(list))
FirstOf(places) == CHOOSE i \in places : \A j \in places : i <= j
DropsFirst(list, places) ==
  IF places = {} THEN list ELSE LeavesOut(list, FirstOf(places))

----------------------------------------------------------------------------

Registered(list, r) == Append(list, r)

\* on, once
Adds(h, once) ==
  /\ Performs("adds")
  /\ made' = made + 1
  /\ listening' = Registered(listening, [id |-> made + 1, handler |-> h, once |-> once])
  /\ UNCHANGED <<firings, soFar>>

\* off: the first registration of the handler goes.
Off(h) ==
  /\ Performs("offs")
  /\ listening' = DropsFirst(listening, {i \in DOMAIN listening : listening[i].handler = h})
  /\ UNCHANGED <<made, firings, soFar>>

Snapshot(f) == f.list

\* What a fire finds next; 0 when it has come to the end.
NextOf(f) == IF f.called < Len(Snapshot(f)) THEN f.called + 1 ELSE 0

\* Mutant: a once handler is removed when it has returned.
AfterItsCall(r, list) == list

\* It is removed before it is called.
BeforeItsCall(r, list) ==
  IF r.once THEN DropsFirst(list, {i \in DOMAIN list : list[i].id = r.id}) ELSE list

\* Up to the next await: the next handler is called, or the fire resolves.
Calls(n, f) ==
  IF NextOf(f) = 0
  THEN /\ firings' = [x \in DOMAIN firings \cup {n} |->
                        IF x = n THEN [f EXCEPT !.state = "resolved"] ELSE firings[x]]
       /\ UNCHANGED <<listening, soFar>>
  ELSE LET r == Snapshot(f)[NextOf(f)]
       IN /\ listening' = BeforeItsCall(r, listening)
          /\ soFar' = Append(soFar, [fire |-> n, id |-> r.id, handler |-> r.handler])
          /\ firings' = [x \in DOMAIN firings \cup {n} |->
                           IF x = n THEN [f EXCEPT !.called = @ + 1] ELSE firings[x]]

\* fire: nobody listens, or the first handler is called.
Fires ==
  /\ Performs("fires")
  /\ LET f == [list |-> listening, called |-> 0, state |-> "awaits", since |-> Len(soFar)]
     IN IF listening = <<>>
        THEN /\ firings' = Append(firings, [f EXCEPT !.state = "nobody"])
             /\ UNCHANGED <<listening, soFar>>
        ELSE Calls(Len(firings) + 1, f)
  /\ UNCHANGED made

Returned(n) ==
  /\ firings[n].state = "awaits"
  /\ Calls(n, firings[n])
  /\ UNCHANGED <<made, programme>>

\* A handler throws or rejects, and so does the fire.
Throws(n) ==
  /\ firings[n].state = "awaits" /\ Performs("throws")
  /\ firings' = [firings EXCEPT ![n].state = "rejected"]
  /\ UNCHANGED <<listening, made, soFar>>

BrokerInit ==
  /\ programme \in BrokerSetups
  /\ listening = <<>> /\ made = 0 /\ firings = <<>> /\ soFar = <<>>

BrokerNext ==
  \/ \E h \in Handler : Off(h) \/ \E once \in BOOLEAN : Adds(h, once)
  \/ Fires
  \/ \E n \in DOMAIN firings : Returned(n) \/ Throws(n)

BrokerSpec == BrokerInit /\ [][BrokerNext]_brokerVars

----------------------------------------------------------------------------
(* Properties *)

\* The calls of one fire, and the how-manieth of its fire a call is.
CallsOf(n) == {c \in DOMAIN soFar : soFar[c].fire = n}
PlaceOf(c) == Cardinality({b \in CallsOf(soFar[c].fire) : b <= c})

\* Registrations stand in the order they were made.
BrokerTypeOK ==
  /\ \A i, j \in DOMAIN listening : i < j => listening[i].id < listening[j].id
  /\ \A i \in DOMAIN listening : listening[i].id \in 1..made
                              /\ listening[i].handler \in Handler
  /\ \A n \in DOMAIN firings :
       /\ firings[n].state \in {"nobody", "awaits", "resolved", "rejected"}
       /\ firings[n].called <= Len(firings[n].list)

\* A fire calls whoever listened when it began, in that order, and everyone unless a handler
\* throws: what is added or removed meanwhile counts from the next one
\* (event-broker.ts:16-20).
SnapshotIsServed ==
  \A n \in DOMAIN firings :
    LET asked == firings[n].list
    IN /\ \A c \in CallsOf(n) : /\ PlaceOf(c) \in DOMAIN asked
                               /\ soFar[c].id = asked[PlaceOf(c)].id
                               /\ soFar[c].handler = asked[PlaceOf(c)].handler
       /\ firings[n].state = "resolved" => Cardinality(CallsOf(n)) = Len(asked)

\* A `once` handler is called a second time only by a fire that had begun before its first
\* call (event-broker.ts:82-88).
OnceUnlessOverlapping ==
  \A n \in DOMAIN firings : \A i \in DOMAIN firings[n].list :
    LET r == firings[n].list[i]
    IN r.once => \A c \in 1..firings[n].since : soFar[c].id # r.id

\* A fire calls who listened when it began, and a `once` handler once (event-broker.ts).
BrokerInvariant == BrokerTypeOK /\ SnapshotIsServed /\ OnceUnlessOverlapping
=============================================================================
