----------------------------- MODULE Documents -----------------------------
(***************************************************************************)
(* One versioned document and the writers that edit it (repository/src/    *)
(* document), over each of the backends: the in-memory store, Redis,       *)
(* DynamoDB, S3, and a plain key-value repository whose callers take turns *)
(* (the actor lock makes them).                                            *)
(*                                                                         *)
(* An entry of the content is [key, value]: a list holds entries whose key *)
(* is the item, a map at most one entry of a key.  Half-second ticks, so   *)
(* that the whole seconds of DynamoDB's TTL round.                         *)
(***************************************************************************)
EXTENDS Naturals, Sequences, SequencesExt

CONSTANTS
  Writer,
  EditOf,           \* [Writer -> [do: {"insert", "deleteIf", "put", "truncate"},
                    \*             key, value]]
  Falsy,            \* a value `!value` holds of
  Absent,           \* no item, no token
  MaxRetries,
  MaxTicks,         \* bound of the clock
  DocumentSetups    \* [backend, ttl (ticks, 0: none), lost, resent]: answers to
                    \* writes lost for good, writes sent again by the AWS SDK

Backend == {"memory", "redis", "dynamodb", "s3", "plain"}

ASSUME DocumentsAssumption ==
  /\ {MaxRetries, MaxTicks} \subseteq Nat
  /\ DocumentSetups \subseteq [backend : Backend, ttl : Nat, lost : Nat, resent : Nat]
  /\ \A s \in DocumentSetups : s.backend = "redis" => s.ttl > 0

VARIABLES
  item,      \* what the backend stores: Absent, or [version, content, rev, until]
  ticks,     \* the clock
  seen,      \* seen[w]: the document and the token w has read
  stage,     \* stage[w]: idle, read, written, unheard, gaveUp
  losses,    \* losses[w]: its writes that were refused
  edits,     \* the writers whose edits made the document, since its last removal
  touched,   \* touched[w]: the document changed, or went, after w read it
  mishaps    \* the setup, with what is left of its faults

documentVars == <<item, ticks, seen, stage, losses, edits, touched, mishaps>>

----------------------------------------------------------------------------
(* The backends.                                                          *)

\* Whole seconds of ticks, rounded up.
Ceil2(n) == (n + 1) \div 2

\* Does the backend still show the item at time t?
Live(i, t) ==
  /\ i # Absent
  /\ \/ i.until = 0
     \/ CASE mishaps.backend = "memory" -> t <= i.until
          [] mishaps.backend = "dynamodb" -> Ceil2(i.until) >= t \div 2
          [] OTHER -> t < i.until

\* A revision of its own in DynamoDB; elsewhere a hash of what is stored.
TokenOf(i) ==
  IF mishaps.backend = "dynamodb" THEN i.rev ELSE <<i.version, i.content>>

Ensured(i, t) == IF Live(i, t) THEN [version |-> i.version, content |-> i.content]
                               ELSE [version |-> 0, content |-> <<>>]

GetRevision(t) == [doc |-> Ensured(item, t),
                   token |-> IF Live(item, t) THEN TokenOf(item) ELSE Absent]

\* Mutant: a document that was read is overwritten, whoever wrote it since.
AnyRevision(token) == token = Absent => ~Live(item, ticks)

\* The condition of compareAndSet: a script, a condition expression, a header.
Condition(token) ==
  CASE mishaps.backend = "plain" -> TRUE
    [] mishaps.backend = "dynamodb" ->
         IF token = Absent
         THEN item = Absent \/ (item # Absent /\ item.until > 0
                                  /\ Ceil2(item.until) < ticks \div 2)
         ELSE /\ item # Absent /\ item.rev = token
              /\ item.until = 0 \/ Ceil2(item.until) >= ticks \div 2
    [] OTHER -> GetRevision(ticks).token = token

\* The time an item lives to; S3 has none, a plain repository here neither.
Until == IF mishaps.ttl = 0 \/ mishaps.backend \in {"s3", "plain"} THEN 0
         ELSE ticks + mishaps.ttl

----------------------------------------------------------------------------
(* The edits.                                                             *)

Without(content, k) == SelectSeq(content, LAMBDA e : e.key # k)

\* The modifier of an edit: insertOrUpdate of a falsy value removes the key.
Modified(content, e) ==
  CASE e.do = "insert" -> Append(content, [key |-> e.key, value |-> e.value])
    [] e.do = "deleteIf" -> Without(content, e.key)
    [] OTHER -> IF e.value = Falsy THEN Without(content, e.key)
                ELSE Append(Without(content, e.key), [key |-> e.key, value |-> e.value])

\* editDocument reads.  On a plain repository nobody else is at it.
Reads(w) ==
  /\ stage[w] = "idle" /\ EditOf[w].do # "truncate"
  /\ mishaps.backend = "plain" => \A v \in Writer : stage[v] # "read"
  /\ seen' = [seen EXCEPT ![w] = GetRevision(ticks)]
  /\ stage' = [stage EXCEPT ![w] = "read"]
  /\ touched' = [touched EXCEPT ![w] = FALSE]
  /\ UNCHANGED <<item, ticks, losses, edits, mishaps>>

Store(w) ==
  /\ item' = [version |-> seen[w].doc.version + 1,
              content |-> Modified(seen[w].doc.content, EditOf[w]),
              rev |-> <<w, losses[w]>>,
              until |-> Until]
  /\ edits' = IF Live(item, ticks) THEN Append(edits, w) ELSE <<w>>
  /\ touched' = [v \in Writer |-> TRUE]

\* compareAndSet is true.
Writes(w) ==
  /\ stage[w] = "read" /\ Condition(seen[w].token)
  /\ Store(w)
  /\ stage' = [stage EXCEPT ![w] = "written"]
  /\ UNCHANGED <<ticks, seen, losses, mishaps>>

\* The write happened and its answer is lost: the edit throws.
WritesUnheard(w) ==
  /\ stage[w] = "read" /\ Condition(seen[w].token)
  /\ mishaps.lost > 0 /\ mishaps' = [mishaps EXCEPT !.lost = @ - 1]
  /\ Store(w)
  /\ stage' = [stage EXCEPT ![w] = "unheard"]
  /\ UNCHANGED <<ticks, seen, losses>>

\* The SDK sends such a write again, to its own condition; so the writer is
\* told it lost, and still has its attempts to make.
WritesAndIsSentAgain(w) ==
  /\ stage[w] = "read" /\ Condition(seen[w].token)
  /\ mishaps.backend \in {"dynamodb", "s3"}
  /\ mishaps.resent > 0 /\ mishaps' = [mishaps EXCEPT !.resent = @ - 1]
  /\ Store(w)
  /\ UNCHANGED <<ticks, seen, stage, losses>>

\* compareAndSet is false: from a fresh read, or give up.
Refused(w) ==
  /\ stage[w] = "read" /\ ~Condition(seen[w].token)
  /\ losses' = [losses EXCEPT ![w] = @ + 1]
  /\ stage' = [stage EXCEPT ![w] = IF losses[w] >= MaxRetries THEN "gaveUp" ELSE "idle"]
  /\ UNCHANGED <<item, ticks, seen, edits, touched, mishaps>>

\* truncate deletes the key, whatever it holds.
Truncates(w) ==
  /\ stage[w] = "idle" /\ EditOf[w].do = "truncate"
  /\ mishaps.backend = "plain" => \A v \in Writer : stage[v] # "read"
  /\ item' = Absent /\ edits' = <<>>
  /\ touched' = [v \in Writer |-> TRUE]
  /\ stage' = [stage EXCEPT ![w] = "written"]
  /\ UNCHANGED <<ticks, seen, losses, mishaps>>

----------------------------------------------------------------------------
(* Time.                                                                  *)

Ticks ==
  /\ ticks < MaxTicks /\ mishaps.ttl > 0
  /\ ticks' = ticks + 1
  /\ touched' = IF Live(item, ticks) = Live(item, ticks + 1) THEN touched
                ELSE [v \in Writer |-> TRUE]
  /\ UNCHANGED <<item, seen, stage, losses, edits, mishaps>>

\* An expired item is swept: at once by Redis, some day by DynamoDB.
Sweeps ==
  /\ item # Absent /\ ~Live(item, ticks)
  /\ item' = Absent
  /\ UNCHANGED <<ticks, seen, stage, losses, edits, touched, mishaps>>

----------------------------------------------------------------------------

DocumentsInit ==
  /\ mishaps \in DocumentSetups
  /\ item = Absent /\ ticks = 0 /\ edits = <<>>
  /\ seen = [w \in Writer |-> [doc |-> [version |-> 0, content |-> <<>>], token |-> Absent]]
  /\ stage = [w \in Writer |-> "idle"]
  /\ losses = [w \in Writer |-> 0]
  /\ touched = [w \in Writer |-> FALSE]

DocumentsNext ==
  \/ \E w \in Writer : \/ Reads(w) \/ Writes(w) \/ WritesUnheard(w)
                       \/ WritesAndIsSentAgain(w) \/ Refused(w) \/ Truncates(w)
  \/ Ticks \/ Sweeps

DocumentsSpec == DocumentsInit /\ [][DocumentsNext]_documentVars

----------------------------------------------------------------------------
(* Properties.                                                            *)

DocumentsTypeOK ==
  /\ ticks \in 0..MaxTicks
  /\ stage \in [Writer -> {"idle", "read", "written", "unheard", "gaveUp"}]
  /\ losses \in [Writer -> 0..(MaxRetries + 1)]
  /\ item # Absent =>
       /\ item.version \in Nat \ {0} /\ item.until \in Nat
       /\ \A n \in DOMAIN item.content :
            item.content[n].key \in {EditOf[w].key : w \in Writer}
  /\ \A w \in Writer : stage[w] = "gaveUp" <=> losses[w] = MaxRetries + 1

\* The document is what its edits make of nothing, in the order they were
\* written, with as many versions: no edit is lost to another, none is made
\* on a document that is gone (write.ts editDocument, every compareAndSet).
ContentIsItsEdits ==
  Live(item, ticks) =>
    /\ item.version = Len(edits)
    /\ item.content = FoldLeft(LAMBDA c, w : Modified(c, EditOf[w]), <<>>, edits)

\* An edit is made once; but for a write the SDK sent again, which the retry
\* of editDocument makes again.
EditedOnce ==
  (\A s \in DocumentSetups : s.backend = mishaps.backend => s.resent = 0) =>
     \A m, n \in DOMAIN edits : edits[m] = edits[n] => m = n

\* A document lives as long as it was given, whatever the backend rounds.
LivesItsTime == item # Absent /\ ticks < item.until => Live(item, ticks)

\* A writer loses a race only if there was one: what it read was edited,
\* removed or expired in between.
RefusedOnlyByOthers ==
  [][\A w \in Writer : losses'[w] > losses[w] => touched[w]]_documentVars

\* No edit of a document is lost, doubled or refused without a cause, nor is the document
\* lost before its time (repository/src/document, the adapters).
DocumentPromise ==
  /\ [](DocumentsTypeOK /\ ContentIsItsEdits /\ EditedOnce /\ LivesItsTime)
  /\ RefusedOnlyByOthers
=============================================================================
