---------------------------- MODULE AssetBundle ----------------------------
(***************************************************************************)
(* Reading one file of an asset bundle (asset-client/src/client.ts) while  *)
(* the file is being replaced on the CDN: whole reads, ranges, downloads   *)
(* that are interrupted and resumed, of plain and of encrypted bundles,    *)
(* in and out of a browser (`corsSafe`).                                   *)
(*                                                                         *)
(* A version of the object is its number; its plaintext is a sequence of   *)
(* units <<version, position>>.  A segment holds LaterPlain units, the     *)
(* first one FirstPlain.  A segment verifies only under the key that the   *)
(* header of its own version derives (crypto.ts).                          *)
(***************************************************************************)
EXTENDS Naturals, Sequences, SequencesExt

CONSTANTS
  Length,           \* [1..n -> Nat]: the plaintext length of each version
  FirstPlain, LaterPlain,
  MaxRestarts,
  NoTag,
  AssetSetups       \* [call: {"download", "range", "read"}, encrypted, corsSafe,
                    \*  etag: {"strong", "weak", "none", "once": of the
                    \*  first version only}, ranges, ifRange (does the host honour
                    \*  them?), from, to, calls, fails]

ASSUME AssetAssumption ==
  /\ {FirstPlain, LaterPlain} \subseteq Nat \ {0} /\ MaxRestarts \in Nat
  /\ Length \in Seq(Nat) /\ Length # <<>> /\ NoTag \notin Nat
  /\ AssetSetups \subseteq
       [call : {"download", "range", "read"},
        encrypted : BOOLEAN, corsSafe : BOOLEAN, ranges : BOOLEAN, ifRange : BOOLEAN,
        etag : {"strong", "weak", "none", "once"},
        from : Nat, to : Nat, calls : Nat, fails : Nat]
  /\ \A s \in AssetSetups : s.from < s.to

VARIABLES
  object,      \* the version the CDN serves
  phase,       \* idle, head, first, segments, whole, emit, plain, chunks, done, failed
  known_,        \* what the attempt knows: etag, total, key, body, window, next, last
  sink,        \* the units the caller has
  written, resumeEtag, restarts,
  saved,       \* the ETag of the progress the caller heard last
  since,       \* the version the CDN served when the call began
  site         \* the setup, with the calls and failures left

assetVars == <<object, phase, known_, sink, written, resumeEtag, restarts, saved,
               since, site>>

Resting == {"idle", "done", "failed"}

Nothing_held == [etag |-> NoTag, total |-> 0, key |-> 0, body |-> 0,
                 start |-> 0, end |-> 0, next |-> 0, last |-> 0]

Least(a, b) == IF a < b THEN a ELSE b
Most(a, b) == IF a < b THEN b ELSE a

----------------------------------------------------------------------------
(* The layout (format.ts).                                                *)

PlainStart(i) == IF i = 0 THEN 0 ELSE FirstPlain + LaterPlain * (i - 1)

SegmentOf(p) == IF p < FirstPlain THEN 0 ELSE 1 + (p - FirstPlain) \div LaterPlain

SegmentsOf(n) == IF n = 0 THEN 1 ELSE SegmentOf(n - 1) + 1

Units(v, a, b) == [i \in 1..(b - a) |-> <<v, a + i>>]

\* Is segment i of the body what the header and the stated length say it is?
Verifies(i) ==
  LET real == Length[known_.body]
      claimed == known_.total
  IN  /\ known_.body = known_.key
      /\ \/ i + 1 < SegmentsOf(real) /\ i + 1 < SegmentsOf(claimed)
         \/ i + 1 = SegmentsOf(real) /\ real = claimed

From == IF site.call = "download" THEN written ELSE site.from

\* planWindow: with nothing to show, the last segment proves the length.
Plan(total) ==
  LET start == Least(From, total)
      end == IF site.call = "download" THEN total ELSE Least(site.to, total)
      n == SegmentsOf(total)
  IN  [start |-> start, end |-> end,
       next |-> IF start >= end THEN n - 1 ELSE SegmentOf(start),
       last |-> IF start >= end THEN n - 1 ELSE SegmentOf(end - 1)]

----------------------------------------------------------------------------
(* The CDN.                                                               *)

Etag == IF site.etag = "none" \/ (site.etag = "once" /\ object > 1) THEN NoTag
        ELSE object

\* What may go into If-Range: a strong ETag, and never from a browser.
IfRange(tag) == IF site.etag \in {"strong", "once"} /\ ~site.corsSafe THEN tag ELSE NoTag

\* The status of a ranged request; `beyond` if it begins past the end.
Status(ifRange, beyond) ==
  IF ~site.ranges \/ (ifRange # NoTag /\ site.ifRange /\ ifRange # Etag) THEN 200
  ELSE IF beyond THEN 416 ELSE 206

\* Mutant: an answer without an ETag is taken for the object in hand.
NamesAnother(etag, ifRange) == etag # NoTag /\ Etag # etag /\ Etag # NoTag

\* Without If-Range only the answer's own ETag says which object it is.
IsAnother(etag, ifRange) ==
  etag # NoTag /\ Etag # etag /\ (Etag # NoTag \/ ifRange = NoTag)

\* checkRanged, on a request for what begins past the end if `beyond`.
CheckRanged(etag, total, ifRange, beyond) ==
  LET status == Status(ifRange, beyond)
      changed ==
        \/ status = 200 /\ (ifRange # NoTag \/ (etag # NoTag /\ Etag # etag))
        \/ status = 416
        \/ status = 206 /\ IsAnother(etag, ifRange)
        \/ status = 206 /\ ~site.corsSafe /\ total # NoTag /\ Length[object] # total
  IN  IF changed THEN "changed" ELSE IF status = 200 THEN "failed" ELSE "ok"

\* The file is replaced.
Replaced ==
  /\ object + 1 \in DOMAIN Length
  /\ object' = object + 1
  /\ UNCHANGED <<phase, known_, sink, written, resumeEtag, restarts, saved, since, site>>

----------------------------------------------------------------------------
(* A call.                                                                *)

FirstPhase(encrypted) ==
  IF ~encrypted THEN "plain" ELSE IF site.corsSafe THEN "head" ELSE "first"

\* A download resumes what its caller has, if the caller knows of which object
\* that is; who does not begins with an empty sink.
CallBegins ==
  /\ phase \in {"idle", "failed"} /\ site.calls > 0
  /\ site' = [site EXCEPT !.calls = @ - 1]
  /\ since' = object /\ restarts' = 0
  /\ IF site.call = "download" /\ saved # NoTag
     THEN sink' = sink /\ written' = Len(sink) /\ resumeEtag' = saved
     ELSE sink' = <<>> /\ written' = 0 /\ resumeEtag' = NoTag
  /\ known_' = Nothing_held
  /\ phase' = IF site.call = "read" THEN "whole" ELSE FirstPhase(site.encrypted)
  /\ UNCHANGED <<object, saved>>

Fails == phase' = "failed" /\ UNCHANGED <<known_, sink, written, resumeEtag, restarts>>

\* restarting: the object changed, the read starts over or gives up.
Restarts ==
  IF restarts >= MaxRestarts THEN Fails
  ELSE /\ restarts' = restarts + 1 /\ known_' = Nothing_held
       /\ sink' = <<>> /\ written' = 0 /\ resumeEtag' = NoTag
       /\ phase' = FirstPhase(site.encrypted)

Keeps == UNCHANGED <<sink, written, resumeEtag, restarts>>

Settles(outcome, ok) ==
  CASE outcome = "changed" -> Restarts
    [] outcome = "failed" -> Fails
    [] OTHER -> ok

\* The attempt has a body positioned at the first segment it wants.
OpenBundle(known) ==
  LET plan == Plan(known.total)
  IN  /\ known_' = [known EXCEPT !.body = object, !.start = plan.start,
                               !.end = plan.end, !.next = plan.next,
                               !.last = plan.last]
      /\ phase' = "emit"
      /\ Keeps

----------------------------------------------------------------------------
(* An encrypted file.                                                     *)

\* In a browser: the length and the identity from a HEAD.
Head_ ==
  /\ phase = "head"
  /\ IF resumeEtag # NoTag /\ Etag # resumeEtag THEN Restarts
     ELSE /\ known_' = [known_ EXCEPT !.etag = Etag, !.total = Length[object]]
          /\ phase' = "first" /\ Keeps
  /\ UNCHANGED <<object, saved, since, site>>

\* The header; with the segments, if the window begins in the first one.
First ==
  /\ phase = "first"
  /\ LET asked == IF site.corsSafe THEN known_.etag ELSE resumeEtag
         ifRange == IfRange(resumeEtag)
         known == [known_ EXCEPT !.key = object,
                     !.total = IF site.corsSafe THEN @ ELSE Length[object],
                     !.etag = IF site.corsSafe THEN @
                              ELSE IF Etag = NoTag THEN resumeEtag ELSE Etag]
         total == IF site.corsSafe THEN known_.total ELSE NoTag
         inFirst == (site.corsSafe \/ SegmentOf(From) = 0)
                    /\ Plan(known.total).next = 0
     IN  Settles(CheckRanged(asked, total, ifRange, FALSE),
                 IF inFirst THEN OpenBundle(known)
                 ELSE known_' = known /\ phase' = "segments" /\ Keeps)
  /\ UNCHANGED <<object, saved, since, site>>

\* The segments of the window, of the object whose header is held.
Segments ==
  /\ phase = "segments"
  /\ LET beyond == Plan(known_.total).next >= SegmentsOf(Length[object])
     IN  Settles(CheckRanged(known_.etag, known_.total, IfRange(known_.etag), beyond),
                 OpenBundle(known_))
  /\ UNCHANGED <<object, saved, since, site>>

\* A browser refuses a ranged request: one plain GET of the whole file.
Whole ==
  /\ phase = "whole" /\ site.call # "read"
  /\ IF known_.etag # NoTag /\ Etag # known_.etag THEN Restarts
     ELSE OpenBundle([known_ EXCEPT !.key = object])
  /\ UNCHANGED <<object, saved, since, site>>

\* One segment is verified and handed over; a download reports its progress.
Emit ==
  /\ phase = "emit"
  /\ IF ~Verifies(known_.next) THEN Fails /\ UNCHANGED saved
     ELSE LET i == known_.next
              lo == Most(known_.start, PlainStart(i))
              hi == Least(known_.end, PlainStart(i + 1))
          IN  /\ sink' = sink \o Units(known_.body, lo, Most(lo, hi))
              /\ written' = Len(sink')
              /\ saved' = IF site.call = "download" THEN known_.etag ELSE saved
              /\ known_' = [known_ EXCEPT !.next = @ + 1]
              /\ phase' = IF i = known_.last THEN "done" ELSE "emit"
              /\ UNCHANGED <<resumeEtag, restarts>>
  /\ UNCHANGED <<object, since, site>>

----------------------------------------------------------------------------
(* A plain file.                                                          *)

\* One request: the rest of what was resumed, or all of it.
PlainDownload ==
  /\ phase = "plain" /\ site.call = "download"
  /\ LET resuming == written > 0 /\ resumeEtag # NoTag
         ifRange == IF resuming THEN IfRange(resumeEtag) ELSE NoTag
         status == IF resuming THEN Status(ifRange, written >= Length[object]) ELSE 200
         tag == IF Etag = NoTag THEN resumeEtag ELSE Etag
         complete == status = 416 /\ ifRange # NoTag /\ Length[object] = written
         another == status = 416 \/ (status = 206 /\ IsAnother(resumeEtag, ifRange))
     IN  IF complete THEN phase' = "done" /\ known_' = known_ /\ Keeps
         ELSE IF another THEN Restarts
         ELSE   /\ known_' = [known_ EXCEPT !.etag = tag, !.body = object]
                /\ sink' = IF status = 200 THEN <<>> ELSE sink
                /\ written' = IF status = 200 THEN 0 ELSE written
                /\ phase' = "chunks" /\ UNCHANGED <<resumeEtag, restarts>>
  /\ UNCHANGED <<object, saved, since, site>>

\* A piece as the transport delivers it; then the end.
Chunk ==
  /\ phase = "chunks"
  /\ saved' = known_.etag
  /\ IF written < Length[known_.body]
     THEN /\ sink' = sink \o Units(known_.body, written, written + 1)
          /\ written' = written + 1 /\ phase' = phase
     ELSE phase' = "done" /\ UNCHANGED <<sink, written>>
  /\ UNCHANGED <<object, known_, resumeEtag, restarts, since, site>>

\* A range of a plain file, or a whole file of either kind, is one answer.
OneAnswer ==
  /\ \/ phase = "plain" /\ site.call = "range"
     \/ phase = "whole" /\ site.call = "read"
  /\ LET n == Length[object]
         to == IF site.call = "read" THEN n ELSE Least(site.to, n)
         from == IF site.call = "read" THEN 0 ELSE Least(site.from, to)
     IN  sink' = Units(object, from, to) /\ written' = to - from
  /\ phase' = "done"
  /\ UNCHANGED <<object, known_, resumeEtag, restarts, saved, since, site>>

----------------------------------------------------------------------------
(* Failures.                                                              *)

\* fetch rejects, or the body fails.  In a browser, a rejected range is read
\* as a whole file; anything else ends the call.
Rejects ==
  /\ phase \notin Resting /\ site.fails > 0
  /\ site' = [site EXCEPT !.fails = @ - 1]
  /\ IF site.corsSafe /\ phase \in {"first", "segments"}
     THEN phase' = "whole" /\ known_' = known_ /\ Keeps
     ELSE Fails
  /\ UNCHANGED <<object, saved, since>>

\* The sink has the segment, and its caller is gone before it hears of it.
GoneUnheard ==
  /\ phase \in {"emit", "chunks"} /\ site.fails > 0
  /\ site' = [site EXCEPT !.fails = @ - 1]
  /\ IF phase = "emit"
     THEN /\ Verifies(known_.next)
          /\ LET lo == Most(known_.start, PlainStart(known_.next))
                 hi == Least(known_.end, PlainStart(known_.next + 1))
             IN  sink' = sink \o Units(known_.body, lo, Most(lo, hi))
     ELSE /\ written < Length[known_.body]
          /\ sink' = sink \o Units(known_.body, written, written + 1)
  /\ phase' = "failed"
  /\ UNCHANGED <<object, known_, written, resumeEtag, restarts, saved, since>>

----------------------------------------------------------------------------

AssetInit ==
  /\ site \in AssetSetups
  /\ object = 1 /\ since = 1 /\ phase = "idle" /\ known_ = Nothing_held
  /\ sink = <<>> /\ written = 0 /\ restarts = 0
  /\ resumeEtag = NoTag /\ saved = NoTag

AssetNext ==
  \/ Replaced \/ CallBegins \/ Rejects \/ GoneUnheard
  \/ Head_ \/ First \/ Segments \/ Whole \/ Emit
  \/ PlainDownload \/ Chunk \/ OneAnswer

AssetSpec == AssetInit /\ [][AssetNext]_assetVars

----------------------------------------------------------------------------
(* Properties.                                                            *)

AssetTypeOK ==
  /\ object \in DOMAIN Length /\ since \in 1..object
  /\ phase \in Resting \cup {"head", "first", "segments", "whole", "emit",
                             "plain", "chunks"}
  /\ restarts \in 0..MaxRestarts
  /\ phase \notin Resting => written = Len(sink)
  /\ phase = "emit" => known_.next <= known_.last

\* What a caller has is the beginning of one version of the file, whatever was
\* replaced, refused, interrupted and resumed: bytes of two objects are never
\* spliced (client.ts checkRanged, downloadEncrypted, downloadPlain).
SinkIsOneObject ==
  site.call = "download" =>
    \E v \in DOMAIN Length : IsPrefix(sink, Units(v, 0, Length[v]))

\* A call that succeeds has all it asked for, of one version, and of one that
\* the CDN served after the call began.
DoneIsExact ==
  phase = "done" =>
    \E v \in since..object :
      LET n == Length[v]
          to == IF site.call = "range" THEN Least(site.to, n) ELSE n
          from == IF site.call = "range" THEN Least(site.from, to) ELSE 0
      IN  sink = Units(v, from, to)

\* As the documentation has it: a download resumes only while the object still
\* has its ETag, any other object resets the sink; so nothing of an object that
\* was gone when the call began is left when it ends.
OtherObjectResets ==
  phase = "done" /\ site.call = "download" =>
    \A unit \in Range(sink) : unit[1] \in since..object

\* A read starts over because the object changed; once more, if what it
\* resumes was gone before it began.
RestartsAreCaused ==
  restarts <= (object - since) + (IF site.call = "download" THEN 1 ELSE 0)

\* A read or download returns one object, whole, and starts over only for a cause
\* (client.ts).
AssetInvariant == AssetTypeOK /\ SinkIsOneObject /\ DoneIsExact /\ RestartsAreCaused
=============================================================================
