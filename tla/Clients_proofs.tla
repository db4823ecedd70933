--------------------------- MODULE Clients_proofs ---------------------------
(***************************************************************************)
(* Proofs about the clients of MCClients: asset downloads, the event       *)
(* broker, logs, the Redis connection and documents.                       *)
(***************************************************************************)
EXTENDS AssetBundle, EventBroker, LogFlush, RedisConnection, Documents,
        SequenceTheorems, FiniteSetTheorems, WellFoundedInduction, TLAPS

(* What the proof of AssetInvariant adds to it *)

\* A host that ignores If-Range answers the rest of another object as if it were of the
\* first one: a plain download then takes old bytes for the new file (client.ts:750).
HonoursIfRange ==
  \A s \in AssetSetups : s.ifRange \/ (s.encrypted /\ s.etag # "once")

SiteType ==
  [call : {"download", "range", "read"},
   encrypted : BOOLEAN, corsSafe : BOOLEAN, ranges : BOOLEAN, ifRange : BOOLEAN,
   etag : {"strong", "weak", "none", "once"},
   from : Nat, to : Nat, calls : Nat, fails : Nat]

KnownType ==
  [etag : Nat \cup {NoTag}, total : Nat, key : Nat, body : Nat,
   start : Nat, end : Nat, next : Nat, last : Nat]

Version == 1..Len(Length)
Unit == Version \X Nat
File(v) == Units(v, 0, Length[v])

\* The ETag under which the CDN serves version v.
TagOf(v) ==
  IF site.etag = "none" \/ (site.etag = "once" /\ v > 1) THEN NoTag ELSE v

\* Before the body of an attempt is there, and while it is handed over.
Asking == {"head", "first", "segments", "whole", "plain"}
Reading == {"emit", "chunks"}

AssetTypeInv ==
  /\ site \in SiteType /\ site.from < site.to
  /\ site.ifRange \/ (site.encrypted /\ site.etag # "once")
  /\ object \in Version /\ since \in 1..object
  /\ phase \in Resting \cup Asking \cup Reading
  /\ known_ \in KnownType
  /\ sink \in Seq(Unit) /\ written \in Nat
  /\ {resumeEtag, saved} \subseteq Nat \cup {NoTag}
  /\ restarts \in 0..MaxRestarts
  /\ phase \notin Resting => written = Len(sink)

\* Which calls come to which phase.
PhaseInv ==
  /\ phase \in {"plain", "chunks"} => ~site.encrypted /\ site.call # "read"
  /\ phase = "chunks" => site.call = "download"
  /\ phase \in {"head", "first", "segments", "emit"} =>
       site.encrypted /\ site.call # "read"
  /\ phase = "head" => site.corsSafe
  /\ phase = "whole" => site.call = "read" \/ (site.encrypted /\ site.corsSafe)
  /\ phase = "segments" => site.ranges

\* Progress names a version, and whoever has the ETag of what is served has its bytes.
SavedInv ==
  saved # NoTag =>
    /\ site.call = "download"
    /\ saved \in 1..object /\ TagOf(saved) = saved
    /\ saved = object => IsPrefix(sink, File(object))

\* A call resumes what it was told last, or begins with nothing; once started over, it
\* does not resume.
ResumeInv ==
  phase \notin Resting =>
    /\ resumeEtag # NoTag => restarts = 0 /\ site.call = "download"
    /\ phase \in Asking =>
         IF resumeEtag = NoTag THEN sink = <<>> ELSE resumeEtag = saved

\* The attempt took the length and the ETag from a version it saw; each start over
\* saw a later one than the one before.
Seen(w) ==
  /\ restarts <= (w - since) + (IF site.call = "download" THEN 1 ELSE 0)
  /\ known_.etag = TagOf(w) /\ known_.total = Length[w]
  /\ resumeEtag # NoTag => resumeEtag = w

SeenInv ==
  /\ RestartsAreCaused
  /\ \/ phase = "segments"
     \/ phase = "whole" /\ site.call # "read"
     \/ phase = "first" /\ site.corsSafe
     => \E w \in since..object : Seen(w)

\* The body is of a version that was served since the call began; what it is called, or
\* what the caller heard, is not the ETag of a later one.
BodyInv ==
  phase \in Reading =>
    /\ known_.body \in since..object
    /\ saved = object => known_.body = object
    /\ known_.etag # NoTag =>
         /\ known_.etag \in 1..object /\ TagOf(known_.etag) = known_.etag
         /\ known_.etag = object => known_.body = object

\* The caller has the body up to the next segment of the window.
Base == IF site.call = "download" THEN 0 ELSE known_.start
Position ==
  IF known_.start >= known_.end THEN known_.start
  ELSE Most(known_.start, PlainStart(known_.next))

EmitInv ==
  phase = "emit" =>
    /\ IF site.call = "download" THEN known_.end = known_.total
       ELSE /\ known_.start = Least(site.from, known_.total)
            /\ known_.end = Least(site.to, known_.total)
    /\ known_.start <= known_.end
    /\ IF known_.start = known_.end
       THEN /\ known_.next = SegmentsOf(known_.total) - 1 /\ known_.last = known_.next
            /\ known_.start = known_.total
       ELSE /\ SegmentOf(known_.start) <= known_.next /\ known_.next <= known_.last
            /\ known_.last = SegmentOf(known_.end - 1)
    /\ sink = Units(known_.body, Base, Position)

\* So has who downloads a plain file, piece by piece.
ChunkInv == phase = "chunks" => IsPrefix(sink, File(known_.body))

AssetInv ==
  /\ AssetTypeInv /\ PhaseInv /\ SavedInv /\ ResumeInv /\ SeenInv /\ BodyInv
  /\ EmitInv /\ ChunkInv /\ SinkIsOneObject /\ DoneIsExact

-----------------------------------------------------------------------------
(* The layout of a bundle *)

LEMMA Quotient ==
  ASSUME NEW q \in Nat, NEW d \in Nat \ {0}
  PROVE  q \div d \in Nat /\ d * (q \div d) <= q /\ q < d * (q \div d) + d
OBVIOUS

LEMMA Multiples ==
  ASSUME NEW a \in Nat, NEW b \in Nat, NEW d \in Nat \ {0}, a < b
  PROVE  d * a \in Nat /\ d * b \in Nat /\ d * a + d <= d * b
OBVIOUS

LEMMA PlainStartType ==
  ASSUME NEW i \in Nat
  PROVE  PlainStart(i) \in Nat /\ (i # 0 => PlainStart(i) >= FirstPlain)
<1>1. CASE i = 0
  BY <1>1 DEF PlainStart
<1>2. CASE i # 0
  <2>1. i - 1 \in Nat /\ FirstPlain \in Nat /\ LaterPlain \in Nat
    BY <1>2, AssetAssumption
  <2>2. LaterPlain * (i - 1) \in Nat
    BY <2>1
  <2>3. QED
    BY <1>2, <2>1, <2>2 DEF PlainStart
<1>3. QED
  BY <1>1, <1>2

\* Segments are not empty.
LEMMA PlainStartIncreases ==
  ASSUME NEW i \in Nat, NEW j \in Nat, i < j
  PROVE  PlainStart(i) < PlainStart(j)
<1>1. FirstPlain \in Nat \ {0} /\ LaterPlain \in Nat \ {0}
  BY AssetAssumption
<1>2. CASE i = 0
  BY <1>1, <1>2, PlainStartType DEF PlainStart
<1>3. CASE i # 0
  <2>1. i - 1 \in Nat /\ j - 1 \in Nat /\ i - 1 < j - 1
    BY <1>3
  <2>2. /\ LaterPlain * (i - 1) \in Nat /\ LaterPlain * (j - 1) \in Nat
        /\ LaterPlain * (i - 1) + LaterPlain <= LaterPlain * (j - 1)
    BY <1>1, <2>1, Multiples
  <2>3. QED
    BY <1>1, <1>3, <2>2 DEF PlainStart
<1>4. QED
  BY <1>2, <1>3

LEMMA SegmentIsAt ==
  ASSUME NEW p \in Nat
  PROVE  /\ SegmentOf(p) \in Nat
         /\ PlainStart(SegmentOf(p)) <= p /\ p < PlainStart(SegmentOf(p) + 1)
<1>1. FirstPlain \in Nat \ {0} /\ LaterPlain \in Nat \ {0}
  BY AssetAssumption
<1>2. CASE p < FirstPlain
  BY <1>1, <1>2 DEF SegmentOf, PlainStart
<1>3. CASE ~(p < FirstPlain)
  <2> DEFINE q == (p - FirstPlain) \div LaterPlain
  <2>1. p - FirstPlain \in Nat
    BY <1>1, <1>3
  <2>2. /\ q \in Nat /\ LaterPlain * q <= p - FirstPlain
        /\ p - FirstPlain < LaterPlain * q + LaterPlain
    BY <1>1, <2>1, Quotient
  <2>3. SegmentOf(p) = 1 + q
    BY <1>3 DEF SegmentOf
  <2> HIDE DEF q
  <2>4. LaterPlain * q \in Nat /\ LaterPlain * (q + 1) = LaterPlain * q + LaterPlain
    BY <1>1, <2>2
  <2>5. /\ PlainStart(1 + q) = FirstPlain + LaterPlain * q
        /\ PlainStart(1 + q + 1) = FirstPlain + LaterPlain * (q + 1)
    BY <2>2 DEF PlainStart
  <2>6. QED
    BY <1>1, <2>2, <2>3, <2>4, <2>5
<1>4. QED
  BY <1>2, <1>3

LEMMA SegmentBefore ==
  ASSUME NEW i \in Nat, NEW p \in Nat
  PROVE  i <= SegmentOf(p) <=> PlainStart(i) <= p
<1> DEFINE s == SegmentOf(p)
<1>1. /\ s \in Nat /\ PlainStart(s) \in Nat /\ PlainStart(s + 1) \in Nat
      /\ PlainStart(s) <= p /\ p < PlainStart(s + 1) /\ PlainStart(i) \in Nat
  BY SegmentIsAt, PlainStartType
<1> HIDE DEF s
<1>2. CASE i < s
  BY <1>1, <1>2, PlainStartIncreases DEF s
<1>3. CASE i = s
  BY <1>1, <1>3 DEF s
<1>4. CASE i = s + 1
  BY <1>1, <1>4 DEF s
<1>5. CASE s + 1 < i
  <2>1. PlainStart(s + 1) < PlainStart(i)
    BY <1>1, <1>5, PlainStartIncreases
  <2>2. QED
    BY <1>1, <1>5, <2>1 DEF s
<1>6. QED
  BY <1>1, <1>2, <1>3, <1>4, <1>5

LEMMA SegmentsCover ==
  ASSUME NEW n \in Nat
  PROVE  /\ SegmentsOf(n) \in Nat \ {0}
         /\ PlainStart(SegmentsOf(n) - 1) <= n /\ n <= PlainStart(SegmentsOf(n))
         /\ \A i \in Nat : i < SegmentsOf(n) - 1 => PlainStart(i + 1) < n
         /\ n # 0 => SegmentsOf(n) - 1 = SegmentOf(n - 1)
<1>1. CASE n = 0
  <2>1. SegmentsOf(n) = 1
    BY <1>1 DEF SegmentsOf
  <2>2. PlainStart(0) = 0 /\ PlainStart(1) \in Nat
    BY PlainStartType DEF PlainStart
  <2>3. QED
    BY <1>1, <2>1, <2>2
<1>2. CASE n # 0
  <2> DEFINE s == SegmentOf(n - 1)
  <2>1. n - 1 \in Nat
    BY <1>2
  <2>2. /\ s \in Nat /\ PlainStart(s) <= n - 1 /\ n - 1 < PlainStart(s + 1)
        /\ \A i \in Nat : i <= s <=> PlainStart(i) <= n - 1
    BY <2>1, SegmentIsAt, SegmentBefore
  <2>3. SegmentsOf(n) = s + 1
    BY <1>2 DEF SegmentsOf
  <2> HIDE DEF s
  <2>4. PlainStart(s) \in Nat /\ PlainStart(s + 1) \in Nat
    BY <2>2, PlainStartType
  <2>5. ASSUME NEW i \in Nat, i < SegmentsOf(n) - 1
        PROVE  PlainStart(i + 1) < n
    <3>1. i + 1 \in Nat /\ i + 1 <= s
      BY <2>2, <2>3, <2>5
    <3>2. PlainStart(i + 1) <= n - 1 /\ PlainStart(i + 1) \in Nat
      BY <2>2, <3>1, PlainStartType
    <3>3. QED
      BY <3>2
  <2>6. QED
    BY <2>2, <2>3, <2>4, <2>5 DEF s
<1>3. QED
  BY <1>1, <1>2

-----------------------------------------------------------------------------
(* The units of a version *)

LEMMA UnitsType ==
  ASSUME NEW v \in Version, NEW a \in Nat, NEW b \in Nat, a <= b
  PROVE  /\ Units(v, a, b) \in Seq(Unit)
         /\ Len(Units(v, a, b)) = b - a
         /\ \A i \in 1..(b - a) : Units(v, a, b)[i] = <<v, a + i>>
BY DEF Units, Unit

\* Two sequences after each other.
LEMMA JoinIs ==
  ASSUME NEW S, NEW s \in Seq(S), NEW t \in Seq(S), NEW u \in Seq(S),
         Len(u) = Len(s) + Len(t),
         \A i \in 1..Len(s) : u[i] = s[i],
         \A i \in 1..Len(t) : u[Len(s) + i] = t[i]
  PROVE  s \o t = u
<1>1. Len(s) \in Nat /\ Len(t) \in Nat
  OBVIOUS
<1>2. /\ s \o t \in Seq(S) /\ Len(s \o t) = Len(s) + Len(t)
      /\ \A i \in 1..(Len(s) + Len(t)) :
           (s \o t)[i] = IF i <= Len(s) THEN s[i] ELSE t[i - Len(s)]
  BY ConcatProperties
<1>3. ASSUME NEW i \in 1..Len(u) PROVE (s \o t)[i] = u[i]
  <2>1. CASE i <= Len(s)
    BY <1>1, <1>2, <1>3, <2>1
  <2>2. CASE ~(i <= Len(s))
    <3>1. i - Len(s) \in 1..Len(t) /\ Len(s) + (i - Len(s)) = i
      BY <1>1, <1>3, <2>2
    <3>2. u[Len(s) + (i - Len(s))] = t[i - Len(s)]
      BY <3>1
    <3>3. QED
      BY <1>1, <1>2, <1>3, <2>2, <3>1, <3>2
  <2>3. QED
    BY <2>1, <2>2
<1>4. QED
  BY <1>2, <1>3, SeqEqual

LEMMA UnitsJoin ==
  ASSUME NEW v \in Version, NEW a \in Nat, NEW b \in Nat, NEW c \in Nat, a <= b, b <= c
  PROVE  Units(v, a, b) \o Units(v, b, c) = Units(v, a, c)
<1> DEFINE s == Units(v, a, b)
           t == Units(v, b, c)
           u == Units(v, a, c)
<1>1. /\ s \in Seq(Unit) /\ Len(s) = b - a
      /\ \A i \in 1..(b - a) : s[i] = <<v, a + i>>
  BY UnitsType
<1>2. /\ t \in Seq(Unit) /\ Len(t) = c - b
      /\ \A i \in 1..(c - b) : t[i] = <<v, b + i>>
  BY UnitsType
<1>3. a <= c
  OBVIOUS
<1>4. /\ u \in Seq(Unit) /\ Len(u) = c - a
      /\ \A i \in 1..(c - a) : u[i] = <<v, a + i>>
  BY <1>3, UnitsType
<1> HIDE DEF s, t, u
<1>5. ASSUME NEW i \in 1..Len(s) PROVE u[i] = s[i]
  <2>1. i \in 1..(b - a)
    BY <1>1, <1>5
  <2>2. i \in 1..(c - a)
    BY <2>1
  <2>3. QED
    BY <1>1, <1>4, <2>1, <2>2
<1>6. ASSUME NEW i \in 1..Len(t) PROVE u[Len(s) + i] = t[i]
  <2>1. i \in 1..(c - b)
    BY <1>2, <1>6
  <2>2. (b - a) + i \in 1..(c - a) /\ a + ((b - a) + i) = b + i
    BY <2>1
  <2>3. u[(b - a) + i] = <<v, b + i>> /\ t[i] = <<v, b + i>>
    BY <1>2, <1>4, <2>1, <2>2
  <2>4. QED
    BY <1>1, <2>3
<1>7. Len(u) = Len(s) + Len(t)
  BY <1>1, <1>2, <1>4, SMTT(60)
<1>8. s \o t = u
  BY <1>1, <1>2, <1>4, <1>5, <1>6, <1>7, JoinIs
<1>9. QED
  BY <1>8 DEF s, t, u

LEMMA UnitsNext ==
  ASSUME NEW v \in Version, NEW n \in Nat
  PROVE  Units(v, 0, n) \o Units(v, n, n + 1) = Units(v, 0, n + 1)
<1>1. 0 \in Nat /\ n + 1 \in Nat /\ 0 <= n /\ n <= n + 1
  OBVIOUS
<1>2. QED
  BY <1>1, UnitsJoin

\* A prefix, position by position.
LEMMA PrefixIs ==
  ASSUME NEW S, NEW s \in Seq(S), NEW u \in Seq(S)
  PROVE  IsPrefix(s, u) <=> Len(s) <= Len(u) /\ \A i \in 1..Len(s) : s[i] = u[i]
<1>1. Len(s) \in Nat /\ Len(u) \in Nat
  OBVIOUS
<1>2. SubSeq(s, 1, Len(s)) = s
  BY SubSeqFull
<1>3. CASE Len(s) <= Len(u)
  <2> DEFINE p == SubSeq(u, 1, Len(s))
  <2>1. /\ p \in Seq(S) /\ Len(p) = Len(s)
        /\ \A i \in 1..Len(s) : p[i] = u[i]
    BY <1>1, <1>3
  <2> HIDE DEF p
  <2>2. s = p <=> \A i \in 1..Len(s) : s[i] = u[i]
    BY <2>1, SeqEqual
  <2>3. QED
    BY <1>2, <1>3, <2>2 DEF IsPrefix, p
<1>4. CASE ~(Len(s) <= Len(u))
  BY <1>4 DEF IsPrefix
<1>5. QED
  BY <1>3, <1>4

\* A prefix of a version is its first units.
LEMMA PrefixIsUnits ==
  ASSUME NEW s \in Seq(Unit), NEW v \in Version, NEW n \in Nat
  PROVE  IsPrefix(s, Units(v, 0, n)) <=> Len(s) <= n /\ s = Units(v, 0, Len(s))
<1> DEFINE u == Units(v, 0, n)
           m == Len(s)
           t == Units(v, 0, m)
<1>1. m \in Nat /\ 0 <= m /\ 0 <= n /\ m - 0 = m /\ n - 0 = n
  OBVIOUS
<1> HIDE DEF m
<1>2. u \in Seq(Unit) /\ Len(u) = n - 0 /\ \A i \in 1..(n - 0) : u[i] = <<v, 0 + i>>
  BY <1>1, UnitsType
<1>3. t \in Seq(Unit) /\ Len(t) = m - 0 /\ \A i \in 1..(m - 0) : t[i] = <<v, 0 + i>>
  BY <1>1, UnitsType
<1> HIDE DEF u, t
<1>4. IsPrefix(s, u) <=> m <= n /\ \A i \in 1..m : s[i] = u[i]
  BY <1>1, <1>2, PrefixIs DEF m
<1>5. ASSUME m <= n PROVE (\A i \in 1..m : s[i] = u[i]) <=> (\A i \in 1..m : s[i] = t[i])
  <2>1. \A i \in 1..m : i \in 1..(n - 0) /\ i \in 1..(m - 0)
    BY <1>1, <1>5
  <2>2. \A i \in 1..m : u[i] = t[i]
    BY <1>2, <1>3, <2>1
  <2>3. QED
    BY <2>2
<1>6. s = t <=> \A i \in 1..m : s[i] = t[i]
  BY <1>1, <1>3, SeqEqual DEF m
<1>7. QED
  BY <1>4, <1>5, <1>6 DEF u, t, m

-----------------------------------------------------------------------------
(* The steps of a read or download *)

\* The setup does not change, but for the calls and failures that are left.
SameSite ==
  /\ site' \in SiteType
  /\ site'.call = site.call /\ site'.encrypted = site.encrypted
  /\ site'.corsSafe = site.corsSafe /\ site'.ranges = site.ranges
  /\ site'.ifRange = site.ifRange /\ site'.etag = site.etag
  /\ site'.from = site.from /\ site'.to = site.to

LEMMA LengthType ==
  /\ Len(Length) \in Nat \ {0} /\ DOMAIN Length = Version
  /\ \A v \in Version : Length[v] \in Nat
<1>1. Len(Length) \in Nat /\ DOMAIN Length = 1..Len(Length)
  BY AssetAssumption
<1>2. Len(Length) # 0
  BY <1>1, AssetAssumption, EmptySeq
<1>3. \A v \in 1..Len(Length) : Length[v] \in Nat
  BY AssetAssumption, ElementOfSeq
<1>4. QED
  BY <1>1, <1>2, <1>3 DEF Version

LEMMA NoTagIsNoVersion == NoTag \notin Nat /\ MaxRestarts \in Nat
BY AssetAssumption

LEMMA EmptyIsPrefix ==
  ASSUME NEW v \in Version
  PROVE  /\ <<>> \in Seq(Unit) /\ Len(<<>>) = 0
         /\ IsPrefix(<<>>, File(v))
<1>1. <<>> \in Seq(Unit) /\ Len(<<>>) = 0
  OBVIOUS
<1>2. Length[v] \in Nat
  BY LengthType
<1>3. 0 <= Length[v]
  BY <1>2
<1>4. File(v) \in Seq(Unit) /\ Len(File(v)) = Length[v] - 0
  BY <1>2, <1>3, UnitsType DEF File
<1>5. Len(<<>>) <= Len(File(v)) /\ \A i \in 1..Len(<<>>) : <<>>[i] = File(v)[i]
  BY <1>1, <1>2, <1>4
<1>6. IsPrefix(<<>>, File(v))
  BY <1>1, <1>4, <1>5, PrefixIs
<1>7. QED
  BY <1>1, <1>6

LEMMA SameTag ==
  ASSUME SameSite, NEW w
  PROVE  TagOf(w)' = TagOf(w)
BY DEF SameSite, TagOf

\* The file is replaced by a version whose ETag nobody has yet.
LEMMA ReplacedStep == AssetInv /\ Replaced => AssetInv'
<1> SUFFICES ASSUME AssetInv, Replaced PROVE AssetInv'
  OBVIOUS
<1> USE DEF Replaced
<1>1. /\ object' = object + 1 /\ object \in Nat /\ since \in Nat /\ since <= object
      /\ object' \in Version
  BY LengthType DEF AssetInv, AssetTypeInv, Version
<1>2. AssetTypeInv'
  BY <1>1 DEF AssetInv, AssetTypeInv
<1>3. PhaseInv'
  BY DEF AssetInv, PhaseInv
<1>4. SavedInv'
  BY <1>1 DEF AssetInv, SavedInv, TagOf
<1>5. ResumeInv'
  BY DEF AssetInv, ResumeInv
<1>6. SeenInv'
  <2>1. RestartsAreCaused'
    BY <1>1, NoTagIsNoVersion DEF AssetInv, AssetTypeInv, SeenInv, RestartsAreCaused
  <2>2. since..object \subseteq since'..object'
    BY <1>1
  <2>3. ASSUME NEW w \in since..object, Seen(w)
        PROVE  \E x \in since'..object' : Seen(x)'
    BY <2>2, <2>3 DEF Seen, TagOf
  <2>4. QED
    BY <2>1, <2>3 DEF AssetInv, SeenInv
<1>7. BodyInv'
  <2>1. saved' # object'
    BY <1>1, NoTagIsNoVersion DEF AssetInv, SavedInv
  <2>2. known_.body \in since..object => known_.body \in since'..object'
    BY <1>1
  <2>3. QED
    BY <1>1, <2>1, <2>2 DEF AssetInv, BodyInv, TagOf
<1>8. EmitInv' /\ ChunkInv' /\ SinkIsOneObject'
  BY DEF AssetInv, EmitInv, ChunkInv, SinkIsOneObject, Base, Position
<1>9. DoneIsExact'
  <2>1. \A v \in since..object : v \in since'..object'
    BY <1>1
  <2>2. QED
    BY <2>1 DEF AssetInv, DoneIsExact
<1>10. QED
  BY <1>2, <1>3, <1>4, <1>5, <1>6, <1>7, <1>8, <1>9 DEF AssetInv

LEMMA FailsCounted ==
  ASSUME site \in SiteType, site.fails > 0, site' = [site EXCEPT !.fails = @ - 1]
  PROVE  SameSite
<1>1. site.fails - 1 \in Nat
  BY DEF SiteType
<1>2. site' \in SiteType
  BY <1>1 DEF SiteType
<1>3. QED
  BY <1>2 DEF SiteType, SameSite

\* A call that fails leaves its caller with what he has.
LEMMA FailingStep ==
  ASSUME AssetInv, SameSite, phase' = "failed",
         UNCHANGED <<object, known_, sink, written, resumeEtag, restarts, saved, since>>
  PROVE  AssetInv'
<1>1. AssetTypeInv'
  BY DEF AssetInv, AssetTypeInv, SameSite, Resting
<1>2. PhaseInv' /\ ResumeInv' /\ BodyInv' /\ EmitInv' /\ ChunkInv' /\ DoneIsExact'
  BY DEF PhaseInv, ResumeInv, BodyInv, EmitInv, ChunkInv, DoneIsExact, Resting, Asking,
         Reading
<1>3. SavedInv'
  BY SameTag DEF AssetInv, SavedInv, SameSite
<1>4. SeenInv'
  BY DEF AssetInv, SeenInv, RestartsAreCaused, SameSite
<1>5. SinkIsOneObject'
  BY DEF AssetInv, SinkIsOneObject, SameSite
<1>6. QED
  BY <1>1, <1>2, <1>3, <1>4, <1>5 DEF AssetInv

LEMMA SiteStays == AssetInv /\ UNCHANGED site => SameSite
BY DEF AssetInv, AssetTypeInv, SameSite

LEMMA FirstPhases ==
  ASSUME NEW e \in BOOLEAN
  PROVE  /\ FirstPhase(e) \in {"plain", "head", "first"}
         /\ FirstPhase(e) = "plain" => ~e
         /\ FirstPhase(e) = "head" => e /\ site.corsSafe
         /\ FirstPhase(e) = "first" => e /\ ~site.corsSafe
<1>1. CASE ~e
  BY <1>1 DEF FirstPhase
<1>2. CASE e /\ site.corsSafe
  BY <1>2 DEF FirstPhase
<1>3. CASE e /\ ~site.corsSafe
  BY <1>3 DEF FirstPhase
<1>4. QED
  BY <1>1, <1>2, <1>3

\* A read starts over with nothing, for a cause it had not counted yet.
LEMMA RestartingStep ==
  ASSUME AssetInv, Restarts, UNCHANGED <<object, saved, since, site>>,
         site.call # "read", phase \notin Resting,
         restarts + 1 <= (object - since) + (IF site.call = "download" THEN 1 ELSE 0)
  PROVE  AssetInv'
<1>1. CASE restarts >= MaxRestarts
  BY <1>1, SiteStays, FailingStep DEF Restarts, Fails
<1>2. CASE ~(restarts >= MaxRestarts)
  <2>1. /\ restarts' = restarts + 1 /\ known_' = Nothing_held
        /\ sink' = <<>> /\ written' = 0 /\ resumeEtag' = NoTag
        /\ phase' = FirstPhase(site.encrypted)
    BY <1>2 DEF Restarts
  <2>2. /\ phase' \in {"plain", "head", "first"}
        /\ phase' = "plain" => ~site.encrypted
        /\ phase' = "head" => site.encrypted /\ site.corsSafe
        /\ phase' = "first" => site.encrypted /\ ~site.corsSafe
    BY <2>1, FirstPhases DEF AssetInv, AssetTypeInv, SiteType
  <2>3. Nothing_held \in KnownType
    BY DEF Nothing_held, KnownType
  <2>4. AssetTypeInv'
    <3>1. restarts' \in 0..MaxRestarts
      BY <1>2, <2>1, NoTagIsNoVersion DEF AssetInv, AssetTypeInv
    <3>2. QED
      BY <2>1, <2>2, <2>3, <3>1 DEF AssetInv, AssetTypeInv, Asking
  <2>5. PhaseInv'
    BY <2>2 DEF PhaseInv
  <2>6. SavedInv'
    BY <2>1, EmptyIsPrefix DEF AssetInv, SavedInv, AssetTypeInv, TagOf
  <2>7. ResumeInv'
    BY <2>1 DEF ResumeInv
  <2>8. SeenInv'
    BY <2>1, <2>2 DEF SeenInv, RestartsAreCaused
  <2>9. BodyInv' /\ EmitInv' /\ ChunkInv' /\ DoneIsExact'
    BY <2>2 DEF BodyInv, EmitInv, ChunkInv, DoneIsExact, Reading
  <2>10. SinkIsOneObject'
    <3>1. object \in Version /\ DOMAIN Length = Version
      BY LengthType DEF AssetInv, AssetTypeInv
    <3>2. QED
      BY <2>1, <3>1, EmptyIsPrefix DEF SinkIsOneObject, File
  <2>11. QED
    BY <2>4, <2>5, <2>6, <2>7, <2>8, <2>9, <2>10 DEF AssetInv
<1>3. QED
  BY <1>1, <1>2

LEMMA AssetStarts == HonoursIfRange /\ AssetInit => AssetInv
<1> SUFFICES ASSUME HonoursIfRange, AssetInit PROVE AssetInv
  OBVIOUS
<1> USE DEF AssetInit
<1>1. 1 \in Version /\ DOMAIN Length = Version
  BY LengthType DEF Version
<1>2. /\ site \in SiteType /\ site.from < site.to
      /\ site.ifRange \/ (site.encrypted /\ site.etag # "once")
  BY AssetAssumption DEF SiteType, HonoursIfRange
<1>3. known_ \in KnownType /\ 0 \in 0..MaxRestarts /\ <<>> \in Seq(Unit)
  BY NoTagIsNoVersion DEF Nothing_held, KnownType
<1>4. AssetTypeInv
  BY <1>1, <1>2, <1>3 DEF AssetTypeInv, Resting
<1>5. PhaseInv /\ SavedInv /\ ResumeInv /\ BodyInv /\ EmitInv /\ ChunkInv /\ DoneIsExact
  BY DEF PhaseInv, SavedInv, ResumeInv, BodyInv, EmitInv, ChunkInv, DoneIsExact, Resting,
         Reading
<1>6. SeenInv
  BY DEF SeenInv, RestartsAreCaused
<1>7. SinkIsOneObject
  BY <1>1, EmptyIsPrefix DEF SinkIsOneObject, File
<1>8. QED
  BY <1>4, <1>5, <1>6, <1>7 DEF AssetInv

LEMMA CallBeginsStep == AssetInv /\ CallBegins => AssetInv'
<1> SUFFICES ASSUME AssetInv, CallBegins PROVE AssetInv'
  OBVIOUS
<1>1. /\ SameSite /\ site \in SiteType
      /\ phase' = IF site.call = "read" THEN "whole" ELSE FirstPhase(site.encrypted)
      /\ known_' = Nothing_held /\ since' = object /\ restarts' = 0
      /\ object' = object /\ saved' = saved
  BY SMTT(60) DEF AssetInv, AssetTypeInv, SiteType, CallBegins, SameSite
<1>2. \/ /\ site.call = "download" /\ saved # NoTag
         /\ sink' = sink /\ written' = Len(sink) /\ resumeEtag' = saved
      \/ sink' = <<>> /\ written' = 0 /\ resumeEtag' = NoTag
  BY DEF CallBegins
<1>3. /\ phase' \in {"whole", "plain", "head", "first"}
      /\ phase' = "whole" => site.call = "read"
      /\ phase' # "whole" => site.call # "read"
      /\ phase' = "plain" => ~site.encrypted
      /\ phase' = "head" => site.encrypted /\ site.corsSafe
      /\ phase' = "first" => site.encrypted /\ ~site.corsSafe
  BY <1>1, FirstPhases DEF SiteType
<1>4. Nothing_held \in KnownType /\ Len(sink) \in Nat /\ 0 \in 0..MaxRestarts
  BY NoTagIsNoVersion DEF AssetInv, AssetTypeInv, Nothing_held, KnownType
<1>5. AssetTypeInv'
  <2>1. sink' \in Seq(Unit) /\ written' \in Nat /\ written' = Len(sink')
    <3>1. CASE sink' = sink /\ written' = Len(sink)
      BY <1>4, <3>1 DEF AssetInv, AssetTypeInv
    <3>2. CASE sink' = <<>> /\ written' = 0
      BY <3>2
    <3>3. QED
      BY <1>2, <3>1, <3>2
  <2>2. {resumeEtag', saved'} \subseteq Nat \cup {NoTag}
    BY <1>1, <1>2 DEF AssetInv, AssetTypeInv
  <2>3. object' \in Version /\ since' \in 1..object'
    BY <1>1, LengthType DEF AssetInv, AssetTypeInv, Version
  <2>4. /\ site' \in SiteType /\ site'.from < site'.to
        /\ site'.ifRange \/ (site'.encrypted /\ site'.etag # "once")
    BY <1>1 DEF AssetInv, AssetTypeInv, SameSite
  <2>5. QED
    BY <1>1, <1>3, <1>4, <2>1, <2>2, <2>3, <2>4 DEF AssetTypeInv, Asking
<1>6. PhaseInv'
  BY <1>1, <1>3 DEF PhaseInv, SameSite
<1>7. SavedInv'
  BY <1>1, <1>2, SameTag, EmptyIsPrefix DEF AssetInv, AssetTypeInv, SavedInv, SameSite
<1>8. ResumeInv'
  BY <1>1, <1>2 DEF ResumeInv, SameSite
<1>9. SeenInv'
  <2>1. object \in Nat /\ object - object = 0
    BY LengthType DEF AssetInv, AssetTypeInv, Version
  <2>2. RestartsAreCaused'
    BY <1>1, <2>1 DEF RestartsAreCaused, SameSite
  <2>3. QED
    BY <1>1, <1>3, <2>2 DEF SeenInv, SameSite
<1>10. BodyInv' /\ EmitInv' /\ ChunkInv' /\ DoneIsExact'
  BY <1>3 DEF BodyInv, EmitInv, ChunkInv, DoneIsExact, Reading
<1>11. SinkIsOneObject'
  <2>1. object \in Version /\ DOMAIN Length = Version
    BY LengthType DEF AssetInv, AssetTypeInv
  <2>2. QED
    BY <1>1, <1>2, <2>1, EmptyIsPrefix DEF AssetInv, SinkIsOneObject, SameSite, File
<1>12. QED
  BY <1>5, <1>6, <1>7, <1>8, <1>9, <1>10, <1>11 DEF AssetInv

LEMMA EtagIsTag ==
  ASSUME AssetInv
  PROVE  /\ Etag = TagOf(object) /\ object \in Nat /\ object # NoTag
         /\ Etag \in Nat \cup {NoTag}
<1>1. object \in Nat /\ object # NoTag
  BY LengthType, NoTagIsNoVersion DEF AssetInv, AssetTypeInv, Version
<1>2. QED
  BY <1>1 DEF Etag, TagOf

\* What an attempt holds of a version that is not served any more: it starts over, for
\* a cause not counted yet.
LEMMA LaterVersion ==
  ASSUME AssetInv, NEW w \in since..object, Seen(w), w # object
  PROVE  restarts + 1 <= (object - since) + (IF site.call = "download" THEN 1 ELSE 0)
<1>1. /\ object \in Nat /\ since \in Nat /\ w \in Nat /\ restarts \in Nat /\ w < object
      /\ restarts <= (w - since) + (IF site.call = "download" THEN 1 ELSE 0)
  BY LengthType, NoTagIsNoVersion DEF AssetInv, AssetTypeInv, Version, Seen
<1>2. CASE site.call = "download"
  BY <1>1, <1>2
<1>3. CASE site.call # "download"
  BY <1>1, <1>3
<1>4. QED
  BY <1>2, <1>3

\* One that resumes has not started over yet.
LEMMA ResumedOnce ==
  ASSUME AssetInv, phase \notin Resting, resumeEtag # NoTag
  PROVE  /\ restarts + 1 <= (object - since) + (IF site.call = "download" THEN 1 ELSE 0)
         /\ site.call = "download"
<1>1. restarts = 0 /\ site.call = "download" /\ object - since \in Nat
  BY LengthType DEF AssetInv, ResumeInv, AssetTypeInv, Version
<1>2. QED
  BY <1>1

\* Head_ goes on with the length and the ETag of what is served.
LEMMA HeadStep == AssetInv /\ Head_ => AssetInv'
<1> SUFFICES ASSUME AssetInv, Head_ PROVE AssetInv'
  OBVIOUS
<1>1. /\ phase = "head" /\ phase \notin Resting /\ phase \in Asking
      /\ UNCHANGED <<object, saved, since, site>> /\ SameSite
  BY SiteStays DEF Head_, Resting, Asking
<1>2. site.encrypted /\ site.call # "read" /\ site.corsSafe
  BY <1>1 DEF AssetInv, PhaseInv
<1>3. CASE resumeEtag # NoTag /\ Etag # resumeEtag
  BY <1>1, <1>2, <1>3, ResumedOnce, RestartingStep DEF Head_
<1>4. CASE ~(resumeEtag # NoTag /\ Etag # resumeEtag)
  <2>1. /\ known_' = [known_ EXCEPT !.etag = Etag, !.total = Length[object]]
        /\ phase' = "first" /\ Keeps
    BY <1>4 DEF Head_
  <2>2. /\ Etag = TagOf(object) /\ object \in Nat /\ Etag \in Nat \cup {NoTag}
        /\ Length[object] \in Nat
    BY EtagIsTag, LengthType DEF AssetInv, AssetTypeInv
  <2>3. /\ known_' \in KnownType
        /\ known_'.etag = TagOf(object) /\ known_'.total = Length[object]
    BY <2>1, <2>2 DEF AssetInv, AssetTypeInv, KnownType
  <2>4. AssetTypeInv'
    BY <1>1, <2>1, <2>3 DEF AssetInv, AssetTypeInv, Keeps, Asking
  <2>5. PhaseInv'
    BY <1>1, <1>2, <2>1 DEF PhaseInv
  <2>6. SavedInv' /\ SinkIsOneObject'
    BY <1>1, <2>1 DEF AssetInv, SavedInv, SinkIsOneObject, TagOf, Keeps
  <2>7. ResumeInv'
    BY <1>1, <2>1 DEF AssetInv, ResumeInv, Keeps, Asking
  <2>8. SeenInv'
    <3>1. resumeEtag # NoTag => resumeEtag = object
      BY <1>4, <2>2 DEF TagOf
    <3>2. RestartsAreCaused /\ RestartsAreCaused'
      BY <1>1, <2>1 DEF AssetInv, SeenInv, RestartsAreCaused, Keeps
    <3>3. Seen(object)'
      BY <1>1, <2>1, <2>3, <3>1, <3>2 DEF Seen, RestartsAreCaused, Keeps, TagOf
    <3>4. object \in since'..object' /\ object = object'
      BY <1>1, <2>2 DEF AssetInv, AssetTypeInv
    <3>5. \E w \in since'..object' : Seen(w)'
      BY <1>1, <3>3, <3>4 DEF Seen, TagOf
    <3>6. QED
      BY <3>2, <3>5 DEF SeenInv
  <2>9. BodyInv' /\ EmitInv' /\ ChunkInv' /\ DoneIsExact'
    BY <2>1 DEF BodyInv, EmitInv, ChunkInv, DoneIsExact, Reading
  <2>10. QED
    BY <2>4, <2>5, <2>6, <2>7, <2>8, <2>9 DEF AssetInv
<1>5. QED
  BY <1>3, <1>4

LEMMA SegmentOfIncreases ==
  ASSUME NEW p \in Nat, NEW q \in Nat, p <= q
  PROVE  SegmentOf(p) <= SegmentOf(q)
<1>1. SegmentOf(p) \in Nat /\ PlainStart(SegmentOf(p)) <= p
  BY SegmentIsAt
<1>2. PlainStart(SegmentOf(p)) \in Nat
  BY <1>1, PlainStartType
<1>3. PlainStart(SegmentOf(p)) <= q
  BY <1>1, <1>2
<1>4. QED
  BY <1>1, <1>3, SegmentBefore

\* A window of `total` units: what is wanted of them, or the last segment.
LEMMA PlanIs ==
  ASSUME AssetInv, NEW total \in Nat
  PROVE  LET p == Plan(total)
         IN  /\ {p.start, p.end, p.next, p.last} \subseteq Nat
             /\ p.start <= p.end /\ p.next <= p.last
             /\ p.start = Least(From, total)
             /\ p.end = IF site.call = "download" THEN total ELSE Least(site.to, total)
             /\ p.start = p.end => /\ p.start = total /\ p.next = SegmentsOf(total) - 1
                                   /\ p.last = p.next
             /\ p.start # p.end => /\ p.next = SegmentOf(p.start)
                                   /\ p.last = SegmentOf(p.end - 1)
             /\ p.next < SegmentsOf(total)
<1> DEFINE s == Least(From, total)
           e == IF site.call = "download" THEN total ELSE Least(site.to, total)
           p == Plan(total)
<1>1. /\ p.start = s /\ p.end = e
      /\ p.next = IF s >= e THEN SegmentsOf(total) - 1 ELSE SegmentOf(s)
      /\ p.last = IF s >= e THEN SegmentsOf(total) - 1 ELSE SegmentOf(e - 1)
  BY DEF Plan
<1>2. /\ s \in Nat /\ e \in Nat /\ s <= e /\ e <= total
      /\ s = e => s = total
  BY DEF AssetInv, AssetTypeInv, SiteType, From, Least
<1>3. SegmentsOf(total) \in Nat /\ SegmentsOf(total) - 1 \in Nat
  BY SegmentsCover
<1>4. ASSUME s < e
      PROVE  /\ SegmentOf(s) \in Nat /\ SegmentOf(e - 1) \in Nat
             /\ SegmentOf(s) <= SegmentOf(e - 1) /\ SegmentOf(s) < SegmentsOf(total)
  <2>1. e - 1 \in Nat /\ total - 1 \in Nat /\ s <= e - 1 /\ s <= total - 1 /\ total # 0
    BY <1>2, <1>4
  <2>2. /\ SegmentOf(s) \in Nat /\ SegmentOf(e - 1) \in Nat /\ SegmentOf(total - 1) \in Nat
        /\ SegmentOf(s) <= SegmentOf(e - 1) /\ SegmentOf(s) <= SegmentOf(total - 1)
    BY <1>2, <2>1, SegmentIsAt, SegmentOfIncreases
  <2>3. SegmentsOf(total) - 1 = SegmentOf(total - 1)
    BY <2>1, SegmentsCover
  <2>4. QED
    BY <1>3, <2>2, <2>3
<1> HIDE DEF s, e, p
<1>5. QED
  BY <1>1, <1>2, <1>3, <1>4 DEF s, e, p

LEMMA UnitsEmpty ==
  ASSUME NEW v \in Version, NEW a \in Nat
  PROVE  Units(v, a, a) = <<>>
<1>1. Units(v, a, a) \in Seq(Unit) /\ Len(Units(v, a, a)) = a - a
  BY UnitsType
<1>2. Len(Units(v, a, a)) = 0
  BY <1>1
<1>3. QED
  BY <1>1, <1>2, EmptySeq

\* An attempt has the body it may: what it resumed is of the same object, or nothing.
LEMMA OpeningStep ==
  ASSUME AssetInv, NEW known \in KnownType, OpenBundle(known),
         UNCHANGED <<object, saved, since, site>>,
         phase \in {"first", "segments", "whole"},
         site.call # "read",
         known.etag # NoTag => known.etag \in 1..object /\ TagOf(known.etag) = known.etag,
         resumeEtag # NoTag => resumeEtag = object /\ known.total = Length[object]
  PROVE  AssetInv'
<1> DEFINE p == Plan(known.total)
<1>1. /\ known_' = [known EXCEPT !.body = object, !.start = p.start, !.end = p.end,
                                 !.next = p.next, !.last = p.last]
      /\ phase' = "emit" /\ Keeps /\ SameSite
      /\ phase \notin Resting /\ phase \in Asking
  BY SiteStays DEF OpenBundle, Resting, Asking
<1>2. /\ known.total \in Nat /\ object \in Nat /\ object \in Version
      /\ since \in Nat /\ since <= object
  BY LengthType DEF KnownType, AssetInv, AssetTypeInv, Version
<1>3. /\ {p.start, p.end, p.next, p.last} \subseteq Nat
      /\ p.start <= p.end /\ p.next <= p.last
      /\ p.start = Least(From, known.total)
      /\ p.end = IF site.call = "download" THEN known.total
                 ELSE Least(site.to, known.total)
      /\ p.start = p.end => /\ p.start = known.total
                            /\ p.next = SegmentsOf(known.total) - 1 /\ p.last = p.next
      /\ p.start # p.end => p.next = SegmentOf(p.start) /\ p.last = SegmentOf(p.end - 1)
  BY <1>2, PlanIs
<1> HIDE DEF p
<1>4. /\ known_' \in KnownType /\ known_'.etag = known.etag
      /\ known_'.total = known.total /\ known_'.body = object
      /\ known_'.start = p.start /\ known_'.end = p.end
      /\ known_'.next = p.next /\ known_'.last = p.last
  BY <1>1, <1>2, <1>3 DEF KnownType
<1>5. AssetTypeInv'
  BY <1>1, <1>4 DEF AssetInv, AssetTypeInv, Keeps, Reading
<1>6. PhaseInv'
  <2>1. site.encrypted
    BY DEF AssetInv, PhaseInv
  <2>2. QED
    BY <1>1, <2>1 DEF PhaseInv
<1>7. SavedInv' /\ SinkIsOneObject'
  BY <1>1 DEF AssetInv, SavedInv, SinkIsOneObject, TagOf, Keeps
<1>8. ResumeInv'
  BY <1>1 DEF AssetInv, ResumeInv, Keeps, Asking
<1>9. SeenInv'
  BY <1>1 DEF AssetInv, SeenInv, RestartsAreCaused, Keeps
<1>10. BodyInv'
  BY <1>2, <1>4 DEF BodyInv, TagOf
<1>11. EmitInv'
  <2>1. resumeEtag = NoTag => sink = <<>> /\ written = 0
    BY <1>1, EmptySeq DEF AssetInv, AssetTypeInv, ResumeInv
  <2>2. From \in Nat /\ (site.call # "download" => From = site.from /\ resumeEtag = NoTag)
    BY <1>1 DEF AssetInv, AssetTypeInv, ResumeInv, From, SiteType
  <2>3. ASSUME p.start < p.end
        PROVE  PlainStart(p.next) \in Nat /\ PlainStart(p.next) <= p.start
    BY <1>3, <2>3, SegmentIsAt, PlainStartType
  <2>4. Position' = p.start
    BY <1>3, <1>4, <2>3 DEF Position, Most
  <2>5. sink = Units(object, Base', p.start)
    <3>1. CASE resumeEtag = NoTag
      <4>1. Base' = p.start
        BY <1>1, <1>2, <1>3, <1>4, <2>1, <3>1 DEF Base, From, Least
      <4>2. QED
        BY <1>2, <1>3, <2>1, <3>1, <4>1, UnitsEmpty
    <3>2. CASE resumeEtag # NoTag
      <4>1. /\ site.call = "download" /\ object = saved /\ known.total = Length[object]
            /\ IsPrefix(sink, File(object))
        BY <1>1, <3>2 DEF AssetInv, ResumeInv, SavedInv
      <4>2. Len(sink) <= Length[object] /\ sink = Units(object, 0, Len(sink))
        BY <1>2, <4>1, PrefixIsUnits, LengthType DEF File, AssetInv, AssetTypeInv
      <4>3. written = Len(sink) /\ written \in Nat
        BY <1>1 DEF AssetInv, AssetTypeInv
      <4>4. p.start = written /\ Base' = 0
        BY <1>1, <1>2, <1>3, <4>1, <4>2, <4>3 DEF From, Least, Base
      <4>5. QED
        BY <4>2, <4>3, <4>4
    <3>3. QED
      BY <3>1, <3>2
  <2>6. sink' = Units(known_'.body, Base', Position')
    BY <1>1, <1>4, <2>4, <2>5 DEF Keeps
  <2>7. /\ IF site'.call = "download" THEN known_'.end = known_'.total
           ELSE /\ known_'.start = Least(site'.from, known_'.total)
                /\ known_'.end = Least(site'.to, known_'.total)
    BY <1>1, <1>3, <1>4, <2>2
  <2>8. IF known_'.start = known_'.end
        THEN /\ known_'.next = SegmentsOf(known_'.total) - 1 /\ known_'.last = known_'.next
             /\ known_'.start = known_'.total
        ELSE /\ SegmentOf(known_'.start) <= known_'.next /\ known_'.next <= known_'.last
             /\ known_'.last = SegmentOf(known_'.end - 1)
    BY <1>3, <1>4
  <2>9. known_'.start <= known_'.end
    BY <1>3, <1>4
  <2>10. QED
    BY <2>6, <2>7, <2>8, <2>9 DEF EmitInv
<1>12. ChunkInv' /\ DoneIsExact'
  BY <1>1 DEF ChunkInv, DoneIsExact
<1>13. QED
  BY <1>5, <1>6, <1>7, <1>8, <1>9, <1>10, <1>11, <1>12 DEF AssetInv

\* What each checked on the answer to a ranged request says of what is served.
LEMMA VerdictIs ==
  ASSUME NEW etag, NEW total, NEW ifRange, NEW beyond \in BOOLEAN
  PROVE  LET checked == CheckRanged(etag, total, ifRange, beyond)
             unnamed == ifRange # NoTag /\ site.ifRange /\ ifRange # Etag
         IN  /\ checked \in {"changed", "failed", "ok"}
             /\ checked = "ok" =>
                  /\ site.ranges /\ ~unnamed /\ ~IsAnother(etag, ifRange)
             /\ checked = "changed" =>
                  \/ unnamed \/ (ifRange # NoTag /\ ~site.ranges)
                  \/ etag # NoTag /\ Etag # etag
                  \/ site.ranges /\ beyond
                  \/ total # NoTag /\ Length[object] # total
<1> DEFINE unnamed == ifRange # NoTag /\ site.ifRange /\ ifRange # Etag
           status == Status(ifRange, beyond)
<1>1. CASE ~site.ranges \/ unnamed
  <2>1. status = 200
    BY <1>1 DEF Status
  <2>2. QED
    BY <1>1, <2>1 DEF CheckRanged
<1>2. CASE ~(~site.ranges \/ unnamed) /\ beyond
  <2>1. status = 416
    BY <1>2 DEF Status
  <2>2. QED
    BY <1>2, <2>1 DEF CheckRanged
<1>3. CASE ~(~site.ranges \/ unnamed) /\ ~beyond
  <2>1. status = 206
    BY <1>3 DEF Status
  <2>2. QED
    BY <1>3, <2>1 DEF CheckRanged, IsAnother
<1>4. QED
  BY <1>1, <1>2, <1>3

\* Who has what is served holds it, and whose attempt does, resumes that.
LEMMA HeldIsServed ==
  ASSUME AssetInv, phase \in Asking, NEW w \in since..object, Seen(w),
         known_.etag # NoTag => Etag = known_.etag
  PROVE  /\ known_.etag # NoTag =>
              known_.etag \in 1..object /\ TagOf(known_.etag) = known_.etag
         /\ resumeEtag # NoTag => resumeEtag = object /\ known_.total = Length[object]
<1>1. /\ Etag = TagOf(object) /\ object \in Nat /\ since \in 1..object
      /\ phase \notin Resting
  BY EtagIsTag DEF AssetInv, AssetTypeInv, Asking, Resting
<1>2. known_.etag = TagOf(w) /\ known_.total = Length[w]
  BY DEF Seen
<1>3. known_.etag # NoTag => known_.etag = w /\ w \in 1..object
  BY <1>1, <1>2 DEF TagOf
<1>4. known_.etag # NoTag => w = object
  BY <1>1, <1>3 DEF TagOf
<1>5. resumeEtag # NoTag => resumeEtag = w /\ resumeEtag = saved
  BY <1>1 DEF Seen, AssetInv, ResumeInv
<1>6. resumeEtag # NoTag => known_.etag = w /\ known_.etag # NoTag
  BY <1>2, <1>5 DEF AssetInv, SavedInv
<1>7. QED
  BY <1>2, <1>3, <1>4, <1>5, <1>6

\* A browser goes on to the segments, of the version its HEAD was of.
LEMMA SegmentsNextStep ==
  ASSUME AssetInv, NEW known \in KnownType, phase = "first", site.ranges,
         known_' = known, phase' = "segments", Keeps,
         UNCHANGED <<object, saved, since, site>>,
         \E w \in since..object :
           /\ restarts <= (w - since) + (IF site.call = "download" THEN 1 ELSE 0)
           /\ known.etag = TagOf(w) /\ known.total = Length[w]
           /\ resumeEtag # NoTag => resumeEtag = w
  PROVE  AssetInv'
<1>1. phase \notin Resting /\ phase \in Asking
  BY DEF Resting, Asking
<1>2. AssetTypeInv'
  BY <1>1 DEF AssetInv, AssetTypeInv, Keeps, Asking
<1>3. PhaseInv'
  BY DEF AssetInv, PhaseInv
<1>4. SavedInv' /\ SinkIsOneObject'
  BY DEF AssetInv, SavedInv, SinkIsOneObject, TagOf, Keeps
<1>5. ResumeInv'
  BY <1>1 DEF AssetInv, ResumeInv, Keeps
<1>6. SeenInv'
  <2>1. RestartsAreCaused'
    BY DEF AssetInv, SeenInv, RestartsAreCaused, Keeps
  <2>2. \E w \in since'..object' : Seen(w)'
    BY DEF Seen, TagOf, Keeps
  <2>3. QED
    BY <2>1, <2>2 DEF SeenInv
<1>7. BodyInv' /\ EmitInv' /\ ChunkInv' /\ DoneIsExact'
  BY DEF BodyInv, EmitInv, ChunkInv, DoneIsExact, Reading
<1>8. QED
  BY <1>2, <1>3, <1>4, <1>5, <1>6, <1>7 DEF AssetInv

LEMMA FirstStep == AssetInv /\ First => AssetInv'
<1> SUFFICES ASSUME AssetInv, First PROVE AssetInv'
  OBVIOUS
<1> DEFINE asked == IF site.corsSafe THEN known_.etag ELSE resumeEtag
           ifRange == IfRange(resumeEtag)
           total == IF site.corsSafe THEN known_.total ELSE NoTag
           known == [known_ EXCEPT !.key = object,
                       !.total = IF site.corsSafe THEN @ ELSE Length[object],
                       !.etag = IF site.corsSafe THEN @
                                ELSE IF Etag = NoTag THEN resumeEtag ELSE Etag]
           checked == CheckRanged(asked, total, ifRange, FALSE)
<1>1. /\ phase = "first" /\ phase \notin Resting /\ phase \in Asking
      /\ UNCHANGED <<object, saved, since, site>> /\ SameSite
      /\ site.encrypted /\ site.call # "read"
  BY SiteStays DEF First, Resting, Asking, AssetInv, PhaseInv
<1>2. /\ checked \in {"changed", "failed", "ok"}
      /\ checked = "ok" =>
           /\ site.ranges /\ ~(ifRange # NoTag /\ site.ifRange /\ ifRange # Etag)
           /\ ~IsAnother(asked, ifRange)
      /\ checked = "changed" =>
           \/ ifRange # NoTag /\ site.ifRange /\ ifRange # Etag
           \/ ifRange # NoTag /\ ~site.ranges
           \/ asked # NoTag /\ Etag # asked
           \/ total # NoTag /\ Length[object] # total
  <2> HIDE DEF asked, ifRange, total
  <2>1. QED
    BY VerdictIs
<1>3. \/ checked = "changed" /\ Restarts
      \/ checked = "failed" /\ Fails
      \/ checked = "ok" /\ OpenBundle(known)
      \/ checked = "ok" /\ known_' = known /\ phase' = "segments" /\ Keeps
  BY <1>2 DEF First, Settles
<1>4. /\ Etag = TagOf(object) /\ object \in Nat /\ object # NoTag
      /\ Etag \in Nat \cup {NoTag} /\ Length[object] \in Nat /\ since \in 1..object
      /\ resumeEtag \in Nat \cup {NoTag} /\ known_ \in KnownType
  BY EtagIsTag, LengthType DEF AssetInv, AssetTypeInv
<1> HIDE DEF checked
<1>5. known \in KnownType
  BY <1>4 DEF KnownType
<1>6. CASE checked = "failed" /\ Fails
  BY <1>1, <1>6, FailingStep DEF Fails
<1>7. CASE site.corsSafe
  <2>1. PICK w \in since..object : Seen(w)
    BY <1>1, <1>7 DEF AssetInv, SeenInv
  <2>2. /\ ifRange = NoTag /\ asked = known_.etag /\ known_.etag = TagOf(w)
        /\ known.etag = known_.etag /\ known.total = known_.total /\ total = Length[w]
    BY <1>4, <1>7, <2>1 DEF IfRange, Seen, KnownType
  <2>3. CASE checked = "changed" /\ Restarts
    BY <1>1, <1>2, <1>4, <2>1, <2>2, <2>3, LaterVersion, RestartingStep DEF TagOf
  <2>4. ASSUME checked = "ok"
        PROVE  known_.etag # NoTag => Etag = known_.etag
    BY <1>2, <2>2, <2>4 DEF IsAnother
  <2>5. CASE checked = "ok" /\ OpenBundle(known)
    BY <1>1, <1>5, <2>1, <2>2, <2>4, <2>5, HeldIsServed, OpeningStep
  <2>6. CASE checked = "ok" /\ known_' = known /\ phase' = "segments" /\ Keeps
    BY <1>1, <1>2, <1>5, <2>1, <2>2, <2>6, SegmentsNextStep DEF Seen
  <2>7. QED
    BY <1>3, <1>6, <2>3, <2>5, <2>6
<1>8. CASE ~site.corsSafe
  <2>1. asked = resumeEtag /\ total = NoTag
    BY <1>8
  <2>2. CASE checked = "changed" /\ Restarts
    <3>1. resumeEtag # NoTag
      BY <1>2, <2>1, <2>2 DEF IfRange
    <3>2. QED
      BY <1>1, <2>2, <3>1, ResumedOnce, RestartingStep
  <2>3. ASSUME checked = "ok"
        PROVE  resumeEtag # NoTag => resumeEtag = object /\ Etag = object
    <3>1. SUFFICES ASSUME resumeEtag # NoTag
                   PROVE  resumeEtag = object /\ Etag = object
      OBVIOUS
    <3>2. CASE Etag = resumeEtag
      BY <1>4, <3>1, <3>2 DEF TagOf
    <3>3. CASE Etag # resumeEtag
      <4>1. Etag = NoTag /\ ifRange # NoTag /\ ifRange # Etag
        BY <1>2, <2>1, <2>3, <3>1, <3>3 DEF IsAnother
      <4>2. ~site.ifRange /\ site.etag \in {"strong", "once"}
        BY <1>2, <2>3, <4>1 DEF IfRange
      <4>3. site.etag = "strong"
        BY <4>2 DEF AssetInv, AssetTypeInv
      <4>4. QED
        BY <1>4, <4>1, <4>3 DEF TagOf
    <3>4. QED
      BY <3>2, <3>3
  <2>4. ASSUME checked = "ok"
        PROVE  known.etag = TagOf(object) /\ known.total = Length[object]
    BY <1>4, <1>8, <2>3, <2>4 DEF KnownType
  <2>5. CASE checked = "ok" /\ OpenBundle(known)
    <3>1. known.etag # NoTag => known.etag \in 1..object /\ TagOf(known.etag) = known.etag
      BY <1>4, <2>4, <2>5 DEF TagOf
    <3>2. QED
      BY <1>1, <1>5, <2>3, <2>4, <2>5, <3>1, OpeningStep
  <2>6. CASE checked = "ok" /\ known_' = known /\ phase' = "segments" /\ Keeps
    <3>1. /\ object \in since..object
          /\ restarts <= (object - since) + (IF site.call = "download" THEN 1 ELSE 0)
      BY <1>4 DEF AssetInv, SeenInv, RestartsAreCaused
    <3>2. QED
      BY <1>1, <1>2, <1>5, <2>3, <2>4, <2>6, <3>1, SegmentsNextStep
  <2>7. QED
    BY <1>3, <1>6, <2>2, <2>5, <2>6
<1>9. QED
  BY <1>7, <1>8

LEMMA SegmentsStep == AssetInv /\ Segments => AssetInv'
<1> SUFFICES ASSUME AssetInv, Segments PROVE AssetInv'
  OBVIOUS
<1> DEFINE ifRange == IfRange(known_.etag)
           beyond == Plan(known_.total).next >= SegmentsOf(Length[object])
           checked == CheckRanged(known_.etag, known_.total, ifRange, beyond)
<1>1. /\ phase = "segments" /\ phase \notin Resting /\ phase \in Asking
      /\ UNCHANGED <<object, saved, since, site>> /\ SameSite
      /\ site.call # "read" /\ site.ranges
  BY SiteStays DEF Segments, Resting, Asking, AssetInv, PhaseInv
<1>2. /\ checked \in {"changed", "failed", "ok"}
      /\ checked = "ok" =>
           /\ ~(ifRange # NoTag /\ site.ifRange /\ ifRange # Etag)
           /\ ~IsAnother(known_.etag, ifRange)
      /\ checked = "changed" =>
           \/ ifRange # NoTag /\ site.ifRange /\ ifRange # Etag
           \/ ifRange # NoTag /\ ~site.ranges
           \/ known_.etag # NoTag /\ Etag # known_.etag
           \/ beyond
           \/ known_.total # NoTag /\ Length[object] # known_.total
  <2>1. beyond \in BOOLEAN
    OBVIOUS
  <2> HIDE DEF ifRange, beyond
  <2>2. QED
    BY <2>1, VerdictIs
<1>3. \/ checked = "changed" /\ Restarts
      \/ checked = "failed" /\ Fails
      \/ checked = "ok" /\ OpenBundle(known_)
  BY <1>2 DEF Segments, Settles
<1>4. /\ Etag = TagOf(object) /\ object \in Nat /\ object # NoTag /\ Length[object] \in Nat
      /\ since \in 1..object /\ known_ \in KnownType
  BY EtagIsTag, LengthType DEF AssetInv, AssetTypeInv
<1>5. PICK w \in since..object : Seen(w)
  BY <1>1 DEF AssetInv, SeenInv
<1>6. known_.etag = TagOf(w) /\ known_.total = Length[w] /\ known_.total \in Nat
  BY <1>4, <1>5 DEF Seen, KnownType
<1>7. ifRange # NoTag => /\ ifRange = known_.etag /\ site.etag \in {"strong", "once"}
                         /\ ~site.corsSafe
  BY DEF IfRange
<1>8. w = object => ~beyond
  BY <1>4, <1>6, PlanIs, SegmentsCover
<1> HIDE DEF checked, beyond, ifRange
<1>9. CASE checked = "changed" /\ Restarts
  <2>1. w # object
    BY <1>1, <1>2, <1>4, <1>6, <1>7, <1>8, <1>9
  <2>2. QED
    BY <1>1, <1>5, <1>9, <2>1, LaterVersion, RestartingStep
<1>10. CASE checked = "failed" /\ Fails
  BY <1>1, <1>10, FailingStep DEF Fails
<1>11. CASE checked = "ok" /\ OpenBundle(known_)
  <2>1. known_.etag # NoTag => Etag = known_.etag
    <3>1. SUFFICES ASSUME known_.etag # NoTag, Etag # known_.etag PROVE FALSE
      OBVIOUS
    <3>2. Etag = NoTag /\ ifRange # NoTag /\ ~site.ifRange
      BY <1>2, <1>11, <3>1 DEF IsAnother
    <3>3. site.etag = "strong"
      BY <1>7, <3>2 DEF AssetInv, AssetTypeInv
    <3>4. QED
      BY <1>4, <3>2, <3>3 DEF TagOf
  <2>2. QED
    BY <1>1, <1>4, <1>5, <1>11, <2>1, HeldIsServed, OpeningStep
<1>12. QED
  BY <1>3, <1>9, <1>10, <1>11

LEMMA WholeStep == AssetInv /\ Whole => AssetInv'
<1> SUFFICES ASSUME AssetInv, Whole PROVE AssetInv'
  OBVIOUS
<1>1. /\ phase = "whole" /\ phase \notin Resting /\ phase \in Asking
      /\ UNCHANGED <<object, saved, since, site>> /\ site.call # "read"
  BY DEF Whole, Resting, Asking
<1>2. PICK w \in since..object : Seen(w)
  BY <1>1 DEF AssetInv, SeenInv
<1>3. /\ Etag = TagOf(object) /\ object \in Nat /\ known_ \in KnownType
  BY EtagIsTag DEF AssetInv, AssetTypeInv
<1>4. CASE known_.etag # NoTag /\ Etag # known_.etag
  <2>1. Restarts
    BY <1>4 DEF Whole
  <2>2. w # object
    BY <1>2, <1>3, <1>4 DEF Seen
  <2>3. QED
    BY <1>1, <1>2, <2>1, <2>2, LaterVersion, RestartingStep
<1>5. CASE ~(known_.etag # NoTag /\ Etag # known_.etag)
  <2> DEFINE known == [known_ EXCEPT !.key = object]
  <2>1. OpenBundle(known)
    BY <1>5 DEF Whole
  <2>2. known \in KnownType /\ known.etag = known_.etag /\ known.total = known_.total
    BY <1>3 DEF KnownType
  <2> HIDE DEF known
  <2>3. /\ known.etag # NoTag => known.etag \in 1..object /\ TagOf(known.etag) = known.etag
        /\ resumeEtag # NoTag => resumeEtag = object /\ known.total = Length[object]
    BY <1>1, <1>2, <1>5, <2>2, HeldIsServed
  <2>4. QED
    BY <1>1, <2>1, <2>2, <2>3, OpeningStep
<1>6. QED
  BY <1>4, <1>5

LEMMA VersionsLength ==
  ASSUME AssetInv, phase \in Reading
  PROVE  /\ known_.body \in Version /\ Length[known_.body] \in Nat
         /\ known_.body \in since..object /\ object \in Version
         /\ object \in Nat /\ since \in 1..object /\ known_ \in KnownType
         /\ {known_.start, known_.end, known_.next, known_.last, known_.total} \subseteq Nat
<1>1. /\ known_.body \in since..object /\ since \in 1..object /\ object \in Version
      /\ known_ \in KnownType
  BY DEF AssetInv, AssetTypeInv, BodyInv
<1>2. known_.body \in Version /\ object \in Nat
  BY <1>1, LengthType DEF Version
<1>3. QED
  BY <1>1, <1>2, LengthType DEF KnownType

\* A segment that verifies is the next of the body, and within it.
LEMMA SegmentGivesUnits ==
  ASSUME AssetInv, phase = "emit", Verifies(known_.next)
  PROVE  LET i == known_.next
             lo == Most(known_.start, PlainStart(i))
             hi == Least(known_.end, PlainStart(i + 1))
         IN  /\ hi \in Nat /\ hi <= Length[known_.body]
             /\ Base \in Nat /\ Base <= hi
             /\ sink \o Units(known_.body, lo, Most(lo, hi)) = Units(known_.body, Base, hi)
             /\ i = known_.last => hi = known_.end
             /\ i # known_.last => /\ known_.start < known_.end /\ i < known_.last
                                   /\ hi = PlainStart(i + 1) /\ known_.start < hi
<1> DEFINE i == known_.next
           lo == Most(known_.start, PlainStart(i))
           hi == Least(known_.end, PlainStart(i + 1))
           start == known_.start
           end == known_.end
           total == known_.total
           last == known_.last
           real == Length[known_.body]
<1>1. phase \in Reading
  BY DEF Reading
<1>2. /\ known_.body \in Version /\ real \in Nat
      /\ start \in Nat /\ end \in Nat /\ i \in Nat /\ last \in Nat /\ total \in Nat
  BY <1>1, VersionsLength
<1>3. /\ PlainStart(i) \in Nat /\ PlainStart(i + 1) \in Nat
      /\ PlainStart(i) < PlainStart(i + 1)
  BY <1>2, PlainStartType, PlainStartIncreases
<1>4. /\ start <= end /\ end <= total
      /\ start = end => /\ i = SegmentsOf(total) - 1 /\ last = i /\ start = total
      /\ start # end => /\ SegmentOf(start) <= i /\ i <= last /\ last = SegmentOf(end - 1)
      /\ sink = Units(known_.body, Base, Position)
  <2>1. /\ start <= end
        /\ start = end => /\ i = SegmentsOf(total) - 1 /\ last = i /\ start = total
        /\ start # end => /\ SegmentOf(start) <= i /\ i <= last
                          /\ last = SegmentOf(end - 1)
        /\ sink = Units(known_.body, Base, Position)
        /\ IF site.call = "download" THEN end = total ELSE end = Least(site.to, total)
    BY DEF AssetInv, EmitInv
  <2>2. site.to \in Nat
    BY DEF AssetInv, AssetTypeInv, SiteType
  <2>3. end <= total
    BY <1>2, <2>1, <2>2 DEF Least
  <2>4. QED
    BY <2>1, <2>3
<1>5. Base \in Nat /\ Base <= start
  BY <1>2 DEF Base
<1>6. CASE start = end
  <2>1. PlainStart(i) <= total /\ total <= PlainStart(i + 1)
    <3>1. SegmentsOf(total) \in Nat \ {0}
      BY <1>2, SegmentsCover
    <3>2. i + 1 = SegmentsOf(total)
      BY <1>4, <1>6, <3>1
    <3>3. QED
      BY <1>2, <1>4, <1>6, <3>2, SegmentsCover
  <2>2. lo = total /\ hi = total /\ Most(lo, hi) = total /\ Position = total
    BY <1>2, <1>3, <1>4, <1>6, <2>1 DEF Most, Least, Position
  <2>3. real = total
    BY <1>2, <1>4, <1>6, SegmentsCover DEF Verifies
  <2>4. sink \o Units(known_.body, lo, Most(lo, hi)) = Units(known_.body, Base, hi)
    BY <1>2, <1>4, <1>5, <1>6, <2>2, UnitsJoin, SMTT(60)
  <2>5. QED
    BY <1>2, <1>4, <1>5, <1>6, <2>2, <2>3, <2>4
<1>7. CASE start # end
  <2>1. /\ start < end /\ end - 1 \in Nat
        /\ i + 1 \in Nat /\ last + 1 \in Nat
    BY <1>2, <1>4, <1>7
  <2>2. SegmentOf(start) \in Nat /\ SegmentOf(end - 1) \in Nat
    BY <1>2, <2>1, SegmentIsAt
  <2>3. start < PlainStart(i + 1)
    <3>1. ~(i + 1 <= SegmentOf(start))
      BY <1>2, <1>4, <1>7, <2>2
    <3>2. QED
      BY <1>2, <1>3, <2>1, <3>1, SegmentBefore
  <2>4. PlainStart(i) <= end - 1
    BY <1>2, <1>4, <1>7, <2>1, SegmentBefore
  <2>5. Position = lo /\ lo < hi /\ Most(lo, hi) = hi /\ hi \in Nat /\ lo \in Nat
        /\ start <= lo /\ start < hi
    BY <1>2, <1>3, <1>4, <1>7, <2>1, <2>3, <2>4 DEF Most, Least, Position
  <2>6. sink \o Units(known_.body, lo, Most(lo, hi)) = Units(known_.body, Base, hi)
    <3>1. sink = Units(known_.body, Base, lo) /\ Most(lo, hi) = hi
      BY <1>4, <1>7, <2>5
    <3>2. /\ known_.body \in Version /\ Base \in Nat /\ lo \in Nat /\ hi \in Nat
          /\ Base <= lo /\ lo <= hi
      BY <1>2, <1>5, <2>5
    <3> HIDE DEF lo, hi
    <3>3. Units(known_.body, Base, lo) \o Units(known_.body, lo, hi)
            = Units(known_.body, Base, hi)
      BY <3>2, UnitsJoin, Zenon
    <3>4. QED
      BY <3>1, <3>3
  <2>7. hi <= real
    <3>1. CASE i + 1 < SegmentsOf(real)
      <4>1. i < SegmentsOf(real) - 1
        BY <1>2, <3>1, SegmentsCover
      <4>2. PlainStart(i + 1) < real
        BY <1>2, <4>1, SegmentsCover
      <4>3. QED
        BY <1>2, <1>3, <4>2 DEF Least
    <3>2. CASE real = total
      BY <1>2, <1>3, <1>4, <3>2 DEF Least
    <3>3. QED
      BY <3>1, <3>2 DEF Verifies
  <2>8. i = last => hi = end
    <3>1. SUFFICES ASSUME i = last PROVE hi = end
      OBVIOUS
    <3>2. ~(PlainStart(i + 1) <= end - 1)
      <4>1. ~(i + 1 <= SegmentOf(end - 1))
        BY <1>2, <1>4, <1>7, <2>2, <3>1
      <4>2. QED
        BY <2>1, <4>1, SegmentBefore
    <3>3. QED
      BY <1>2, <1>3, <3>2 DEF Least
  <2>9. i # last => i < last /\ hi = PlainStart(i + 1)
    <3>1. SUFFICES ASSUME i # last PROVE i < last /\ hi = PlainStart(i + 1)
      OBVIOUS
    <3>2. i < last /\ i + 1 <= SegmentOf(end - 1)
      BY <1>2, <1>4, <1>7, <3>1
    <3>3. PlainStart(i + 1) <= end - 1
      BY <2>1, <3>2, SegmentBefore
    <3>4. QED
      BY <1>2, <1>3, <3>2, <3>3 DEF Least
  <2> HIDE DEF i, lo, hi, start, end, total, last, real
  <2>10. Base <= hi
    BY <1>2, <1>5, <2>5
  <2>11. QED
    BY <1>5, <2>1, <2>5, <2>6, <2>7, <2>8, <2>9, <2>10 DEF i, lo, hi, start, end, last, real
<1>8. QED
  BY <1>6, <1>7

\* The sink of a download that reads is the beginning of its body.
LEMMA BeginningIsPrefix ==
  ASSUME NEW v \in Version, NEW n \in Nat, n <= Length[v]
  PROVE  /\ Units(v, 0, n) \in Seq(Unit) /\ Len(Units(v, 0, n)) = n
         /\ IsPrefix(Units(v, 0, n), File(v))
<1>1. Length[v] \in Nat /\ 0 <= n /\ n - 0 = n
  BY LengthType
<1>2. Units(v, 0, n) \in Seq(Unit) /\ Len(Units(v, 0, n)) = n
  BY <1>1, UnitsType
<1>3. IsPrefix(Units(v, 0, n), File(v))
  BY <1>1, <1>2, PrefixIsUnits DEF File
<1>4. QED
  BY <1>2, <1>3

\* What the caller has, and hears, of a body that is read: all of it is of one version.
LEMMA ReadStep ==
  ASSUME AssetInv, phase \in Reading, SameSite, NEW n \in Nat, n <= Length[known_.body],
         site.call = "download" => sink' = Units(known_.body, 0, n),
         UNCHANGED <<object, since>>,
         saved' = saved \/ (site.call = "download" /\ saved' = known_.etag)
  PROVE  SavedInv' /\ SinkIsOneObject'
<1>1. /\ known_.body \in Version /\ object \in Nat /\ DOMAIN Length = Version
      /\ IsPrefix(Units(known_.body, 0, n), File(known_.body))
  BY VersionsLength, LengthType, BeginningIsPrefix
<1>2. SavedInv'
  <2>1. SUFFICES ASSUME saved' # NoTag
                 PROVE  /\ site.call = "download"
                        /\ saved' \in 1..object /\ TagOf(saved') = saved'
                        /\ saved' = object => known_.body = object
    BY <1>1, SameTag DEF SavedInv, SameSite
  <2>2. CASE saved' = saved
    BY <2>1, <2>2 DEF AssetInv, SavedInv, BodyInv
  <2>3. CASE site.call = "download" /\ saved' = known_.etag
    BY <2>1, <2>3 DEF AssetInv, BodyInv
  <2>4. QED
    BY <2>2, <2>3
<1>3. SinkIsOneObject'
  BY <1>1 DEF SinkIsOneObject, SameSite, File
<1>4. QED
  BY <1>2, <1>3

LEMMA GoneUnheardStep == AssetInv /\ GoneUnheard => AssetInv'
<1> SUFFICES ASSUME AssetInv, GoneUnheard PROVE AssetInv'
  OBVIOUS
<1>1. /\ phase \in Reading /\ phase' = "failed"
      /\ UNCHANGED <<object, known_, written, resumeEtag, restarts, saved, since>>
      /\ site' = [site EXCEPT !.fails = @ - 1] /\ site.fails > 0
  BY DEF GoneUnheard, Reading
<1>2. SameSite
  BY <1>1, FailsCounted DEF AssetInv, AssetTypeInv
<1>3. /\ known_.body \in Version /\ Length[known_.body] \in Nat
  BY <1>1, VersionsLength
<1>4. \E n \in Nat : /\ n <= Length[known_.body] /\ Base \in Nat /\ Base <= n
                     /\ sink' = Units(known_.body, Base, n)
                     /\ phase = "chunks" => Base = 0
  <2>1. CASE phase = "emit"
    BY <2>1, SegmentGivesUnits DEF GoneUnheard
  <2>2. CASE phase = "chunks"
    <3>1. /\ site.call = "download" /\ written < Length[known_.body] /\ written \in Nat
          /\ written = Len(sink) /\ sink \in Seq(Unit)
          /\ IsPrefix(sink, File(known_.body))
          /\ sink' = sink \o Units(known_.body, written, written + 1)
      BY <2>2 DEF GoneUnheard, AssetInv, AssetTypeInv, PhaseInv, ChunkInv, Resting
    <3>2. sink = Units(known_.body, 0, written)
      BY <1>3, <3>1, PrefixIsUnits DEF File
    <3>3. sink' = Units(known_.body, 0, written + 1)
      <4>1. Units(known_.body, 0, written) \o Units(known_.body, written, written + 1)
              = Units(known_.body, 0, written + 1)
        BY <1>3, <3>1, UnitsNext
      <4>2. QED
        BY <3>1, <3>2, <4>1
    <3>4. Base = 0 /\ written + 1 \in Nat /\ written + 1 <= Length[known_.body]
      BY <1>3, <3>1 DEF Base
    <3>5. QED
      BY <3>3, <3>4
  <2>3. QED
    BY <1>1, <2>1, <2>2 DEF Reading
<1>5. PICK n \in Nat : /\ n <= Length[known_.body] /\ Base \in Nat /\ Base <= n
                       /\ sink' = Units(known_.body, Base, n)
  BY <1>4
<1>6. sink' \in Seq(Unit)
  BY <1>3, <1>5, UnitsType
<1>7. SavedInv' /\ SinkIsOneObject'
  BY <1>1, <1>2, <1>5, ReadStep DEF Base
<1>8. AssetTypeInv'
  BY <1>1, <1>2, <1>6 DEF AssetInv, AssetTypeInv, SameSite, Resting
<1>9. PhaseInv' /\ ResumeInv' /\ BodyInv' /\ EmitInv' /\ ChunkInv' /\ DoneIsExact'
  BY <1>1 DEF PhaseInv, ResumeInv, BodyInv, EmitInv, ChunkInv, DoneIsExact, Resting, Reading
<1>10. SeenInv'
  BY <1>1, <1>2 DEF AssetInv, SeenInv, RestartsAreCaused, SameSite
<1>11. QED
  BY <1>7, <1>8, <1>9, <1>10 DEF AssetInv

\* A segment is handed over; after the last the call is done.
LEMMA EmitStep == AssetInv /\ Emit => AssetInv'
<1> SUFFICES ASSUME AssetInv, Emit PROVE AssetInv'
  OBVIOUS
<1>1. /\ phase = "emit" /\ phase \in Reading /\ phase \notin Resting
      /\ UNCHANGED <<object, since, site>> /\ SameSite
      /\ site.call # "read" /\ site.encrypted
  BY SiteStays DEF Emit, Reading, Resting, AssetInv, PhaseInv
<1>2. CASE ~Verifies(known_.next)
  BY <1>1, <1>2, FailingStep DEF Emit, Fails
<1>3. CASE Verifies(known_.next)
  <2> DEFINE i == known_.next
             lo == Most(known_.start, PlainStart(i))
             hi == Least(known_.end, PlainStart(i + 1))
             real == Length[known_.body]
  <2>1. /\ sink' = sink \o Units(known_.body, lo, Most(lo, hi)) /\ written' = Len(sink')
        /\ saved' = IF site.call = "download" THEN known_.etag ELSE saved
        /\ known_' = [known_ EXCEPT !.next = @ + 1]
        /\ phase' = IF i = known_.last THEN "done" ELSE "emit"
        /\ UNCHANGED <<resumeEtag, restarts>>
    BY <1>3 DEF Emit
  <2>2. /\ hi \in Nat /\ hi <= real /\ Base \in Nat /\ Base <= hi
        /\ sink' = Units(known_.body, Base, hi)
        /\ i = known_.last => hi = known_.end
        /\ i # known_.last => /\ known_.start < known_.end /\ i < known_.last
                              /\ hi = PlainStart(i + 1) /\ known_.start < hi
    BY <1>1, <1>3, <2>1, SegmentGivesUnits
  <2> HIDE DEF hi, lo
  <2>3. /\ known_.body \in Version /\ real \in Nat /\ known_.body \in since..object
        /\ object \in Nat /\ since \in 1..object /\ known_ \in KnownType
        /\ i \in Nat /\ known_.start \in Nat /\ known_.end \in Nat /\ known_.last \in Nat
        /\ known_.total \in Nat
    BY <1>1, VersionsLength
  <2>4. /\ known_' \in KnownType /\ known_'.etag = known_.etag
        /\ known_'.total = known_.total /\ known_'.body = known_.body
        /\ known_'.start = known_.start /\ known_'.end = known_.end
        /\ known_'.next = i + 1 /\ known_'.last = known_.last
    <3>1. /\ known_' = [known_ EXCEPT !.next = known_.next + 1]
          /\ known_.next + 1 \in Nat /\ known_ \in KnownType
      BY <2>1, <2>3, SMTT(60)
    <3>2. known_' \in KnownType
      BY <3>1 DEF KnownType
    <3>3. QED
      BY <3>1, <3>2 DEF KnownType
  <2>5. AssetTypeInv'
    <3>1. sink' \in Seq(Unit) /\ Len(sink') \in Nat
      <4>1. known_.body \in Version /\ Base \in Nat /\ hi \in Nat /\ Base <= hi
        BY <2>2, <2>3
      <4>2. Units(known_.body, Base, hi) \in Seq(Unit)
        BY <4>1, UnitsType, Zenon
      <4>3. QED
        BY <2>2, <4>2
    <3>2. phase' \in Resting \cup Asking \cup Reading
      BY <2>1 DEF Resting, Reading
    <3>3. {resumeEtag', saved'} \subseteq Nat \cup {NoTag}
      BY <2>1, <2>3 DEF AssetInv, AssetTypeInv, KnownType
    <3>4. QED
      BY <1>1, <2>1, <2>4, <3>1, <3>2, <3>3 DEF AssetInv, AssetTypeInv
  <2>6. PhaseInv'
    BY <1>1, <2>1 DEF PhaseInv
  <2>7. SavedInv' /\ SinkIsOneObject'
    BY <1>1, <2>1, <2>2, ReadStep DEF Base
  <2>8. ResumeInv'
    BY <1>1, <2>1 DEF AssetInv, ResumeInv, Resting, Asking
  <2>9. SeenInv'
    BY <1>1, <2>1 DEF AssetInv, SeenInv, RestartsAreCaused
  <2>10. BodyInv'
    <3>1. saved' = object => known_.body = object
      BY <1>1, <2>1, <2>3, NoTagIsNoVersion DEF AssetInv, BodyInv
    <3>2. QED
      BY <1>1, <2>4, <3>1 DEF AssetInv, BodyInv, TagOf
  <2>11. EmitInv'
    <3>1. SUFFICES ASSUME i # known_.last PROVE EmitInv'
      BY <2>1 DEF EmitInv
    <3>2. PlainStart(i + 1) = hi /\ known_.start < hi /\ known_.start < known_.end
      BY <2>2, <3>1
    <3>3. Position' = hi /\ Base' = Base
      BY <1>1, <2>2, <2>3, <2>4, <3>2 DEF Position, Base, Most
    <3>4. SegmentOf(known_.start) <= i + 1 /\ i + 1 <= known_.last
      <4>1. SegmentOf(known_.start) \in Nat /\ SegmentOf(known_.start) <= i
        BY <1>1, <2>3, <3>2, SegmentIsAt DEF AssetInv, EmitInv
      <4>2. QED
        BY <2>2, <2>3, <3>1, <4>1
    <3>5. /\ known_.last = SegmentOf(known_.end - 1)
          /\ IF site.call = "download" THEN known_.end = known_.total
             ELSE /\ known_.start = Least(site.from, known_.total)
                  /\ known_.end = Least(site.to, known_.total)
      BY <1>1, <3>2, <2>3 DEF AssetInv, EmitInv
    <3>6. known_.start <= known_.end /\ known_.start # known_.end
      BY <2>3, <3>2
    <3>7. sink' = Units(known_.body, Base', Position')
      BY <2>2, <3>3
    <3>8. QED
      BY <1>1, <2>4, <3>4, <3>5, <3>6, <3>7 DEF EmitInv
  <2>12. ChunkInv'
    BY <2>1 DEF ChunkInv
  <2>13. DoneIsExact'
    <3>1. SUFFICES ASSUME i = known_.last
                   PROVE  LET to == IF site.call = "range" THEN Least(site.to, real)
                                    ELSE real
                              from == IF site.call = "range" THEN Least(site.from, to)
                                      ELSE 0
                          IN  hi = to /\ Base = from
      BY <1>1, <2>1, <2>2, <2>3 DEF DoneIsExact
    <3>2. /\ hi = known_.end /\ known_.start <= known_.end /\ known_.end <= known_.total
          /\ known_.start = known_.end => /\ i = SegmentsOf(known_.total) - 1
                                          /\ known_.start = known_.total
          /\ known_.start # known_.end => i = SegmentOf(known_.end - 1)
          /\ IF site.call = "download" THEN known_.end = known_.total
             ELSE /\ known_.start = Least(site.from, known_.total)
                  /\ known_.end = Least(site.to, known_.total)
          /\ site.from \in Nat /\ site.to \in Nat /\ site.from < site.to
      <4>1. site.from \in Nat /\ site.to \in Nat /\ site.from < site.to
        BY DEF AssetInv, AssetTypeInv, SiteType
      <4>2. /\ known_.start <= known_.end
            /\ known_.start = known_.end => /\ i = SegmentsOf(known_.total) - 1
                                            /\ known_.start = known_.total
            /\ known_.start # known_.end =>
                 i <= known_.last /\ known_.last = SegmentOf(known_.end - 1)
            /\ IF site.call = "download" THEN known_.end = known_.total
               ELSE /\ known_.start = Least(site.from, known_.total)
                    /\ known_.end = Least(site.to, known_.total)
        BY <1>1 DEF AssetInv, EmitInv
      <4>3. known_.end <= known_.total
        BY <2>3, <4>1, <4>2 DEF Least
      <4>4. hi = known_.end
        BY <2>2, <3>1
      <4>5. QED
        BY <3>1, <4>1, <4>2, <4>3, <4>4
    <3>3. known_.end = known_.total => i + 1 = SegmentsOf(known_.total)
      <4>1. SegmentsOf(known_.total) \in Nat \ {0}
        BY <2>3, SegmentsCover
      <4>2. known_.total # 0 => SegmentsOf(known_.total) - 1 = SegmentOf(known_.total - 1)
        BY <2>3, SegmentsCover
      <4>3. CASE known_.start = known_.end
        BY <3>2, <4>1, <4>3
      <4>4. CASE known_.start # known_.end
        BY <2>3, <3>2, <4>1, <4>2, <4>4
      <4>5. QED
        BY <4>3, <4>4
    <3>4. \/ real = known_.total
          \/ i + 1 < SegmentsOf(known_.total) /\ i + 1 < SegmentsOf(real)
      BY <1>3 DEF Verifies
    <3>5. CASE real = known_.total
      <4>1. CASE site.call = "download"
        BY <3>2, <3>5, <4>1 DEF Base
      <4>2. CASE site.call # "download"
        <5>1. site.call = "range"
          BY <1>1, <4>2 DEF AssetInv, AssetTypeInv, SiteType
        <5>2. QED
          BY <2>3, <3>2, <3>5, <4>2, <5>1 DEF Base, Least
      <4>3. QED
        BY <4>1, <4>2
    <3>6. CASE i + 1 < SegmentsOf(known_.total) /\ i + 1 < SegmentsOf(real)
      <4>1. known_.end # known_.total
        BY <2>3, <3>3, <3>6, SegmentsCover
      <4>2. /\ site.call = "range" /\ known_.end = site.to
            /\ known_.start = site.from /\ site.from < known_.end
        BY <1>1, <2>3, <3>2, <4>1 DEF Least, AssetInv, AssetTypeInv, SiteType
      <4>3. site.to <= real
        BY <2>2, <3>2, <4>2
      <4>4. QED
        BY <2>3, <3>2, <4>2, <4>3 DEF Base, Least
    <3>7. QED
      BY <3>4, <3>5, <3>6
  <2>14. QED
    BY <2>5, <2>6, <2>7, <2>8, <2>9, <2>10, <2>11, <2>12, <2>13 DEF AssetInv
<1>4. QED
  BY <1>2, <1>3

\* A plain download that is resumed from what is served goes on; else it begins anew.
LEMMA PlainDownloadStep == AssetInv /\ PlainDownload => AssetInv'
<1> SUFFICES ASSUME AssetInv, PlainDownload PROVE AssetInv'
  OBVIOUS
<1> DEFINE resuming == written > 0 /\ resumeEtag # NoTag
           ifRange == IF resuming THEN IfRange(resumeEtag) ELSE NoTag
           status == IF resuming THEN Status(ifRange, written >= Length[object]) ELSE 200
           tag == IF Etag = NoTag THEN resumeEtag ELSE Etag
           complete == status = 416 /\ ifRange # NoTag /\ Length[object] = written
           another == status = 416 \/ (status = 206 /\ IsAnother(resumeEtag, ifRange))
<1>1. /\ phase = "plain" /\ phase \notin Resting /\ phase \in Asking
      /\ UNCHANGED <<object, saved, since, site>> /\ SameSite
      /\ site.call = "download" /\ ~site.encrypted /\ site.ifRange
  BY SiteStays DEF PlainDownload, Resting, Asking, AssetInv, AssetTypeInv, PhaseInv
<1>2. /\ Etag = TagOf(object) /\ object \in Nat /\ object # NoTag /\ Length[object] \in Nat
      /\ object \in Version /\ since \in 1..object /\ known_ \in KnownType
      /\ written = Len(sink) /\ written \in Nat /\ sink \in Seq(Unit)
      /\ DOMAIN Length = Version
  BY <1>1, EtagIsTag, LengthType DEF AssetInv, AssetTypeInv
<1>3. status \in {200, 206, 416}
  BY DEF Status
<1>4. status # 200 => resumeEtag # NoTag /\ resumeEtag = saved
  BY <1>1 DEF AssetInv, ResumeInv
<1>5. status # 200 /\ ifRange # NoTag => resumeEtag = object
  <2>1. SUFFICES ASSUME status # 200, ifRange # NoTag PROVE resumeEtag = object
    OBVIOUS
  <2>2. ifRange = resumeEtag /\ ifRange = Etag
    BY <1>1, <2>1 DEF Status, IfRange
  <2>3. QED
    BY <1>2, <2>1, <2>2 DEF TagOf
<1>6. CASE complete
  <2>1. phase' = "done" /\ known_' = known_ /\ Keeps
    BY <1>6 DEF PlainDownload
  <2>2. saved = object /\ Length[object] = written
    BY <1>4, <1>5, <1>6
  <2>3. sink = Units(object, 0, Length[object])
    BY <1>2, <2>2, PrefixIsUnits DEF AssetInv, SavedInv, File
  <2>4. AssetTypeInv'
    BY <1>1, <2>1 DEF AssetInv, AssetTypeInv, Keeps, Resting
  <2>5. PhaseInv' /\ ResumeInv' /\ BodyInv' /\ EmitInv' /\ ChunkInv'
    BY <2>1 DEF PhaseInv, ResumeInv, BodyInv, EmitInv, ChunkInv, Resting, Reading
  <2>6. SavedInv' /\ SinkIsOneObject' /\ SeenInv'
    BY <1>1, <2>1 DEF AssetInv, SavedInv, SinkIsOneObject, SeenInv, RestartsAreCaused,
                      TagOf, Keeps
  <2>7. DoneIsExact'
    BY <1>1, <1>2, <2>1, <2>3 DEF DoneIsExact, Keeps
  <2>8. QED
    BY <2>4, <2>5, <2>6, <2>7 DEF AssetInv
<1>7. CASE ~complete /\ another
  <2>1. Restarts
    BY <1>7 DEF PlainDownload
  <2>2. QED
    BY <1>1, <1>4, <1>7, <2>1, ResumedOnce, RestartingStep
<1>8. CASE ~complete /\ ~another
  <2>1. /\ known_' = [known_ EXCEPT !.etag = tag, !.body = object]
        /\ sink' = IF status = 200 THEN <<>> ELSE sink
        /\ written' = IF status = 200 THEN 0 ELSE written
        /\ phase' = "chunks" /\ UNCHANGED <<resumeEtag, restarts>>
    BY <1>8 DEF PlainDownload
  <2>2. status # 200 => resumeEtag = object
    <3>1. SUFFICES ASSUME status # 200, ifRange = NoTag PROVE resumeEtag = object
      BY <1>5
    <3>2. resumeEtag # NoTag /\ ~IsAnother(resumeEtag, ifRange)
      BY <1>3, <1>4, <1>8, <3>1
    <3>3. Etag = resumeEtag
      BY <3>1, <3>2 DEF IsAnother
    <3>4. QED
      BY <1>2, <3>2, <3>3 DEF TagOf
  <2>3. tag \in Nat \cup {NoTag}
    BY EtagIsTag DEF AssetInv, AssetTypeInv
  <2>4. tag # NoTag => tag \in 1..object /\ TagOf(tag) = tag
    <3>1. resumeEtag # NoTag => resumeEtag \in 1..object /\ TagOf(resumeEtag) = resumeEtag
      BY <1>1 DEF AssetInv, ResumeInv, SavedInv
    <3>2. Etag # NoTag => Etag = object /\ TagOf(object) = object /\ object \in 1..object
      BY <1>2 DEF TagOf
    <3>3. QED
      BY <3>1, <3>2
  <2>5. IsPrefix(sink', File(object)) /\ sink' \in Seq(Unit) /\ written' = Len(sink')
    <3>1. CASE status = 200
      <4>1. sink' = <<>> /\ written' = 0
        BY <2>1, <3>1
      <4>2. QED
        BY <1>2, <4>1, EmptyIsPrefix
    <3>2. CASE status # 200
      BY <1>2, <1>4, <2>1, <2>2, <3>2 DEF AssetInv, SavedInv
    <3>3. QED
      BY <3>1, <3>2
  <2> HIDE DEF tag, status, resuming, ifRange, complete, another
  <2>6. known_' \in KnownType /\ known_'.etag = tag /\ known_'.body = object
    BY <1>2, <2>1, <2>3 DEF KnownType
  <2>7. AssetTypeInv'
    <3>1. written' \in Nat
      BY <2>5
    <3>2. QED
      BY <1>1, <2>1, <2>5, <2>6, <3>1 DEF AssetInv, AssetTypeInv, Reading
  <2>8. PhaseInv'
    BY <1>1, <2>1 DEF PhaseInv
  <2>9. SavedInv'
    BY <1>1, <2>5 DEF AssetInv, SavedInv, TagOf
  <2>10. ResumeInv'
    BY <1>1, <2>1 DEF AssetInv, ResumeInv, Asking
  <2>11. SeenInv'
    BY <1>1, <2>1 DEF AssetInv, SeenInv, RestartsAreCaused
  <2>12. BodyInv'
    BY <1>1, <1>2, <2>4, <2>6 DEF BodyInv, TagOf
  <2>13. EmitInv' /\ DoneIsExact'
    BY <2>1 DEF EmitInv, DoneIsExact
  <2>14. ChunkInv'
    BY <2>5, <2>6 DEF ChunkInv
  <2>15. SinkIsOneObject'
    BY <1>1, <1>2, <2>5 DEF SinkIsOneObject, File
  <2>16. QED
    BY <2>7, <2>8, <2>9, <2>10, <2>11, <2>12, <2>13, <2>14, <2>15 DEF AssetInv
<1>9. QED
  BY <1>6, <1>7, <1>8

LEMMA ChunkStep == AssetInv /\ Chunk => AssetInv'
<1> SUFFICES ASSUME AssetInv, Chunk PROVE AssetInv'
  OBVIOUS
<1> DEFINE real == Length[known_.body]
<1>1. /\ phase = "chunks" /\ phase \notin Resting /\ phase \in Reading
      /\ UNCHANGED <<object, known_, resumeEtag, restarts, since, site>> /\ SameSite
      /\ site.call = "download" /\ ~site.encrypted /\ saved' = known_.etag
  BY SiteStays DEF Chunk, Resting, Reading, AssetInv, PhaseInv
<1>2. /\ known_.body \in Version /\ real \in Nat /\ known_.body \in since..object
      /\ object \in Nat /\ since \in 1..object /\ known_ \in KnownType
      /\ written = Len(sink) /\ written \in Nat /\ sink \in Seq(Unit)
  BY <1>1, VersionsLength DEF AssetInv, AssetTypeInv
<1>3. sink = Units(known_.body, 0, written) /\ written <= real
  BY <1>1, <1>2, PrefixIsUnits DEF AssetInv, ChunkInv, File
<1>4. PICK n \in Nat : /\ n <= real /\ sink' = Units(known_.body, 0, n) /\ written' = n
                       /\ \/ phase' = "chunks"
                          \/ phase' = "done" /\ n = real
  <2>1. CASE written < real
    <3>1. /\ sink' = sink \o Units(known_.body, written, written + 1)
          /\ written' = written + 1 /\ phase' = "chunks"
      BY <1>1, <2>1 DEF Chunk
    <3>2. sink' = Units(known_.body, 0, written + 1)
      <4>1. Units(known_.body, 0, written) \o Units(known_.body, written, written + 1)
              = Units(known_.body, 0, written + 1)
        BY <1>2, UnitsNext
      <4>2. QED
        BY <1>3, <3>1, <4>1
    <3>3. written + 1 \in Nat /\ written + 1 <= real
      BY <1>2, <2>1
    <3>4. QED
      BY <3>1, <3>2, <3>3
  <2>2. CASE ~(written < real)
    <3>1. phase' = "done" /\ sink' = sink /\ written' = written
      BY <2>2 DEF Chunk
    <3>2. written = real
      BY <1>2, <1>3, <2>2
    <3>3. QED
      BY <1>2, <1>3, <3>1, <3>2
  <2>3. QED
    BY <2>1, <2>2
<1>5. /\ sink' \in Seq(Unit) /\ Len(sink') = n
      /\ IsPrefix(sink', File(known_.body))
  BY <1>2, <1>4, BeginningIsPrefix
<1>6. AssetTypeInv'
  <2>1. phase' \in Resting \cup Asking \cup Reading
    BY <1>4 DEF Resting, Reading
  <2>2. {resumeEtag', saved'} \subseteq Nat \cup {NoTag}
    BY <1>1, <1>2 DEF AssetInv, AssetTypeInv, KnownType
  <2>3. QED
    BY <1>1, <1>4, <1>5, <2>1, <2>2 DEF AssetInv, AssetTypeInv
<1>7. PhaseInv'
  BY <1>1, <1>4 DEF PhaseInv
<1>8. SavedInv' /\ SinkIsOneObject'
  BY <1>1, <1>4, ReadStep
<1>9. ResumeInv'
  BY <1>1, <1>4 DEF AssetInv, ResumeInv, Resting, Asking
<1>10. SeenInv'
  BY <1>1, <1>4 DEF AssetInv, SeenInv, RestartsAreCaused
<1>11. BodyInv'
  <2>1. saved' = object => known_.body = object
    BY <1>1, <1>2, NoTagIsNoVersion DEF AssetInv, BodyInv
  <2>2. QED
    BY <1>1, <2>1 DEF AssetInv, BodyInv, TagOf
<1>12. EmitInv'
  BY <1>4 DEF EmitInv
<1>13. ChunkInv'
  BY <1>1, <1>5 DEF ChunkInv
<1>14. DoneIsExact'
  BY <1>1, <1>2, <1>4 DEF DoneIsExact
<1>15. QED
  BY <1>6, <1>7, <1>8, <1>9, <1>10, <1>11, <1>12, <1>13, <1>14 DEF AssetInv

LEMMA OneAnswerStep == AssetInv /\ OneAnswer => AssetInv'
<1> SUFFICES ASSUME AssetInv, OneAnswer PROVE AssetInv'
  OBVIOUS
<1> DEFINE n == Length[object]
           to == IF site.call = "read" THEN n ELSE Least(site.to, n)
           from == IF site.call = "read" THEN 0 ELSE Least(site.from, to)
<1>1. /\ phase \notin Resting /\ phase' = "done" /\ site.call # "download"
      /\ UNCHANGED <<object, known_, resumeEtag, restarts, saved, since, site>>
      /\ sink' = Units(object, from, to) /\ written' = to - from
  BY DEF OneAnswer, Resting
<1>2. /\ object \in Version /\ object \in Nat /\ since \in 1..object /\ n \in Nat
      /\ to \in Nat /\ from \in Nat /\ from <= to
      /\ site.call \in {"range", "read"}
  BY <1>1, LengthType, EtagIsTag, SMTT(60) DEF AssetInv, AssetTypeInv, SiteType, Least
<1>3. AssetTypeInv'
  <2>1. sink' \in Seq(Unit) /\ written' \in Nat
    <3> HIDE DEF from, to
    <3>1. to - from \in Nat
      BY <1>2
    <3>2. Units(object, from, to) \in Seq(Unit)
      BY <1>2, UnitsType
    <3>3. QED
      BY <1>1, <3>1, <3>2
  <2>2. QED
    BY <1>1, <2>1 DEF AssetInv, AssetTypeInv, Resting
<1>4. PhaseInv' /\ ResumeInv' /\ BodyInv' /\ EmitInv' /\ ChunkInv'
  BY <1>1 DEF PhaseInv, ResumeInv, BodyInv, EmitInv, ChunkInv, Resting, Reading
<1>5. SavedInv' /\ SinkIsOneObject' /\ SeenInv'
  BY <1>1 DEF AssetInv, SavedInv, SinkIsOneObject, SeenInv, RestartsAreCaused
<1>6. DoneIsExact'
  <2>1. /\ to = IF site.call = "range" THEN Least(site.to, n) ELSE n
        /\ from = IF site.call = "range" THEN Least(site.from, to) ELSE 0
    BY <1>2
  <2>2. object \in since..object
    BY <1>2
  <2>3. QED
    BY <1>1, <2>1, <2>2 DEF DoneIsExact
<1>7. QED
  BY <1>3, <1>4, <1>5, <1>6 DEF AssetInv

LEMMA RejectsStep == AssetInv /\ Rejects => AssetInv'
<1> SUFFICES ASSUME AssetInv, Rejects PROVE AssetInv'
  OBVIOUS
<1>1. /\ phase \notin Resting /\ site' = [site EXCEPT !.fails = @ - 1] /\ site.fails > 0
      /\ UNCHANGED <<object, saved, since>>
  BY DEF Rejects
<1>2. SameSite
  BY <1>1, FailsCounted DEF AssetInv, AssetTypeInv
<1>3. CASE site.corsSafe /\ phase \in {"first", "segments"}
  <2>1. phase' = "whole" /\ known_' = known_ /\ Keeps
    BY <1>3 DEF Rejects
  <2>2. AssetTypeInv'
    BY <1>1, <1>2, <2>1 DEF AssetInv, AssetTypeInv, SameSite, Keeps, Asking
  <2>3. PhaseInv'
    BY <1>2, <1>3, <2>1 DEF AssetInv, PhaseInv, SameSite
  <2>4. SavedInv' /\ SinkIsOneObject'
    BY <1>1, <1>2, <2>1, SameTag DEF AssetInv, SavedInv, SinkIsOneObject, SameSite, Keeps
  <2>5. ResumeInv'
    <3>1. phase \in Asking
      BY <1>3 DEF Asking
    <3>2. QED
      BY <1>1, <1>2, <2>1, <3>1 DEF AssetInv, ResumeInv, SameSite, Keeps
  <2>6. SeenInv'
    <3>1. RestartsAreCaused'
      BY <1>1, <1>2, <2>1 DEF AssetInv, SeenInv, RestartsAreCaused, SameSite, Keeps
    <3>2. PICK w \in since..object : Seen(w)
      BY <1>3 DEF AssetInv, SeenInv
    <3>3. Seen(w)' /\ w \in since'..object'
      BY <1>1, <1>2, <2>1, <3>2 DEF Seen, SameSite, Keeps, TagOf
    <3>4. QED
      BY <3>1, <3>3 DEF SeenInv
  <2>7. BodyInv' /\ EmitInv' /\ ChunkInv' /\ DoneIsExact'
    BY <2>1 DEF BodyInv, EmitInv, ChunkInv, DoneIsExact, Reading
  <2>8. QED
    BY <2>2, <2>3, <2>4, <2>5, <2>6, <2>7 DEF AssetInv
<1>4. CASE ~(site.corsSafe /\ phase \in {"first", "segments"})
  BY <1>1, <1>2, <1>4, FailingStep DEF Rejects, Fails
<1>5. QED
  BY <1>3, <1>4

LEMMA AssetStays == AssetInv /\ UNCHANGED assetVars => AssetInv'
<1> SUFFICES ASSUME AssetInv, UNCHANGED assetVars PROVE AssetInv'
  OBVIOUS
<1> USE DEF assetVars
<1>1. AssetTypeInv' /\ PhaseInv' /\ ResumeInv'
  BY DEF AssetInv, AssetTypeInv, PhaseInv, ResumeInv
<1>2. SavedInv' /\ SeenInv' /\ BodyInv'
  BY DEF AssetInv, SavedInv, SeenInv, BodyInv, Seen, RestartsAreCaused, TagOf
<1>3. EmitInv' /\ ChunkInv' /\ SinkIsOneObject' /\ DoneIsExact'
  BY DEF AssetInv, EmitInv, ChunkInv, SinkIsOneObject, DoneIsExact, Base, Position
<1>4. QED
  BY <1>1, <1>2, <1>3 DEF AssetInv

LEMMA AssetInvSuffices == AssetInv => AssetInvariant
<1> SUFFICES ASSUME AssetInv PROVE AssetInvariant
  OBVIOUS
<1>1. phase = "emit" => known_.next <= known_.last
  <2>1. SUFFICES ASSUME phase = "emit" PROVE known_.next <= known_.last
    OBVIOUS
  <2>2. known_.next \in Nat
    BY <2>1, VersionsLength DEF Reading
  <2>3. QED
    BY <2>1, <2>2 DEF AssetInv, EmitInv
<1>2. AssetTypeOK
  BY <1>1, LengthType
  DEF AssetInv, AssetTypeInv, AssetTypeOK, Resting, Asking, Reading
<1>3. QED
  BY <1>2 DEF AssetInv, SeenInv, AssetInvariant

\* On every host that honours If-Range where it must, what a caller has is the beginning
\* of one version, what a call returns is all it asked for of a version served since it
\* began, and a read starts over only for a cause (client.ts checkRanged,
\* restarting, emitSegments, downloadPlain).
THEOREM AssetInvariantHolds ==
  ASSUME HonoursIfRange
  PROVE  AssetSpec => []AssetInvariant
<1>1. AssetInit => AssetInv
  BY AssetStarts
<1>2. AssetInv /\ [AssetNext]_assetVars => AssetInv'
  BY ReplacedStep, CallBeginsStep, RejectsStep, GoneUnheardStep, HeadStep, FirstStep,
     SegmentsStep, WholeStep, EmitStep, PlainDownloadStep, ChunkStep, OneAnswerStep,
     AssetStays
  DEF AssetNext
<1>3. AssetInv => AssetInvariant
  BY AssetInvSuffices
<1>4. QED
  BY <1>1, <1>2, <1>3, PTL DEF AssetSpec

-----------------------------------------------------------------------------
(* The event broker: what the proof of BrokerInvariant adds to it *)

Registration == [id : Nat, handler : Handler, once : BOOLEAN]
Firing ==
  [list : Seq(Registration), called : Nat, since : Nat,
   state : {"nobody", "awaits", "resolved", "rejected"}]
Call == [fire : Nat, id : Nat, handler : Handler]

BrokerTypeInv ==
  /\ made \in Nat /\ listening \in Seq(Registration)
  /\ firings \in Seq(Firing) /\ soFar \in Seq(Call)

\* Registrations are told apart by their number, which grows along every list.
Numbered(list, n) ==
  /\ \A i \in DOMAIN list : list[i].id \in 1..n
  /\ \A i, j \in DOMAIN list : i < j => list[i].id < list[j].id

\* What two lists have of one number is the same registration.
Agree(list, other) ==
  \A i \in DOMAIN list, j \in DOMAIN other : list[i].id = other[j].id => list[i] = other[j]

\* What listens is told apart, and a `once` registration that still does was not called.
ListenInv ==
  /\ Numbered(listening, made)
  /\ \A c \in DOMAIN soFar : soFar[c].id \in 1..made /\ soFar[c].fire \in DOMAIN firings
  /\ \A j \in DOMAIN listening :
       listening[j].once => \A c \in DOMAIN soFar : soFar[c].id # listening[j].id

\* A fire counts its calls, the ones of its list in their order.
FireInv(n, f) ==
  /\ Numbered(f.list, made) /\ Agree(f.list, listening)
  /\ f.called = Cardinality(CallsOf(n)) /\ f.called <= Len(f.list)
  /\ f.state = "resolved" => f.called = Len(f.list)
  /\ f.since <= Len(soFar)
  /\ \A c \in CallsOf(n) : /\ PlaceOf(c) \in DOMAIN f.list
                          /\ soFar[c].id = f.list[PlaceOf(c)].id
                          /\ soFar[c].handler = f.list[PlaceOf(c)].handler
  /\ \A i \in DOMAIN f.list :
       f.list[i].once => \A c \in 1..f.since : soFar[c].id # f.list[i].id

BrokerInv ==
  /\ BrokerTypeInv /\ ListenInv
  /\ \A n \in DOMAIN firings : FireInv(n, firings[n])

-----------------------------------------------------------------------------
(* Lists that lose an element *)

\* A set of values on which a well-founded relation acts has a minimal one.
LEMMA MinimalOf ==
  ASSUME NEW N, NEW R, IsWellFoundedOn(R, N), NEW S, S \subseteq N, S # {}
  PROVE  \E i \in S : \A j \in S : <<j, i>> \notin R
  BY WFMin, ZenonT(60)

\* A set of indices that is not empty has a least one.
LEMMA LeastOf ==
  ASSUME NEW S, S \subseteq Nat, S # {}
  PROVE  \E i \in S : \A j \in S : i <= j
<1>1. IsWellFoundedOn(OpToRel(<, Nat), Nat)
  BY NatLessThanWellFounded, Zenon
<1>2. \A j, k \in Nat : j < k => <<j, k>> \in OpToRel(<, Nat)
  BY DEF OpToRel
<1>3. PICK R : IsWellFoundedOn(R, Nat) /\ \A j, k \in Nat : j < k => <<j, k>> \in R
  BY <1>1, <1>2, Zenon
<1>4. PICK i \in S : \A j \in S : <<j, i>> \notin R
  BY <1>3, MinimalOf, ZenonT(60)
<1> HIDE <1>1, <1>2
<1>5. \A j \in S : ~(j < i)
  BY <1>3, <1>4
<1> QED
  BY <1>5

LEMMA FirstIsOne ==
  ASSUME NEW S, S \subseteq Nat, S # {}
  PROVE  FirstOf(S) \in S
BY LeastOf DEF FirstOf

LEMMA LeavesOutIs ==
  ASSUME NEW T, NEW list \in Seq(T), NEW i \in 1..Len(list)
  PROVE  /\ LeavesOut(list, i) \in Seq(T)
         /\ Len(LeavesOut(list, i)) = Len(list) - 1
         /\ \A j \in 1..(Len(list) - 1) :
              LeavesOut(list, i)[j] = IF j < i THEN list[j] ELSE list[j + 1]
<1> DEFINE n == Len(list)
           s == SubSeq(list, 1, i - 1)
           t == SubSeq(list, i + 1, n)
<1>1. n \in Nat /\ i \in Nat /\ 1 <= i /\ i <= n
  OBVIOUS
<1>2. s \in Seq(T) /\ Len(s) = i - 1 /\ \A j \in 1..(i - 1) : s[j] = list[j]
  BY <1>1, SMTT(60)
<1>3. /\ t \in Seq(T) /\ Len(t) = n - i
      /\ \A j \in 1..(n - i) : t[j] = list[i + j]
  <2>1. i + 1 \in Int /\ n \in Int /\ \A j \in (i + 1)..n : list[j] \in T
    BY <1>1
  <2>2. /\ t \in Seq(T) /\ Len(t) = n - (i + 1) + 1
        /\ \A j \in 1..(n - (i + 1) + 1) : t[j] = list[(i + 1) + j - 1]
    BY <2>1, SubSeqProperties
  <2>3. n - (i + 1) + 1 = n - i /\ \A j \in 1..(n - i) : (i + 1) + j - 1 = i + j
    BY <1>1
  <2>4. QED
    BY <2>2, <2>3
<1> HIDE DEF s, t, n
<1>4. /\ s \o t \in Seq(T) /\ Len(s \o t) = n - 1
      /\ \A j \in 1..(n - 1) :
           (s \o t)[j] = IF j <= i - 1 THEN s[j] ELSE t[j - (i - 1)]
  <2>1. Len(s) + Len(t) = n - 1
    BY <1>1, <1>2, <1>3
  <2>2. QED
    BY <1>2, <1>3, <2>1, ConcatProperties, SMTT(60)
<1>5. ASSUME NEW j \in 1..(n - 1)
      PROVE  (s \o t)[j] = IF j < i THEN list[j] ELSE list[j + 1]
  <2>1. CASE j < i
    BY <1>1, <1>2, <1>4, <1>5, <2>1
  <2>2. CASE ~(j < i)
    <3>1. j - (i - 1) \in 1..(n - i) /\ i + (j - (i - 1)) = j + 1
      BY <1>1, <1>5, <2>2
    <3>2. t[j - (i - 1)] = list[j + 1]
      BY <1>3, <3>1
    <3>3. QED
      BY <1>1, <1>4, <1>5, <2>2, <3>2
  <2>3. QED
    BY <2>1, <2>2
<1>6. QED
  BY <1>4, <1>5 DEF LeavesOut, s, t, n

\* What is left of a list, in its order; and without the element, if it was one.
Remains(left, list, places) ==
  \E g \in [DOMAIN left -> DOMAIN list] :
    /\ \A j \in DOMAIN left : left[j] = list[g[j]]
    /\ \A j, k \in DOMAIN left : j < k => g[j] < g[k]
    /\ \A p : places = {p} => \A j \in DOMAIN left : g[j] # p

LEMMA DropIs ==
  ASSUME NEW T, NEW list \in Seq(T), NEW places, places \subseteq DOMAIN list,
         NEW left, left = DropsFirst(list, places)
  PROVE  left \in Seq(T) /\ Remains(left, list, places)
<1>1. CASE places = {}
  <2>1. left = list
    BY <1>1 DEF DropsFirst
  <2> DEFINE g == [j \in DOMAIN list |-> j]
  <2>2. /\ g \in [DOMAIN list -> DOMAIN list]
        /\ \A j \in DOMAIN list : g[j] = j
    OBVIOUS
  <2>3. QED
    BY <1>1, <2>1, <2>2 DEF Remains
<1>2. CASE places # {}
  <2> DEFINE i == FirstOf(places)
             rest == LeavesOut(list, i)
             g == [j \in DOMAIN rest |-> IF j < i THEN j ELSE j + 1]
  <2>1. places \subseteq Nat /\ DOMAIN list = 1..Len(list) /\ Len(list) \in Nat
    OBVIOUS
  <2>2. i \in places /\ i \in 1..Len(list) /\ i \in Nat
    BY <1>2, <2>1, FirstIsOne
  <2> HIDE DEF i
  <2>3. /\ rest \in Seq(T) /\ Len(rest) = Len(list) - 1
        /\ \A j \in 1..(Len(list) - 1) :
             rest[j] = IF j < i THEN list[j] ELSE list[j + 1]
    BY <2>2, LeavesOutIs
  <2> HIDE DEF rest
  <2>4. DOMAIN rest = 1..(Len(list) - 1)
    BY <2>1, <2>3
  <2>5. \A j \in DOMAIN rest : g[j] = IF j < i THEN j ELSE j + 1
    OBVIOUS
  <2>6. g \in [DOMAIN rest -> DOMAIN list]
    BY <2>1, <2>2, <2>4
  <2> HIDE DEF g
  <2>7. \A j \in DOMAIN rest : rest[j] = list[g[j]]
    BY <2>3, <2>4, <2>5
  <2>8. \A j, k \in DOMAIN rest : j < k => g[j] < g[k]
    BY <2>1, <2>2, <2>4, <2>5
  <2>9. \A p : places = {p} => \A j \in DOMAIN rest : g[j] # p
    BY <2>1, <2>2, <2>4, <2>5
  <2>10. left = rest
    BY <1>2 DEF DropsFirst, rest, i
  <2>11. QED
    BY <2>3, <2>6, <2>7, <2>8, <2>9, <2>10, ZenonT(60) DEF Remains
<1>3. QED
  BY <1>1, <1>2

-----------------------------------------------------------------------------
(* Calls *)

LEMMA CallsAreFinite ==
  ASSUME BrokerTypeInv, NEW n
  PROVE  /\ IsFiniteSet(CallsOf(n)) /\ Cardinality(CallsOf(n)) \in Nat
         /\ DOMAIN soFar = 1..Len(soFar) /\ Len(soFar) \in Nat
         /\ CallsOf(n) \subseteq 1..Len(soFar)
<1>1. DOMAIN soFar = 1..Len(soFar) /\ Len(soFar) \in Nat
  BY DEF BrokerTypeInv
<1>2. IsFiniteSet(1..Len(soFar))
  BY <1>1, FS_Interval
<1>3. CallsOf(n) \subseteq 1..Len(soFar)
  BY <1>1 DEF CallsOf
<1>4. IsFiniteSet(CallsOf(n))
  BY <1>2, <1>3, FS_Subset
<1>5. Cardinality(CallsOf(n)) \in Nat
  BY <1>4, FS_CardinalityType
<1>6. QED
  BY <1>1, <1>3, <1>4, <1>5

\* A call more is the last of its fire, and moves no other.
LEMMA OneCallMore ==
  ASSUME BrokerTypeInv, NEW call \in Call, soFar' = Append(soFar, call),
         NEW l, l = Len(soFar)
  PROVE  /\ DOMAIN soFar' = 1..(l + 1) /\ soFar'[l + 1] = call
         /\ \A c \in DOMAIN soFar : soFar'[c] = soFar[c] /\ PlaceOf(c)' = PlaceOf(c)
         /\ \A n : n # call.fire => CallsOf(n)' = CallsOf(n)
         /\ CallsOf(call.fire)' = CallsOf(call.fire) \cup {l + 1}
         /\ Cardinality(CallsOf(call.fire)') = Cardinality(CallsOf(call.fire)) + 1
         /\ PlaceOf(l + 1)' = Cardinality(CallsOf(call.fire)) + 1
<1>1. l \in Nat /\ DOMAIN soFar = 1..l /\ soFar \in Seq(Call)
  BY DEF BrokerTypeInv
<1>2. /\ DOMAIN soFar' = 1..(l + 1) /\ soFar'[l + 1] = call
      /\ \A c \in 1..l : soFar'[c] = soFar[c]
  BY <1>1
<1>3. \A n : n # call.fire => CallsOf(n)' = CallsOf(n)
  BY <1>1, <1>2 DEF CallsOf
<1>4. CallsOf(call.fire)' = CallsOf(call.fire) \cup {l + 1}
  BY <1>1, <1>2 DEF CallsOf
<1>5. /\ IsFiniteSet(CallsOf(call.fire)) /\ l + 1 \notin CallsOf(call.fire)
      /\ CallsOf(call.fire) \subseteq 1..l
  BY <1>1, CallsAreFinite
<1>6. Cardinality(CallsOf(call.fire)') = Cardinality(CallsOf(call.fire)) + 1
  BY <1>4, <1>5, FS_AddElement
<1>7. ASSUME NEW c \in 1..l PROVE PlaceOf(c)' = PlaceOf(c)
  <2> DEFINE n == soFar[c].fire
  <2>1. soFar'[c].fire = n
    BY <1>2, <1>7
  <2>2. {b \in CallsOf(n)' : b <= c} = {b \in CallsOf(n) : b <= c}
    BY <1>1, <1>3, <1>4, <1>7, SMTT(60)
  <2>3. QED
    BY <2>1, <2>2 DEF PlaceOf
<1>8. PlaceOf(l + 1)' = Cardinality(CallsOf(call.fire)) + 1
  <2>1. {b \in CallsOf(call.fire)' : b <= l + 1} = CallsOf(call.fire)'
    BY <1>1, <1>4, <1>5
  <2>2. soFar'[l + 1].fire = call.fire
    BY <1>2
  <2>3. PlaceOf(l + 1)' = Cardinality({b \in CallsOf(call.fire)' : b <= l + 1})
    BY <2>2 DEF PlaceOf, CallsOf
  <2>4. QED
    BY <1>6, <2>1, <2>3
<1>9. QED
  BY <1>1, <1>2, <1>3, <1>4, <1>6, <1>7, <1>8

\* What agrees with a list agrees with what is left of it, in its order.
LEMMA RestAgrees ==
  ASSUME NEW list, NEW other, NEW left, NEW places,
         Remains(left, other, places), Agree(list, other)
  PROVE  Agree(list, left)
BY DEF Agree, Remains

LEMMA RestNumbered ==
  ASSUME NEW list, NEW left, NEW places, NEW n,
         Remains(left, list, places), Numbered(list, n)
  PROVE  Numbered(left, n)
BY DEF Numbered, Remains

\* A fire that makes no step keeps what it has.
LEMMA FireKept ==
  ASSUME BrokerInv, NEW n, NEW f \in Firing, FireInv(n, f), Agree(f.list, listening'),
         made' \in Nat, made <= made',
         \/ soFar' = soFar
         \/ \E call \in Call : call.fire # n /\ soFar' = Append(soFar, call)
  PROVE  FireInv(n, f)'
<1>1. Numbered(f.list, made')
  BY DEF FireInv, Numbered, BrokerInv, BrokerTypeInv
<1>2. CASE soFar' = soFar
  BY <1>1, <1>2 DEF FireInv, CallsOf, PlaceOf
<1>3. ASSUME NEW call \in Call, call.fire # n, soFar' = Append(soFar, call)
      PROVE  FireInv(n, f)'
  <2>1. /\ \A c \in DOMAIN soFar : soFar'[c] = soFar[c] /\ PlaceOf(c)' = PlaceOf(c)
        /\ CallsOf(n)' = CallsOf(n)
    <3>1. \E l : l = Len(soFar)
      OBVIOUS
    <3>2. QED
      BY <1>3, <3>1, OneCallMore DEF BrokerInv
  <2>2. /\ DOMAIN soFar = 1..Len(soFar) /\ Len(soFar) \in Nat /\ f.since \in Nat
        /\ CallsOf(n) \subseteq DOMAIN soFar /\ Len(soFar') = Len(soFar) + 1
    BY <1>3, CallsAreFinite DEF BrokerInv, BrokerTypeInv, Firing
  <2>3. f.since <= Len(soFar')
    BY <2>2 DEF FireInv
  <2>4. \A c \in 1..f.since : soFar'[c] = soFar[c]
    BY <2>1, <2>2 DEF FireInv
  <2>5. QED
    BY <1>1, <2>1, <2>2, <2>3, <2>4, SMTT(60) DEF FireInv
<1>4. QED
  BY <1>2, <1>3

\* The step of a fire: to its next call, or to its end.
LEMMA FireCalls ==
  ASSUME BrokerInv, NEW n \in Nat, NEW f \in Firing, FireInv(n, f),
         NextOf(f) # 0, f.state # "resolved",
         made' = made, listening' = BeforeItsCall(f.list[NextOf(f)], listening),
         soFar' = Append(soFar, [fire |-> n, id |-> f.list[NextOf(f)].id,
                                 handler |-> f.list[NextOf(f)].handler])
  PROVE  /\ [f EXCEPT !.called = @ + 1] \in Firing
         /\ FireInv(n, [f EXCEPT !.called = @ + 1])'
<1> DEFINE r == f.list[NextOf(f)]
           call == [fire |-> n, id |-> r.id, handler |-> r.handler]
           new == [f EXCEPT !.called = @ + 1]
<1>1. /\ f.list \in Seq(Registration) /\ Len(f.list) \in Nat /\ f.called \in Nat
      /\ DOMAIN f.list = 1..Len(f.list) /\ f.since \in Nat
  BY DEF Firing
<1>2. NextOf(f) = f.called + 1 /\ f.called < Len(f.list) /\ NextOf(f) \in DOMAIN f.list
  BY <1>1 DEF NextOf, Snapshot
<1>3. r \in Registration
  BY <1>1, <1>2
<1>4. call \in Call /\ call.id = r.id /\ call.handler = r.handler
  BY <1>3 DEF Registration, Call
<1>5. /\ new \in Firing /\ new.list = f.list /\ new.called = f.called + 1
      /\ new.state = f.state /\ new.since = f.since
  <2>1. f.called + 1 \in Nat
    BY <1>1
  <2>2. new \in Firing
    BY <2>1 DEF Firing
  <2>3. QED
    BY <2>2 DEF Firing
<1> HIDE DEF r, new
<1>6. soFar' = Append(soFar, call) /\ call.fire = n
  BY DEF r
<1>13. PICK l : l = Len(soFar)
  OBVIOUS
<1> HIDE DEF call
<1>7. /\ DOMAIN soFar' = 1..(l + 1) /\ soFar'[l + 1] = call
      /\ \A c \in DOMAIN soFar : soFar'[c] = soFar[c] /\ PlaceOf(c)' = PlaceOf(c)
      /\ CallsOf(n)' = CallsOf(n) \cup {l + 1}
      /\ Cardinality(CallsOf(n)') = Cardinality(CallsOf(n)) + 1
      /\ PlaceOf(l + 1)' = Cardinality(CallsOf(n)) + 1
  BY <1>4, <1>6, <1>13, OneCallMore DEF BrokerInv
<1>8. /\ DOMAIN soFar = 1..Len(soFar) /\ Len(soFar) \in Nat
      /\ CallsOf(n) \subseteq DOMAIN soFar /\ Len(soFar') = Len(soFar) + 1
  BY <1>6, <1>13, CallsAreFinite DEF BrokerInv, BrokerTypeInv
<1>9. Agree(f.list, listening')
  <2>1. listening \in Seq(Registration) /\ Agree(f.list, listening)
    BY DEF BrokerInv, BrokerTypeInv, FireInv
  <2>2. CASE listening' = listening
    BY <2>1, <2>2
  <2>3. CASE listening' = DropsFirst(listening, {i \in DOMAIN listening :
                                                   listening[i].id = r.id})
    <3> DEFINE places == {i \in DOMAIN listening : listening[i].id = r.id}
    <3>1. places \subseteq DOMAIN listening
      OBVIOUS
    <3> HIDE DEF places
    <3>2. listening' = DropsFirst(listening, places)
      BY <2>3 DEF places
    <3>3. Remains(listening', listening, places)
      BY <2>1, <3>1, <3>2, DropIs, SMTT(60)
    <3>4. QED
      BY <2>1, <3>3, RestAgrees
  <2>4. QED
    BY <2>2, <2>3 DEF BeforeItsCall, r
<1>10. \A c \in CallsOf(n)' : /\ PlaceOf(c)' \in DOMAIN f.list
                              /\ soFar'[c].id = f.list[PlaceOf(c)'].id
                              /\ soFar'[c].handler = f.list[PlaceOf(c)'].handler
  <2>1. ASSUME NEW c \in CallsOf(n)
        PROVE  /\ PlaceOf(c)' \in DOMAIN f.list
               /\ soFar'[c].id = f.list[PlaceOf(c)'].id
               /\ soFar'[c].handler = f.list[PlaceOf(c)'].handler
    BY <1>7, <1>8, <2>1 DEF FireInv
  <2>2. PlaceOf(l + 1)' = NextOf(f)
    BY <1>2, <1>7 DEF FireInv
  <2>3. soFar'[l + 1].id = r.id /\ soFar'[l + 1].handler = r.handler
    BY <1>4, <1>7
  <2>4. QED
    BY <1>2, <1>7, <2>1, <2>2, <2>3 DEF r
<1>11. FireInv(n, new)'
  <2>1. Numbered(f.list, made')
    BY DEF FireInv
  <2>2. new.called = Cardinality(CallsOf(n)') /\ new.called <= Len(f.list)
    BY <1>1, <1>2, <1>5, <1>7 DEF FireInv
  <2>3. f.since <= Len(soFar')
    BY <1>1, <1>8 DEF FireInv
  <2>4. \A c \in 1..f.since : soFar'[c] = soFar[c]
    BY <1>1, <1>7, <1>8 DEF FireInv
  <2>5. \A i \in DOMAIN f.list :
          f.list[i].once => \A c \in 1..f.since : soFar'[c].id # f.list[i].id
    <3>1. SUFFICES ASSUME NEW i \in DOMAIN f.list, f.list[i].once, NEW c \in 1..f.since
                   PROVE  soFar'[c].id # f.list[i].id
      OBVIOUS
    <3>2. soFar[c].id # f.list[i].id
      BY <3>1 DEF FireInv
    <3>3. QED
      BY <2>4, <3>2
  <2>6. /\ Numbered(new.list, made') /\ Agree(new.list, listening')
        /\ new.called = Cardinality(CallsOf(n)') /\ new.called <= Len(new.list)
        /\ new.state # "resolved" /\ new.since <= Len(soFar')
    BY <1>5, <1>9, <2>1, <2>2, <2>3
  <2>7. QED
    <3>1. \A c \in CallsOf(n)' : /\ PlaceOf(c)' \in DOMAIN new.list
                                 /\ soFar'[c].id = new.list[PlaceOf(c)'].id
                                 /\ soFar'[c].handler = new.list[PlaceOf(c)'].handler
      BY <1>5, <1>10
    <3>2. \A i \in DOMAIN new.list :
            new.list[i].once => \A c \in 1..new.since : soFar'[c].id # new.list[i].id
      BY <1>5, <2>5, ZenonT(60)
    <3>3. QED
      BY <2>6, <3>1, <3>2, Zenon DEF FireInv
<1>12. QED
  BY <1>5, <1>11 DEF new

\* What listens, once a registration of a list was called.
LEMMA ListenCalled ==
  ASSUME BrokerInv, NEW n \in Nat, NEW f \in Firing, FireInv(n, f),
         NextOf(f) # 0,
         made' = made, listening' = BeforeItsCall(f.list[NextOf(f)], listening),
         soFar' = Append(soFar, [fire |-> n, id |-> f.list[NextOf(f)].id,
                                 handler |-> f.list[NextOf(f)].handler]),
         DOMAIN firings' = DOMAIN firings \cup {n}
  PROVE  /\ listening' \in Seq(Registration) /\ soFar' \in Seq(Call)
         /\ ListenInv'
         /\ \A list : Agree(list, listening) => Agree(list, listening')
<1> DEFINE r == f.list[NextOf(f)]
           places == {i \in DOMAIN listening : listening[i].id = r.id}
           call == [fire |-> n, id |-> r.id, handler |-> r.handler]
<1>1. /\ f.list \in Seq(Registration) /\ DOMAIN f.list = 1..Len(f.list)
      /\ NextOf(f) \in DOMAIN f.list
  BY DEF Firing, NextOf, Snapshot
<1>2. r \in Registration /\ r.id \in 1..made
  BY <1>1 DEF FireInv, Numbered
<1>3. call \in Call /\ call.id = r.id /\ call.fire = n
  BY <1>2 DEF Registration, Call
<1>4. listening \in Seq(Registration) /\ soFar \in Seq(Call)
  BY DEF BrokerInv, BrokerTypeInv
<1>5. \A i \in DOMAIN listening : listening[i].id = r.id => listening[i] = r
  BY <1>1 DEF FireInv, Agree
<1> HIDE DEF r
<1>6. soFar' = Append(soFar, call)
  BY DEF r
<1> HIDE DEF call
<1>7. /\ soFar' \in Seq(Call) /\ DOMAIN soFar' = 1..(Len(soFar) + 1)
      /\ DOMAIN soFar = 1..Len(soFar) /\ Len(soFar) \in Nat
      /\ soFar'[Len(soFar) + 1] = call
      /\ \A c \in DOMAIN soFar : soFar'[c] = soFar[c]
  BY <1>3, <1>4, <1>6
<1>8. /\ listening' \in Seq(Registration) /\ Numbered(listening', made)
      /\ \A list : Agree(list, listening) => Agree(list, listening')
      /\ \A j \in DOMAIN listening' : \E k \in DOMAIN listening :
           listening'[j] = listening[k] /\ (r.once => listening[k].id # r.id)
  <2>1. Numbered(listening, made)
    BY DEF BrokerInv, ListenInv
  <2>2. CASE ~r.once
    <3>1. listening' = listening
      BY <2>2 DEF BeforeItsCall, r
    <3>2. QED
      BY <1>4, <2>1, <2>2, <3>1
  <2>3. CASE r.once
    <3>1. places \subseteq DOMAIN listening
      OBVIOUS
    <3>2. listening' = DropsFirst(listening, places)
      BY <2>3 DEF BeforeItsCall, r
    <3> HIDE DEF places
    <3>3. listening' \in Seq(Registration) /\ Remains(listening', listening, places)
      BY <1>4, <3>1, <3>2, DropIs
    <3>4. Numbered(listening', made)
      BY <2>1, <3>3, RestNumbered
    <3>5. \A list : Agree(list, listening) => Agree(list, listening')
      BY <3>3, RestAgrees
    <3>6. PICK g \in [DOMAIN listening' -> DOMAIN listening] :
            /\ \A j \in DOMAIN listening' : listening'[j] = listening[g[j]]
            /\ \A p : places = {p} => \A j \in DOMAIN listening' : g[j] # p
      BY <3>3 DEF Remains
    <3>7. ASSUME NEW j \in DOMAIN listening' PROVE listening[g[j]].id # r.id
      <4>1. SUFFICES ASSUME listening[g[j]].id = r.id PROVE FALSE
        OBVIOUS
      <4>2. g[j] \in DOMAIN listening /\ g[j] \in places
        BY <3>7, <4>1 DEF places
      <4>3. \A i \in places : i = g[j]
        <5>1. SUFFICES ASSUME NEW i \in places PROVE i = g[j]
          OBVIOUS
        <5>2. i \in DOMAIN listening /\ listening[i].id = listening[g[j]].id
          BY <4>1 DEF places
        <5>3. /\ \A x, y \in DOMAIN listening : x < y => listening[x].id < listening[y].id
              /\ listening[i].id \in Nat /\ listening[g[j]].id \in Nat
              /\ i \in Nat /\ g[j] \in Nat
          BY <1>4, <2>1, <4>2, <5>2, SMTT(60) DEF Numbered, Registration
        <5>4. ~(i < g[j]) /\ ~(g[j] < i)
          BY <4>2, <5>2, <5>3
        <5>5. QED
          BY <5>3, <5>4
      <4>4. places = {g[j]}
        BY <4>2, <4>3
      <4>5. QED
        BY <3>6, <3>7, <4>4
    <3>8. QED
      BY <3>3, <3>4, <3>5, <3>6, <3>7
  <2>4. QED
    BY <2>2, <2>3
<1>9. Numbered(listening', made')
  BY <1>8
<1>10. \A c \in DOMAIN soFar' : soFar'[c].id \in 1..made' /\ soFar'[c].fire \in DOMAIN firings'
  BY <1>2, <1>3, <1>7 DEF BrokerInv, ListenInv
<1>11. \A j \in DOMAIN listening' : listening'[j].once =>
         \A c \in DOMAIN soFar' : soFar'[c].id # listening'[j].id
  <2>1. SUFFICES ASSUME NEW j \in DOMAIN listening', listening'[j].once,
                        NEW c \in DOMAIN soFar'
                 PROVE  soFar'[c].id # listening'[j].id
    OBVIOUS
  <2>2. CASE c \in DOMAIN soFar
    <3>1. PICK k \in DOMAIN listening : listening'[j] = listening[k]
      BY <1>8, <2>1
    <3>2. QED
      BY <1>7, <2>1, <2>2, <3>1 DEF BrokerInv, ListenInv
  <2>3. CASE c = Len(soFar) + 1
    <3>1. PICK k \in DOMAIN listening :
            listening'[j] = listening[k] /\ (r.once => listening[k].id # r.id)
      BY <1>8, <2>1
    <3>2. CASE r.once
      BY <1>3, <1>7, <2>3, <3>1, <3>2
    <3>3. CASE ~r.once
      <4>1. listening[k].id # r.id
        BY <1>5, <2>1, <3>1, <3>3
      <4>2. QED
        BY <1>3, <1>7, <2>3, <3>1, <4>1
    <3>4. QED
      BY <3>2, <3>3
  <2>4. QED
    BY <1>7, <2>1, <2>2, <2>3
<1>12. ListenInv'
  BY <1>9, <1>10, <1>11 DEF ListenInv
<1>13. QED
  BY <1>7, <1>8, <1>12

\* The registrations of one list are told apart by their number.
LEMMA NumbersTell ==
  ASSUME NEW list \in Seq(Registration), NEW n \in Nat, Numbered(list, n)
  PROVE  Agree(list, list)
<1>1. SUFFICES ASSUME NEW i \in DOMAIN list, NEW j \in DOMAIN list, list[i].id = list[j].id
               PROVE  list[i] = list[j]
  BY DEF Agree
<1>2. /\ i \in Nat /\ j \in Nat /\ list[i].id \in Nat /\ list[j].id \in Nat
      /\ i < j => list[i].id < list[j].id
      /\ j < i => list[j].id < list[i].id
  BY <1>1 DEF Registration, Numbered
<1>3. i = j
  BY <1>1, <1>2
<1>4. QED
  BY <1>3

\* The fires that make no step keep what they have.
LEMMA FiresKept ==
  ASSUME BrokerInv, UNCHANGED <<firings, soFar>>, made' \in Nat, made <= made',
         \A n \in DOMAIN firings : Agree(firings[n].list, listening')
  PROVE  (\A n \in DOMAIN firings : FireInv(n, firings[n]))'
<1>1. SUFFICES ASSUME NEW n \in DOMAIN firings' PROVE FireInv(n, firings[n])'
  OBVIOUS
<1>2. PICK f \in Firing : f = firings[n] /\ n \in DOMAIN firings
  BY <1>1 DEF BrokerInv, BrokerTypeInv
<1>3. FireInv(n, f)
  BY <1>2 DEF BrokerInv
<1>4. Agree(f.list, listening')
  BY <1>1, <1>2
<1>5. FireInv(n, f)'
  BY <1>3, <1>4, FireKept
<1>6. f = firings'[n]
  BY <1>2
<1>7. QED
  BY <1>5, <1>6, Zenon

\* A registration more is the last, under a number no list has.
LEMMA AddsStep ==
  ASSUME BrokerInv, NEW h \in Handler, NEW once \in BOOLEAN, Adds(h, once)
  PROVE  BrokerInv'
<1> DEFINE r == [id |-> made + 1, handler |-> h, once |-> once]
<1>1. /\ made \in Nat /\ listening \in Seq(Registration) /\ Len(listening) \in Nat
      /\ firings \in Seq(Firing) /\ soFar \in Seq(Call) /\ r \in Registration
      /\ made' = made + 1 /\ listening' = Append(listening, r)
      /\ firings' = firings /\ soFar' = soFar
      /\ DOMAIN listening = 1..Len(listening)
  BY DEF BrokerInv, BrokerTypeInv, Adds, Registered, Registration
<1>2. r.id = made + 1
  OBVIOUS
<1> HIDE DEF r
<1>3. /\ listening' \in Seq(Registration) /\ DOMAIN listening' = 1..(Len(listening) + 1)
      /\ listening'[Len(listening) + 1] = r
      /\ \A j \in DOMAIN listening : listening'[j] = listening[j]
  BY <1>1
<1>4. BrokerTypeInv'
  BY <1>1, <1>3 DEF BrokerTypeInv
<1>5. /\ \A i \in DOMAIN listening : listening[i].id \in 1..made
      /\ \A i, j \in DOMAIN listening : i < j => listening[i].id < listening[j].id
      /\ \A c \in DOMAIN soFar : soFar[c].id \in 1..made /\ soFar[c].fire \in DOMAIN firings
      /\ \A j \in DOMAIN listening :
           listening[j].once => \A c \in DOMAIN soFar : soFar[c].id # listening[j].id
  BY DEF BrokerInv, ListenInv, Numbered
<1>6. Numbered(listening', made')
  <2>1. \A i \in DOMAIN listening' : listening'[i].id \in 1..made'
    BY <1>1, <1>2, <1>3, <1>5
  <2>2. ASSUME NEW i \in DOMAIN listening', NEW j \in DOMAIN listening', i < j
        PROVE  listening'[i].id < listening'[j].id
    <3>1. i \in DOMAIN listening /\ listening'[i] = listening[i]
      BY <1>1, <1>3, <2>2
    <3>2. CASE j \in DOMAIN listening
      BY <1>3, <1>5, <2>2, <3>1, <3>2
    <3>3. CASE j = Len(listening) + 1
      BY <1>1, <1>2, <1>3, <1>5, <3>1, <3>3
    <3>4. QED
      BY <1>1, <1>3, <3>2, <3>3
  <2>3. QED
    BY <2>1, <2>2 DEF Numbered
<1>7. ListenInv'
  <2>1. \A c \in DOMAIN soFar' : soFar'[c].id \in 1..made' /\ soFar'[c].fire \in DOMAIN firings'
    BY <1>1, <1>5
  <2>2. ASSUME NEW j \in DOMAIN listening', listening'[j].once, NEW c \in DOMAIN soFar'
        PROVE  soFar'[c].id # listening'[j].id
    <3>1. CASE j \in DOMAIN listening
      BY <1>1, <1>3, <1>5, <2>2, <3>1
    <3>2. CASE j = Len(listening) + 1
      BY <1>1, <1>2, <1>3, <1>5, <2>2, <3>2
    <3>3. QED
      BY <1>1, <1>3, <2>2, <3>1, <3>2
  <2>3. QED
    BY <1>6, <2>1, <2>2 DEF ListenInv
<1>8. ASSUME NEW n \in DOMAIN firings PROVE Agree(firings[n].list, listening')
  <2>1. Numbered(firings[n].list, made) /\ Agree(firings[n].list, listening)
    BY <1>8 DEF BrokerInv, FireInv
  <2>2. SUFFICES ASSUME NEW i \in DOMAIN firings[n].list, NEW j \in DOMAIN listening',
                        firings[n].list[i].id = listening'[j].id
                 PROVE  firings[n].list[i] = listening'[j]
    BY DEF Agree
  <2>3. firings[n].list[i].id \in 1..made
    BY <2>1, <2>2 DEF Numbered
  <2>4. j # Len(listening) + 1
    BY <1>1, <1>2, <1>3, <2>2, <2>3
  <2>5. j \in DOMAIN listening /\ listening'[j] = listening[j]
    BY <1>1, <1>3, <2>2, <2>4
  <2>6. QED
    BY <2>1, <2>2, <2>5 DEF Agree
<1>9. (\A n \in DOMAIN firings : FireInv(n, firings[n]))'
  BY <1>1, <1>8, FiresKept
<1>10. QED
  BY <1>4, <1>7, <1>9 DEF BrokerInv

\* What is left of the list is in its order, and it had all of it.
LEMMA OffStep ==
  ASSUME BrokerInv, NEW h \in Handler, Off(h)
  PROVE  BrokerInv'
<1> DEFINE places == {i \in DOMAIN listening : listening[i].handler = h}
<1>1. /\ made \in Nat /\ listening \in Seq(Registration)
      /\ firings \in Seq(Firing) /\ soFar \in Seq(Call)
      /\ listening' = DropsFirst(listening, places)
      /\ made' = made /\ firings' = firings /\ soFar' = soFar
      /\ places \subseteq DOMAIN listening
  BY DEF BrokerInv, BrokerTypeInv, Off
<1> HIDE DEF places
<1>2. listening' \in Seq(Registration) /\ Remains(listening', listening, places)
  BY <1>1, DropIs
<1>3. BrokerTypeInv'
  BY <1>1, <1>2 DEF BrokerTypeInv
<1>4. Numbered(listening', made')
  BY <1>1, <1>2, RestNumbered DEF BrokerInv, ListenInv
<1>5. ListenInv'
  <2>1. \A j \in DOMAIN listening' : \E k \in DOMAIN listening : listening'[j] = listening[k]
    BY <1>2 DEF Remains
  <2>2. QED
    BY <1>1, <1>4, <2>1 DEF BrokerInv, ListenInv
<1>6. \A n \in DOMAIN firings : Agree(firings[n].list, listening')
  BY <1>2, RestAgrees DEF BrokerInv, FireInv
<1>7. (\A n \in DOMAIN firings : FireInv(n, firings[n]))'
  BY <1>1, <1>6, FiresKept
<1>8. QED
  BY <1>3, <1>5, <1>7 DEF BrokerInv

\* The fires, once one of them made a step.
LEMMA FiresBecome ==
  ASSUME firings \in Seq(Firing), NEW n \in Nat, n \in DOMAIN firings \cup {Len(firings) + 1},
         NEW new \in Firing,
         firings' = [x \in DOMAIN firings \cup {n} |-> IF x = n THEN new ELSE firings[x]]
  PROVE  /\ firings' \in Seq(Firing) /\ DOMAIN firings' = DOMAIN firings \cup {n}
         /\ firings'[n] = new
         /\ \A x \in DOMAIN firings : x # n => firings'[x] = firings[x]
<1>1. /\ DOMAIN firings = 1..Len(firings) /\ Len(firings) \in Nat
      /\ \A x \in DOMAIN firings : firings[x] \in Firing
  OBVIOUS
<1>2. /\ DOMAIN firings' = DOMAIN firings \cup {n} /\ firings'[n] = new
      /\ \A x \in DOMAIN firings : x # n => firings'[x] = firings[x]
  OBVIOUS
<1>3. \E l \in Nat : DOMAIN firings' = 1..l
  <2>1. CASE n \in DOMAIN firings
    BY <1>1, <1>2, <2>1
  <2>2. CASE n = Len(firings) + 1
    <3>1. DOMAIN firings' = 1..(Len(firings) + 1)
      BY <1>1, <1>2, <2>2
    <3>2. Len(firings) + 1 \in Nat
      BY <1>1
    <3>3. QED
      BY <3>1, <3>2
  <2>3. QED
    BY <2>1, <2>2
<1>4. PICK l \in Nat : DOMAIN firings' = 1..l
  BY <1>3
<1>5. firings' \in [1..l -> Firing]
  <2>1. \A x \in 1..l : firings'[x] \in Firing
    BY <1>1, <1>2, <1>4
  <2>2. firings' = [x \in 1..l |-> firings'[x]]
    BY <1>2, <1>4
  <2>3. QED
    BY <2>1, <2>2
<1>6. firings' \in Seq(Firing)
  BY <1>5, SMTT(60)
<1>7. QED
  BY <1>2, <1>6

\* A fire that comes to its end was all of its list.
LEMMA FireEnds ==
  ASSUME BrokerInv, NEW n \in Nat, NEW f \in Firing, FireInv(n, f), NextOf(f) = 0,
         UNCHANGED <<listening, made, soFar>>
  PROVE  /\ [f EXCEPT !.state = "resolved"] \in Firing
         /\ FireInv(n, [f EXCEPT !.state = "resolved"])'
<1> DEFINE new == [f EXCEPT !.state = "resolved"]
<1>1. /\ f.list \in Seq(Registration) /\ Len(f.list) \in Nat /\ f.called \in Nat
  BY DEF Firing
<1>2. f.called = Len(f.list)
  BY <1>1 DEF NextOf, Snapshot, FireInv
<1>3. /\ new \in Firing /\ new.list = f.list /\ new.called = f.called
      /\ new.since = f.since
  BY DEF Firing
<1> HIDE DEF new
<1>4. FireInv(n, new)
  BY <1>2, <1>3 DEF FireInv
<1>5. FireInv(n, new)'
  BY <1>4 DEF FireInv, CallsOf, PlaceOf
<1>6. QED
  BY <1>3, <1>5 DEF new

\* A fire goes to its next call, or to its end, and the others keep what they have.
LEMMA CallsStep ==
  ASSUME BrokerInv, NEW n \in Nat, n \in DOMAIN firings \cup {Len(firings) + 1},
         NEW f \in Firing, FireInv(n, f), f.state = "awaits", Calls(n, f), made' = made
  PROVE  BrokerInv'
<1>1. /\ made \in Nat /\ listening \in Seq(Registration)
      /\ firings \in Seq(Firing) /\ soFar \in Seq(Call)
  BY DEF BrokerInv, BrokerTypeInv
<1>2. \A x \in DOMAIN firings : firings[x] \in Firing /\ FireInv(x, firings[x])
  BY <1>1 DEF BrokerInv
<1>3. CASE NextOf(f) = 0
  <2> DEFINE new == [f EXCEPT !.state = "resolved"]
  <2>1. /\ firings' = [x \in DOMAIN firings \cup {n} |->
                         IF x = n THEN new ELSE firings[x]]
        /\ UNCHANGED <<listening, soFar>>
    BY <1>3 DEF Calls
  <2>2. new \in Firing /\ FireInv(n, new)'
    BY <1>3, <2>1, FireEnds
  <2> HIDE DEF new
  <2>3. /\ firings' \in Seq(Firing) /\ DOMAIN firings' = DOMAIN firings \cup {n}
        /\ firings'[n] = new
        /\ \A x \in DOMAIN firings : x # n => firings'[x] = firings[x]
    BY <1>1, <2>1, <2>2, FiresBecome
  <2>4. ASSUME NEW x \in DOMAIN firings' PROVE FireInv(x, firings[x])'
    <3>1. CASE x = n
      BY <2>2, <2>3, <3>1, Zenon
    <3>2. CASE x # n
      <4>1. x \in DOMAIN firings /\ firings'[x] = firings[x]
        BY <2>3, <2>4, <3>2
      <4>2. PICK g \in Firing : g = firings[x] /\ FireInv(x, g)
        BY <1>2, <4>1, SMTT(60)
      <4>3. FireInv(x, g)'
        BY <2>1, <4>2 DEF FireInv, CallsOf, PlaceOf
      <4>4. g = firings'[x]
        BY <4>1, <4>2
      <4>5. QED
        BY <4>3, <4>4, Zenon
    <3>3. QED
      BY <3>1, <3>2
  <2>5. BrokerTypeInv'
    BY <1>1, <2>1, <2>3 DEF BrokerTypeInv
  <2>6. ListenInv'
    BY <2>1, <2>3 DEF BrokerInv, ListenInv
  <2>7. QED
    BY <2>4, <2>5, <2>6 DEF BrokerInv
<1>4. CASE NextOf(f) # 0
  <2> DEFINE new == [f EXCEPT !.called = @ + 1]
             call == [fire |-> n, id |-> f.list[NextOf(f)].id,
                      handler |-> f.list[NextOf(f)].handler]
  <2>1. /\ firings' = [x \in DOMAIN firings \cup {n} |->
                         IF x = n THEN new ELSE firings[x]]
        /\ listening' = BeforeItsCall(f.list[NextOf(f)], listening)
        /\ soFar' = Append(soFar, call)
    BY <1>4 DEF Calls, Snapshot
  <2>2. new \in Firing /\ FireInv(n, new)'
    BY <1>4, <2>1, FireCalls
  <2> HIDE DEF new
  <2>3. /\ firings' \in Seq(Firing) /\ DOMAIN firings' = DOMAIN firings \cup {n}
        /\ firings'[n] = new
        /\ \A x \in DOMAIN firings : x # n => firings'[x] = firings[x]
    BY <1>1, <2>1, <2>2, FiresBecome
  <2>4. /\ listening' \in Seq(Registration) /\ soFar' \in Seq(Call)
        /\ ListenInv'
        /\ \A list : Agree(list, listening) => Agree(list, listening')
    BY <1>4, <2>1, <2>3, ListenCalled
  <2>5. call \in Call /\ call.fire = n
    <3>1. NextOf(f) \in DOMAIN f.list /\ f.list \in Seq(Registration)
      BY <1>4 DEF NextOf, Snapshot, Firing
    <3>2. f.list[NextOf(f)] \in Registration
      BY <3>1
    <3>3. QED
      BY <3>2 DEF Registration, Call
  <2> HIDE DEF call
  <2>6. ASSUME NEW x \in DOMAIN firings' PROVE FireInv(x, firings[x])'
    <3>1. CASE x = n
      BY <2>2, <2>3, <3>1, Zenon
    <3>2. CASE x # n
      <4>1. x \in DOMAIN firings /\ firings'[x] = firings[x]
        BY <2>3, <2>6, <3>2
      <4>2. PICK g \in Firing : g = firings[x] /\ FireInv(x, g)
        BY <1>2, <4>1
      <4>3. Agree(g.list, listening')
        BY <2>4, <4>2 DEF FireInv
      <4>4. \E c \in Call : c.fire # x /\ soFar' = Append(soFar, c)
        BY <2>1, <2>5, <3>2
      <4>5. made' \in Nat /\ made <= made'
        BY <1>1
      <4>6. FireInv(x, g)'
        BY <4>2, <4>3, <4>4, <4>5, FireKept
      <4>7. g = firings'[x]
        BY <4>1, <4>2
      <4>8. QED
        BY <4>6, <4>7, Zenon
    <3>3. QED
      BY <3>1, <3>2
  <2>7. BrokerTypeInv'
    BY <1>1, <2>3, <2>4 DEF BrokerTypeInv
  <2>8. QED
    BY <2>4, <2>6, <2>7 DEF BrokerInv
<1>5. QED
  BY <1>3, <1>4

\* A fire that begins has called nobody.
LEMMA FireBegins ==
  ASSUME BrokerInv, NEW n, n = Len(firings) + 1, NEW f \in Firing,
         f.list = listening, f.called = 0, f.since = Len(soFar), f.state # "resolved"
  PROVE  FireInv(n, f)
<1>1. /\ made \in Nat /\ listening \in Seq(Registration)
      /\ firings \in Seq(Firing) /\ soFar \in Seq(Call)
      /\ DOMAIN firings = 1..Len(firings) /\ Len(firings) \in Nat
      /\ DOMAIN soFar = 1..Len(soFar) /\ Len(soFar) \in Nat /\ Len(listening) \in Nat
  BY DEF BrokerInv, BrokerTypeInv
<1>2. n \notin DOMAIN firings
  BY <1>1
<1>3. CallsOf(n) = {}
  BY <1>2 DEF CallsOf, BrokerInv, ListenInv
<1>4. Cardinality(CallsOf(n)) = 0
  BY <1>3, FS_EmptySet
<1>5. Numbered(listening, made)
  BY DEF BrokerInv, ListenInv
<1>6. Agree(listening, listening)
  BY <1>1, <1>5, NumbersTell
<1>7. \A i \in DOMAIN f.list :
        f.list[i].once => \A c \in 1..f.since : soFar[c].id # f.list[i].id
  BY <1>1 DEF BrokerInv, ListenInv
<1>8. \A c \in CallsOf(n) : /\ PlaceOf(c) \in DOMAIN f.list
                            /\ soFar[c].id = f.list[PlaceOf(c)].id
                            /\ soFar[c].handler = f.list[PlaceOf(c)].handler
  BY <1>3
<1>9. /\ Numbered(f.list, made) /\ Agree(f.list, listening)
      /\ f.called = Cardinality(CallsOf(n)) /\ f.called <= Len(f.list)
      /\ f.since <= Len(soFar)
  BY <1>1, <1>4, <1>5, <1>6
<1>10. QED
  BY <1>7, <1>8, <1>9, Zenon DEF FireInv

\* A fire of nobody is one more; another goes to its first call.
LEMMA FiresStep == BrokerInv /\ Fires => BrokerInv'
<1> SUFFICES ASSUME BrokerInv, Fires PROVE BrokerInv'
  OBVIOUS
<1>1. /\ made \in Nat /\ listening \in Seq(Registration)
      /\ firings \in Seq(Firing) /\ soFar \in Seq(Call)
      /\ DOMAIN firings = 1..Len(firings) /\ Len(firings) \in Nat /\ Len(soFar) \in Nat
  BY DEF BrokerInv, BrokerTypeInv
<1>2. PICK n \in Nat : n = Len(firings) + 1
  BY <1>1
<1> DEFINE f == [list |-> listening, called |-> 0, state |-> "awaits", since |-> Len(soFar)]
           empty == [f EXCEPT !.state = "nobody"]
<1>3. /\ f \in Firing /\ f.list = listening /\ f.called = 0 /\ f.since = Len(soFar)
      /\ f.state = "awaits"
      /\ empty \in Firing /\ empty.list = listening /\ empty.called = 0
      /\ empty.since = Len(soFar) /\ empty.state = "nobody"
  BY <1>1 DEF Firing
<1>4. CASE listening = <<>>
  <2>1. /\ firings' = Append(firings, empty)
        /\ UNCHANGED <<listening, soFar, made>>
    BY <1>4 DEF Fires
  <2>2. PICK e \in Firing : e = empty
    BY <1>3
  <2> HIDE DEF f, empty
  <2>3. FireInv(n, e)
    BY <1>2, <1>3, <2>2, FireBegins
  <2>4. /\ firings' \in Seq(Firing) /\ DOMAIN firings' = DOMAIN firings \cup {n}
        /\ firings'[n] = e
        /\ \A x \in DOMAIN firings : firings'[x] = firings[x]
    BY <1>1, <1>2, <2>1, <2>2
  <2>5. ASSUME NEW x \in DOMAIN firings' PROVE FireInv(x, firings[x])'
    <3>1. PICK g \in Firing : g = firings'[x] /\ FireInv(x, g)
      <4>1. CASE x = n
        BY <2>3, <2>4, <4>1, Zenon
      <4>2. CASE x # n
        <5>1. x \in DOMAIN firings /\ firings'[x] = firings[x]
          BY <2>4, <2>5, <4>2
        <5>2. firings[x] \in Firing /\ FireInv(x, firings[x])
          BY <1>1, <5>1, SMTT(60) DEF BrokerInv
        <5>3. QED
          BY <5>1, <5>2
      <4>3. QED
        BY <4>1, <4>2
    <3>2. FireInv(x, g)'
      BY <2>1, <3>1 DEF FireInv, CallsOf, PlaceOf
    <3>3. QED
      BY <3>1, <3>2, Zenon
  <2>6. BrokerTypeInv'
    BY <1>1, <2>1, <2>4 DEF BrokerTypeInv
  <2>7. ListenInv'
    BY <2>1, <2>4 DEF BrokerInv, ListenInv
  <2>8. QED
    BY <2>5, <2>6, <2>7 DEF BrokerInv
<1>5. CASE listening # <<>>
  <2>1. Calls(n, f) /\ made' = made
    BY <1>2, <1>5 DEF Fires
  <2>2. PICK e \in Firing : e = f
    BY <1>3
  <2>3. Calls(n, e)
    BY <2>1, <2>2, Zenon
  <2> HIDE DEF f, empty
  <2>4. FireInv(n, e) /\ e.state = "awaits"
    BY <1>2, <1>3, <2>2, FireBegins
  <2>5. QED
    BY <1>2, <2>1, <2>3, <2>4, CallsStep
<1>6. QED
  BY <1>4, <1>5

LEMMA ReturnedStep ==
  ASSUME BrokerInv, NEW n \in DOMAIN firings, Returned(n)
  PROVE  BrokerInv'
<1>1. firings \in Seq(Firing) /\ n \in Nat
  BY DEF BrokerInv, BrokerTypeInv
<1>2. PICK f \in Firing : f = firings[n]
  BY <1>1
<1>3. FireInv(n, f) /\ f.state = "awaits"
  BY <1>2 DEF BrokerInv, Returned
<1>4. Calls(n, f) /\ made' = made
  BY <1>2, Zenon DEF Returned
<1>5. QED
  BY <1>1, <1>3, <1>4, CallsStep

\* A fire that rejects keeps the calls it made.
LEMMA ThrowsStep ==
  ASSUME BrokerInv, NEW n \in DOMAIN firings, Throws(n)
  PROVE  BrokerInv'
<1>1. /\ firings \in Seq(Firing) /\ UNCHANGED <<listening, made, soFar>>
      /\ firings' = [firings EXCEPT ![n].state = "rejected"]
  BY DEF BrokerInv, BrokerTypeInv, Throws
<1>2. /\ firings' \in Seq(Firing) /\ DOMAIN firings' = DOMAIN firings
  <2> DEFINE new == [firings[n] EXCEPT !.state = "rejected"]
  <2>1. firings[n] \in Firing
    BY <1>1
  <2>2. new \in Firing
    BY <2>1 DEF Firing
  <2>3. firings' = [firings EXCEPT ![n] = new]
    BY <1>1
  <2> HIDE DEF new
  <2>4. QED
    BY <1>1, <2>2, <2>3
<1>3. ASSUME NEW x \in DOMAIN firings' PROVE FireInv(x, firings[x])'
  <2>1. PICK f \in Firing : f = firings[x] /\ FireInv(x, f)
    BY <1>1, <1>2, <1>3 DEF BrokerInv
  <2>2. PICK g : g = firings'[x]
    OBVIOUS
  <2>3. /\ g.list = f.list /\ g.called = f.called /\ g.since = f.since
        /\ g.state = f.state \/ g.state = "rejected"
    BY <1>1, <1>2, <1>3, <2>1, <2>2 DEF Firing
  <2>4. FireInv(x, g)
    BY <2>1, <2>3 DEF FireInv
  <2>5. FireInv(x, g)'
    BY <1>1, <2>4, SMTT(60) DEF FireInv, CallsOf, PlaceOf
  <2>6. QED
    BY <2>2, <2>5, Zenon
<1>4. BrokerTypeInv'
  BY <1>1, <1>2 DEF BrokerTypeInv, BrokerInv
<1>5. ListenInv'
  BY <1>1, <1>2 DEF BrokerInv, ListenInv
<1>6. QED
  BY <1>3, <1>4, <1>5 DEF BrokerInv

LEMMA BrokerStays == BrokerInv /\ UNCHANGED brokerVars => BrokerInv'
<1> SUFFICES ASSUME BrokerInv, UNCHANGED brokerVars PROVE BrokerInv'
  OBVIOUS
<1>1. UNCHANGED <<listening, made, firings, soFar>>
  BY DEF brokerVars
<1>2. BrokerTypeInv' /\ ListenInv'
  BY <1>1 DEF BrokerInv, BrokerTypeInv, ListenInv
<1>3. \A n \in DOMAIN firings : Agree(firings[n].list, listening')
  BY <1>1 DEF BrokerInv, FireInv
<1>4. made' \in Nat /\ made <= made'
  BY <1>1 DEF BrokerInv, BrokerTypeInv
<1>5. (\A n \in DOMAIN firings : FireInv(n, firings[n]))'
  BY <1>1, <1>3, <1>4, FiresKept
<1>6. QED
  BY <1>2, <1>5 DEF BrokerInv

\* What the run checks follows.
LEMMA BrokerInvSuffices == BrokerInv => BrokerInvariant
<1> SUFFICES ASSUME BrokerInv PROVE BrokerInvariant
  OBVIOUS
<1>1. /\ made \in Nat /\ listening \in Seq(Registration) /\ firings \in Seq(Firing)
      /\ \A n \in DOMAIN firings : firings[n] \in Firing
  BY DEF BrokerInv, BrokerTypeInv
<1>2. BrokerTypeOK
  <2>1. /\ \A i, j \in DOMAIN listening : i < j => listening[i].id < listening[j].id
        /\ \A i \in DOMAIN listening : listening[i].id \in 1..made
    BY DEF BrokerInv, ListenInv, Numbered
  <2>2. \A i \in DOMAIN listening : listening[i].handler \in Handler
    <3>1. \A i \in DOMAIN listening : listening[i] \in Registration
      BY <1>1
    <3>2. QED
      BY <3>1 DEF Registration
  <2>3. \A n \in DOMAIN firings :
          /\ firings[n].state \in {"nobody", "awaits", "resolved", "rejected"}
          /\ firings[n].called <= Len(firings[n].list)
    BY <1>1 DEF BrokerInv, FireInv, Firing
  <2>4. QED
    BY <2>1, <2>2, <2>3 DEF BrokerTypeOK
<1>3. SnapshotIsServed
  BY DEF SnapshotIsServed, BrokerInv, FireInv
<1>4. OnceUnlessOverlapping
  BY DEF OnceUnlessOverlapping, BrokerInv, FireInv
<1>5. QED
  BY <1>2, <1>3, <1>4 DEF BrokerInvariant

\* Whatever is registered and removed while fires await: a fire calls whoever listened when it
\* began, in that order, and a `once` handler is called again only by a fire that overlaps the
\* first (event-broker.ts).
THEOREM BrokerInvariantHolds == BrokerSpec => []BrokerInvariant
<1>1. BrokerInit => BrokerInv
  BY FS_EmptySet DEF BrokerInit, BrokerInv, BrokerTypeInv, ListenInv, Numbered
<1>2. BrokerInv /\ [BrokerNext]_brokerVars => BrokerInv'
  BY AddsStep, OffStep, FiresStep, ReturnedStep, ThrowsStep, BrokerStays DEF BrokerNext
<1>3. BrokerInv => BrokerInvariant
  BY BrokerInvSuffices
<1>4. QED
  BY <1>1, <1>2, <1>3, PTL DEF BrokerSpec

-----------------------------------------------------------------------------
(* The log writer: what the proof of LogInvariant adds to it *)

Entry == [key : LogKey, serializes : BOOLEAN]
Body == Seq(Nat \X Nat)
Bags == UNION {[keys -> Body] : keys \in SUBSET LogKey}
Batch == [bag : Bags, by : Nat]
Awaiting == [state : {"pending", "resolved", "rejected"}, upto : Nat, empty : BOOLEAN]

LogTypeInv ==
  /\ records \in Seq(Entry) /\ unflushed \in Seq(Nat) /\ batches \in Seq(Batch)
  /\ strays \subseteq [key : LogKey, body : Body] /\ appended \in [LogKey -> Body]
  /\ awaited \in Seq(Awaiting) /\ stamps \in Seq(Nat) /\ systemId \in Nat
  /\ {due, rejected, running} \subseteq BOOLEAN

\* What was taken from the buffer so far.
Taken == Len(records) - Len(unflushed)

\* The buffer has the last records, under the stamp they would be flushed with.
BufferInv ==
  /\ Len(unflushed) <= MaxBuffer /\ Len(unflushed) <= Len(records)
  /\ Len(stamps) = Len(records)
  /\ \A j \in DOMAIN unflushed :
       unflushed[j] = Taken + j /\ stamps[unflushed[j]] = systemId

\* A body is in order, of what was taken, and under the stamps of its records.
BodyFits(body, m, st) ==
  /\ body \in Body
  /\ \A j \in DOMAIN body : body[j][1] \in 1..m /\ body[j][2] = st[body[j][1]]
  /\ \A i, j \in DOMAIN body : i < j => body[i][1] < body[j][1]
Before(body, other) ==
  \A i \in DOMAIN body, j \in DOMAIN other : body[i][1] < other[j][1]

\* The bodies of a key follow each other: its object, what is under way of the first batch,
\* the batches behind; after a failure, its object and what is still under way.
ChainInv ==
  /\ \A k \in LogKey : BodyFits(appended[k], Taken, stamps)
  /\ \A n \in DOMAIN batches : DOMAIN batches[n].bag # {} /\ \A k \in DOMAIN batches[n].bag :
       BodyFits(batches[n].bag[k], Taken, stamps)
  /\ \A n \in DOMAIN batches : \A k \in LeftOf(n) : Before(appended[k], batches[n].bag[k])
  /\ \A m, n \in DOMAIN batches : m < n =>
       \A k \in DOMAIN batches[m].bag \cap DOMAIN batches[n].bag :
         Before(batches[m].bag[k], batches[n].bag[k])
  /\ rejected => batches = <<>>
  /\ batches = <<>> => appending = {}
  /\ batches # <<>> => appending \subseteq DOMAIN batches[1].bag
StraysInv ==
  /\ strays # {} => rejected
  /\ \A s \in strays : BodyFits(s.body, Taken, stamps) /\ Before(appended[s.key], s.body)
  /\ \A s, t \in strays : s.key = t.key => s = t

Stored(r) == \E k \in LogKey : r \in In(appended[k])
OnWay(r, m) ==
  \E n \in DOMAIN batches : n <= m /\ \E k \in LeftOf(n) : r \in In(batches[n].bag[k])

\* What was taken is somewhere, and a batch that a flush waits for covers it.
LossInv ==
  AllSerialize =>
    /\ ~rejected => \A r \in 1..Taken : Stored(r) \/ OnWay(r, Len(batches))
    /\ \A n \in DOMAIN batches : batches[n].by # 0 =>
         \A r \in 1..awaited[batches[n].by].upto : Stored(r) \/ OnWay(r, n)
CoverInv ==
  /\ \A n \in DOMAIN batches : batches[n].by # 0 => batches[n].by \in DOMAIN awaited
  /\ AllSerialize => \A n \in DOMAIN awaited :
       awaited[n].state = "resolved" /\ ~awaited[n].empty =>
         \A r \in 1..awaited[n].upto : Stored(r)

LogInv == LogTypeInv /\ BufferInv /\ ChainInv /\ StraysInv /\ LossInv /\ CoverInv

\* A set of numbers can be counted up: the largest comes last.
LEMMA CountingOf ==
  ASSUME NEW n \in Nat, NEW S, S \subseteq 1..n
  PROVE  /\ IsFiniteSet(S) /\ Cardinality(S) \in Nat
         /\ \E s : s \in Countings(S)
<1>1. ASSUME NEW m \in Nat, NEW R, R \subseteq 1..m
      PROVE  IsFiniteSet(R) /\ Cardinality(R) \in Nat
  <2>1. IsFiniteSet(1..m)
    BY <1>1, FS_Interval
  <2>2. IsFiniteSet(R)
    BY <1>1, <2>1, FS_Subset
  <2>3. QED
    BY <2>2, FS_CardinalityType
<1> DEFINE Bad == {m \in Nat : \E R : R \subseteq 1..m /\ ~(\E s : s \in Countings(R))}
<1>2. SUFFICES Bad = {}
  BY <1>1
<1>3. SUFFICES ASSUME Bad # {} PROVE FALSE
  OBVIOUS
<1>4. PICK m \in Bad : \A l \in Bad : m <= l
  BY <1>3, LeastOf
<1>5. PICK R : R \subseteq 1..m /\ ~(\E s : s \in Countings(R))
  BY <1>4
<1>6. m \in Nat /\ \A l \in Nat : l < m => l \notin Bad
  BY <1>4
<1>7. \A l \in Nat : \A Q : l < m /\ Q \subseteq 1..l => \E s : s \in Countings(Q)
  BY <1>6
<1> HIDE DEF Bad
<1>8. IsFiniteSet(R) /\ Cardinality(R) \in Nat
  BY <1>1, <1>5, <1>6
<1>9. CASE m \notin R
  <2>1. CASE m = 0
    <3>1. R = {}
      BY <1>5, <2>1
    <3>2. Cardinality(R) = 0
      BY <3>1, FS_EmptySet
    <3>3. <<>> \in Countings(R)
      BY <3>1, <3>2 DEF Countings
    <3>4. QED
      BY <1>5, <3>3
  <2>2. CASE m # 0
    <3>1. m - 1 \in Nat /\ m - 1 < m /\ R \subseteq 1..(m - 1)
      BY <1>5, <1>6, <1>9, <2>2
    <3>2. QED
      BY <1>5, <1>7, <3>1
  <2>3. QED
    BY <2>1, <2>2
<1>10. CASE m \in R
  <2> DEFINE Q == R \ {m}
  <2>1. m - 1 \in Nat /\ m - 1 < m /\ Q \subseteq 1..(m - 1) /\ Q \subseteq R
    BY <1>5, <1>6, <1>10
  <2>2. PICK s : s \in Countings(Q)
    BY <1>7, <2>1
  <2>3. Q \cup {m} = R /\ m \notin Q
    BY <1>10
  <2> HIDE DEF Q
  <2>4. IsFiniteSet(Q) /\ Cardinality(Q) \in Nat
    BY <1>1, <2>1
  <2> DEFINE c == Cardinality(Q)
             t == [i \in 1..(c + 1) |-> IF i = c + 1 THEN m ELSE s[i]]
  <2>5. Cardinality(R) = c + 1
    BY <2>3, <2>4, FS_AddElement
  <2>6. /\ s \in [1..c -> Q]
        /\ \A i, j \in 1..c : i < j => s[i] < s[j]
        /\ \A x \in Q : \E i \in 1..c : s[i] = x
    BY <2>2 DEF Countings
  <2>7. c \in Nat
    BY <2>4
  <2>8. /\ DOMAIN t = 1..(c + 1) /\ t[c + 1] = m /\ \A i \in 1..c : t[i] = s[i]
    BY <2>7
  <2>9. t \in [1..(c + 1) -> R]
    BY <2>3, <2>6, <2>7
  <2> HIDE DEF t, c
  <2>10. \A i, j \in 1..(c + 1) : i < j => t[i] < t[j]
    <3>1. SUFFICES ASSUME NEW i \in 1..(c + 1), NEW j \in 1..(c + 1), i < j
                   PROVE  t[i] < t[j]
      OBVIOUS
    <3>2. i \in 1..c /\ t[i] = s[i] /\ s[i] \in Q
      BY <2>6, <2>7, <2>8, <3>1
    <3>3. CASE j \in 1..c
      BY <2>6, <2>8, <3>1, <3>2, <3>3
    <3>4. CASE j = c + 1
      <4>1. t[i] \in 1..(m - 1) /\ t[j] = m /\ m \in Nat
        BY <1>6, <2>1, <2>8, <3>2, <3>4
      <4>2. QED
        BY <4>1
    <3>5. QED
      BY <2>7, <3>1, <3>3, <3>4
  <2>11. \A x \in R : \E i \in 1..(c + 1) : t[i] = x
    <3>1. SUFFICES ASSUME NEW x \in R PROVE \E i \in 1..(c + 1) : t[i] = x
      OBVIOUS
    <3>2. CASE x = m
      BY <2>7, <2>8, <3>2
    <3>3. CASE x # m
      <4>1. PICK i \in 1..c : s[i] = x
        BY <2>3, <2>6, <3>1, <3>3
      <4>2. i \in 1..(c + 1) /\ t[i] = x
        BY <2>7, <2>8, <4>1
      <4>3. QED
        BY <4>2
    <3>4. QED
      BY <3>2, <3>3
  <2>12. t \in Countings(R)
    BY <2>5, <2>8, <2>9, <2>10, <2>11 DEF Countings
  <2>13. QED
    BY <1>5, <2>12
<1>11. QED
  BY <1>9, <1>10

LEMMA FunctionIsSeq ==
  ASSUME NEW T, NEW l \in Nat, NEW s \in [1..l -> T]
  PROVE  s \in Seq(T)
OBVIOUS

LEMMA CountedUpIs ==
  ASSUME NEW n \in Nat, NEW S, S \subseteq 1..n, NEW s, s = CountedUp(S)
  PROVE  /\ \E l \in Nat : DOMAIN s = 1..l
         /\ s \in [DOMAIN s -> S]
         /\ \A i, j \in DOMAIN s : i < j => s[i] < s[j]
         /\ \A x \in S : \E i \in DOMAIN s : s[i] = x
<1>1. Cardinality(S) \in Nat /\ \E t : t \in Countings(S)
  BY CountingOf
<1>2. s \in Countings(S)
  BY <1>1 DEF CountedUp
<1>3. QED
  BY <1>1, <1>2 DEF Countings

\* What a flush makes of a batch of consecutive records.
Gathers(bag, lo, hi) ==
  /\ bag \in Bags /\ DOMAIN bag # {} /\ DOMAIN bag \subseteq LogKey
  /\ \A k \in DOMAIN bag :
       /\ bag[k] \in Body
       /\ \A j \in DOMAIN bag[k] : /\ bag[k][j][1] \in (lo + 1)..hi
                                  /\ bag[k][j][2] = systemId
       /\ \A i, j \in DOMAIN bag[k] : i < j => bag[k][i][1] < bag[k][j][1]
  /\ \A r \in (lo + 1)..hi : \E k \in DOMAIN bag : r \in In(bag[k])

LEMMA AggregateIs ==
  ASSUME NEW lo \in Nat, NEW b \in Seq(Nat), records' \in Seq(Entry), systemId \in Nat,
         lo + Len(b) <= Len(records'), \A j \in DOMAIN b : b[j] = lo + j, b # <<>>,
         NEW bag, bag = Aggregate(b)
  PROVE  Gathers(bag, lo, lo + Len(b))
<1> DEFINE keys == {records'[b[j]].key : j \in DOMAIN b}
           Places(k) == {j \in DOMAIN b : records'[b[j]].key = k}
           Ordered(k) == CountedUp(Places(k))
<1>1. /\ Len(b) \in Nat /\ DOMAIN b = 1..Len(b) /\ 1 \in DOMAIN b
      /\ \A j \in DOMAIN b : b[j] \in Nat /\ b[j] \in DOMAIN records'
  BY DEF Entry
<1>2. \A j \in DOMAIN b : records'[b[j]].key \in LogKey
  <2>1. \A j \in DOMAIN b : records'[b[j]] \in Entry
    BY <1>1
  <2>2. QED
    BY <2>1 DEF Entry
<1>3. DOMAIN bag = keys /\ keys # {} /\ keys \subseteq LogKey
  BY <1>1, <1>2, SMTT(60) DEF Aggregate
<1>4. ASSUME NEW k \in keys
      PROVE  /\ \E l \in Nat : DOMAIN Ordered(k) = 1..l
             /\ Ordered(k) \in [DOMAIN Ordered(k) -> Places(k)]
             /\ \A i, j \in DOMAIN Ordered(k) : i < j => Ordered(k)[i] < Ordered(k)[j]
             /\ \A x \in Places(k) : \E i \in DOMAIN Ordered(k) : Ordered(k)[i] = x
  <2>1. Places(k) \subseteq 1..Len(b)
    BY <1>1
  <2>2. PICK s : s = Ordered(k)
    OBVIOUS
  <2>3. s = CountedUp(Places(k))
    BY <2>2
  <2> HIDE DEF Places, Ordered
  <2>4. /\ \E l \in Nat : DOMAIN s = 1..l
        /\ s \in [DOMAIN s -> Places(k)]
        /\ \A i, j \in DOMAIN s : i < j => s[i] < s[j]
        /\ \A x \in Places(k) : \E i \in DOMAIN s : s[i] = x
    <3>1. PICK n \in Nat : n = Len(b)
      BY <1>1
    <3>2. PICK S : S = Places(k)
      OBVIOUS
    <3>3. S \subseteq 1..n /\ s = CountedUp(S)
      BY <2>1, <2>3, <3>1, <3>2
    <3>4. /\ \E l \in Nat : DOMAIN s = 1..l
          /\ s \in [DOMAIN s -> S]
          /\ \A i, j \in DOMAIN s : i < j => s[i] < s[j]
          /\ \A x \in S : \E i \in DOMAIN s : s[i] = x
      BY <3>3, CountedUpIs, SMTT(60)
    <3>5. QED
      BY <3>2, <3>4, SMTT(60)
  <2>5. QED
    BY <2>2, <2>4
<1>5. ASSUME NEW k \in keys
      PROVE  bag[k] = [j \in DOMAIN Ordered(k) |-> <<b[Ordered(k)[j]], systemId>>]
  BY <1>5 DEF Aggregate
<1> HIDE DEF Ordered
<1>6. ASSUME NEW k \in keys
      PROVE  /\ bag[k] \in Body
             /\ \A j \in DOMAIN bag[k] : /\ bag[k][j][1] \in (lo + 1)..(lo + Len(b))
                                        /\ bag[k][j][2] = systemId
             /\ \A i, j \in DOMAIN bag[k] : i < j => bag[k][i][1] < bag[k][j][1]
             /\ \A x \in Places(k) : b[x] \in In(bag[k])
  <2>1. PICK l \in Nat : DOMAIN Ordered(k) = 1..l
    BY <1>4, <1>6
  <2>2. PICK s : s = Ordered(k)
    OBVIOUS
  <2>3. /\ DOMAIN s = 1..l /\ s \in [1..l -> Places(k)]
        /\ \A i, j \in 1..l : i < j => s[i] < s[j]
        /\ \A x \in Places(k) : \E i \in 1..l : s[i] = x
    BY <1>4, <1>6, <2>1, <2>2
  <2>4. bag[k] = [j \in 1..l |-> <<b[s[j]], systemId>>]
    BY <1>5, <1>6, <2>1, <2>2
  <2>5. ASSUME NEW j \in 1..l
        PROVE  /\ s[j] \in 1..Len(b) /\ bag[k][j] = <<b[s[j]], systemId>>
               /\ b[s[j]] = lo + s[j] /\ lo + s[j] \in Nat
    <3>1. s[j] \in Places(k)
      BY <2>3
    <3>2. s[j] \in DOMAIN b
      BY <3>1
    <3>3. b[s[j]] = lo + s[j]
      BY <3>2
    <3>4. s[j] \in 1..Len(b) /\ lo + s[j] \in Nat
      BY <1>1, <3>2
    <3>5. bag[k][j] = <<b[s[j]], systemId>>
      BY <2>4
    <3>6. QED
      BY <3>3, <3>4, <3>5
  <2>6. ASSUME NEW j \in 1..l
        PROVE  bag[k][j][1] = b[s[j]] /\ bag[k][j][2] = systemId
    <3>1. bag[k][j] = <<b[s[j]], systemId>>
      BY <2>5, <2>6
    <3>2. QED
      BY <3>1
  <2>7. DOMAIN bag[k] = 1..l
    BY <2>4
  <2>8. ASSUME NEW j \in 1..l PROVE bag[k][j] \in Nat \X Nat
    <3>1. PICK r : r = b[s[j]]
      OBVIOUS
    <3>2. r \in Nat /\ bag[k][j] = <<r, systemId>>
      BY <2>5, <3>1
    <3>3. QED
      BY <3>2, SMTT(60)
  <2>9. bag[k] \in Body
    <3>1. bag[k] = [j \in 1..l |-> bag[k][j]]
      BY <2>4
    <3>2. bag[k] \in [1..l -> Nat \X Nat]
      BY <2>8, <3>1
    <3>3. bag[k] \in Seq(Nat \X Nat)
      BY <3>2, FunctionIsSeq
    <3>4. QED
      BY <3>3 DEF Body
  <2>10. ASSUME NEW j \in 1..l PROVE bag[k][j][1] \in (lo + 1)..(lo + Len(b))
    <3>1. bag[k][j][1] = lo + s[j] /\ s[j] \in 1..Len(b)
      BY <2>5, <2>6
    <3>2. QED
      BY <1>1, <3>1, SMTT(60)
  <2>11. ASSUME NEW i \in 1..l, NEW j \in 1..l, i < j
         PROVE  bag[k][i][1] < bag[k][j][1]
    <3>1. /\ bag[k][i][1] = lo + s[i] /\ s[i] \in 1..Len(b)
          /\ bag[k][j][1] = lo + s[j] /\ s[j] \in 1..Len(b)
      BY <2>5, <2>6
    <3>2. s[i] < s[j]
      BY <2>3, <2>11
    <3>3. QED
      BY <1>1, <3>1, <3>2, SMTT(60)
  <2>12. ASSUME NEW x \in Places(k) PROVE b[x] \in In(bag[k])
    <3>1. PICK i \in 1..l : s[i] = x
      BY <2>3, <2>12
    <3>2. bag[k][i][1] = b[x]
      BY <2>6, <3>1
    <3>3. QED
      BY <2>7, <3>2 DEF In
  <2>13. QED
    BY <2>6, <2>7, <2>9, <2>10, <2>11, <2>12
<1>7. ASSUME NEW r \in (lo + 1)..(lo + Len(b)) PROVE \E k \in DOMAIN bag : r \in In(bag[k])
  <2>1. PICK j \in DOMAIN b : b[j] = r
    <3>1. r - lo \in DOMAIN b /\ b[r - lo] = lo + (r - lo)
      BY <1>1, <1>7, SMTT(60)
    <3>2. lo + (r - lo) = r
      BY <1>7
    <3>3. QED
      BY <3>1, <3>2
  <2>2. records'[b[j]].key \in keys /\ j \in Places(records'[b[j]].key)
    BY <2>1
  <2>3. QED
    BY <1>3, <1>6, <2>1, <2>2
<1>8. bag \in [keys -> Body]
  <2>1. bag = [k \in keys |-> bag[k]]
    <3>1. \E F : bag = [k \in keys |-> F[k]]
      <4> DEFINE G == [k \in keys |-> [j \in DOMAIN CountedUp(Places(k)) |->
                                        <<b[CountedUp(Places(k))[j]], systemId>>]]
      <4>1. bag = [k \in keys |-> G[k]]
        BY DEF Aggregate
      <4>2. QED
        BY <4>1
    <3>2. QED
      BY <3>1
  <2>2. QED
    BY <1>6, <2>1
<1>9. bag \in Bags
  BY <1>3, <1>8 DEF Bags
<1>10. QED
  BY <1>3, <1>6, <1>7, <1>9 DEF Gathers

-----------------------------------------------------------------------------
(* Bodies *)

LEMMA BodyStays ==
  ASSUME NEW body, NEW m \in Nat, NEW st, BodyFits(body, m, st),
         NEW n \in Nat, m <= n, NEW tt, \A x \in 1..m : tt[x] = st[x]
  PROVE  BodyFits(body, n, tt)
BY DEF BodyFits

\* A body behind one that is before it.
LEMMA BodiesJoin ==
  ASSUME NEW m \in Nat, NEW st, NEW body, NEW next, BodyFits(body, m, st),
         BodyFits(next, m, st), Before(body, next), NEW join, join = body \o next
  PROVE  /\ BodyFits(join, m, st)
         /\ In(body) \subseteq In(join) /\ In(next) \subseteq In(join)
         /\ \A other : Before(body, other) /\ Before(next, other) => Before(join, other)
<1>1. /\ body \in Seq(Nat \X Nat) /\ next \in Seq(Nat \X Nat)
  BY DEF BodyFits, Body
<1>2. PICK b \in Nat, c \in Nat : b = Len(body) /\ c = Len(next)
  BY <1>1
<1>3. DOMAIN body = 1..b /\ DOMAIN next = 1..c
  BY <1>1, <1>2
<1>4. /\ join \in Seq(Nat \X Nat) /\ DOMAIN join = 1..(b + c)
      /\ \A i \in 1..b : join[i] = body[i]
      /\ \A i \in 1..c : join[b + i] = next[i]
  <2>1. join \in Seq(Nat \X Nat) /\ Len(join) = b + c
    BY <1>1, <1>2, ConcatProperties
  <2>2. DOMAIN join = 1..(b + c)
    BY <2>1
  <2>3. \A i \in 1..(b + c) : join[i] = IF i <= b THEN body[i] ELSE next[i - b]
    BY <1>1, <1>2, ConcatProperties
  <2>4. \A i \in 1..c : b + i \in 1..(b + c) /\ ~(b + i <= b) /\ (b + i) - b = i
    BY <1>2
  <2>5. \A i \in 1..b : i \in 1..(b + c) /\ i <= b
    BY <1>2
  <2>6. QED
    BY <2>1, <2>2, <2>3, <2>4, <2>5
<1>5. \A i \in 1..(b + c) : i \in 1..b \/ \E j \in 1..c : i = b + j
  <2>1. SUFFICES ASSUME NEW i \in 1..(b + c), i \notin 1..b
                 PROVE  i - b \in 1..c /\ i = b + (i - b)
    OBVIOUS
  <2>2. QED
    BY <1>2, <2>1
<1>6. \A i \in 1..(b + c) : join[i][1] \in 1..m /\ join[i][2] = st[join[i][1]]
  <2>1. /\ \A i \in 1..b : body[i][1] \in 1..m /\ body[i][2] = st[body[i][1]]
        /\ \A i \in 1..c : next[i][1] \in 1..m /\ next[i][2] = st[next[i][1]]
    BY <1>3 DEF BodyFits
  <2>2. ASSUME NEW i \in 1..(b + c)
        PROVE  join[i][1] \in 1..m /\ join[i][2] = st[join[i][1]]
    <3>1. CASE i \in 1..b
      BY <1>4, <2>1, <3>1
    <3>2. CASE i \notin 1..b
      <4>1. PICK j \in 1..c : i = b + j
        BY <1>5, <3>2
      <4>2. join[i] = next[j]
        BY <1>4, <4>1
      <4>3. QED
        BY <2>1, <4>2
    <3>3. QED
      BY <3>1, <3>2
  <2>3. QED
    BY <2>2
<1>7. ASSUME NEW i \in 1..(b + c), NEW j \in 1..(b + c), i < j
      PROVE  join[i][1] < join[j][1]
  <2>1. CASE j \in 1..b
    <3>1. i \in 1..b
      BY <1>2, <1>7, <2>1
    <3>2. body[i][1] < body[j][1]
      BY <1>3, <1>7, <2>1, <3>1 DEF BodyFits
    <3>3. QED
      BY <1>4, <2>1, <3>1, <3>2
  <2>2. CASE j \notin 1..b
    <3>1. PICK y \in 1..c : j = b + y
      BY <1>5, <2>2
    <3>2. CASE i \in 1..b
      <4>1. body[i][1] < next[y][1]
        BY <1>3, <3>1, <3>2 DEF Before
      <4>2. QED
        BY <1>4, <3>1, <3>2, <4>1
    <3>3. CASE i \notin 1..b
      <4>1. PICK x \in 1..c : i = b + x
        BY <1>5, <3>3
      <4>2. x < y
        BY <1>2, <1>7, <3>1, <4>1
      <4>3. next[x][1] < next[y][1]
        BY <1>3, <4>2 DEF BodyFits
      <4>4. QED
        BY <1>4, <3>1, <4>1, <4>3
    <3>4. QED
      BY <3>2, <3>3
  <2>3. QED
    BY <2>1, <2>2
<1>8. BodyFits(join, m, st)
  BY <1>4, <1>6, <1>7 DEF BodyFits, Body
<1>9. In(body) \subseteq In(join) /\ In(next) \subseteq In(join)
  <2>1. \A i \in 1..b : i \in 1..(b + c) /\ join[i][1] = body[i][1]
    BY <1>2, <1>4
  <2>2. \A i \in 1..c : b + i \in 1..(b + c) /\ join[b + i][1] = next[i][1]
    BY <1>2, <1>4, SMTT(60)
  <2>3. ASSUME NEW x \in In(body) PROVE x \in In(join)
    <3>1. PICK i \in 1..b : x = body[i][1]
      BY <1>3 DEF In
    <3>2. QED
      BY <1>4, <2>1, <3>1 DEF In
  <2>4. ASSUME NEW x \in In(next) PROVE x \in In(join)
    <3>1. PICK i \in 1..c : x = next[i][1]
      BY <1>3 DEF In
    <3>2. QED
      BY <1>4, <2>2, <3>1 DEF In
  <2>5. QED
    BY <2>3, <2>4
<1>10. ASSUME NEW other, Before(body, other), Before(next, other)
       PROVE  Before(join, other)
  <2>1. SUFFICES ASSUME NEW i \in 1..(b + c), NEW j \in DOMAIN other
                 PROVE  join[i][1] < other[j][1]
    BY <1>4 DEF Before
  <2>2. \/ \E x \in 1..b : join[i] = body[x]
        \/ \E x \in 1..c : join[i] = next[x]
    BY <1>4, <1>5
  <2>3. QED
    BY <1>3, <1>10, <2>2 DEF Before
<1>11. QED
  BY <1>8, <1>9, <1>10

\* A body lands in the object of its key.
LEMMA BodyLands ==
  ASSUME appended \in [LogKey -> Body], NEW k \in LogKey, NEW body, Lands(k, body),
         NEW m \in Nat, NEW st, BodyFits(appended[k], m, st), BodyFits(body, m, st),
         Before(appended[k], body)
  PROVE  /\ appended' \in [LogKey -> Body] /\ BodyFits(appended'[k], m, st)
         /\ \A l \in LogKey : l # k => appended'[l] = appended[l]
         /\ \A l \in LogKey : In(appended[l]) \subseteq In(appended'[l])
         /\ In(body) \subseteq In(appended'[k])
         /\ \A other : Before(appended[k], other) /\ Before(body, other)
                         => Before(appended'[k], other)
<1>1. PICK first : first = appended[k]
  OBVIOUS
<1>2. PICK join : join = first \o body
  OBVIOUS
<1>3. appended'[k] = join /\ \A l \in LogKey : l # k => appended'[l] = appended[l]
  BY <1>1, <1>2 DEF Lands
<1>4. /\ BodyFits(join, m, st) /\ In(first) \subseteq In(join) /\ In(body) \subseteq In(join)
      /\ \A other : Before(first, other) /\ Before(body, other) => Before(join, other)
  BY <1>1, <1>2, BodiesJoin
<1>5. appended' \in [LogKey -> Body]
  <2>1. join \in Body
    BY <1>4 DEF BodyFits
  <2>2. appended' = [appended EXCEPT ![k] = join]
    BY <1>1, <1>2 DEF Lands
  <2>3. QED
    BY <2>1, <2>2
<1>6. \A l \in LogKey : In(appended[l]) \subseteq In(appended'[l])
  <2>1. SUFFICES ASSUME NEW l \in LogKey PROVE In(appended[l]) \subseteq In(appended'[l])
    OBVIOUS
  <2>2. CASE l = k
    BY <1>1, <1>3, <1>4, <2>2, Zenon
  <2>3. CASE l # k
    BY <1>3, <2>3, Zenon
  <2>4. QED
    BY <2>2, <2>3
<1>7. QED
  BY <1>1, <1>3, <1>4, <1>5, <1>6, Zenon

-----------------------------------------------------------------------------
(* The steps of the log writer *)

LEMMA BatchIs ==
  ASSUME NEW c \in Batch
  PROVE  c.by \in Nat /\ DOMAIN c.bag \subseteq LogKey
BY DEF Batch, Bags

LEMMA TakenIs ==
  ASSUME LogInv
  PROVE  /\ Taken \in Nat /\ Len(records) \in Nat /\ Len(unflushed) \in Nat
         /\ Len(records) = Taken + Len(unflushed)
BY DEF LogInv, LogTypeInv, BufferInv, Taken

\* A batch of records that were not taken before.
NewBatch(c, m, n, st) ==
  /\ c \in Batch /\ DOMAIN c.bag # {}
  /\ \A k \in DOMAIN c.bag : /\ BodyFits(c.bag[k], n, st)
                            /\ \A j \in DOMAIN c.bag[k] : m < c.bag[k][j][1]
Grows(c) ==
  /\ UNCHANGED <<appending, rejected, strays, appended>>
  /\ batches' = batches \/ (batches' = Append(batches, c) /\ ~rejected)

LEMMA WayGrows ==
  ASSUME LogInv, NEW c, Grows(c), NEW b, b = Len(batches)
  PROVE  /\ b \in Nat /\ DOMAIN batches = 1..b
         /\ \A n \in 1..b : batches'[n] = batches[n] /\ LeftOf(n)' = LeftOf(n)
         /\ \A r, m : OnWay(r, m) => OnWay(r, m)'
         /\ \A r : Stored(r)' = Stored(r)
         /\ batches' # batches =>
              /\ DOMAIN batches' = 1..(b + 1) /\ batches'[b + 1] = c
              /\ Len(batches') = b + 1
              /\ LeftOf(b + 1)' = DOMAIN c.bag
              /\ \A k \in DOMAIN c.bag : \A r \in In(c.bag[k]) : OnWay(r, b + 1)'
<1>1. b \in Nat /\ DOMAIN batches = 1..b /\ batches \in Seq(Batch)
  BY DEF LogInv, LogTypeInv
<1>2. appending' = appending /\ appended' = appended /\ (b = 0 => appending = {})
  BY <1>1 DEF Grows, LogInv, ChainInv
<1>3. CASE batches' = batches
  <2>1. \A n \in 1..b : LeftOf(n)' = LeftOf(n)
    BY <1>2, <1>3 DEF LeftOf
  <2>2. \A r, m : OnWay(r, m) => OnWay(r, m)'
    BY <1>1, <1>3, <2>1 DEF OnWay
  <2>3. \A r : Stored(r)' = Stored(r)
    BY <1>2 DEF Stored
  <2>4. QED
    BY <1>1, <1>3, <2>1, <2>2, <2>3
<1>4. CASE batches' = Append(batches, c)
  <2>1. /\ DOMAIN batches' = 1..(b + 1) /\ batches'[b + 1] = c /\ Len(batches') = b + 1
        /\ \A n \in 1..b : batches'[n] = batches[n]
    BY <1>1, <1>4
  <2>2. \A n \in 1..b : LeftOf(n)' = LeftOf(n)
    BY <1>2, <2>1 DEF LeftOf
  <2>3. LeftOf(b + 1)' = DOMAIN c.bag
    BY <1>1, <1>2, <2>1 DEF LeftOf
  <2>4. \A n \in 1..b : n \in DOMAIN batches'
    BY <1>1, <2>1
  <2>5. ASSUME NEW r, NEW m, OnWay(r, m) PROVE OnWay(r, m)'
    <3>1. PICK n \in 1..b : n <= m /\ \E k \in LeftOf(n) : r \in In(batches[n].bag[k])
      BY <1>1, <2>5 DEF OnWay
    <3>2. n \in DOMAIN batches' /\ \E k \in LeftOf(n)' : r \in In(batches'[n].bag[k])
      BY <2>1, <2>2, <2>4, <3>1
    <3>3. QED
      BY <3>1, <3>2 DEF OnWay
  <2>6. \A r : Stored(r)' = Stored(r)
    BY <1>2 DEF Stored
  <2>7. ASSUME NEW k \in DOMAIN c.bag, NEW r \in In(c.bag[k]) PROVE OnWay(r, b + 1)'
    <3>1. b + 1 \in DOMAIN batches' /\ b + 1 <= b + 1
      BY <1>1, <2>1
    <3>2. \E l \in LeftOf(b + 1)' : r \in In(batches'[b + 1].bag[l])
      BY <2>1, <2>3, <2>7
    <3>3. QED
      BY <3>1, <3>2 DEF OnWay
  <2>8. QED
    BY <1>1, <2>1, <2>2, <2>3, <2>5, <2>6, <2>7
<1>5. QED
  BY <1>3, <1>4 DEF Grows

LEMMA ChainGrows ==
  ASSUME LogInv, NEW c, Grows(c), NEW m \in Nat, m = Taken, NEW n \in Nat, n = Taken',
         m <= n, \A x \in 1..m : stamps'[x] = stamps[x],
         batches' # batches => NewBatch(c, m, n, stamps')
  PROVE  ChainInv' /\ StraysInv' /\ batches' \in Seq(Batch)
<1>1. PICK b \in Nat : b = Len(batches) /\ DOMAIN batches = 1..b /\ batches \in Seq(Batch)
  BY DEF LogInv, LogTypeInv
<1>2. /\ \A i \in 1..b : batches'[i] = batches[i] /\ LeftOf(i)' = LeftOf(i)
      /\ batches' # batches =>
           /\ DOMAIN batches' = 1..(b + 1) /\ batches'[b + 1] = c
           /\ LeftOf(b + 1)' = DOMAIN c.bag
  BY <1>1, WayGrows
<1>3. PICK st, tt : st = stamps /\ tt = stamps'
  OBVIOUS
<1>4. \A body : BodyFits(body, m, st) => BodyFits(body, n, tt)
  BY <1>3, BodyStays
<1>5. /\ UNCHANGED <<appending, rejected, strays, appended>>
      /\ batches' # batches => batches' = Append(batches, c) /\ ~rejected
  BY DEF Grows
<1>6. \A k \in LogKey : BodyFits(appended'[k], n, tt)
  BY <1>3, <1>4, <1>5 DEF LogInv, ChainInv
<1>7. ASSUME NEW i \in DOMAIN batches', i \notin 1..b
      PROVE  /\ i = b + 1 /\ NewBatch(c, m, n, tt) /\ batches'[i] = c
             /\ LeftOf(i)' = DOMAIN c.bag
  BY <1>1, <1>2, <1>3, <1>7
<1>8. ASSUME NEW i \in DOMAIN batches'
      PROVE  /\ DOMAIN batches'[i].bag # {} /\ DOMAIN batches'[i].bag \subseteq LogKey
             /\ LeftOf(i)' \subseteq DOMAIN batches'[i].bag
             /\ \A k \in DOMAIN batches'[i].bag : BodyFits(batches'[i].bag[k], n, tt)
  <2>1. CASE i \in 1..b
    <3>1. PICK d \in Batch : d = batches[i]
      BY <1>1, <2>1
    <3>2. /\ DOMAIN d.bag # {} /\ \A k \in DOMAIN d.bag : BodyFits(d.bag[k], m, st)
      BY <1>1, <1>3, <2>1, <3>1 DEF LogInv, ChainInv
    <3>3. LeftOf(i) \subseteq DOMAIN d.bag
      BY <1>1, <2>1, <3>1 DEF LeftOf, LogInv, ChainInv
    <3>4. DOMAIN d.bag \subseteq LogKey
      BY BatchIs
    <3>5. QED
      BY <1>2, <1>4, <2>1, <3>1, <3>2, <3>3, <3>4
  <2>2. CASE i \notin 1..b
    <3>1. NewBatch(c, m, n, tt) /\ batches'[i] = c /\ LeftOf(i)' = DOMAIN c.bag
      BY <1>7, <1>8, <2>2
    <3>2. DOMAIN c.bag \subseteq LogKey
      BY <3>1, BatchIs DEF NewBatch
    <3>3. QED
      BY <3>1, <3>2 DEF NewBatch
  <2>3. QED
    BY <2>1, <2>2
<1>9. ASSUME NEW i \in DOMAIN batches', NEW k \in LeftOf(i)'
      PROVE  Before(appended'[k], batches'[i].bag[k])
  <2>1. CASE i \in 1..b
    BY <1>1, <1>2, <1>5, <1>9, <2>1 DEF LogInv, ChainInv
  <2>2. CASE i \notin 1..b
    <3>1. NewBatch(c, m, n, tt) /\ batches'[i] = c /\ k \in DOMAIN c.bag /\ k \in LogKey
      BY <1>7, <1>8, <1>9, <2>2
    <3>2. \A j \in DOMAIN appended[k] : appended[k][j][1] \in 1..m
      BY <3>1 DEF LogInv, ChainInv, BodyFits
    <3>3. \A j \in DOMAIN c.bag[k] : m < c.bag[k][j][1] /\ c.bag[k][j][1] \in 1..n
      BY <3>1 DEF NewBatch, BodyFits
    <3>4. QED
      BY <1>5, <3>1, <3>2, <3>3 DEF Before
  <2>3. QED
    BY <2>1, <2>2
<1>10. ASSUME NEW i \in DOMAIN batches', NEW j \in DOMAIN batches', i < j,
              NEW k \in DOMAIN batches'[i].bag \cap DOMAIN batches'[j].bag
       PROVE  Before(batches'[i].bag[k], batches'[j].bag[k])
  <2>1. i \in 1..b
    BY <1>1, <1>2, <1>7, <1>10
  <2>2. CASE j \in 1..b
    BY <1>1, <1>2, <1>10, <2>1, <2>2 DEF LogInv, ChainInv
  <2>3. CASE j \notin 1..b
    <3>1. NewBatch(c, m, n, tt) /\ batches'[j] = c /\ k \in DOMAIN c.bag
      BY <1>7, <1>10, <2>3
    <3>2. PICK body : body = batches[i].bag[k] /\ BodyFits(body, m, st)
      BY <1>1, <1>2, <1>3, <1>10, <2>1 DEF LogInv, ChainInv
    <3>3. \A x \in DOMAIN body : body[x][1] \in 1..m
      BY <3>2 DEF BodyFits
    <3>4. \A x \in DOMAIN c.bag[k] : m < c.bag[k][x][1] /\ c.bag[k][x][1] \in 1..n
      BY <3>1 DEF NewBatch, BodyFits
    <3>5. Before(body, c.bag[k])
      BY <3>3, <3>4 DEF Before
    <3>6. QED
      BY <1>2, <2>1, <3>1, <3>2, <3>5
  <2>4. QED
    BY <2>2, <2>3
<1>11. /\ rejected' => batches' = <<>>
       /\ batches' = <<>> => appending' = {}
       /\ batches' # <<>> => appending' \subseteq DOMAIN batches'[1].bag
  <2>1. CASE batches' = batches
    BY <1>5, <2>1 DEF LogInv, ChainInv
  <2>2. CASE batches' # batches
    <3>1. ~rejected' /\ 1 \in DOMAIN batches'
      BY <1>2, <1>5, <2>2
    <3>2. CASE b = 0
      <4>1. appending' = {}
        BY <1>1, <1>5, <3>2 DEF LogInv, ChainInv
      <4>2. batches' # <<>>
        BY <3>1
      <4>3. QED
        BY <3>1, <4>1, <4>2
    <3>3. CASE b # 0
      <4>1. 1 \in 1..b /\ batches # <<>>
        BY <1>1, <3>3
      <4>2. appending' \subseteq DOMAIN batches'[1].bag
        BY <1>2, <1>5, <4>1 DEF LogInv, ChainInv
      <4>3. batches' # <<>>
        BY <3>1
      <4>4. QED
        BY <3>1, <4>2, <4>3
    <3>4. QED
      BY <3>2, <3>3
  <2>3. QED
    BY <2>1, <2>2
<1>12. \A s \in strays' : /\ BodyFits(s.body, n, tt) /\ Before(appended'[s.key], s.body)
  BY <1>3, <1>4, <1>5 DEF LogInv, StraysInv
<1>13. ChainInv'
  <2>1. \A k \in LogKey : BodyFits(appended'[k], Taken', stamps')
    BY <1>3, <1>6
  <2>2. \A i \in DOMAIN batches' : DOMAIN batches'[i].bag # {} /\
          \A k \in DOMAIN batches'[i].bag : BodyFits(batches'[i].bag[k], Taken', stamps')
    BY <1>3, <1>8
  <2>3. QED
    BY <1>9, <1>10, <1>11, <2>1, <2>2 DEF ChainInv
<1>14. StraysInv'
  <2>1. \A s \in strays' : BodyFits(s.body, Taken', stamps') /\ Before(appended'[s.key], s.body)
    BY <1>3, <1>12
  <2>2. /\ strays' # {} => rejected'
        /\ \A s, t \in strays' : s.key = t.key => s = t
    BY <1>5 DEF LogInv, StraysInv
  <2>3. QED
    BY <2>1, <2>2 DEF StraysInv
<1>15. batches' \in Seq(Batch)
  BY <1>1, <1>5 DEF NewBatch
<1>16. QED
  BY <1>13, <1>14, <1>15

\* What a flush did with a batch: it is the last, or it is lost.
Flushed(c, by, m, n, st) ==
  /\ Grows(c)
  /\ batches' # batches =>
       /\ c.by = by /\ NewBatch(c, m, n, st)
       /\ \A r \in (m + 1)..n : \E k \in DOMAIN c.bag : r \in In(c.bag[k])
  /\ batches' = batches => rejected \/ \E j \in 1..n : ~records'[j].serializes

LEMMA FlushBatchIs ==
  ASSUME LogInv, NEW b \in Seq(Nat), b # <<>>, NEW by \in Nat, FlushBatch(b, by),
         NEW m \in Nat, m = Taken, records' \in Seq(Entry), NEW n \in Nat,
         n = Len(records'), m + Len(b) = n, \A j \in DOMAIN b : b[j] = m + j,
         NEW st, \A j \in DOMAIN b : st[b[j]] = systemId,
         UNCHANGED <<appending, rejected, strays, appended>>
  PROVE  \E c : Flushed(c, by, m, n, st)
<1>1. /\ systemId \in Nat /\ batches \in Seq(Batch) /\ DOMAIN b = 1..Len(b) /\ Len(b) \in Nat
  BY DEF LogInv, LogTypeInv
<1>2. CASE Spoilt(b) \/ NeverSent(b)
  <2>1. batches' = batches
    BY <1>2 DEF FlushBatch
  <2>2. rejected \/ \E j \in 1..n : ~records'[j].serializes
    <3>1. CASE NeverSent(b)
      BY <3>1 DEF NeverSent
    <3>2. CASE Spoilt(b)
      <4>1. PICK j \in DOMAIN b : ~records'[b[j]].serializes
        BY <3>2 DEF Spoilt
      <4>2. b[j] \in 1..n
        BY <1>1, <4>1
      <4>3. QED
        BY <4>1, <4>2
    <3>3. QED
      BY <1>2, <3>1, <3>2
  <2>3. Flushed(0, by, m, n, st)
    BY <2>1, <2>2 DEF Flushed, Grows
  <2>4. QED
    BY <2>3
<1>3. CASE ~Spoilt(b) /\ ~NeverSent(b)
  <2>1. PICK bag : bag = Aggregate(b)
    OBVIOUS
  <2>2. batches' = Append(batches, [bag |-> bag, by |-> by])
    BY <1>3, <2>1 DEF FlushBatch
  <2>3. /\ bag \in Bags /\ DOMAIN bag # {} /\ DOMAIN bag \subseteq LogKey
        /\ \A k \in DOMAIN bag :
             /\ bag[k] \in Body
             /\ \A j \in DOMAIN bag[k] : /\ bag[k][j][1] \in (m + 1)..n
                                        /\ bag[k][j][2] = systemId
             /\ \A i, j \in DOMAIN bag[k] : i < j => bag[k][i][1] < bag[k][j][1]
        /\ \A r \in (m + 1)..n : \E k \in DOMAIN bag : r \in In(bag[k])
    <3>1. m + Len(b) <= Len(records')
      BY <1>1
    <3>2. Gathers(bag, m, m + Len(b))
      BY <1>1, <2>1, <3>1, AggregateIs
    <3>3. QED
      BY <3>2, Zenon DEF Gathers
  <2>4. \A r \in (m + 1)..n : st[r] = systemId
    <3>1. SUFFICES ASSUME NEW r \in (m + 1)..n PROVE st[r] = systemId
      OBVIOUS
    <3>2. r - m \in DOMAIN b /\ m + (r - m) = r
      BY <1>1, <3>1
    <3>3. QED
      BY <3>2
  <2>5. PICK c : c = [bag |-> bag, by |-> by]
    OBVIOUS
  <2>6. c \in Batch /\ c.bag = bag /\ c.by = by
    BY <2>3, <2>5 DEF Batch
  <2>7. ASSUME NEW k \in DOMAIN bag
        PROVE  BodyFits(bag[k], n, st) /\ \A j \in DOMAIN bag[k] : m < bag[k][j][1]
    <3>1. PICK body : body = bag[k]
      OBVIOUS
    <3>2. /\ body \in Body
          /\ \A j \in DOMAIN body : body[j][1] \in (m + 1)..n /\ body[j][2] = systemId
          /\ \A i, j \in DOMAIN body : i < j => body[i][1] < body[j][1]
      BY <2>3, <2>7, <3>1
    <3>3. \A j \in DOMAIN body : /\ body[j][1] \in 1..n /\ m < body[j][1]
                                /\ body[j][2] = st[body[j][1]]
      BY <2>4, <3>2
    <3>4. QED
      BY <3>1, <3>2, <3>3 DEF BodyFits
  <2>8. NewBatch(c, m, n, st)
    BY <2>3, <2>6, <2>7 DEF NewBatch
  <2>9. Grows(c)
    BY <1>3, <2>2, <2>5 DEF Grows, NeverSent
  <2>10. batches' # batches
    BY <1>1, <2>2
  <2>11. Flushed(c, by, m, n, st)
    BY <2>3, <2>6, <2>8, <2>9, <2>10 DEF Flushed
  <2>12. QED
    BY <2>11
<1>4. QED
  BY <1>2, <1>3

\* Nothing taken is lost, and what a flush waits for is covered.
LEMMA LossGrows ==
  ASSUME LogInv, NEW c, Grows(c), NEW m \in Nat, m = Taken, NEW n \in Nat, n = Taken',
         AllSerialize' => AllSerialize,
         \A i \in DOMAIN awaited : /\ i \in DOMAIN awaited'
                                   /\ awaited'[i].upto = awaited[i].upto,
         AllSerialize' /\ ~rejected => \A r \in (m + 1)..n : OnWay(r, Len(batches))',
         batches' # batches /\ c.by # 0 =>
           /\ c.by \in DOMAIN awaited' /\ awaited'[c.by].upto \in Nat
           /\ awaited'[c.by].upto <= n
  PROVE  /\ LossInv'
         /\ \A i \in DOMAIN batches' : batches'[i].by # 0 => batches'[i].by \in DOMAIN awaited'
<1>1. PICK b \in Nat : b = Len(batches) /\ DOMAIN batches = 1..b /\ batches \in Seq(Batch)
  BY DEF LogInv, LogTypeInv
<1>2. /\ \A i \in 1..b : batches'[i] = batches[i]
      /\ \A r, i : OnWay(r, i) => OnWay(r, i)'
      /\ \A r : Stored(r)' = Stored(r)
      /\ batches' # batches =>
           /\ DOMAIN batches' = 1..(b + 1) /\ batches'[b + 1] = c /\ Len(batches') = b + 1
  BY <1>1, WayGrows
<1>3. rejected' = rejected /\ (batches' # batches => ~rejected)
  BY DEF Grows
<1>4. \A r, i, j : i \in Int /\ j \in Int /\ i <= j /\ OnWay(r, i)' => OnWay(r, j)'
  <2>1. DOMAIN batches' \subseteq Int
    BY <1>1, <1>2
  <2>2. QED
    BY <2>1 DEF OnWay
<1>5. Len(batches') \in Int /\ b <= Len(batches')
  BY <1>1, <1>2
<1>6. ASSUME AllSerialize', ~rejected', NEW r \in 1..n
      PROVE  Stored(r)' \/ OnWay(r, Len(batches))'
  <2>1. CASE r \in (m + 1)..n
    BY <1>3, <1>6, <2>1
  <2>2. CASE r \notin (m + 1)..n
    <3>1. r \in 1..m
      BY <1>6, <2>2
    <3>2. Stored(r) \/ OnWay(r, b)
      BY <1>1, <1>3, <1>6, <3>1 DEF LogInv, LossInv
    <3>3. CASE Stored(r)
      BY <1>2, <3>3
    <3>4. CASE OnWay(r, b)
      <4>1. PICK d : d = Len(batches')
        OBVIOUS
      <4>2. OnWay(r, d)'
        BY <1>1, <1>2, <1>4, <1>5, <3>4, <4>1
      <4>3. QED
        BY <4>1, <4>2, Zenon
    <3>5. QED
      BY <3>2, <3>3, <3>4
  <2>3. QED
    BY <2>1, <2>2
<1>7. ASSUME AllSerialize', NEW i \in DOMAIN batches', batches'[i].by # 0,
             NEW r \in 1..awaited'[batches'[i].by].upto
      PROVE  Stored(r)' \/ OnWay(r, i)'
  <2>1. CASE i \in 1..b
    <3>1. batches'[i] = batches[i] /\ batches[i].by \in DOMAIN awaited
      BY <1>1, <1>2, <1>7, <2>1 DEF LogInv, CoverInv
    <3>2. r \in 1..awaited[batches[i].by].upto
      BY <1>7, <3>1
    <3>3. Stored(r) \/ OnWay(r, i)
      BY <1>1, <1>7, <2>1, <3>1, <3>2 DEF LogInv, LossInv
    <3>4. QED
      BY <1>2, <3>3
  <2>2. CASE i \notin 1..b
    <3>1. batches' # batches /\ i = b + 1 /\ batches'[i] = c /\ Len(batches') = i
      BY <1>1, <1>2, <1>7, <2>2
    <3>2. r \in 1..n
      BY <1>7, <3>1
    <3>3. Stored(r)' \/ OnWay(r, Len(batches))'
      BY <1>3, <1>6, <1>7, <3>1, <3>2
    <3>4. QED
      BY <3>1, <3>3, Zenon
  <2>3. QED
    BY <2>1, <2>2
<1>8. ASSUME NEW i \in DOMAIN batches', batches'[i].by # 0
      PROVE  batches'[i].by \in DOMAIN awaited'
  BY <1>1, <1>2, <1>8, SMTT(60) DEF LogInv, CoverInv
<1>9. LossInv'
  BY <1>6, <1>7 DEF LossInv
<1>10. QED
  BY <1>8, <1>9

LEMMA AppendIs ==
  ASSUME NEW T, NEW s \in Seq(T), NEW l, l = Len(s), NEW x \in T, NEW t, t = Append(s, x)
  PROVE  /\ l \in Nat /\ DOMAIN s = 1..l
         /\ t \in Seq(T) /\ Len(t) = l + 1 /\ DOMAIN t = 1..(l + 1)
         /\ t[l + 1] = x /\ \A i \in 1..l : t[i] = s[i]
OBVIOUS

LEMMA FlushedOnWay ==
  ASSUME LogInv, NEW c, NEW by, NEW m, NEW n, NEW st, Flushed(c, by, m, n, st),
         n = Len(records'), AllSerialize', ~rejected, NEW r \in (m + 1)..n
  PROVE  OnWay(r, Len(batches))'
<1>1. batches' # batches
  <2>1. \A j \in 1..n : records'[j].serializes
    BY DEF AllSerialize, Recorded
  <2>2. QED
    BY <2>1 DEF Flushed
<1>2. PICK k \in DOMAIN c.bag : r \in In(c.bag[k])
  BY <1>1 DEF Flushed
<1>3. PICK b : b = Len(batches)
  OBVIOUS
<1>4. OnWay(r, b + 1)' /\ Len(batches') = b + 1
  BY <1>1, <1>2, <1>3, WayGrows DEF Flushed
<1>5. QED
  BY <1>4, Zenon

LEMMA StoredStays ==
  ASSUME LogInv, AllSerialize' => AllSerialize, appended' = appended,
         \A n \in DOMAIN awaited' : \/ n \in DOMAIN awaited /\ awaited'[n] = awaited[n]
                                    \/ awaited'[n].state # "resolved"
                                    \/ awaited'[n].empty
  PROVE  AllSerialize' => \A n \in DOMAIN awaited' :
           awaited'[n].state = "resolved" /\ ~awaited'[n].empty =>
             \A r \in 1..awaited'[n].upto : Stored(r)'
<1>1. SUFFICES ASSUME AllSerialize, NEW n \in DOMAIN awaited',
                      awaited'[n].state = "resolved", ~awaited'[n].empty,
                      NEW r \in 1..awaited'[n].upto
               PROVE  Stored(r)'
  OBVIOUS
<1>2. n \in DOMAIN awaited /\ awaited'[n] = awaited[n]
  BY <1>1
<1>3. Stored(r)
  BY <1>1, <1>2 DEF LogInv, CoverInv
<1>4. QED
  BY <1>3 DEF Stored

\* A record more is in the buffer, or is flushed with it.
LEMMA WriteRecordStep ==
  ASSUME LogInv, LogAssumption, NEW k \in LogKey, NEW good \in BOOLEAN, WriteRecord(k, good)
  PROVE  LogInv'
<1>1. PICK m \in Nat, l \in Nat, u \in Nat :
        m = Taken /\ l = Len(records) /\ u = Len(unflushed) /\ l = m + u
  BY TakenIs
<1> DEFINE e == [key |-> k, serializes |-> good]
           b == Append(unflushed, Len(records'))
<1>2. /\ records' = Append(records, e) /\ stamps' = Append(stamps, systemId)
      /\ UNCHANGED <<systemId, appending, rejected, strays, appended, awaited>>
  BY DEF WriteRecord
<1>3. /\ records \in Seq(Entry) /\ unflushed \in Seq(Nat) /\ stamps \in Seq(Nat)
      /\ systemId \in Nat /\ e \in Entry /\ Len(stamps) = l /\ batches \in Seq(Batch)
      /\ \A j \in 1..u : unflushed[j] = m + j /\ stamps[unflushed[j]] = systemId
  <2>1. /\ records \in Seq(Entry) /\ unflushed \in Seq(Nat) /\ stamps \in Seq(Nat)
        /\ systemId \in Nat /\ batches \in Seq(Batch)
    BY DEF LogInv, LogTypeInv
  <2>2. DOMAIN unflushed = 1..u
    BY <1>1, <2>1
  <2>3. Len(stamps) = l /\ \A j \in 1..u : unflushed[j] = m + j /\ stamps[unflushed[j]] = systemId
    BY <1>1, <2>2 DEF LogInv, BufferInv
  <2>4. e \in Entry
    BY DEF Entry
  <2>5. QED
    BY <2>1, <2>3, <2>4
<1> HIDE DEF e
<1>4. /\ records' \in Seq(Entry) /\ Len(records') = l + 1
      /\ \A i \in 1..l : records'[i] = records[i]
      /\ stamps' \in Seq(Nat) /\ Len(stamps') = l + 1 /\ stamps'[l + 1] = systemId
      /\ \A i \in 1..l : stamps'[i] = stamps[i]
  <2>1. /\ records' \in Seq(Entry) /\ Len(records') = l + 1
        /\ \A i \in 1..l : records'[i] = records[i]
    <3>1. PICK t : t = records'
      OBVIOUS
    <3>2. t = Append(records, e) /\ records \in Seq(Entry) /\ e \in Entry /\ l = Len(records)
      BY <1>1, <1>2, <1>3, <3>1
    <3>3. /\ t \in Seq(Entry) /\ Len(t) = l + 1 /\ t[l + 1] = e
          /\ \A i \in 1..l : t[i] = records[i]
      BY <3>2, AppendIs
    <3>4. QED
      BY <3>1, <3>3, Zenon
  <2>2. /\ stamps' \in Seq(Nat) /\ Len(stamps') = l + 1 /\ stamps'[l + 1] = systemId
        /\ \A i \in 1..l : stamps'[i] = stamps[i]
    <3>1. PICK t : t = stamps'
      OBVIOUS
    <3>2. t = Append(stamps, systemId) /\ stamps \in Seq(Nat) /\ systemId \in Nat /\ l = Len(stamps)
      BY <1>1, <1>2, <1>3, <3>1
    <3>3. /\ t \in Seq(Nat) /\ Len(t) = l + 1 /\ t[l + 1] = systemId
          /\ \A i \in 1..l : t[i] = stamps[i]
      BY <3>2, AppendIs
    <3>4. QED
      BY <3>1, <3>3, Zenon
  <2>3. QED
    BY <2>1, <2>2
<1>5. AllSerialize' => AllSerialize
  BY <1>1, <1>4 DEF AllSerialize, Recorded
<1>6. /\ b \in Seq(Nat) /\ Len(b) = u + 1 /\ DOMAIN b = 1..(u + 1) /\ b # <<>>
      /\ \A j \in 1..u : b[j] = unflushed[j]
      /\ b[u + 1] = l + 1
  <2>1. b = Append(unflushed, l + 1) /\ l + 1 \in Nat
    BY <1>1, <1>4
  <2> HIDE DEF b
  <2>2. QED
    BY <1>1, <1>3, <2>1, AppendIs, SMTT(60)
<1> HIDE DEF b
<1>7. ASSUME NEW j \in DOMAIN b
      PROVE  b[j] = m + j /\ stamps'[b[j]] = systemId
  <2>1. CASE j \in 1..u
    <3>1. b[j] = unflushed[j] /\ unflushed[j] = m + j /\ stamps[unflushed[j]] = systemId
      BY <1>3, <1>6, <2>1
    <3>2. m + j \in 1..l
      BY <1>1, <2>1
    <3>3. stamps'[m + j] = stamps[m + j]
      BY <1>4, <3>2
    <3>4. QED
      BY <3>1, <3>3
  <2>2. CASE j = u + 1
    BY <1>1, <1>4, <1>6, <2>2, SMTT(60)
  <2>3. QED
    BY <1>1, <1>6, <1>7, <2>1, <2>2
<1>8. \A x \in 1..m : stamps'[x] = stamps[x]
  BY <1>1, <1>4
<1>9. AllSerialize' => \A n \in DOMAIN awaited' :
        awaited'[n].state = "resolved" /\ ~awaited'[n].empty =>
          \A r \in 1..awaited'[n].upto : Stored(r)'
  BY <1>2, <1>5, StoredStays
<1>10. CASE AutoFlushable(b)
  <2>1. FlushBatch(b, 0) /\ unflushed' = <<>> /\ due' = FALSE /\ running' \in BOOLEAN
    BY <1>10 DEF WriteRecord, b
  <2>2. PICK n \in Nat : n = l + 1
    BY <1>1
  <2>3. n = Taken' /\ n = Len(records') /\ m <= n /\ m + Len(b) = n
    BY <1>1, <1>4, <1>6, <2>1, <2>2 DEF Taken
  <2>4. PICK st : st = stamps'
    OBVIOUS
  <2>5. PICK c : Flushed(c, 0, m, n, st)
    BY <1>1, <1>2, <1>4, <1>6, <1>7, <2>1, <2>3, <2>4, FlushBatchIs
  <2>6. Grows(c) /\ (batches' # batches => c.by = 0 /\ NewBatch(c, m, n, stamps'))
    BY <2>4, <2>5 DEF Flushed
  <2>7. ChainInv' /\ StraysInv' /\ batches' \in Seq(Batch)
    BY <1>1, <1>8, <2>3, <2>6, ChainGrows
  <2>8. AllSerialize' /\ ~rejected => \A r \in (m + 1)..n : OnWay(r, Len(batches))'
    BY <2>3, <2>5, FlushedOnWay
  <2>9. /\ LossInv'
        /\ \A i \in DOMAIN batches' : batches'[i].by # 0 => batches'[i].by \in DOMAIN awaited'
    BY <1>1, <1>2, <1>5, <2>3, <2>6, <2>8, LossGrows
  <2>10. LogTypeInv'
    <3>1. unflushed' \in Seq(Nat)
      BY <2>1
    <3>2. /\ strays' \subseteq [key : LogKey, body : Body] /\ appended' \in [LogKey -> Body]
          /\ awaited' \in Seq(Awaiting) /\ systemId' \in Nat
          /\ {due', rejected', running'} \subseteq BOOLEAN
      BY <1>2, <2>1 DEF LogInv, LogTypeInv
    <3>3. QED
      BY <1>4, <2>7, <3>1, <3>2 DEF LogTypeInv
  <2>11. BufferInv'
    BY <1>4, <2>1, LogAssumption DEF BufferInv, LogAssumption
  <2>12. CoverInv'
    BY <1>9, <2>9 DEF CoverInv
  <2>13. QED
    BY <2>7, <2>9, <2>10, <2>11, <2>12 DEF LogInv
<1>11. CASE ~AutoFlushable(b)
  <2>1. unflushed' = b /\ UNCHANGED <<batches, due, running>>
    BY <1>11 DEF WriteRecord, b
  <2>2. m = Taken'
    <3>1. Len(unflushed') = u + 1 /\ Len(records') = l + 1
      BY <1>4, <1>6, <2>1
    <3>2. QED
      BY <1>1, <3>1 DEF Taken
  <2>3. Grows(0) /\ batches' = batches
    BY <1>2, <2>1 DEF Grows
  <2>4. ChainInv' /\ StraysInv' /\ batches' \in Seq(Batch)
    BY <1>1, <1>8, <2>2, <2>3, ChainGrows
  <2>5. /\ LossInv'
        /\ \A i \in DOMAIN batches' : batches'[i].by # 0 => batches'[i].by \in DOMAIN awaited'
    BY <1>1, <1>2, <1>5, <2>2, <2>3, LossGrows
  <2>6. LogTypeInv'
    BY <1>2, <1>4, <1>6, <2>1, <2>4 DEF LogInv, LogTypeInv
  <2>7. Len(b) <= MaxBuffer
    BY <1>1, <1>6, <1>11 DEF AutoFlushable, LogAssumption
  <2>8. BufferInv'
    <3>1. Len(unflushed') <= MaxBuffer /\ Len(unflushed') <= Len(records')
      BY <1>1, <1>4, <1>6, <2>1, <2>7, SMTT(60)
    <3>2. \A j \in DOMAIN unflushed' :
            unflushed'[j] = Taken' + j /\ stamps'[unflushed'[j]] = systemId'
      BY <1>2, <1>7, <2>1, <2>2
    <3>3. QED
      BY <1>4, <3>1, <3>2 DEF BufferInv
  <2>9. CoverInv'
    BY <1>9, <2>5 DEF CoverInv
  <2>10. QED
    BY <2>4, <2>5, <2>6, <2>8, <2>9 DEF LogInv
<1>12. QED
  BY <1>10, <1>11

\* A flush takes the buffer, and waits for it.
LEMMA FlushLogsStep == LogInv /\ LogAssumption /\ FlushLogs => LogInv'
<1> SUFFICES ASSUME LogInv, LogAssumption, FlushLogs PROVE LogInv'
  OBVIOUS
<1>1. PICK m \in Nat, n \in Nat, u \in Nat :
        m = Taken /\ n = Len(records) /\ u = Len(unflushed) /\ n = m + u
  BY TakenIs
<1>2. /\ unflushed' = <<>> /\ due' = FALSE
      /\ UNCHANGED <<records, systemId, appending, rejected, strays, appended, stamps, running>>
  BY DEF FlushLogs
<1>3. /\ records \in Seq(Entry) /\ unflushed \in Seq(Nat) /\ stamps \in Seq(Nat)
      /\ systemId \in Nat /\ batches \in Seq(Batch) /\ awaited \in Seq(Awaiting)
  BY DEF LogInv, LogTypeInv
<1>4. /\ DOMAIN unflushed = 1..u /\ Len(stamps) = n
      /\ \A j \in DOMAIN unflushed : unflushed[j] = m + j /\ stamps[unflushed[j]] = systemId
  BY <1>1, <1>3 DEF LogInv, BufferInv
<1>5. n = Taken' /\ m <= n
  BY <1>1, <1>2 DEF Taken
<1>6. PICK a \in Nat : a = Len(awaited)
  BY <1>3
<1> DEFINE fate == IF unflushed = <<>> THEN "resolved"
                   ELSE IF Spoilt(unflushed) \/ NeverSent(unflushed) THEN "rejected"
                   ELSE "pending"
           w == [state |-> fate, upto |-> n, empty |-> unflushed = <<>>]
<1>7. awaited' = Append(awaited, w)
  BY <1>1 DEF FlushLogs
<1>8. /\ w \in Awaiting /\ w.upto = n /\ (w.state = "resolved" => w.empty)
  BY <1>1 DEF Awaiting
<1> HIDE DEF w
<1>9. /\ awaited' \in Seq(Awaiting) /\ DOMAIN awaited' = 1..(a + 1) /\ awaited'[a + 1] = w
      /\ \A i \in 1..a : awaited'[i] = awaited[i]
      /\ DOMAIN awaited = 1..a
  <2>1. PICK t : t = awaited'
    OBVIOUS
  <2>2. t = Append(awaited, w)
    BY <1>7, <2>1
  <2>3. /\ t \in Seq(Awaiting) /\ DOMAIN t = 1..(a + 1) /\ t[a + 1] = w
        /\ \A i \in 1..a : t[i] = awaited[i]
        /\ DOMAIN awaited = 1..a
    BY <1>3, <1>6, <1>8, <2>2, AppendIs
  <2>4. QED
    BY <2>1, <2>3, Zenon
<1>10. AllSerialize' => AllSerialize
  BY <1>2 DEF AllSerialize, Recorded
<1>11. AllSerialize' => \A i \in DOMAIN awaited' :
         awaited'[i].state = "resolved" /\ ~awaited'[i].empty =>
           \A r \in 1..awaited'[i].upto : Stored(r)'
  <2>1. \A i \in DOMAIN awaited' : \/ i \in DOMAIN awaited /\ awaited'[i] = awaited[i]
                                   \/ awaited'[i].state # "resolved"
                                   \/ awaited'[i].empty
    BY <1>6, <1>8, <1>9
  <2>2. QED
    BY <1>2, <1>10, <2>1, StoredStays
<1>12. \A i \in DOMAIN awaited : i \in DOMAIN awaited' /\ awaited'[i].upto = awaited[i].upto
  BY <1>6, <1>9
<1>13. \A x \in 1..m : stamps'[x] = stamps[x]
  BY <1>2
<1>14. BufferInv'
  <2>1. Len(unflushed') = 0 /\ DOMAIN unflushed' = {}
    BY <1>2
  <2>2. 0 <= MaxBuffer /\ 0 <= n
    BY <1>1 DEF LogAssumption
  <2>3. Len(unflushed') <= MaxBuffer /\ Len(unflushed') <= Len(records')
    BY <1>1, <1>2, <2>1, <2>2
  <2>4. Len(stamps') = Len(records')
    BY <1>1, <1>2, <1>4
  <2>5. QED
    BY <2>1, <2>3, <2>4 DEF BufferInv
<1>15. \E c : /\ Grows(c)
              /\ batches' # batches => c.by = a + 1 /\ NewBatch(c, m, n, stamps')
              /\ AllSerialize' /\ ~rejected => \A r \in (m + 1)..n : OnWay(r, Len(batches))'
  <2>1. CASE unflushed = <<>>
    <3>1. batches' = batches /\ m = n
      BY <1>1, <2>1 DEF FlushLogs
    <3>2. Grows(0) /\ (m + 1)..n = {}
      BY <1>2, <3>1 DEF Grows
    <3>3. QED
      BY <3>1, <3>2
  <2>2. CASE unflushed # <<>>
    <3>1. FlushBatch(unflushed, a + 1) /\ a + 1 \in Nat
      BY <1>6, <2>2 DEF FlushLogs
    <3>2. PICK st, b, by : st = stamps' /\ b = unflushed /\ by = a + 1
      OBVIOUS
    <3>3. /\ FlushBatch(b, by) /\ by \in Nat /\ b \in Seq(Nat) /\ b # <<>> /\ m + Len(b) = n
          /\ \A j \in DOMAIN b : b[j] = m + j /\ st[b[j]] = systemId
      BY <1>1, <1>2, <1>3, <1>4, <2>2, <3>1, <3>2
    <3>4. records' \in Seq(Entry) /\ n = Len(records')
      BY <1>1, <1>2, <1>3
    <3>5. PICK c : Flushed(c, by, m, n, st)
      BY <1>1, <1>2, <3>3, <3>4, FlushBatchIs
    <3>6. Grows(c) /\ (batches' # batches => c.by = a + 1 /\ NewBatch(c, m, n, stamps'))
      BY <3>2, <3>5 DEF Flushed
    <3>7. AllSerialize' /\ ~rejected => \A r \in (m + 1)..n : OnWay(r, Len(batches))'
      BY <3>4, <3>5, FlushedOnWay
    <3>8. QED
      BY <3>6, <3>7
  <2>3. QED
    BY <2>1, <2>2
<1>16. PICK c : /\ Grows(c)
                /\ batches' # batches => c.by = a + 1 /\ NewBatch(c, m, n, stamps')
                /\ AllSerialize' /\ ~rejected => \A r \in (m + 1)..n : OnWay(r, Len(batches))'
  BY <1>15
<1>17. ChainInv' /\ StraysInv' /\ batches' \in Seq(Batch)
  BY <1>1, <1>5, <1>13, <1>16, ChainGrows
<1>18. batches' # batches /\ c.by # 0 =>
         /\ c.by \in DOMAIN awaited' /\ awaited'[c.by].upto \in Nat
         /\ awaited'[c.by].upto <= n
  BY <1>6, <1>8, <1>9, <1>16
<1>19. /\ LossInv'
       /\ \A i \in DOMAIN batches' : batches'[i].by # 0 => batches'[i].by \in DOMAIN awaited'
  BY <1>1, <1>5, <1>10, <1>12, <1>16, <1>18, LossGrows
<1>20. LogTypeInv'
  <2>1. /\ strays' \subseteq [key : LogKey, body : Body] /\ appended' \in [LogKey -> Body]
        /\ {due', rejected', running'} \subseteq BOOLEAN
    BY <1>2 DEF LogInv, LogTypeInv
  <2>2. unflushed' \in Seq(Nat)
    BY <1>2
  <2>3. QED
    BY <1>2, <1>3, <1>9, <1>17, <2>1, <2>2 DEF LogTypeInv
<1>21. CoverInv'
  BY <1>11, <1>19 DEF CoverInv
<1>22. QED
  BY <1>14, <1>17, <1>19, <1>20, <1>21 DEF LogInv

\* A name that changes applies to the buffer, which has nothing that was taken.
LEMMA UpdateSystemIdStep == LogInv /\ UpdateSystemId => LogInv'
<1> SUFFICES ASSUME LogInv, UpdateSystemId PROVE LogInv'
  OBVIOUS
<1>1. PICK m \in Nat, l \in Nat, u \in Nat :
        m = Taken /\ l = Len(records) /\ u = Len(unflushed) /\ l = m + u
  BY TakenIs
<1>2. /\ systemId' = systemId + 1
      /\ UNCHANGED <<records, unflushed, due, batches, appending, rejected, strays,
                     appended, awaited, running>>
      /\ stamps' = [i \in DOMAIN stamps |->
                      IF \E j \in DOMAIN unflushed : unflushed[j] = i THEN systemId'
                      ELSE stamps[i]]
  BY DEF UpdateSystemId
<1>3. /\ unflushed \in Seq(Nat) /\ stamps \in Seq(Nat) /\ systemId \in Nat
      /\ batches \in Seq(Batch) /\ DOMAIN unflushed = 1..u
  BY <1>1 DEF LogInv, LogTypeInv
<1>4. /\ Len(stamps) = l /\ \A j \in 1..u : unflushed[j] = m + j
      /\ Len(unflushed) <= MaxBuffer
  BY <1>1, <1>3 DEF LogInv, BufferInv
<1>5. DOMAIN stamps = 1..l /\ \A i \in 1..l : stamps[i] \in Nat
  BY <1>3, <1>4
<1>6. /\ DOMAIN stamps' = 1..l
      /\ \A i \in 1..l : stamps'[i] = IF \E j \in 1..u : unflushed[j] = i THEN systemId'
                                      ELSE stamps[i]
  BY <1>2, <1>3, <1>5
<1>7. stamps' \in Seq(Nat) /\ Len(stamps') = l
  <2>1. systemId' \in Nat
    BY <1>2, <1>3
  <2>2. \A i \in 1..l : stamps'[i] \in Nat
    BY <1>5, <1>6, <2>1
  <2>3. stamps' = [i \in 1..l |-> stamps'[i]]
    BY <1>2, <1>5
  <2>4. stamps' \in [1..l -> Nat]
    BY <2>2, <2>3
  <2>5. QED
    BY <1>1, <2>4, FunctionIsSeq
<1>8. \A x \in 1..m : stamps'[x] = stamps[x]
  <2>1. SUFFICES ASSUME NEW x \in 1..m PROVE stamps'[x] = stamps[x]
    OBVIOUS
  <2>2. x \in 1..l /\ \A j \in 1..u : unflushed[j] # x
    BY <1>1, <1>4, <2>1
  <2>3. QED
    BY <1>6, <2>2
<1>9. m = Taken' /\ m <= m
  BY <1>1, <1>2 DEF Taken
<1>10. BufferInv'
  <2>1. ASSUME NEW j \in 1..u PROVE stamps'[unflushed[j]] = systemId'
    <3>1. unflushed[j] \in 1..l
      BY <1>1, <1>4
    <3>2. QED
      BY <1>6, <3>1
  <2>2. Len(unflushed') <= MaxBuffer /\ Len(unflushed') <= Len(records')
    <3>1. unflushed' = unflushed /\ records' = records
      BY <1>2
    <3>2. u <= l
      BY <1>1
    <3>3. QED
      BY <1>1, <1>4, <3>1, <3>2
  <2>3. \A j \in DOMAIN unflushed' :
          unflushed'[j] = Taken' + j /\ stamps'[unflushed'[j]] = systemId'
    BY <1>2, <1>3, <1>4, <1>9, <2>1
  <2>4. Len(stamps') = Len(records')
    BY <1>1, <1>2, <1>7
  <2>5. QED
    BY <2>2, <2>3, <2>4 DEF BufferInv
<1>11. Grows(0) /\ batches' = batches
  BY <1>2 DEF Grows
<1>12. ChainInv' /\ StraysInv'
  BY <1>1, <1>8, <1>9, <1>11, ChainGrows
<1>13. AllSerialize' = AllSerialize /\ awaited' = awaited
  BY <1>2 DEF AllSerialize, Recorded
<1>14. LossInv' /\ CoverInv'
  <2>1. (m + 1)..m = {}
    BY <1>1
  <2>2. LossInv'
    BY <1>1, <1>9, <1>11, <1>13, <2>1, LossGrows
  <2>3. CoverInv'
    BY <1>2, <1>13 DEF LogInv, CoverInv, Stored
  <2>4. QED
    BY <2>2, <2>3
<1>15. LogTypeInv'
  BY <1>2, <1>3, <1>7 DEF LogInv, LogTypeInv
<1>16. QED
  BY <1>10, <1>12, <1>14, <1>15 DEF LogInv

LEMMA LogStays ==
  ASSUME LogInv, due' \in BOOLEAN,
         UNCHANGED <<records, unflushed, systemId, batches, appending, rejected, strays,
                     appended, awaited, stamps, running>>
  PROVE  LogInv'
<1>1. Taken' = Taken
  BY DEF Taken
<1>2. LogTypeInv' /\ BufferInv'
  BY <1>1 DEF LogInv, LogTypeInv, BufferInv
<1>3. ChainInv' /\ StraysInv'
  BY <1>1 DEF LogInv, ChainInv, StraysInv, LeftOf
<1>4. LossInv' /\ CoverInv'
  BY <1>1 DEF LogInv, LossInv, CoverInv, Stored, OnWay, LeftOf, AllSerialize, Recorded
<1>5. QED
  BY <1>2, <1>3, <1>4 DEF LogInv

\* A batch that starts has all of its keys under way, as it had before.
LEMMA BatchStartsStep == LogInv /\ BatchStarts => LogInv'
<1> SUFFICES ASSUME LogInv, BatchStarts PROVE LogInv'
  OBVIOUS
<1>1. /\ batches # <<>> /\ appending = {} /\ appending' = DOMAIN batches[1].bag
      /\ UNCHANGED <<records, unflushed, due, systemId, batches, rejected, strays, appended,
                     awaited, stamps, running>>
  BY DEF BatchStarts
<1>2. Taken' = Taken
  BY <1>1 DEF Taken
<1>3. LogTypeInv' /\ BufferInv'
  BY <1>1, <1>2 DEF LogInv, LogTypeInv, BufferInv
<1>4. \A n : LeftOf(n)' = LeftOf(n)
  BY <1>1 DEF LeftOf
<1>5. ChainInv' /\ StraysInv'
  BY <1>1, <1>2, <1>4 DEF LogInv, ChainInv, StraysInv
<1>6. LossInv' /\ CoverInv'
  BY <1>1, <1>2, <1>4
  DEF LogInv, LossInv, CoverInv, Stored, OnWay, AllSerialize, Recorded
<1>7. QED
  BY <1>3, <1>5, <1>6 DEF LogInv

\* The body of a key that is under way follows the object of the key.
LEMMA UnderWay ==
  ASSUME LogInv, NEW k \in appending
  PROVE  /\ k \in LogKey /\ ~rejected /\ strays = {}
         /\ batches \in Seq(Batch) /\ Len(batches) \in Nat /\ 1 \in DOMAIN batches
         /\ DOMAIN batches = 1..Len(batches)
         /\ k \in DOMAIN batches[1].bag /\ appending \subseteq DOMAIN batches[1].bag
         /\ DOMAIN batches[1].bag \subseteq LogKey
         /\ LeftOf(1) = appending
         /\ BodyFits(appended[k], Taken, stamps)
         /\ BodyFits(batches[1].bag[k], Taken, stamps)
         /\ Before(appended[k], batches[1].bag[k])
<1>1. batches # <<>> /\ batches \in Seq(Batch)
  BY DEF LogInv, LogTypeInv, ChainInv
<1>2. Len(batches) \in Nat /\ DOMAIN batches = 1..Len(batches) /\ 1 \in DOMAIN batches
  BY <1>1
<1>3. ~rejected /\ strays = {} /\ appending \subseteq DOMAIN batches[1].bag
  BY <1>1 DEF LogInv, ChainInv, StraysInv
<1>4. DOMAIN batches[1].bag \subseteq LogKey
  BY <1>1, <1>2, BatchIs
<1>5. LeftOf(1) = appending
  BY DEF LeftOf
<1>6. k \in LogKey /\ k \in DOMAIN batches[1].bag
  BY <1>3, <1>4
<1>7. /\ BodyFits(appended[k], Taken, stamps)
      /\ BodyFits(batches[1].bag[k], Taken, stamps)
      /\ Before(appended[k], batches[1].bag[k])
  BY <1>2, <1>5, <1>6 DEF LogInv, ChainInv
<1>8. QED
  BY <1>1, <1>2, <1>3, <1>4, <1>5, <1>6, <1>7

\* What a key that lands leaves of the batches: all of them, or all but the first.
LEMMA AppendLeaves ==
  ASSUME LogInv, NEW k \in appending, AppendDone(k), NEW b, b = Len(batches)
  PROVE  \E d \in {0, 1} :
           /\ batches' \in Seq(Batch) /\ DOMAIN batches' = 1..(b - d)
           /\ Len(batches') = b - d
           /\ d = 1 <=> appending = {k}
           /\ appending' = appending \ {k}
           /\ \A i \in 1..(b - d) :
                /\ batches'[i] = batches[i + d]
                /\ LeftOf(i)' = IF i + d = 1 THEN appending \ {k} ELSE LeftOf(i + d)
<1>1. /\ batches \in Seq(Batch) /\ b \in Nat /\ 1 \in 1..b /\ DOMAIN batches = 1..b
  BY UnderWay
<1>2. /\ appending' = appending \ {k}
      /\ batches' = IF appending = {k} THEN Tail(batches) ELSE batches
  BY DEF AppendDone
<1>3. \A i \in 2..b : LeftOf(i) = DOMAIN batches[i].bag
  BY DEF LeftOf
<1>4. CASE appending = {k}
  <2>1. /\ batches' \in Seq(Batch) /\ Len(batches') = b - 1 /\ DOMAIN batches' = 1..(b - 1)
        /\ \A i \in 1..(b - 1) : batches'[i] = batches[i + 1]
    <3>1. batches' = Tail(batches) /\ batches # <<>>
      BY <1>1, <1>2, <1>4
    <3>2. batches' \in Seq(Batch) /\ Len(batches') = b - 1
      BY <1>1, <3>1
    <3>3. \A i \in 1..(b - 1) : batches'[i] = batches[i + 1]
      BY <1>1, <3>1
    <3>4. DOMAIN batches' = 1..Len(batches')
      BY <3>2
    <3>5. QED
      BY <3>2, <3>3, <3>4
  <2>2. appending' = {}
    BY <1>2, <1>4
  <2>3. ASSUME NEW i \in 1..(b - 1) PROVE LeftOf(i)' = LeftOf(i + 1) /\ i + 1 # 1
    <3>1. i + 1 \in 2..b /\ i + 1 # 1
      BY <1>1
    <3>2. LeftOf(i)' = DOMAIN batches'[i].bag
      BY <2>2 DEF LeftOf
    <3>3. QED
      BY <1>3, <2>1, <3>1, <3>2
  <2>4. QED
    BY <1>2, <1>4, <2>1, <2>3
<1>5. CASE appending # {k}
  <2>1. batches' = batches /\ appending \ {k} # {}
    BY <1>2, <1>5
  <2>2. ASSUME NEW i \in 1..b
        PROVE  LeftOf(i)' = IF i = 1 THEN appending \ {k} ELSE LeftOf(i)
    <3>1. CASE i = 1
      BY <1>2, <2>1, <3>1 DEF LeftOf
    <3>2. CASE i # 1
      BY <2>1, <3>2 DEF LeftOf
    <3>3. QED
      BY <3>1, <3>2
  <2>3. b - 0 = b /\ \A i \in 1..b : i + 0 = i
    BY <1>1
  <2>4. \E d \in {0} :
           /\ batches' \in Seq(Batch) /\ DOMAIN batches' = 1..(b - d)
           /\ Len(batches') = b - d
           /\ d = 1 <=> appending = {k}
           /\ appending' = appending \ {k}
           /\ \A i \in 1..(b - d) :
                /\ batches'[i] = batches[i + d]
                /\ LeftOf(i)' = IF i + d = 1 THEN appending \ {k} ELSE LeftOf(i + d)
    BY <1>1, <1>2, <1>5, <2>1, <2>2, <2>3
  <2>5. QED
    BY <2>4
<1>6. QED
  BY <1>4, <1>5

LEMMA AwaitedBecomes ==
  ASSUME LogInv, NEW k \in appending, AppendDone(k)
  PROVE  /\ awaited' \in Seq(Awaiting) /\ DOMAIN awaited' = DOMAIN awaited
         /\ \A n \in DOMAIN awaited : /\ awaited'[n].upto = awaited[n].upto
                                      /\ awaited'[n].empty = awaited[n].empty
         /\ \A n \in DOMAIN awaited :
              \/ awaited'[n] = awaited[n]
              \/ appending = {k} /\ batches[1].by = n /\ n # 0
<1>1. awaited \in Seq(Awaiting)
  BY DEF LogInv, LogTypeInv
<1>2. CASE IsLast(k) /\ batches[1].by # 0
  <2>1. PICK n : n = batches[1].by
    OBVIOUS
  <2>2. n \in DOMAIN awaited /\ n # 0
    BY <1>2, <2>1, UnderWay DEF LogInv, CoverInv
  <2>3. awaited' = [awaited EXCEPT ![n].state = "resolved"]
    BY <1>2, <2>1 DEF AppendDone
  <2> DEFINE w == [awaited[n] EXCEPT !.state = "resolved"]
  <2>4. w \in Awaiting /\ w.upto = awaited[n].upto /\ w.empty = awaited[n].empty
    <3>1. awaited[n] \in Awaiting
      BY <1>1, <2>2
    <3>2. QED
      BY <3>1 DEF Awaiting
  <2>5. awaited' = [awaited EXCEPT ![n] = w]
    BY <2>3
  <2> HIDE DEF w
  <2>6. /\ awaited' \in Seq(Awaiting) /\ DOMAIN awaited' = DOMAIN awaited
        /\ awaited'[n] = w /\ \A x \in DOMAIN awaited : x # n => awaited'[x] = awaited[x]
    BY <1>1, <2>2, <2>4, <2>5
  <2>7. \A x \in DOMAIN awaited : /\ awaited'[x].upto = awaited[x].upto
                                  /\ awaited'[x].empty = awaited[x].empty
    BY <2>4, <2>6
  <2>8. QED
    BY <1>2, <2>1, <2>2, <2>6, <2>7 DEF IsLast
<1>3. CASE ~(IsLast(k) /\ batches[1].by # 0)
  <2>1. awaited' = awaited
    BY <1>3 DEF AppendDone
  <2>2. QED
    BY <1>1, <2>1
<1>4. QED
  BY <1>2, <1>3

\* A body that lands is stored, and what follows it follows the object.
LEMMA AppendDoneStep ==
  ASSUME LogInv, NEW k \in appending, AppendDone(k)
  PROVE  LogInv'
<1>0. PICK st, body : st = stamps /\ body = batches[1].bag[k]
  OBVIOUS
<1>1. PICK m \in Nat, b \in Nat : m = Taken /\ b = Len(batches)
  BY TakenIs, UnderWay
<1>2. /\ k \in LogKey /\ ~rejected /\ strays = {}
      /\ batches \in Seq(Batch) /\ 1 \in 1..b /\ DOMAIN batches = 1..b
      /\ k \in DOMAIN batches[1].bag /\ appending \subseteq DOMAIN batches[1].bag
      /\ LeftOf(1) = appending
      /\ BodyFits(appended[k], m, st) /\ BodyFits(body, m, st) /\ Before(appended[k], body)
  BY <1>0, <1>1, UnderWay
<1>3. /\ UNCHANGED <<records, unflushed, due, systemId, rejected, strays, stamps, running>>
      /\ Lands(k, body)
  BY <1>0, <1>1 DEF AppendDone
<1>4. /\ appended' \in [LogKey -> Body] /\ BodyFits(appended'[k], m, st)
      /\ \A l \in LogKey : l # k => appended'[l] = appended[l]
      /\ \A l \in LogKey : In(appended[l]) \subseteq In(appended'[l])
      /\ In(body) \subseteq In(appended'[k])
      /\ \A other : Before(appended[k], other) /\ Before(body, other)
                      => Before(appended'[k], other)
  <2>1. appended \in [LogKey -> Body]
    BY DEF LogInv, LogTypeInv
  <2>2. QED
    BY <1>2, <1>3, <2>1, BodyLands
<1>5. PICK d \in {0, 1} :
        /\ batches' \in Seq(Batch) /\ DOMAIN batches' = 1..(b - d)
        /\ Len(batches') = b - d
        /\ d = 1 <=> appending = {k}
        /\ appending' = appending \ {k}
        /\ \A i \in 1..(b - d) :
             /\ batches'[i] = batches[i + d]
             /\ LeftOf(i)' = IF i + d = 1 THEN appending \ {k} ELSE LeftOf(i + d)
  BY <1>0, <1>1, AppendLeaves, ZenonT(60)
<1>6. \A i \in 1..(b - d) : i + d \in 1..b /\ i + d \in Nat
  BY <1>0, <1>1
<1>7. m = Taken' /\ st = stamps'
  BY <1>0, <1>1, <1>3 DEF Taken
<1>8. \A r : Stored(r) => Stored(r)'
  BY <1>4 DEF Stored
<1>9. \A r \in In(body) : Stored(r)'
  BY <1>2, <1>4 DEF Stored
<1>10. ASSUME NEW r, NEW i \in Int, OnWay(r, i + d)
       PROVE  Stored(r)' \/ OnWay(r, i)'
  <2>1. PICK n \in 1..b : n <= i + d /\ \E l \in LeftOf(n) : r \in In(batches[n].bag[l])
    BY <1>2, <1>10 DEF OnWay
  <2>2. PICK l \in LeftOf(n) : r \in In(batches[n].bag[l])
    BY <2>1
  <2>3. CASE n = 1 /\ l = k
    <3>1. r \in In(body)
      BY <1>0, <1>1, <2>2, <2>3, Zenon
    <3>2. QED
      BY <1>9, <3>1
  <2>4. CASE ~(n = 1 /\ l = k)
    <3>1. d = 1 => n # 1
      BY <1>2, <1>5, <2>2, <2>4
    <3>2. n - d \in 1..(b - d) /\ (n - d) + d = n /\ n - d <= i
      BY <1>0, <1>1, <1>10, <2>1, <3>1
    <3>3. n - d \in DOMAIN batches' /\ batches'[n - d] = batches[n]
      BY <1>5, <3>2
    <3>4. l \in LeftOf(n - d)'
      <4>1. LeftOf(n - d)' = IF n = 1 THEN appending \ {k} ELSE LeftOf(n)
        BY <1>5, <3>2
      <4>2. QED
        BY <1>2, <2>2, <2>4, <4>1
    <3>5. PICK x : x = n - d
      OBVIOUS
    <3>6. x \in DOMAIN batches' /\ x <= i /\ l \in LeftOf(x)' /\ r \in In(batches'[x].bag[l])
      BY <2>2, <3>2, <3>3, <3>4, <3>5
    <3>7. OnWay(r, i)'
      BY <3>6 DEF OnWay
    <3>8. QED
      BY <3>7
  <2>5. QED
    BY <2>3, <2>4
<1>11. ChainInv'
  <2>1. \A l \in LogKey : BodyFits(appended'[l], Taken', stamps')
    BY <1>0, <1>1, <1>4, <1>7 DEF LogInv, ChainInv
  <2>2. ASSUME NEW i \in DOMAIN batches'
        PROVE  /\ DOMAIN batches'[i].bag # {}
               /\ \A l \in DOMAIN batches'[i].bag :
                    BodyFits(batches'[i].bag[l], Taken', stamps')
               /\ \A l \in LeftOf(i)' : Before(appended'[l], batches'[i].bag[l])
    <3>1. PICK x \in 1..b : x = i + d /\ i \in 1..(b - d)
      BY <1>5, <1>6, <2>2
    <3>2. PICK c \in Batch : c = batches[x] /\ c = batches'[i]
      BY <1>2, <1>5, <3>1
    <3>3. DOMAIN c.bag # {} /\ \A l \in DOMAIN c.bag : BodyFits(c.bag[l], m, st)
      BY <1>0, <1>1, <1>2, <3>2 DEF LogInv, ChainInv
    <3>4. \A l \in LeftOf(x) : l \in DOMAIN c.bag /\ Before(appended[l], c.bag[l])
      <4>1. LeftOf(x) \subseteq DOMAIN c.bag
        BY <1>2, <3>2 DEF LeftOf
      <4>2. QED
        BY <1>2, <3>2, <4>1 DEF LogInv, ChainInv
    <3>5. LeftOf(i)' = IF x = 1 THEN appending \ {k} ELSE LeftOf(x)
      BY <1>5, <3>1
    <3>6. ASSUME NEW l \in LeftOf(i)' PROVE Before(appended'[l], c.bag[l])
      <4>1. l \in LeftOf(x) /\ l \in LogKey /\ (l = k => x # 1)
        <5>1. l \in LeftOf(x) /\ (l = k => x # 1)
          BY <1>2, <3>5, <3>6
        <5>2. DOMAIN c.bag \subseteq LogKey
          BY BatchIs
        <5>3. QED
          BY <3>4, <5>1, <5>2
      <4>2. CASE l # k
        BY <1>4, <3>4, <4>1, <4>2
      <4>3. CASE l = k
        <5>1. 1 < x /\ k \in DOMAIN batches[1].bag /\ k \in DOMAIN batches[x].bag
          BY <1>2, <3>2, <3>4, <4>1, <4>3
        <5>2. Before(batches[1].bag[k], batches[x].bag[k])
          BY <1>2, <5>1 DEF LogInv, ChainInv
        <5>3. Before(body, c.bag[k])
          BY <1>0, <1>1, <3>2, <5>2, Zenon
        <5>4. QED
          BY <1>4, <3>4, <4>1, <4>3, <5>3
      <4>4. QED
        BY <4>2, <4>3
    <3>7. QED
      BY <1>7, <3>2, <3>3, <3>6
  <2>3. ASSUME NEW i \in DOMAIN batches', NEW j \in DOMAIN batches', i < j,
               NEW l \in DOMAIN batches'[i].bag \cap DOMAIN batches'[j].bag
        PROVE  Before(batches'[i].bag[l], batches'[j].bag[l])
    <3>1. i + d < j + d /\ i + d \in 1..b /\ j + d \in 1..b
      BY <1>5, <1>6, <2>3
    <3>2. batches'[i] = batches[i + d] /\ batches'[j] = batches[j + d]
      BY <1>5, <2>3
    <3>3. QED
      BY <1>2, <2>3, <3>1, <3>2 DEF LogInv, ChainInv
  <2>4. rejected' => batches' = <<>>
    BY <1>2, <1>3
  <2>5. batches' = <<>> => appending' = {}
    <3>1. SUFFICES ASSUME batches' = <<>> PROVE appending' = {}
      OBVIOUS
    <3>2. d = 1
      BY <1>0, <1>1, <1>2, <1>5, <3>1
    <3>3. QED
      BY <1>5, <3>2
  <2>6. batches' # <<>> => appending' \subseteq DOMAIN batches'[1].bag
    <3>1. SUFFICES ASSUME batches' # <<>> PROVE appending' \subseteq DOMAIN batches'[1].bag
      OBVIOUS
    <3>2. CASE d = 1
      BY <1>5, <3>2
    <3>3. CASE d = 0
      <4>1. batches'[1] = batches[1]
        BY <1>0, <1>1, <1>2, <1>5, <3>3
      <4>2. QED
        BY <1>2, <1>5, <4>1
    <3>4. QED
      BY <3>2, <3>3
  <2>7. QED
    BY <2>1, <2>2, <2>3, <2>4, <2>5, <2>6 DEF ChainInv
<1>12. StraysInv'
  BY <1>2, <1>3 DEF StraysInv
<1>13. AllSerialize' = AllSerialize
  BY <1>3 DEF AllSerialize, Recorded
<1>14. /\ awaited' \in Seq(Awaiting) /\ DOMAIN awaited' = DOMAIN awaited
       /\ \A n \in DOMAIN awaited : /\ awaited'[n].upto = awaited[n].upto
                                    /\ awaited'[n].empty = awaited[n].empty
       /\ \A n \in DOMAIN awaited :
            \/ awaited'[n] = awaited[n]
            \/ appending = {k} /\ batches[1].by = n /\ n # 0
  BY AwaitedBecomes
<1>15. LossInv'
  <2>1. ASSUME AllSerialize', ~rejected', NEW r \in 1..Taken'
        PROVE  Stored(r)' \/ OnWay(r, Len(batches))'
    <3>1. Stored(r) \/ OnWay(r, b)
      BY <1>0, <1>1, <1>2, <1>7, <1>13, <2>1 DEF LogInv, LossInv
    <3>2. (b - d) + d = b /\ b - d \in Int
      BY <1>0, <1>1
    <3>3. Stored(r)' \/ OnWay(r, b - d)'
      BY <1>8, <1>10, <3>1, <3>2
    <3>4. QED
      BY <1>5, <3>3, Zenon
  <2>2. ASSUME AllSerialize', NEW i \in DOMAIN batches', batches'[i].by # 0,
               NEW r \in 1..awaited'[batches'[i].by].upto
        PROVE  Stored(r)' \/ OnWay(r, i)'
    <3>1. PICK x \in 1..b : x = i + d /\ i \in 1..(b - d) /\ i \in Int
      BY <1>5, <1>6, <2>2
    <3>2. batches'[i] = batches[x]
      BY <1>5, <3>1
    <3>3. batches[x].by \in DOMAIN awaited /\ r \in 1..awaited[batches[x].by].upto
      BY <1>2, <1>14, <2>2, <3>2 DEF LogInv, CoverInv
    <3>4. Stored(r) \/ OnWay(r, x)
      BY <1>2, <1>13, <2>2, <3>2, <3>3 DEF LogInv, LossInv
    <3>5. QED
      BY <1>8, <1>10, <3>1, <3>4
  <2>3. QED
    BY <2>1, <2>2 DEF LossInv
<1>16. CoverInv'
  <2>1. ASSUME NEW i \in DOMAIN batches', batches'[i].by # 0
        PROVE  batches'[i].by \in DOMAIN awaited'
    <3>1. i + d \in 1..b /\ batches'[i] = batches[i + d]
      BY <1>5, <1>6, <2>1
    <3>2. QED
      BY <1>2, <1>14, <2>1, <3>1 DEF LogInv, CoverInv
  <2>2. ASSUME AllSerialize', NEW n \in DOMAIN awaited', awaited'[n].state = "resolved",
               ~awaited'[n].empty, NEW r \in 1..awaited'[n].upto
        PROVE  Stored(r)'
    <3>1. n \in DOMAIN awaited /\ ~awaited[n].empty /\ r \in 1..awaited[n].upto
      BY <1>14, <2>2
    <3>2. CASE awaited'[n] = awaited[n]
      <4>1. Stored(r)
        BY <1>13, <2>2, <3>1, <3>2 DEF LogInv, CoverInv
      <4>2. QED
        BY <1>8, <4>1
    <3>3. CASE appending = {k} /\ batches[1].by = n /\ n # 0
      <4>1. Stored(r) \/ OnWay(r, 1)
        BY <1>2, <1>13, <2>2, <3>1, <3>3 DEF LogInv, LossInv
      <4>2. CASE OnWay(r, 1)
        <5>1. \E x \in DOMAIN batches : x <= 1 /\ \E l \in LeftOf(x) : r \in In(batches[x].bag[l])
          BY <4>2 DEF OnWay
        <5>2. \A x \in DOMAIN batches : x <= 1 => x = 1
          BY <1>0, <1>1, <1>2
        <5>3. \E l \in LeftOf(1) : r \in In(batches[1].bag[l])
          BY <5>1, <5>2
        <5>4. r \in In(body)
          BY <1>0, <1>1, <1>2, <3>3, <5>3
        <5>5. QED
          BY <1>9, <5>4
      <4>3. QED
        BY <1>8, <4>1, <4>2
    <3>4. QED
      BY <1>14, <3>1, <3>2, <3>3
  <2>3. QED
    BY <2>1, <2>2 DEF CoverInv
<1>17. LogTypeInv' /\ BufferInv'
  <2>1. BufferInv'
    BY <1>3 DEF LogInv, BufferInv, Taken
  <2>2. LogTypeInv'
    BY <1>3, <1>4, <1>5, <1>14 DEF LogInv, LogTypeInv
  <2>3. QED
    BY <2>1, <2>2
<1>18. QED
  BY <1>11, <1>12, <1>15, <1>16, <1>17 DEF LogInv

LEMMA StoredGrows ==
  ASSUME LogInv, \A l \in LogKey : In(appended[l]) \subseteq In(appended'[l]),
         AllSerialize' => AllSerialize, DOMAIN awaited' = DOMAIN awaited,
         \A n \in DOMAIN awaited :
           /\ awaited'[n].upto = awaited[n].upto /\ awaited'[n].empty = awaited[n].empty
           /\ awaited'[n].state = "resolved" => awaited[n].state = "resolved"
  PROVE  AllSerialize' => \A n \in DOMAIN awaited' :
           awaited'[n].state = "resolved" /\ ~awaited'[n].empty =>
             \A r \in 1..awaited'[n].upto : Stored(r)'
<1>1. SUFFICES ASSUME AllSerialize, NEW n \in DOMAIN awaited,
                      awaited[n].state = "resolved", ~awaited[n].empty,
                      NEW r \in 1..awaited[n].upto
               PROVE  Stored(r)'
  OBVIOUS
<1>2. Stored(r)
  BY <1>1 DEF LogInv, CoverInv
<1>3. QED
  BY <1>2 DEF Stored

\* What was under way goes on; the batches behind are lost.
LEMMA AppendFailsStep ==
  ASSUME LogInv, NEW k \in appending, NEW done \in BOOLEAN, AppendFails(k, done)
  PROVE  LogInv'
<1>0. PICK st, c : st = stamps /\ c = batches[1]
  OBVIOUS
<1>1. PICK m \in Nat : m = Taken
  BY TakenIs
<1>2. /\ k \in LogKey /\ ~rejected /\ strays = {} /\ c \in Batch
      /\ 1 \in DOMAIN batches /\ appending \subseteq DOMAIN c.bag
      /\ DOMAIN c.bag \subseteq LogKey /\ LeftOf(1) = appending
      /\ BodyFits(appended[k], m, st) /\ BodyFits(c.bag[k], m, st)
      /\ Before(appended[k], c.bag[k])
  BY <1>0, <1>1, UnderWay
<1>3. /\ UNCHANGED <<records, unflushed, due, systemId, stamps>>
      /\ IF done THEN Lands(k, c.bag[k]) ELSE UNCHANGED appended
      /\ strays' = strays \cup {[key |-> l, body |-> c.bag[l]] : l \in appending \ {k}}
      /\ rejected' = TRUE /\ batches' = <<>> /\ appending' = {}
      /\ awaited' = [n \in DOMAIN awaited |->
                       [awaited[n] EXCEPT !.state = IF @ = "pending" THEN "rejected" ELSE @]]
      /\ running' \in BOOLEAN
  BY <1>0, <1>1 DEF AppendFails
<1>4. m = Taken' /\ st = stamps'
  BY <1>0, <1>1, <1>3 DEF Taken
<1>5. appended \in [LogKey -> Body] /\ awaited \in Seq(Awaiting)
  BY DEF LogInv, LogTypeInv
<1>6. /\ appended' \in [LogKey -> Body] /\ BodyFits(appended'[k], m, st)
      /\ \A l \in LogKey : l # k => appended'[l] = appended[l]
      /\ \A l \in LogKey : In(appended[l]) \subseteq In(appended'[l])
  <2>1. CASE done
    <3>1. PICK body : body = c.bag[k]
      OBVIOUS
    <3>2. Lands(k, body) /\ BodyFits(body, m, st) /\ Before(appended[k], body)
      BY <1>2, <1>3, <2>1, <3>1
    <3>3. QED
      BY <1>2, <1>5, <3>2, BodyLands
  <2>2. CASE ~done
    <3>1. appended' = appended
      BY <1>3, <2>2
    <3>2. QED
      BY <1>2, <1>5, <3>1
  <2>3. QED
    BY <2>1, <2>2
<1>7. ChainInv'
  <2>1. \A l \in LogKey : BodyFits(appended'[l], Taken', stamps')
    BY <1>0, <1>1, <1>4, <1>6 DEF LogInv, ChainInv
  <2>2. DOMAIN batches' = {}
    BY <1>3
  <2>3. QED
    BY <1>3, <2>1, <2>2 DEF ChainInv
<1>8. ASSUME NEW s \in strays'
      PROVE  /\ s \in [key : LogKey, body : Body] /\ s.key \in appending \ {k}
             /\ s.body = c.bag[s.key]
             /\ BodyFits(s.body, Taken', stamps') /\ Before(appended'[s.key], s.body)
  <2>1. PICK l \in appending \ {k} : s = [key |-> l, body |-> c.bag[l]]
    BY <1>2, <1>3, <1>8
  <2>2. l \in LogKey /\ l \in DOMAIN c.bag /\ s.key = l /\ s.body = c.bag[l]
    BY <1>2, <2>1
  <2>3. BodyFits(c.bag[l], m, st) /\ Before(appended[l], c.bag[l])
    BY <1>0, <1>1, <1>2, <2>1, <2>2 DEF LogInv, ChainInv
  <2>4. appended'[l] = appended[l]
    BY <1>6, <2>1, <2>2
  <2>5. c.bag[l] \in Body
    BY <2>3 DEF BodyFits
  <2>6. QED
    BY <1>4, <2>1, <2>2, <2>3, <2>4, <2>5
<1>9. StraysInv'
  <2>1. ASSUME NEW s \in strays', NEW t \in strays', s.key = t.key PROVE s = t
    BY <1>8, <2>1
  <2>2. QED
    BY <1>3, <1>8, <2>1 DEF StraysInv
<1>10. LossInv'
  BY <1>3 DEF LossInv
<1>11. /\ awaited' \in Seq(Awaiting) /\ DOMAIN awaited' = DOMAIN awaited
       /\ \A n \in DOMAIN awaited :
            /\ awaited'[n].upto = awaited[n].upto /\ awaited'[n].empty = awaited[n].empty
            /\ awaited'[n].state = "resolved" => awaited[n].state = "resolved"
  <2>1. PICK a \in Nat : DOMAIN awaited = 1..a
    BY <1>5
  <2>2. ASSUME NEW n \in 1..a
        PROVE  /\ awaited'[n] \in Awaiting
               /\ awaited'[n].upto = awaited[n].upto /\ awaited'[n].empty = awaited[n].empty
               /\ awaited'[n].state = "resolved" => awaited[n].state = "resolved"
    <3>1. PICK w \in Awaiting : w = awaited[n]
      BY <1>5, <2>1
    <3>2. awaited'[n] = [w EXCEPT !.state = IF @ = "pending" THEN "rejected" ELSE @]
      BY <1>3, <2>1, <3>1
    <3>3. QED
      BY <3>1, <3>2 DEF Awaiting
  <2>3. DOMAIN awaited' = 1..a
    BY <1>3, <2>1
  <2>4. awaited' = [n \in 1..a |-> awaited'[n]]
    BY <1>3, <2>1
  <2>5. awaited' \in [1..a -> Awaiting]
    BY <2>2, <2>4
  <2>6. awaited' \in Seq(Awaiting)
    BY <2>5, FunctionIsSeq
  <2>7. QED
    BY <2>1, <2>2, <2>3, <2>6
<1>12. AllSerialize' = AllSerialize
  BY <1>3 DEF AllSerialize, Recorded
<1>13. CoverInv'
  <2>1. DOMAIN batches' = {}
    BY <1>3
  <2>2. QED
    BY <1>6, <1>11, <1>12, <2>1, StoredGrows DEF CoverInv
<1>14. LogTypeInv' /\ BufferInv'
  <2>1. BufferInv'
    BY <1>3 DEF LogInv, BufferInv, Taken
  <2>2. strays' \subseteq [key : LogKey, body : Body]
    BY <1>8
  <2>3. LogTypeInv'
    BY <1>3, <1>6, <1>11, <2>2 DEF LogInv, LogTypeInv
  <2>4. QED
    BY <2>1, <2>3
<1>15. QED
  BY <1>7, <1>9, <1>10, <1>13, <1>14 DEF LogInv

\* It is the only one of its key.
LEMMA StrayEndsStep ==
  ASSUME LogInv, NEW s \in strays, NEW done \in BOOLEAN, StrayEnds(s, done)
  PROVE  LogInv'
<1>0. PICK st, k, body : st = stamps /\ k = s.key /\ body = s.body
  OBVIOUS
<1>1. PICK m \in Nat : m = Taken
  BY TakenIs
<1>2. /\ UNCHANGED <<records, unflushed, due, systemId, batches, appending, rejected, awaited,
                     stamps, running>>
      /\ strays' = strays \ {s}
      /\ IF done THEN Lands(k, body) ELSE UNCHANGED appended
  BY <1>0, <1>1 DEF StrayEnds
<1>3. /\ appended \in [LogKey -> Body] /\ awaited \in Seq(Awaiting)
      /\ k \in LogKey /\ strays \subseteq [key : LogKey, body : Body]
  BY <1>0, <1>1 DEF LogInv, LogTypeInv
<1>4. /\ rejected /\ batches = <<>> /\ appending = {}
      /\ BodyFits(appended[k], m, st) /\ BodyFits(body, m, st) /\ Before(appended[k], body)
      /\ \A t \in strays : t # s => t.key # k
  BY <1>0, <1>1, <1>3 DEF LogInv, ChainInv, StraysInv
<1>5. m = Taken' /\ st = stamps'
  BY <1>0, <1>1, <1>2 DEF Taken
<1>6. /\ appended' \in [LogKey -> Body] /\ BodyFits(appended'[k], m, st)
      /\ \A l \in LogKey : l # k => appended'[l] = appended[l]
      /\ \A l \in LogKey : In(appended[l]) \subseteq In(appended'[l])
  <2>1. CASE done
    <3>1. Lands(k, body)
      BY <1>2, <2>1
    <3>2. QED
      BY <1>3, <1>4, <3>1, BodyLands
  <2>2. CASE ~done
    <3>1. appended' = appended
      BY <1>2, <2>2
    <3>2. QED
      BY <1>3, <1>4, <3>1
  <2>3. QED
    BY <2>1, <2>2
<1>7. ChainInv'
  <2>1. \A l \in LogKey : BodyFits(appended'[l], Taken', stamps')
    BY <1>0, <1>1, <1>5, <1>6 DEF LogInv, ChainInv
  <2>2. DOMAIN batches' = {} /\ batches' = <<>> /\ appending' = {}
    BY <1>2, <1>4
  <2>3. QED
    BY <2>1, <2>2 DEF ChainInv
<1>8. StraysInv'
  <2>1. ASSUME NEW t \in strays'
        PROVE  BodyFits(t.body, Taken', stamps') /\ Before(appended'[t.key], t.body)
    <3>1. t \in strays /\ t.key \in LogKey /\ t.key # k
      BY <1>2, <1>3, <1>4, <2>1
    <3>2. appended'[t.key] = appended[t.key]
      BY <1>6, <3>1
    <3>3. QED
      BY <1>0, <1>1, <1>5, <3>1, <3>2 DEF LogInv, StraysInv
  <2>2. \A t, u \in strays' : t.key = u.key => t = u
    BY <1>2 DEF LogInv, StraysInv
  <2>3. QED
    BY <1>2, <1>4, <2>1, <2>2 DEF StraysInv
<1>9. LossInv'
  <2>1. rejected' /\ DOMAIN batches' = {}
    BY <1>2, <1>4
  <2>2. QED
    BY <2>1 DEF LossInv
<1>10. CoverInv'
  <2>1. AllSerialize' = AllSerialize /\ DOMAIN batches' = {} /\ awaited' = awaited
    BY <1>2, <1>4 DEF AllSerialize, Recorded
  <2>2. QED
    BY <1>6, <2>1, StoredGrows DEF CoverInv
<1>11. LogTypeInv' /\ BufferInv'
  <2>1. BufferInv'
    BY <1>2 DEF LogInv, BufferInv, Taken
  <2>2. LogTypeInv'
    BY <1>2, <1>3, <1>6 DEF LogInv, LogTypeInv
  <2>3. QED
    BY <2>1, <2>2
<1>12. QED
  BY <1>7, <1>8, <1>9, <1>10, <1>11 DEF LogInv

LEMMA LogStarts == LogAssumption /\ LogInit => LogInv
<1> SUFFICES ASSUME LogAssumption, LogInit PROVE LogInv
  OBVIOUS
<1>1. /\ records = <<>> /\ unflushed = <<>> /\ due = FALSE /\ systemId = 0
      /\ batches = <<>> /\ appending = {} /\ rejected = FALSE /\ strays = {}
      /\ appended = [k \in LogKey |-> <<>>] /\ awaited = <<>> /\ stamps = <<>>
      /\ running = TRUE /\ MaxBuffer \in Nat
  BY DEF LogInit, LogAssumption
<1>2. Taken = 0
  BY <1>1 DEF Taken
<1>3. LogTypeInv
  <2>1. /\ records \in Seq(Entry) /\ unflushed \in Seq(Nat) /\ batches \in Seq(Batch)
        /\ awaited \in Seq(Awaiting) /\ stamps \in Seq(Nat)
    BY <1>1
  <2>2. <<>> \in Body
    BY DEF Body
  <2>3. appended \in [LogKey -> Body]
    BY <1>1, <2>2
  <2>4. strays \subseteq [key : LogKey, body : Body] /\ systemId \in Nat
    BY <1>1
  <2>5. {due, rejected, running} \subseteq BOOLEAN
    BY <1>1
  <2>6. QED
    BY <2>1, <2>3, <2>4, <2>5 DEF LogTypeInv
<1>4. BufferInv
  BY <1>1 DEF BufferInv
<1>5. ChainInv
  BY <1>1 DEF ChainInv, BodyFits, Body
<1>6. StraysInv
  BY <1>1 DEF StraysInv
<1>7. LossInv
  BY <1>1, <1>2 DEF LossInv
<1>8. CoverInv
  BY <1>1 DEF CoverInv
<1>9. QED
  BY <1>3, <1>4, <1>5, <1>6, <1>7, <1>8 DEF LogInv

\* What the run checks follows.
LEMMA LogInvSuffices == LogInv => LogInvariant
<1> SUFFICES ASSUME LogInv PROVE LogInvariant
  OBVIOUS
<1>1. PICK m \in Nat, l \in Nat, u \in Nat :
        m = Taken /\ l = Len(records) /\ u = Len(unflushed) /\ l = m + u
  BY TakenIs
<1>2. /\ records \in Seq(Entry) /\ unflushed \in Seq(Nat) /\ batches \in Seq(Batch)
      /\ awaited \in Seq(Awaiting) /\ DOMAIN unflushed = 1..u /\ DOMAIN records = 1..l
      /\ appended \in [LogKey -> Body]
  <2>1. /\ records \in Seq(Entry) /\ unflushed \in Seq(Nat) /\ batches \in Seq(Batch)
        /\ awaited \in Seq(Awaiting) /\ appended \in [LogKey -> Body]
    BY DEF LogInv, LogTypeInv
  <2>2. DOMAIN unflushed = 1..u
    BY <1>1, <2>1
  <2>3. DOMAIN records = 1..l
    <3>1. DOMAIN records = 1..Len(records)
      BY <2>1
    <3>2. QED
      BY <1>1, <3>1, Zenon
  <2>4. QED
    BY <2>1, <2>2, <2>3
<1>3. \A j \in 1..u : unflushed[j] = m + j
  BY <1>1, <1>2 DEF LogInv, BufferInv
<1>4. LogTypeOK
  <2>1. \A i \in Recorded : records[i].key \in LogKey
    <3>1. \A i \in 1..l : records[i] \in Entry
      BY <1>1, <1>2
    <3>2. QED
      BY <1>1, <3>1 DEF Recorded, Entry
  <2>2. unflushed \in Seq(Recorded)
    <3>1. \A j \in 1..u : unflushed[j] \in 1..l
      BY <1>1, <1>3
    <3>2. unflushed = [j \in 1..u |-> unflushed[j]]
      BY <1>2
    <3>3. unflushed \in [1..u -> 1..l]
      BY <3>1, <3>2
    <3>4. unflushed \in Seq(1..l)
      BY <3>3, FunctionIsSeq
    <3>5. QED
      BY <1>1, <3>4 DEF Recorded
  <2>3. Len(unflushed) <= MaxBuffer /\ Len(stamps) = Len(records)
    BY DEF LogInv, BufferInv
  <2>4. appending # {} => batches # <<>> /\ appending \subseteq DOMAIN batches[1].bag
    BY DEF LogInv, ChainInv
  <2>5. \A n \in DOMAIN awaited : awaited[n].state \in {"pending", "resolved", "rejected"}
    <3>1. \A n \in DOMAIN awaited : awaited[n] \in Awaiting
      BY <1>2
    <3>2. QED
      BY <3>1 DEF Awaiting
  <2>6. /\ \A s \in strays : s.key \in LogKey
        /\ {due, rejected, running} \subseteq BOOLEAN /\ systemId \in Nat
    BY DEF LogInv, LogTypeInv
  <2>7. QED
    BY <2>1, <2>2, <2>3, <2>4, <2>5, <2>6 DEF LogTypeOK
<1>5. StoredInOrder
  BY DEF StoredInOrder, LogInv, ChainInv, BodyFits
<1>6. StampedWhenFlushed
  BY DEF StampedWhenFlushed, LogInv, ChainInv, BodyFits
<1>7. \A r : Stored(r) => r \in InObjects
  BY DEF Stored, InObjects
<1>8. FlushCoversAll
  BY <1>7 DEF FlushCoversAll, LogInv, CoverInv
<1>9. NoRecordIsLost
  <2>1. SUFFICES ASSUME ~rejected, AllSerialize
                 PROVE  Recorded = {unflushed[j] : j \in DOMAIN unflushed}
                                     \cup OnTheWay \cup InObjects
    BY DEF NoRecordIsLost
  <2>2. \A r, i : OnWay(r, i) => r \in OnTheWay
    BY DEF OnWay, OnTheWay
  <2>3. ASSUME NEW r \in 1..l
        PROVE  r \in {unflushed[j] : j \in DOMAIN unflushed} \cup OnTheWay \cup InObjects
    <3>1. CASE r \in 1..m
      BY <1>1, <1>7, <2>1, <2>2, <3>1 DEF LogInv, LossInv
    <3>2. CASE r \notin 1..m
      <4>1. r - m \in 1..u /\ m + (r - m) = r
        BY <1>1, <2>3, <3>2
      <4>2. QED
        BY <1>2, <1>3, <4>1
    <3>3. QED
      BY <3>1, <3>2
  <2>4. ASSUME NEW j \in DOMAIN unflushed PROVE unflushed[j] \in 1..l
    BY <1>1, <1>2, <1>3, <2>4
  <2>5. \A body : BodyFits(body, m, stamps) => In(body) \subseteq 1..l
    <3>1. SUFFICES ASSUME NEW body, BodyFits(body, m, stamps), NEW x \in In(body)
                   PROVE  x \in 1..l
      OBVIOUS
    <3>2. x \in 1..m
      BY <3>1 DEF BodyFits, In
    <3>3. QED
      BY <1>1, <3>2
  <2>6. InObjects \subseteq 1..l
    BY <1>1, <2>5 DEF InObjects, LogInv, ChainInv
  <2>7. OnTheWay \subseteq 1..l
    <3>1. \A n \in DOMAIN batches : LeftOf(n) \subseteq DOMAIN batches[n].bag
      BY DEF LeftOf, LogInv, ChainInv
    <3>2. \A n \in DOMAIN batches : \A k \in LeftOf(n) : In(batches[n].bag[k]) \subseteq 1..l
      BY <1>1, <2>5, <3>1 DEF LogInv, ChainInv
    <3>3. QED
      BY <3>2 DEF OnTheWay
  <2>8. QED
    BY <1>1, <2>3, <2>4, <2>6, <2>7 DEF Recorded
<1>10. QED
  BY <1>4, <1>5, <1>6, <1>8, <1>9 DEF LogInvariant

\* Whatever fails, and however flushes by size, by time and by call overlap: an object holds
\* its records in order and none twice, each under the stamp of its flush, nothing is lost
\* before an append fails, and a flush that resolves has stored all there was
\* (buffered.ts, s3cbLogFlush.ts, lambda.ts).
THEOREM LogInvariantHolds == LogSpec => []LogInvariant
<1>1. LogInit => LogInv
  BY LogStarts, LogAssumption
<1>2. LogInv /\ [LogNext]_logVars => LogInv'
  <2>1. SUFFICES ASSUME LogInv, [LogNext]_logVars PROVE LogInv'
    OBVIOUS
  <2>2. ASSUME NEW k \in LogKey, NEW good \in BOOLEAN, WriteRecord(k, good) PROVE LogInv'
    BY <2>1, <2>2, LogAssumption, WriteRecordStep
  <2>3. CASE FlushLogs \/ BatchStarts \/ UpdateSystemId
    BY <2>1, <2>3, LogAssumption, FlushLogsStep, BatchStartsStep, UpdateSystemIdStep
  <2>4. CASE IntervalPasses
    BY <2>1, <2>4, LogStays DEF IntervalPasses
  <2>5. ASSUME NEW k \in LogKey, AppendDone(k) PROVE LogInv'
    BY <2>1, <2>5, AppendDoneStep DEF AppendDone
  <2>6. ASSUME NEW k \in LogKey, NEW done \in BOOLEAN, AppendFails(k, done) PROVE LogInv'
    BY <2>1, <2>6, AppendFailsStep DEF AppendFails
  <2>7. ASSUME NEW s \in strays, NEW done \in BOOLEAN, StrayEnds(s, done) PROVE LogInv'
    BY <2>1, <2>7, StrayEndsStep
  <2>8. CASE UNCHANGED logVars
    <3>1. due \in BOOLEAN
      BY <2>1 DEF LogInv, LogTypeInv
    <3>2. QED
      BY <2>1, <2>8, <3>1, LogStays DEF logVars
  <2>9. QED
    BY <2>1, <2>2, <2>3, <2>4, <2>5, <2>6, <2>7, <2>8 DEF LogNext
<1>3. LogInv => LogInvariant
  BY LogInvSuffices
<1>4. QED
  BY <1>1, <1>2, <1>3, PTL DEF LogSpec

-----------------------------------------------------------------------------
(* The Redis connection: what the proof of its promise adds *)

Order == [state : {"new", "waits", "queued", "rejected", "done"}, waits : Nat, tries : Nat]
Weather == [drops : Nat, refusals : Nat, forgets : Nat, timeouts : Nat]
Verdict == {"none", "pending", "ok", "failed"}

RedisTypeInv ==
  /\ conn \in {"down", "opening", "up"} /\ knows \in BOOLEAN /\ headSent \in BOOLEAN
  /\ serial \in 0..MaxLinks /\ current \in 0..serial
  /\ outbox \in Seq(Query \cup 1..serial)
  /\ verdict \in [1..MaxLinks -> Verdict]
  /\ orders \in [Query -> Order]
  /\ weather \in Weather

\* Only the head is on the wire, and an AUTH that is pending is in the queue.
OutboxInv ==
  /\ headSent => conn = "up" /\ outbox # <<>>
  /\ \A a \in 1..MaxLinks : verdict[a] = "pending" => a \in Entries(outbox)

\* The socket that is up is the last one, began with its AUTH and stands or falls with it.
LinkInv ==
  conn = "up" => /\ serial # 0 /\ current = serial /\ firstSent = serial
                 /\ verdict[serial] # "failed"

\* Who waits, waits for an AUTH that is pending; only finitely many began.
WaitInv ==
  /\ \A c \in Query : orders[c].state = "waits" =>
       orders[c].waits \in 1..MaxLinks /\ verdict[orders[c].waits] = "pending"
  /\ IsFiniteSet({c \in Query : orders[c].state # "new"})

RedisInv == RedisTypeInv /\ OutboxInv /\ LinkInv /\ WaitInv

-----------------------------------------------------------------------------
(* Its queue *)

\* What is left of a queue when settled heads are dropped.
LEMMA UnsettledIs ==
  ASSUME NEW S, NEW q \in Seq(S)
  PROVE  /\ Unsettled_(q) \in Seq(S) /\ Entries(Unsettled_(q)) \subseteq Entries(q)
         /\ \A x \in Entries(q) : Pending(x) => x \in Entries(Unsettled_(q))
         /\ q # <<>> /\ Pending(q[1]) => Unsettled_(q) = q
<1> DEFINE open == {i \in DOMAIN q : Pending(q[i])}
<1>1. /\ Len(q) \in Nat /\ DOMAIN q = 1..Len(q)
      /\ \A i \in 1..Len(q) : q[i] \in S
  OBVIOUS
<1>2. CASE open = {}
  <2>1. Unsettled_(q) = <<>>
    BY <1>2 DEF Unsettled_
  <2>2. \A i \in DOMAIN q : ~Pending(q[i])
    BY <1>2
  <2>3. q # <<>> => 1 \in DOMAIN q
    BY <1>1
  <2> QED
    BY <2>1, <2>2, <2>3 DEF Entries
<1>3. CASE open # {}
  <2> DEFINE least == CHOOSE i \in open : \A j \in open : i <= j
  <2>1. open \subseteq Nat
    BY <1>1
  <2>2. /\ least \in open /\ \A j \in open : least <= j
    <3>1. \E i \in open : \A j \in open : i <= j
      BY <1>3, <2>1, LeastOf
    <3> QED
      BY <3>1
  <2>3. Unsettled_(q) = SubSeq(q, least, Len(q))
    BY <1>3 DEF Unsettled_
  <2>4. least \in 1..Len(q)
    BY <1>1, <2>2
  <2> HIDE DEF least
  <2>5. PICK m \in 1..Len(q) : m = least
    BY <2>4
  <2>6. PICK r : r = SubSeq(q, m, Len(q))
    OBVIOUS
  <2>7. /\ r \in Seq(S) /\ DOMAIN r = 1..(Len(q) - m + 1)
        /\ \A i \in 1..(Len(q) - m + 1) : r[i] = q[m + i - 1]
    BY <1>1, <2>6
  <2>8. Entries(r) \subseteq Entries(q)
    <3>1. \A i \in 1..(Len(q) - m + 1) : m + i - 1 \in 1..Len(q)
      BY <1>1, <2>5
    <3> QED
      BY <1>1, <2>7, <3>1 DEF Entries
  <2>9. ASSUME NEW i \in DOMAIN q, Pending(q[i]) PROVE q[i] \in Entries(r)
    <3>1. m <= i
      BY <2>2, <2>5, <2>9
    <3>2. i - m + 1 \in 1..(Len(q) - m + 1) /\ m + (i - m + 1) - 1 = i
      BY <1>1, <2>5, <3>1
    <3>3. r[i - m + 1] = q[i]
      BY <2>7, <3>2
    <3> QED
      BY <2>7, <3>2, <3>3 DEF Entries
  <2>10. ASSUME q # <<>>, Pending(q[1]) PROVE r = q
    <3>1. 1 \in open
      BY <1>1, <2>10
    <3>2. m = 1
      BY <2>2, <2>5, <3>1
    <3> QED
      BY <1>1, <2>6, <3>2
  <2>11. \A x \in Entries(q) : Pending(x) => x \in Entries(r)
    BY <2>9 DEF Entries
  <2>12. Unsettled_(q) = r
    BY <2>3, <2>5, <2>6
  <2> QED
    BY <2>7, <2>8, <2>10, <2>11, <2>12
<1> QED
  BY <1>2, <1>3

LEMMA WritesIs ==
  ASSUME NEW S, NEW q \in Seq(S), NEW first, WritesNext(q, first)
  PROVE  /\ outbox' \in Seq(S) /\ Entries(outbox') \subseteq Entries(q)
         /\ \A x \in Entries(q) : Pending(x) => x \in Entries(outbox')
         /\ headSent' \in BOOLEAN /\ (headSent' => outbox' # <<>>)
         /\ first # 0 => firstSent' = first
         /\ q # <<>> /\ Pending(q[1]) /\ first = 0 => firstSent' = q[1]
BY UnsettledIs, ZenonT(30) DEF WritesNext

LEMMA StrikesIs ==
  ASSUME RedisTypeInv, NEW what \in {"drops", "refusals", "forgets", "timeouts"}, Strikes(what)
  PROVE  /\ weather' \in Weather
         /\ what = "drops" => weather'.drops < weather.drops
BY DEF RedisTypeInv, Weather, Strikes

\* What a failed AUTH, or a queue that is given up, does to the commands.
LEMMA RejectedIs ==
  ASSUME RedisTypeInv, NEW queue, NEW c \in Query
  PROVE  LET new == Rejected_(queue)[c]
         IN /\ new \in Order
            /\ new.state = "new" <=> orders[c].state = "new"
            /\ new.state = "waits" =>
                 new = orders[c] /\ verdict'[orders[c].waits] # "failed"
<1>1. orders[c] \in Order
  BY DEF RedisTypeInv
<1>2. [orders[c] EXCEPT !.state = "rejected"] \in Order
  BY <1>1 DEF Order
<1>3. Rejected_(queue)[c] =
        IF \/ orders[c].state = "queued" /\ c \in queue
           \/ orders[c].state = "waits" /\ verdict'[orders[c].waits] = "failed"
        THEN [orders[c] EXCEPT !.state = "rejected"] ELSE orders[c]
  BY DEF Rejected_
<1>4. [orders[c] EXCEPT !.state = "rejected"].state = "rejected"
  BY <1>1 DEF Order
<1> QED
  BY <1>1, <1>2, <1>3, <1>4, SMTT(60)

LEMMA AuthsLostIs ==
  ASSUME RedisTypeInv, NEW auths
  PROVE  /\ AuthsLost(auths) \in [1..MaxLinks -> Verdict]
         /\ \A x \in 1..MaxLinks :
              /\ AuthsLost(auths)[x] = "pending" => verdict[x] = "pending" /\ x \notin auths
              /\ AuthsLost(auths)[x] # verdict[x] =>
                   AuthsLost(auths)[x] = "failed" /\ verdict[x] = "pending"
BY DEF RedisTypeInv, AuthsLost, Verdict

\* Nobody is new again.
LEMMA StartedFinite ==
  ASSUME WaitInv,
         NEW c, {d \in Query : orders'[d].state # "new"}
                  \subseteq {d \in Query : orders[d].state # "new"} \cup {c}
  PROVE  IsFiniteSet({d \in Query : orders'[d].state # "new"})
<1>1. IsFiniteSet({d \in Query : orders[d].state # "new"} \cup {c})
  BY FS_AddElement DEF WaitInv
<1> QED
  BY <1>1, FS_Subset

\* Waiting after a step that begins no wait: the AUTHs that are pending still are, or their
\* waiters do not wait any more.
LEMMA WaitKept ==
  ASSUME RedisTypeInv, WaitInv,
         \A c \in Query : /\ orders[c].state = "new" => orders'[c].state = "new"
                          /\ orders'[c].state = "waits" =>
                               /\ orders'[c] = orders[c]
                               /\ verdict'[orders[c].waits] = "pending"
  PROVE  WaitInv'
<1>1. \A c \in Query : orders'[c].state = "waits" =>
        orders'[c].waits \in 1..MaxLinks /\ verdict'[orders'[c].waits] = "pending"
  BY DEF WaitInv
<1>2. PICK c : c = 0
  OBVIOUS
<1>3. IsFiniteSet({d \in Query : orders'[d].state # "new"})
  <2>1. {d \in Query : orders'[d].state # "new"}
          \subseteq {d \in Query : orders[d].state # "new"} \cup {c}
    OBVIOUS
  <2> QED
    BY <2>1, StartedFinite
<1> QED
  BY <1>1, <1>3 DEF WaitInv

\* The AUTHs in the queue are numbers, and no command is one.
LEMMA AuthsAre ==
  ASSUME RedisTypeInv
  PROVE  /\ Entries(outbox) \ Query \subseteq 1..MaxLinks
         /\ 1..MaxLinks \cap Query = {} /\ 0 \notin Query
<1>1. Entries(outbox) \subseteq Query \cup 1..serial
  BY DEF RedisTypeInv, Entries
<1>2. 1..serial \subseteq 1..MaxLinks /\ MaxLinks \in Nat /\ 1..MaxLinks \subseteq Nat
  BY RedisAssumption DEF RedisTypeInv
<1> QED
  BY <1>1, <1>2, RedisAssumption

\* A queue that is written on: what is pending stays in it.
LEMMA WrittenOn ==
  ASSUME RedisTypeInv, NEW q \in Seq(Query \cup 1..serial'), WritesNext(q, firstSent),
         conn = "up", UNCHANGED <<conn, current, serial>>, LinkInv, OutboxInv,
         verdict' \in [1..MaxLinks -> Verdict],
         \A a \in 1..MaxLinks : verdict'[a] = "pending" => a \in Entries(q),
         verdict[serial] # "failed" => verdict'[serial] # "failed"
  PROVE  /\ outbox' \in Seq(Query \cup 1..serial') /\ headSent' \in BOOLEAN
         /\ OutboxInv' /\ LinkInv'
<1>1. /\ outbox' \in Seq(Query \cup 1..serial')
      /\ \A x \in Entries(q) : Pending(x) => x \in Entries(outbox')
      /\ headSent' \in BOOLEAN /\ (headSent' => outbox' # <<>>)
      /\ firstSent # 0 => firstSent' = firstSent
  BY WritesIs
<1>2. \A a \in 1..MaxLinks : verdict'[a] = "pending" => a \in Entries(outbox')
  BY <1>1, AuthsAre DEF Pending
<1>3. OutboxInv'
  BY <1>1, <1>2 DEF OutboxInv, Entries
<1>4. LinkInv'
  BY <1>1 DEF LinkInv
<1> QED
  BY <1>1, <1>3, <1>4

\* The queue is given up: no AUTH is pending, and nobody waits.
LEMMA GivenUp ==
  ASSUME RedisInv, verdict' = AuthsLost(Entries(outbox) \ Query),
         NEW left, left = Rejected_(Entries(outbox))
  PROVE  /\ verdict' \in [1..MaxLinks -> Verdict] /\ left \in [Query -> Order]
         /\ \A a \in 1..MaxLinks : verdict'[a] # "pending"
         /\ \A c \in Query : /\ left[c].state # "waits"
                             /\ orders[c].state = "new" => left[c].state = "new"
<1> DEFINE auths == Entries(outbox) \ Query
<1>1. \A a \in 1..MaxLinks : verdict'[a] # "pending"
  <2>1. \A a \in 1..MaxLinks : verdict[a] = "pending" => a \in auths
    BY AuthsAre DEF RedisInv, OutboxInv
  <2> QED
    BY <2>1, AuthsLostIs DEF RedisInv
<1>2. \A c \in Query : /\ left[c] \in Order
                       /\ orders[c].state = "new" => left[c].state = "new"
                       /\ left[c].state = "waits" =>
                            left[c] = orders[c] /\ verdict'[orders[c].waits] # "failed"
  BY RejectedIs DEF RedisInv
<1>3. ASSUME NEW c \in Query PROVE left[c].state # "waits"
  <2>1. SUFFICES ASSUME left[c].state = "waits" PROVE FALSE
    OBVIOUS
  <2>2. orders[c].waits \in 1..MaxLinks /\ verdict[orders[c].waits] = "pending"
    BY <1>2, <2>1 DEF RedisInv, WaitInv
  <2>3. verdict'[orders[c].waits] = "pending" \/ verdict'[orders[c].waits] = "failed"
    BY <2>2, AuthsLostIs DEF RedisInv
  <2> QED
    BY <1>1, <1>2, <2>1, <2>2, <2>3
<1>4. verdict' \in [1..MaxLinks -> Verdict] /\ left \in [Query -> Order]
  <2>1. left = [c \in Query |-> left[c]]
    BY DEF Rejected_
  <2> QED
    BY <1>2, <2>1, AuthsLostIs DEF RedisInv
<1> QED
  BY <1>1, <1>2, <1>3, <1>4

LEMMA TearDownStep ==
  ASSUME RedisInv, TearDown, UNCHANGED serial, weather' \in Weather
  PROVE  RedisInv'
<1>1. /\ verdict' = AuthsLost(Entries(outbox) \ Query)
      /\ orders' = Rejected_(Entries(outbox))
      /\ current' = 0 /\ conn' = "down" /\ knows' = FALSE
      /\ outbox' = <<>> /\ headSent' = FALSE
  BY DEF TearDown
<1>2. /\ verdict' \in [1..MaxLinks -> Verdict] /\ orders' \in [Query -> Order]
      /\ \A a \in 1..MaxLinks : verdict'[a] # "pending"
      /\ \A c \in Query : /\ orders'[c].state # "waits"
                          /\ orders[c].state = "new" => orders'[c].state = "new"
  BY <1>1, GivenUp
<1>3. WaitInv'
  BY <1>2, WaitKept DEF RedisInv
<1>4. RedisTypeInv'
  <2>1. outbox' \in Seq(Query \cup 1..serial')
    BY <1>1
  <2>2. serial' \in 0..MaxLinks /\ current' \in 0..serial'
    BY <1>1, RedisAssumption DEF RedisInv, RedisTypeInv
  <2> QED
    BY <1>1, <1>2, <2>1, <2>2 DEF RedisTypeInv
<1> QED
  BY <1>1, <1>2, <1>3, <1>4 DEF RedisInv, OutboxInv, LinkInv

\* An AUTH that fails without its socket: the rest of the invariant of the commands.
LEMMA OnlyFailsIs ==
  ASSUME RedisInv, NEW a \in 1..MaxLinks, OnlyFails(a)
  PROVE  /\ verdict' \in [1..MaxLinks -> Verdict] /\ orders' \in [Query -> Order]
         /\ verdict'[a] = "failed" /\ \A x \in 1..MaxLinks \ {a} : verdict'[x] = verdict[x]
         /\ WaitInv'
<1>1. verdict' = [verdict EXCEPT ![a] = "failed"] /\ orders' = Rejected_({})
  BY DEF OnlyFails
<1>2. /\ verdict' \in [1..MaxLinks -> Verdict]
      /\ verdict'[a] = "failed" /\ \A x \in 1..MaxLinks \ {a} : verdict'[x] = verdict[x]
  BY <1>1 DEF RedisInv, RedisTypeInv, Verdict
<1>3. \A c \in Query : /\ orders'[c] \in Order
                       /\ orders[c].state = "new" => orders'[c].state = "new"
                       /\ orders'[c].state = "waits" =>
                            orders'[c] = orders[c] /\ verdict'[orders[c].waits] # "failed"
  BY <1>1, RejectedIs DEF RedisInv
<1>4. ASSUME NEW c \in Query, orders'[c].state = "waits"
      PROVE  verdict'[orders[c].waits] = "pending"
  <2>1. orders[c].waits \in 1..MaxLinks /\ verdict[orders[c].waits] = "pending"
    BY <1>3, <1>4 DEF RedisInv, WaitInv
  <2> QED
    BY <1>2, <1>3, <1>4, <2>1
<1>5. WaitInv'
  BY <1>3, <1>4, WaitKept DEF RedisInv
<1>6. orders' \in [Query -> Order]
  <2>1. orders' = [c \in Query |-> orders'[c]]
    BY <1>1 DEF Rejected_
  <2> QED
    BY <1>3, <2>1
<1> QED
  BY <1>2, <1>5, <1>6

LEMMA AppendEntries ==
  ASSUME NEW S, NEW q \in Seq(S), NEW x \in S
  PROVE  /\ Append(q, x) \in Seq(S) /\ Append(q, x) # <<>>
         /\ \A y \in Entries(q) : y \in Entries(Append(q, x))
<1>1. /\ Append(q, x) \in Seq(S) /\ Append(q, x) # <<>> /\ DOMAIN q \subseteq DOMAIN Append(q, x)
      /\ \A i \in DOMAIN q : Append(q, x)[i] = q[i]
  BY AppendProperties
<1> QED
  BY <1>1 DEF Entries

LEMMA TailEntries ==
  ASSUME NEW S, NEW q \in Seq(S), q # <<>>
  PROVE  /\ Tail(q) \in Seq(S) /\ q[1] \in S /\ q[1] \in Entries(q)
         /\ \A y \in Entries(q) : y # q[1] => y \in Entries(Tail(q))
<1>1. /\ Len(q) \in Nat /\ DOMAIN q = 1..Len(q) /\ Len(q) >= 1
      /\ Tail(q) \in Seq(S) /\ DOMAIN Tail(q) = 1..(Len(q) - 1)
      /\ \A i \in 1..(Len(q) - 1) : Tail(q)[i] = q[i + 1]
  OBVIOUS
<1>2. q[1] \in S /\ q[1] \in Entries(q)
  BY <1>1 DEF Entries
<1>3. ASSUME NEW y \in Entries(q), y # q[1] PROVE y \in Entries(Tail(q))
  <2>1. PICK i \in 1..Len(q) : q[i] = y
    BY <1>1 DEF Entries
  <2>2. i - 1 \in 1..(Len(q) - 1) /\ (i - 1) + 1 = i
    BY <1>1, <1>3, <2>1
  <2>3. Tail(q)[i - 1] = y
    BY <1>1, <2>1, <2>2
  <2> QED
    BY <1>1, <2>2, <2>3 DEF Entries
<1> QED
  BY <1>1, <1>2, <1>3

LEMMA ConcatEntries ==
  ASSUME NEW S, NEW p \in Seq(S), NEW q \in Seq(S)
  PROVE  /\ p \o q \in Seq(S)
         /\ \A y \in Entries(p) \cup Entries(q) : y \in Entries(p \o q)
<1>1. /\ Len(p) \in Nat /\ Len(q) \in Nat /\ DOMAIN p = 1..Len(p) /\ DOMAIN q = 1..Len(q)
      /\ p \o q \in Seq(S) /\ DOMAIN (p \o q) = 1..(Len(p) + Len(q))
      /\ \A i \in 1..Len(p) : (p \o q)[i] = p[i]
      /\ \A i \in 1..Len(q) : (p \o q)[Len(p) + i] = q[i]
  BY SMTT(30)
<1>2. \A i \in 1..Len(p) : i \in 1..(Len(p) + Len(q))
  BY <1>1
<1>3. \A i \in 1..Len(q) : Len(p) + i \in 1..(Len(p) + Len(q))
  BY <1>1
<1>4. \A y \in Entries(p) : y \in Entries(p \o q)
  BY <1>1, <1>2 DEF Entries
<1>5. \A y \in Entries(q) : y \in Entries(p \o q)
  BY <1>1, <1>3 DEF Entries
<1> QED
  BY <1>1, <1>4, <1>5

\* A command joins the queue, of a socket that may have to be opened.
LEMMA SendsIs ==
  ASSUME RedisTypeInv, OutboxInv, LinkInv, NEW c \in Query, Sends(c),
         UNCHANGED <<serial, current, verdict>>
  PROVE  /\ conn' \in {"down", "opening", "up"} /\ headSent' \in BOOLEAN
         /\ (conn = "up" => conn' = "up")
         /\ outbox' \in Seq(Query \cup 1..serial') /\ OutboxInv' /\ LinkInv'
<1>1. CASE conn = "up" /\ outbox = <<>>
  <2>1. WritesNext(<<c>>, firstSent) /\ conn' = conn
    BY <1>1 DEF Sends
  <2>2. <<c>> \in Seq(Query \cup 1..serial')
    OBVIOUS
  <2>3. \A a \in 1..MaxLinks : verdict'[a] = "pending" => a \in Entries(<<c>>)
    BY <1>1 DEF OutboxInv, Entries
  <2>4. verdict' \in [1..MaxLinks -> Verdict]
    BY DEF RedisTypeInv
  <2> QED
    BY <1>1, <2>1, <2>2, <2>3, <2>4, WrittenOn DEF RedisTypeInv
<1>2. CASE ~(conn = "up" /\ outbox = <<>>)
  <2>1. /\ outbox' = Append(outbox, c) /\ UNCHANGED <<headSent, firstSent>>
        /\ conn' = IF conn = "down" THEN "opening" ELSE conn
    BY <1>2 DEF Sends
  <2>2. /\ outbox' \in Seq(Query \cup 1..serial') /\ outbox' # <<>>
        /\ \A y \in Entries(outbox) : y \in Entries(outbox')
    BY <2>1, AppendEntries DEF RedisTypeInv
  <2>3. OutboxInv'
    BY <2>1, <2>2 DEF OutboxInv, Entries
  <2>4. LinkInv'
    BY <2>1 DEF LinkInv
  <2> QED
    BY <2>1, <2>2, <2>3, <2>4 DEF RedisTypeInv
<1> QED
  BY <1>1, <1>2

LEMMA SendCommandStep ==
  ASSUME RedisInv, NEW c \in Query, SendCommand(c)
  PROVE  RedisInv'
<1>1. orders[c] \in Order /\ orders[c].state = "new"
      /\ UNCHANGED <<serial, knows, current, verdict, weather>>
  BY DEF SendCommand, RedisInv, RedisTypeInv
<1>2. CASE current # 0 /\ verdict[current] = "pending"
  <2>1. /\ orders' = [orders EXCEPT ![c].state = "waits", ![c].waits = current]
        /\ UNCHANGED <<conn, outbox, headSent, firstSent>>
    BY <1>2 DEF SendCommand
  <2>2. current \in 1..MaxLinks /\ current \in Nat
    BY <1>2, RedisAssumption DEF RedisInv, RedisTypeInv
  <2>3. /\ orders' \in [Query -> Order] /\ orders'[c].waits = current
        /\ \A d \in Query \ {c} : orders'[d] = orders[d]
    BY <1>1, <2>1, <2>2 DEF RedisInv, RedisTypeInv, Order
  <2>4. RedisTypeInv' /\ OutboxInv' /\ LinkInv'
    BY <1>1, <2>1, <2>3 DEF RedisInv, RedisTypeInv, OutboxInv, LinkInv
  <2>5. \A d \in Query : orders'[d].state = "waits" =>
          orders'[d].waits \in 1..MaxLinks /\ verdict'[orders'[d].waits] = "pending"
    BY <1>1, <1>2, <2>2, <2>3 DEF RedisInv, WaitInv
  <2>6. {d \in Query : orders'[d].state # "new"}
          \subseteq {d \in Query : orders[d].state # "new"} \cup {c}
    BY <2>3
  <2>7. IsFiniteSet({d \in Query : orders'[d].state # "new"})
    BY <2>6, StartedFinite DEF RedisInv
  <2> QED
    BY <2>4, <2>5, <2>7 DEF RedisInv, WaitInv
<1>3. CASE ~(current # 0 /\ verdict[current] = "pending")
  <2>1. orders' = [orders EXCEPT ![c].state = "queued"] /\ Sends(c)
    BY <1>3 DEF SendCommand, QueryEnds
  <2>2. /\ orders' \in [Query -> Order] /\ orders'[c].state = "queued"
        /\ \A d \in Query \ {c} : orders'[d] = orders[d]
    BY <1>1, <2>1 DEF RedisInv, RedisTypeInv, Order
  <2>3. /\ conn' \in {"down", "opening", "up"} /\ headSent' \in BOOLEAN
        /\ outbox' \in Seq(Query \cup 1..serial') /\ OutboxInv' /\ LinkInv'
    BY <1>1, <2>1, SendsIs DEF RedisInv
  <2>4. RedisTypeInv'
    BY <1>1, <2>2, <2>3 DEF RedisInv, RedisTypeInv
  <2>5. \A d \in Query : orders'[d].state = "waits" =>
          orders'[d].waits \in 1..MaxLinks /\ verdict'[orders'[d].waits] = "pending"
    BY <1>1, <2>2 DEF RedisInv, WaitInv
  <2>6. {d \in Query : orders'[d].state # "new"}
          \subseteq {d \in Query : orders[d].state # "new"} \cup {c}
    BY <2>2
  <2>7. IsFiniteSet({d \in Query : orders'[d].state # "new"})
    BY <2>6, StartedFinite DEF RedisInv
  <2> QED
    BY <2>3, <2>4, <2>5, <2>7 DEF RedisInv, WaitInv
<1> QED
  BY <1>2, <1>3

\* A command ends, wherever it was.
LEMMA EndsIs ==
  ASSUME RedisInv, NEW c \in Query, NEW how \in {"rejected", "done"},
         orders[c].state # "new", orders' = QueryEnds(c, how), UNCHANGED verdict
  PROVE  orders' \in [Query -> Order] /\ WaitInv'
<1>1. orders[c] \in Order
  BY DEF RedisInv, RedisTypeInv
<1>2. /\ orders' \in [Query -> Order] /\ orders'[c].state = how
      /\ \A d \in Query \ {c} : orders'[d] = orders[d]
  BY <1>1 DEF RedisInv, RedisTypeInv, Order, QueryEnds
<1>3. \A d \in Query : /\ orders[d].state = "new" => orders'[d].state = "new"
                       /\ orders'[d].state = "waits" =>
                            orders'[d] = orders[d] /\ verdict'[orders[d].waits] = "pending"
  BY <1>2 DEF RedisInv, WaitInv
<1> QED
  BY <1>2, <1>3, WaitKept DEF RedisInv

LEMMA CommandTimesOutStep ==
  ASSUME RedisInv, NEW c \in Query, CommandTimesOut(c)
  PROVE  RedisInv'
<1>1. /\ orders[c].state = "queued" /\ orders' = QueryEnds(c, "rejected")
      /\ UNCHANGED <<conn, serial, knows, firstSent, outbox, headSent, current, verdict>>
      /\ weather' \in Weather
  BY StrikesIs DEF CommandTimesOut, RedisInv
<1>2. orders' \in [Query -> Order] /\ WaitInv'
  BY <1>1, EndsIs
<1>3. RedisTypeInv' /\ OutboxInv' /\ LinkInv'
  BY <1>1, <1>2 DEF RedisInv, RedisTypeInv, OutboxInv, LinkInv
<1> QED
  BY <1>2, <1>3 DEF RedisInv

LEMMA CommandAnsweredStep ==
  ASSUME RedisInv, CommandAnswered
  PROVE  RedisInv'
<1>1. PICK c : c = outbox[1]
  OBVIOUS
<1>2. /\ conn = "up" /\ headSent /\ c \in Query
      /\ orders' = IF orders[c].state = "queued" THEN QueryEnds(c, "done") ELSE orders
      /\ UNCHANGED <<conn, serial, knows, current, verdict, weather>>
      /\ WritesNext(Tail(outbox), firstSent)
  BY <1>1 DEF CommandAnswered
<1>3. outbox # <<>> /\ outbox \in Seq(Query \cup 1..serial')
  BY <1>2 DEF RedisInv, OutboxInv, RedisTypeInv
<1>4. /\ Tail(outbox) \in Seq(Query \cup 1..serial')
      /\ \A y \in Entries(outbox) : y # c => y \in Entries(Tail(outbox))
  BY <1>1, <1>3, TailEntries
<1>5. \A a \in 1..MaxLinks : verdict'[a] = "pending" => a \in Entries(Tail(outbox))
  BY <1>2, <1>4, AuthsAre DEF RedisInv, OutboxInv
<1>6. /\ outbox' \in Seq(Query \cup 1..serial') /\ headSent' \in BOOLEAN
      /\ OutboxInv' /\ LinkInv'
  BY <1>2, <1>4, <1>5, WrittenOn DEF RedisInv, RedisTypeInv
<1>7. orders' \in [Query -> Order] /\ WaitInv'
  <2>1. CASE orders[c].state = "queued"
    BY <1>2, <2>1, EndsIs
  <2>2. CASE orders[c].state # "queued"
    BY <1>2, <2>2 DEF RedisInv, RedisTypeInv, WaitInv
  <2> QED
    BY <2>1, <2>2
<1>8. RedisTypeInv'
  BY <1>2, <1>6, <1>7 DEF RedisInv, RedisTypeInv
<1> QED
  BY <1>6, <1>7, <1>8 DEF RedisInv

LEMMA SocketOpensStep ==
  ASSUME RedisInv, SocketOpens
  PROVE  RedisInv'
<1>1. PICK n : n = serial + 1
  OBVIOUS
<1>2. /\ serial < MaxLinks /\ conn' = "up" /\ serial' = n /\ knows' = FALSE
      /\ verdict' = [verdict EXCEPT ![n] = "pending"] /\ current' = n
      /\ UNCHANGED <<orders, weather>> /\ WritesNext(<<n>> \o outbox, 0)
  BY <1>1 DEF SocketOpens, AuthFirst
<1>3. n \in 1..MaxLinks /\ n \in Nat /\ n # 0 /\ n \notin Query /\ 1..serial \subseteq 1..n
  BY <1>1, <1>2, RedisAssumption, SMTT(60) DEF RedisInv, RedisTypeInv
<1>4. /\ verdict' \in [1..MaxLinks -> Verdict] /\ verdict'[n] = "pending"
      /\ \A a \in 1..MaxLinks \ {n} : verdict'[a] = verdict[a]
  BY <1>2, <1>3 DEF RedisInv, RedisTypeInv, Verdict
<1>5. PICK q : q = <<n>> \o outbox
  OBVIOUS
<1>6. outbox \in Seq(Query \cup 1..n) /\ <<n>> \in Seq(Query \cup 1..n)
  BY <1>3 DEF RedisInv, RedisTypeInv
<1>7. q # <<>> /\ q[1] = n /\ q \in Seq(Query \cup 1..n)
  BY <1>5, <1>6
<1>8. n \in Entries(q) /\ \A y \in Entries(outbox) : y \in Entries(q)
  <2>1. n \in Entries(<<n>>)
    BY DEF Entries
  <2> QED
    BY <1>5, <1>6, <2>1, ConcatEntries
<1>9. Pending(q[1])
  BY <1>3, <1>4, <1>7 DEF Pending
<1>10. /\ outbox' \in Seq(Query \cup 1..n) /\ headSent' \in BOOLEAN
       /\ \A x \in Entries(q) : Pending(x) => x \in Entries(outbox')
       /\ headSent' => outbox' # <<>>
       /\ firstSent' = n
  BY <1>2, <1>5, <1>7, <1>9, WritesIs
<1>11. \A a \in 1..MaxLinks : verdict'[a] = "pending" => a \in Entries(outbox')
  <2>1. \A a \in 1..MaxLinks : verdict'[a] = "pending" => a \in Entries(q)
    BY <1>4, <1>8 DEF RedisInv, OutboxInv
  <2> QED
    BY <1>10, <2>1, AuthsAre DEF Pending, RedisInv
<1>12. OutboxInv'
  BY <1>2, <1>10, <1>11 DEF OutboxInv, Entries
<1>13. LinkInv'
  BY <1>2, <1>3, <1>4, <1>10 DEF LinkInv
<1>14. WaitInv'
  BY <1>2, <1>4, WaitKept DEF RedisInv, WaitInv
<1>15. RedisTypeInv'
  <2>1. outbox' \in Seq(Query \cup 1..serial')
    BY <1>2, <1>10
  <2>2. serial' \in 0..MaxLinks /\ current' \in 0..serial'
    BY <1>2, <1>3, RedisAssumption
  <2> QED
    BY <1>2, <1>4, <1>10, <2>1, <2>2 DEF RedisInv, RedisTypeInv
<1> QED
  BY <1>12, <1>13, <1>14, <1>15 DEF RedisInv

\* Nothing changes but the head, which is dropped, and what the server knows.
LEMMA HeadDropped ==
  ASSUME RedisInv, headSent, WritesNext(Tail(outbox), firstSent),
         outbox[1] \in 1..MaxLinks => verdict[outbox[1]] # "pending",
         UNCHANGED <<conn, serial, current, verdict, orders>>,
         knows' \in BOOLEAN, weather' \in Weather
  PROVE  RedisInv'
<1>1. conn = "up" /\ outbox # <<>> /\ outbox \in Seq(Query \cup 1..serial')
  BY DEF RedisInv, OutboxInv, RedisTypeInv
<1>2. /\ Tail(outbox) \in Seq(Query \cup 1..serial')
      /\ \A y \in Entries(outbox) : y # outbox[1] => y \in Entries(Tail(outbox))
  BY <1>1, TailEntries
<1>3. \A a \in 1..MaxLinks : verdict'[a] = "pending" => a \in Entries(Tail(outbox))
  BY <1>2 DEF RedisInv, OutboxInv
<1>4. /\ outbox' \in Seq(Query \cup 1..serial') /\ headSent' \in BOOLEAN
      /\ OutboxInv' /\ LinkInv'
  BY <1>1, <1>2, <1>3, WrittenOn DEF RedisInv, RedisTypeInv
<1>5. RedisTypeInv' /\ WaitInv'
  BY <1>4 DEF RedisInv, RedisTypeInv, WaitInv
<1> QED
  BY <1>4, <1>5 DEF RedisInv

LEMMA AnsweredNoAuthStep ==
  ASSUME RedisInv, AnsweredNoAuth
  PROVE  RedisInv'
<1> DEFINE left == Rejected_(Entries(outbox))
<1>1. PICK c : c = outbox[1]
  OBVIOUS
<1>2. /\ conn = "up" /\ headSent /\ c \in Query
      /\ UNCHANGED <<serial, knows, weather>>
  BY <1>1 DEF AnsweredNoAuth
<1>3. CASE orders[c].state # "queued"
  <2>1. UNCHANGED <<conn, current, verdict, orders>> /\ WritesNext(Tail(outbox), firstSent)
    BY <1>1, <1>3 DEF AnsweredNoAuth
  <2>2. outbox[1] \notin 1..MaxLinks
    BY <1>1, <1>2, AuthsAre DEF RedisInv
  <2> QED
    BY <1>2, <2>1, <2>2, HeadDropped DEF RedisInv, RedisTypeInv
<1>4. CASE orders[c].state = "queued"
  <2>1. /\ current' = 0 /\ verdict' = AuthsLost(Entries(outbox) \ Query)
        /\ headSent' = FALSE
        /\ \/ /\ orders' = [left EXCEPT ![c] = [orders[c] EXCEPT !.tries = 1]]
              /\ conn' = "opening" /\ outbox' = <<c>>
           \/ orders' = left /\ conn' = "down" /\ outbox' = <<>>
    BY <1>1, <1>4 DEF AnsweredNoAuth
  <2> HIDE DEF left
  <2>2. /\ verdict' \in [1..MaxLinks -> Verdict] /\ left \in [Query -> Order]
        /\ \A a \in 1..MaxLinks : verdict'[a] # "pending"
        /\ \A d \in Query : /\ left[d].state # "waits"
                            /\ orders[d].state = "new" => left[d].state = "new"
    BY <2>1, GivenUp DEF left
  <2>3. /\ [orders[c] EXCEPT !.tries = 1] \in Order
        /\ [orders[c] EXCEPT !.tries = 1].state = "queued"
    BY <1>2, <1>4 DEF RedisInv, RedisTypeInv, Order
  <2>4. /\ orders' \in [Query -> Order]
        /\ \A d \in Query : /\ orders'[d].state # "waits"
                            /\ orders[d].state = "new" => orders'[d].state = "new"
    BY <1>2, <1>4, <2>1, <2>2, <2>3
  <2>5. WaitInv'
    BY <2>4, WaitKept DEF RedisInv
  <2>6. outbox' \in Seq(Query \cup 1..serial')
    <3>1. <<c>> \in Seq(Query \cup 1..serial') /\ <<>> \in Seq(Query \cup 1..serial')
      BY <1>2
    <3> QED
      BY <2>1, <3>1
  <2>7. serial' \in 0..MaxLinks /\ current' \in 0..serial'
    BY <1>2, <2>1, RedisAssumption DEF RedisInv, RedisTypeInv
  <2>8. RedisTypeInv'
    BY <1>2, <2>1, <2>2, <2>4, <2>6, <2>7 DEF RedisInv, RedisTypeInv
  <2> QED
    BY <2>1, <2>2, <2>5, <2>8 DEF RedisInv, OutboxInv, LinkInv
<1> QED
  BY <1>3, <1>4

LEMMA ServerForgetsStep ==
  ASSUME RedisInv, ServerForgets
  PROVE  RedisInv'
<1>1. weather' \in Weather
  BY StrikesIs DEF ServerForgets, RedisInv
<1> QED
  BY <1>1 DEF ServerForgets, RedisInv, RedisTypeInv, OutboxInv, LinkInv, WaitInv

LEMMA DropsStep ==
  ASSUME RedisInv, Drops_
  PROVE  RedisInv'
<1>1. weather' \in Weather
  BY StrikesIs DEF Drops_, RedisInv
<1>2. conn' # "up" /\ conn' \in {"down", "opening", "up"}
  BY DEF Drops_
<1> QED
  BY <1>1, <1>2 DEF Drops_, RedisInv, RedisTypeInv, OutboxInv, LinkInv, WaitInv

\* The AUTH that is answered, or that expires.
LEMMA AuthIs ==
  ASSUME RedisInv, NEW a, a \in Entries(outbox) \ Query
  PROVE  /\ a \in 1..MaxLinks /\ a # 0
         /\ conn = "up" /\ verdict[a] = "pending" /\ ~TakesSocket(a) => a # serial
BY AuthsAre DEF RedisInv, LinkInv, TakesSocket

LEMMA AuthExpiresStep ==
  ASSUME RedisInv, NEW a, AuthExpires(a)
  PROVE  RedisInv'
<1>1. /\ a \in Entries(outbox) \ Query /\ verdict[a] = "pending" /\ UNCHANGED serial
      /\ weather' \in Weather
  BY StrikesIs DEF AuthExpires, RedisInv
<1>2. CASE TakesSocket(a)
  BY <1>1, <1>2, TearDownStep DEF AuthExpires
<1>3. CASE ~TakesSocket(a)
  <2>1. OnlyFails(a) /\ UNCHANGED <<outbox, headSent, firstSent, current, conn, knows>>
    BY <1>3 DEF AuthExpires, OnlyFails
  <2>2. a \in 1..MaxLinks /\ (conn = "up" => a # serial)
    BY <1>1, <1>3, AuthIs
  <2>3. /\ verdict' \in [1..MaxLinks -> Verdict] /\ orders' \in [Query -> Order]
        /\ verdict'[a] = "failed" /\ \A x \in 1..MaxLinks \ {a} : verdict'[x] = verdict[x]
        /\ WaitInv'
    BY <2>1, <2>2, OnlyFailsIs
  <2>4. RedisTypeInv'
    BY <1>1, <2>1, <2>3 DEF RedisInv, RedisTypeInv
  <2>5. OutboxInv'
    BY <2>1, <2>3 DEF RedisInv, OutboxInv
  <2>6. LinkInv'
    <3>1. conn = "up" => serial \in 1..MaxLinks
      BY RedisAssumption DEF RedisInv, RedisTypeInv, LinkInv
    <3> QED
      BY <1>1, <2>1, <2>2, <2>3, <3>1 DEF RedisInv, LinkInv
  <2> QED
    BY <2>3, <2>4, <2>5, <2>6 DEF RedisInv
<1> QED
  BY <1>2, <1>3

\* AUTH succeeds: who waited for it joins the queue, in whatever order.
LEMMA AuthSucceedsStep ==
  ASSUME RedisInv, AuthAnswered(TRUE), verdict[outbox[1]] = "pending"
  PROVE  RedisInv'
<1>1. PICK a : a = outbox[1]
  OBVIOUS
<1>2. /\ conn = "up" /\ headSent /\ a \notin Query /\ verdict[a] = "pending"
      /\ UNCHANGED <<weather, conn, current, serial>> /\ knows' = TRUE
      /\ verdict' = [verdict EXCEPT ![a] = "ok"]
      /\ orders' = [c \in Query |-> IF c \in WaitsFor(a)
                                    THEN [orders[c] EXCEPT !.state = "queued"]
                                    ELSE orders[c]]
  BY <1>1 DEF AuthAnswered
<1>3. PICK next \in OrdersOf(WaitsFor(a)) : WritesNext(Tail(outbox) \o next, firstSent)
  BY <1>1 DEF AuthAnswered
<1>4. outbox # <<>> /\ outbox \in Seq(Query \cup 1..serial')
  BY <1>2 DEF RedisInv, OutboxInv, RedisTypeInv
<1>5. /\ Tail(outbox) \in Seq(Query \cup 1..serial') /\ a \in Entries(outbox)
      /\ \A y \in Entries(outbox) : y # a => y \in Entries(Tail(outbox))
  BY <1>1, <1>4, TailEntries
<1>6. next \in Seq(Query \cup 1..serial')
  <2>1. WaitsFor(a) \subseteq {c \in Query : orders[c].state # "new"}
    BY DEF WaitsFor
  <2>2. IsFiniteSet(WaitsFor(a))
    BY <2>1, FS_Subset DEF RedisInv, WaitInv
  <2>3. Cardinality(WaitsFor(a)) \in Nat
    BY <2>2, FS_CardinalityType
  <2>4. PICK k \in Nat : next \in [1..k -> WaitsFor(a)]
    BY <2>3 DEF OrdersOf
  <2>5. next \in [1..k -> Query \cup 1..serial']
    BY <2>4 DEF WaitsFor
  <2> QED
    BY <2>4, <2>5, SeqDef
<1>7. PICK q : q = Tail(outbox) \o next
  OBVIOUS
<1>8. q \in Seq(Query \cup 1..serial') /\ \A y \in Entries(Tail(outbox)) : y \in Entries(q)
  BY <1>5, <1>6, <1>7, ConcatEntries
<1>9. a \in 1..MaxLinks
  BY <1>2, <1>5, AuthIs
<1>10. /\ verdict' \in [1..MaxLinks -> Verdict] /\ verdict'[a] = "ok"
       /\ \A x \in 1..MaxLinks \ {a} : verdict'[x] = verdict[x]
  BY <1>2, <1>9 DEF RedisInv, RedisTypeInv, Verdict
<1>11. \A x \in 1..MaxLinks : verdict'[x] = "pending" => x \in Entries(q)
  BY <1>5, <1>8, <1>10 DEF RedisInv, OutboxInv
<1>12. verdict[serial] # "failed" => verdict'[serial] # "failed"
  <2>1. serial \in 1..MaxLinks
    BY <1>2, RedisAssumption DEF RedisInv, RedisTypeInv, LinkInv
  <2> QED
    BY <1>10, <2>1
<1>13. /\ outbox' \in Seq(Query \cup 1..serial') /\ headSent' \in BOOLEAN
       /\ OutboxInv' /\ LinkInv'
  BY <1>2, <1>3, <1>7, <1>8, <1>10, <1>11, <1>12, WrittenOn DEF RedisInv
<1>14. \A c \in Query : /\ orders'[c] \in Order
                        /\ orders[c].state = "new" => orders'[c].state = "new"
                        /\ orders'[c].state = "waits" =>
                             orders'[c] = orders[c] /\ orders[c].waits # a
  <2>1. ASSUME NEW c \in Query, c \in WaitsFor(a)
        PROVE  /\ orders'[c] \in Order /\ orders'[c].state = "queued"
               /\ orders[c].state = "waits"
    <3>1. orders[c] \in Order /\ orders'[c] = [orders[c] EXCEPT !.state = "queued"]
      BY <1>2, <2>1 DEF RedisInv, RedisTypeInv
    <3> QED
      BY <2>1, <3>1 DEF Order, WaitsFor
  <2>2. ASSUME NEW c \in Query, c \notin WaitsFor(a)
        PROVE  /\ orders'[c] = orders[c] /\ orders[c] \in Order
               /\ orders[c].state = "waits" => orders[c].waits # a
    BY <1>2, <2>2 DEF RedisInv, RedisTypeInv, WaitsFor
  <2> QED
    BY <2>1, <2>2
<1>15. WaitInv'
  <2>1. \A c \in Query : orders'[c].state = "waits" => verdict'[orders[c].waits] = "pending"
    BY <1>10, <1>14 DEF RedisInv, WaitInv
  <2> QED
    BY <1>14, <2>1, WaitKept DEF RedisInv
<1>16. RedisTypeInv'
  <2>1. orders' = [c \in Query |-> orders'[c]]
    BY <1>2
  <2>2. orders' \in [Query -> Order]
    BY <1>14, <2>1
  <2> QED
    BY <1>2, <1>10, <1>13, <2>2 DEF RedisInv, RedisTypeInv
<1> QED
  BY <1>13, <1>15, <1>16 DEF RedisInv

\* AUTH is refused, and its socket is not the current one's.
LEMMA AuthRefusedStep ==
  ASSUME RedisInv, NEW a, a = outbox[1], a \notin Query, headSent, verdict[a] = "pending",
         ~TakesSocket(a), OnlyFails(a), WritesNext(Tail(outbox), firstSent),
         UNCHANGED serial, weather' \in Weather
  PROVE  RedisInv'
<1>1. conn = "up" /\ outbox # <<>> /\ outbox \in Seq(Query \cup 1..serial')
  BY DEF RedisInv, OutboxInv, RedisTypeInv
<1>2. /\ Tail(outbox) \in Seq(Query \cup 1..serial') /\ a \in Entries(outbox)
      /\ \A y \in Entries(outbox) : y # a => y \in Entries(Tail(outbox))
  BY <1>1, TailEntries
<1>3. a \in 1..MaxLinks /\ a # serial
  BY <1>1, <1>2, AuthIs
<1>4. /\ verdict' \in [1..MaxLinks -> Verdict] /\ orders' \in [Query -> Order]
      /\ verdict'[a] = "failed" /\ \A x \in 1..MaxLinks \ {a} : verdict'[x] = verdict[x]
      /\ WaitInv' /\ UNCHANGED <<current, conn, knows>>
  BY <1>3, OnlyFailsIs DEF OnlyFails
<1>5. \A x \in 1..MaxLinks : verdict'[x] = "pending" => x \in Entries(Tail(outbox))
  BY <1>2, <1>4 DEF RedisInv, OutboxInv
<1>6. verdict'[serial] = verdict[serial]
  <2>1. serial \in 1..MaxLinks
    BY <1>1, RedisAssumption DEF RedisInv, RedisTypeInv, LinkInv
  <2> QED
    BY <1>3, <1>4, <2>1
<1>7. /\ outbox' \in Seq(Query \cup 1..serial') /\ headSent' \in BOOLEAN
      /\ OutboxInv' /\ LinkInv'
  BY <1>1, <1>2, <1>4, <1>5, <1>6, WrittenOn DEF RedisInv
<1>8. RedisTypeInv'
  BY <1>4, <1>7 DEF RedisInv, RedisTypeInv
<1> QED
  BY <1>4, <1>7, <1>8 DEF RedisInv

LEMMA AuthAnsweredStep ==
  ASSUME RedisInv, NEW ok \in BOOLEAN, AuthAnswered(ok)
  PROVE  RedisInv'
<1>1. PICK a : a = outbox[1]
  OBVIOUS
<1>2. /\ conn = "up" /\ headSent /\ a \notin Query /\ UNCHANGED serial
  BY <1>1 DEF AuthAnswered
<1>3. weather' \in Weather
  BY StrikesIs DEF AuthAnswered, RedisInv, RedisTypeInv
<1>4. CASE verdict[a] # "pending"
  <2>1. /\ knows' = (knows \/ ok) /\ UNCHANGED <<conn, current, verdict, orders>>
        /\ WritesNext(Tail(outbox), firstSent)
    BY <1>1, <1>4 DEF AuthAnswered
  <2>2. knows' \in BOOLEAN
    BY <2>1
  <2> QED
    BY <1>1, <1>2, <1>3, <1>4, <2>1, <2>2, HeadDropped
<1>5. CASE verdict[a] = "pending" /\ ok
  BY <1>1, <1>5, AuthSucceedsStep
<1>6. CASE verdict[a] = "pending" /\ ~ok /\ TakesSocket(a)
  <2>1. TearDown
    BY <1>1, <1>6 DEF AuthAnswered
  <2> QED
    BY <1>2, <1>3, <2>1, TearDownStep
<1>7. CASE verdict[a] = "pending" /\ ~ok /\ ~TakesSocket(a)
  <2>1. OnlyFails(a) /\ WritesNext(Tail(outbox), firstSent)
    BY <1>1, <1>7 DEF AuthAnswered
  <2> QED
    BY <1>1, <1>2, <1>3, <1>7, <2>1, AuthRefusedStep
<1> QED
  BY <1>4, <1>5, <1>6, <1>7

LEMMA RedisStarts == RedisInit => RedisInv
<1> SUFFICES ASSUME RedisInit PROVE RedisInv
  OBVIOUS
<1>1. weather \in Weather /\ serial \in 0..MaxLinks /\ current \in 0..serial
  BY RedisAssumption DEF RedisInit, Weather
<1>2. orders \in [Query -> Order] /\ verdict \in [1..MaxLinks -> Verdict]
  BY DEF RedisInit, Order, Verdict
<1>3. RedisTypeInv
  <2>1. outbox \in Seq(Query \cup 1..serial)
    BY DEF RedisInit
  <2> QED
    BY <1>1, <1>2, <2>1 DEF RedisTypeInv, RedisInit
<1>4. OutboxInv /\ LinkInv
  BY DEF RedisInit, OutboxInv, LinkInv
<1>5. {c \in Query : orders[c].state # "new"} = {}
  BY DEF RedisInit
<1>6. WaitInv
  <2>1. \A c \in Query : orders[c].state = "new"
    BY DEF RedisInit
  <2> QED
    BY <1>5, <2>1, FS_EmptySet DEF WaitInv
<1> QED
  BY <1>3, <1>4, <1>6 DEF RedisInv

LEMMA RedisSteps == RedisInv /\ [RedisNext]_redisVars => RedisInv'
<1> SUFFICES ASSUME RedisInv, [RedisNext]_redisVars PROVE RedisInv'
  OBVIOUS
<1>1. ASSUME NEW c \in Query, SendCommand(c) PROVE RedisInv'
  BY <1>1, SendCommandStep
<1>2. ASSUME NEW c \in Query, CommandTimesOut(c) PROVE RedisInv'
  BY <1>2, CommandTimesOutStep
<1>3. CASE SocketOpens
  BY <1>3, SocketOpensStep
<1>4. CASE CommandAnswered
  BY <1>4, CommandAnsweredStep
<1>5. CASE AnsweredNoAuth
  BY <1>5, AnsweredNoAuthStep
<1>6. CASE ServerForgets
  BY <1>6, ServerForgetsStep
<1>7. CASE Drops_
  BY <1>7, DropsStep
<1>8. ASSUME NEW ok \in BOOLEAN, AuthAnswered(ok) PROVE RedisInv'
  BY <1>8, AuthAnsweredStep
<1>9. ASSUME NEW a \in 1..MaxLinks, AuthExpires(a) PROVE RedisInv'
  BY <1>9, AuthExpiresStep
<1>10. CASE UNCHANGED redisVars
  BY <1>10 DEF redisVars, RedisInv, RedisTypeInv, OutboxInv, LinkInv, WaitInv
<1> QED
  BY <1>1, <1>2, <1>3, <1>4, <1>5, <1>6, <1>7, <1>8, <1>9, <1>10 DEF RedisNext

LEMMA RedisInvSuffices ==
  RedisInv => ConnectionTypeOK /\ AuthIsFirst /\ NotPoisoned
<1> SUFFICES ASSUME RedisInv PROVE ConnectionTypeOK /\ AuthIsFirst /\ NotPoisoned
  OBVIOUS
<1>1. Entries(outbox) \subseteq Query \cup 1..serial
  BY DEF RedisInv, RedisTypeInv, Entries
<1>2. ConnectionTypeOK
  BY <1>1 DEF ConnectionTypeOK, RedisInv, RedisTypeInv, OutboxInv, WaitInv
<1>3. AuthIsFirst /\ NotPoisoned
  BY DEF AuthIsFirst, NotPoisoned, RedisInv, LinkInv
<1> QED
  BY <1>2, <1>3

\* Who takes a socket away: the AUTH of it, when it fails, the server that does not know it,
\* or the peer.
LEMMA OnlyThePeerDrops ==
  ASSUME RedisInv, [RedisNext]_redisVars, conn = "up", knows, verdict[serial] = "ok",
         conn' # "up"
  PROVE  weather'.drops < weather.drops
<1>1. \A a : TakesSocket(a) => verdict[a] # "pending"
  BY DEF RedisInv, LinkInv, TakesSocket
<1>2. \A c \in Query : ~SendCommand(c) /\ ~CommandTimesOut(c)
  BY DEF SendCommand, Sends, CommandTimesOut
<1>3. ~SocketOpens /\ ~CommandAnswered /\ ~AnsweredNoAuth /\ ~ServerForgets
  BY DEF SocketOpens, CommandAnswered, AnsweredNoAuth, ServerForgets
<1>4. \A ok \in BOOLEAN : ~AuthAnswered(ok)
  BY <1>1 DEF AuthAnswered, OnlyFails
<1>5. \A a \in 1..MaxLinks : ~AuthExpires(a)
  BY <1>1 DEF AuthExpires, OnlyFails
<1>6. Drops_
  BY <1>2, <1>3, <1>4, <1>5 DEF RedisNext, redisVars
<1> QED
  BY <1>6, StrikesIs DEF Drops_, RedisInv

\* AUTH is the first request of every connection and a connection whose AUTH failed is not
\* kept (connection.ts:65-96), nor does an AUTH that outlived its socket take the next one:
\* the safety of ConnectionPromise, whatever drops, times out, is refused or forgotten.
THEOREM ConnectionsAreAuthenticated ==
  RedisSpec => /\ [](ConnectionTypeOK /\ AuthIsFirst /\ NotPoisoned)
               /\ HealthySurvives
<1>1. RedisInit => RedisInv
  BY RedisStarts
<1>2. RedisInv /\ [RedisNext]_redisVars => RedisInv'
  BY RedisSteps
<1>3. RedisInv => ConnectionTypeOK /\ AuthIsFirst /\ NotPoisoned
  BY RedisInvSuffices
<1>4. RedisInv /\ [RedisNext]_redisVars =>
        [conn = "up" /\ knows /\ verdict[serial] = "ok" /\ conn' # "up"
           => weather'.drops < weather.drops]_redisVars
  BY OnlyThePeerDrops
<1> QED
  BY <1>1, <1>2, <1>3, <1>4, PTL DEF RedisSpec, HealthySurvives

-----------------------------------------------------------------------------
(* Documents: what the proof of their promise adds *)

\* What marks that nothing is there is not taken for a token, which is a pair.
AbsentIsNoToken == \A a, b : Absent # <<a, b>>

DocumentSetup == [backend : Backend, ttl : Nat, lost : Nat, resent : Nat]
Ended == {"written", "unheard"}
Nothing == [version |-> 0, content |-> <<>>]
DocOf(i) == [version |-> i.version, content |-> i.content]

DocumentTypeInv ==
  /\ mishaps \in DocumentSetup /\ ticks \in 0..MaxTicks /\ edits \in Seq(Writer)
  /\ stage \in [Writer -> {"idle", "read", "gaveUp"} \cup Ended]
  /\ losses \in [Writer -> 0..(MaxRetries + 1)] /\ touched \in [Writer -> BOOLEAN]
  /\ seen = [w \in Writer |-> seen[w]]
  /\ \A w \in Writer : seen[w].doc.version \in Nat /\ seen[w].doc = DocOf(seen[w].doc)
  /\ item # Absent => item.version \in Nat \ {0} /\ item.until \in Nat
  /\ \A w \in Writer : stage[w] = "gaveUp" <=> losses[w] = MaxRetries + 1

\* What a writer makes of what it has read.
Made(w) == [version |-> seen[w].doc.version + 1,
            content |-> Modified(seen[w].doc.content, EditOf[w])]

\* A revision names a writer and an attempt; while that is its last one, the document is
\* what the writer makes.
Names(rev, doc) ==
  \E u \in Writer, l \in Nat :
    /\ rev = <<u, l>> /\ l <= losses[u]
    /\ l = losses[u] => stage[u] \in {"read"} \cup Ended /\ doc = Made(u)

\* One revision of DynamoDB, one document.
RevisionInv ==
  mishaps.backend = "dynamodb" =>
    /\ item # Absent => Names(item.rev, DocOf(item))
    /\ \A w \in Writer : seen[w].token # Absent => Names(seen[w].token, seen[w].doc)
    /\ \A w \in Writer : item # Absent /\ seen[w].token = item.rev => seen[w].doc = DocOf(item)

\* What a token says of the document it was read with; on a plain repository the turns do.
ReadInv ==
  /\ mishaps.backend = "plain" /\ item # Absent => item.until = 0
  /\ \A w \in Writer : stage[w] = "read" =>
       IF mishaps.backend = "plain"
       THEN /\ seen[w].doc = Ensured(item, ticks)
            /\ \A v \in Writer : stage[v] = "read" => v = w
       ELSE /\ seen[w].token = Absent => seen[w].doc = Nothing
            /\ mishaps.backend # "dynamodb" /\ seen[w].token # Absent =>
                 seen[w].token = <<seen[w].doc.version, seen[w].doc.content>>

\* Whoever was not touched has read what would be read now.
FreshInv ==
  \A w \in Writer : stage[w] = "read" /\ ~touched[w] =>
    GetRevision(ticks).token = seen[w].token

\* `content` is what the edits make of nothing, step by step.
MakeUp(content, es) ==
  \E f : /\ f[0] = <<>> /\ f[Len(es)] = content
         /\ \A n \in 1..Len(es) : f[n] = Modified(f[n - 1], EditOf[es[n]])

EditsInv == item # Absent => item.version = Len(edits) /\ MakeUp(item.content, edits)

\* Nothing is sent again on this backend.
NeverResent == \A s \in DocumentSetups : s.backend = mishaps.backend => s.resent = 0

OnceInv ==
  /\ \E s \in DocumentSetups : s.backend = mishaps.backend /\ mishaps.resent <= s.resent
  /\ NeverResent =>
       /\ \A n \in DOMAIN edits : stage[edits[n]] \in Ended
       /\ \A m, n \in DOMAIN edits : edits[m] = edits[n] => m = n

DocumentInv ==
  /\ DocumentTypeInv /\ RevisionInv /\ ReadInv /\ FreshInv /\ EditsInv /\ OnceInv

LEMMA LiveIs ==
  ASSUME NEW i, NEW t
  PROVE  /\ ~Live(Absent, t)
         /\ i # Absent /\ i.until = 0 => Live(i, t)
         /\ mishaps.backend = "dynamodb" =>
              (Live(i, t) <=> i # Absent /\ (i.until = 0 \/ Ceil2(i.until) >= t \div 2))
BY DEF Live

\* A condition that holds makes sure of the document that was read.
LEMMA ConditionMeans ==
  ASSUME DocumentInv, AbsentIsNoToken, NEW w \in Writer, stage[w] = "read",
         Condition(seen[w].token)
  PROVE  seen[w].doc = Ensured(item, ticks)
<1>1. CASE mishaps.backend = "plain"
  BY <1>1 DEF DocumentInv, ReadInv
<1>2. CASE mishaps.backend = "dynamodb"
  <2>1. CASE seen[w].token = Absent
    <3>1. \/ item = Absent
          \/ item # Absent /\ item.until > 0 /\ Ceil2(item.until) < ticks \div 2
      BY <1>2, <2>1 DEF Condition
    <3>2. ~Live(item, ticks)
      <4>1. ASSUME item # Absent PROVE ~Live(item, ticks)
        <5>1. PICK c, t, u : c = Ceil2(item.until) /\ t = ticks \div 2 /\ u = item.until
          OBVIOUS
        <5>2. u \in Nat /\ c \in Nat /\ t \in Nat
          BY <4>1, <5>1, SMTT(60) DEF Ceil2, DocumentInv, DocumentTypeInv
        <5>3. u > 0 /\ c < t
          BY <3>1, <4>1, <5>1
        <5>4. Live(item, ticks) <=> (u = 0 \/ c >= t)
          BY <1>2, <4>1, <5>1, LiveIs
        <5> QED
          BY <5>2, <5>3, <5>4
      <4> QED
        BY <4>1, LiveIs
    <3>3. seen[w].doc = Nothing
      BY <1>2, <2>1 DEF DocumentInv, ReadInv
    <3> QED
      BY <3>2, <3>3 DEF Ensured, Nothing
  <2>2. CASE seen[w].token # Absent
    <3>1. /\ item # Absent /\ item.rev = seen[w].token
          /\ item.until = 0 \/ Ceil2(item.until) >= ticks \div 2
      BY <1>2, <2>2 DEF Condition
    <3>2. Live(item, ticks)
      BY <1>2, <3>1, LiveIs
    <3>3. seen[w].doc = DocOf(item)
      BY <1>2, <3>1 DEF DocumentInv, RevisionInv
    <3> QED
      BY <3>2, <3>3 DEF Ensured, DocOf
  <2> QED
    BY <2>1, <2>2
<1>3. CASE mishaps.backend \notin {"plain", "dynamodb"}
  <2>1. seen[w].token = IF Live(item, ticks) THEN <<item.version, item.content>> ELSE Absent
    BY <1>3 DEF Condition, GetRevision, TokenOf
  <2>2. CASE Live(item, ticks)
    <3>1. seen[w].token = <<item.version, item.content>> /\ seen[w].token # Absent
      BY <2>1, <2>2 DEF AbsentIsNoToken
    <3>2. seen[w].token = <<seen[w].doc.version, seen[w].doc.content>>
      BY <1>3, <3>1 DEF DocumentInv, ReadInv
    <3>3. seen[w].doc.version = item.version /\ seen[w].doc.content = item.content
      BY <3>1, <3>2
    <3>4. seen[w].doc = DocOf(item)
      BY <3>3 DEF DocumentInv, DocumentTypeInv, DocOf
    <3> QED
      BY <2>2, <3>4 DEF Ensured, DocOf
  <2>3. CASE ~Live(item, ticks)
    BY <1>3, <2>1, <2>3 DEF DocumentInv, ReadInv, Ensured, Nothing
  <2> QED
    BY <2>2, <2>3
<1> QED
  BY <1>1, <1>2, <1>3

\* One edit more.
LEMMA MakeUpGrows ==
  ASSUME NEW content, NEW es \in Seq(Writer), NEW w \in Writer, MakeUp(content, es)
  PROVE  MakeUp(Modified(content, EditOf[w]), Append(es, w))
<1>1. PICK f : /\ f[0] = <<>> /\ f[Len(es)] = content
               /\ \A n \in 1..Len(es) : f[n] = Modified(f[n - 1], EditOf[es[n]])
  BY DEF MakeUp
<1>2. PICK k \in Nat : k = Len(es)
  OBVIOUS
<1>3. PICK b : b = Append(es, w)
  OBVIOUS
<1>4. /\ Len(b) = k + 1 /\ b[k + 1] = w
      /\ \A n \in 1..k : b[n] = es[n]
  BY <1>2, <1>3, AppendProperties
<1>5. PICK last : last = Modified(content, EditOf[w])
  OBVIOUS
<1>6. PICK g : g = [n \in 0..(k + 1) |-> IF n <= k THEN f[n] ELSE last]
  OBVIOUS
<1>7. g[0] = <<>> /\ g[k + 1] = last /\ g[k] = content
  BY <1>1, <1>2, <1>6
<1>8. ASSUME NEW n \in 1..(k + 1) PROVE g[n] = Modified(g[n - 1], EditOf[b[n]])
  <2>1. CASE n = k + 1
    <3>1. n - 1 = k
      BY <1>2, <2>1
    <3> QED
      BY <1>4, <1>5, <1>7, <2>1, <3>1
  <2>2. CASE n # k + 1
    <3>1. n \in 1..k /\ n - 1 \in 0..(k + 1) /\ n \in 0..(k + 1) /\ n <= k /\ n - 1 <= k
      BY <1>2, <2>2
    <3>2. g[n] = f[n] /\ g[n - 1] = f[n - 1]
      BY <1>6, <3>1
    <3>3. f[n] = Modified(f[n - 1], EditOf[es[n]])
      BY <1>1, <1>2, <3>1
    <3> QED
      BY <1>4, <3>1, <3>2, <3>3
  <2> QED
    BY <2>1, <2>2
<1> QED
  BY <1>3, <1>4, <1>5, <1>7, <1>8, SMTT(60) DEF MakeUp

LEMMA MakeUpBegins ==
  ASSUME NEW w \in Writer
  PROVE  MakeUp(Modified(<<>>, EditOf[w]), <<w>>)
<1>1. MakeUp(<<>>, <<>>)
  <2>1. PICK f : f = [n \in {0} |-> <<>>]
    OBVIOUS
  <2>2. f[0] = <<>>
    BY <2>1
  <2> QED
    BY <2>2 DEF MakeUp
<1>2. Append(<<>>, w) = <<w>> /\ <<>> \in Seq(Writer)
  OBVIOUS
<1> QED
  BY <1>1, <1>2, MakeUpGrows

\* The edits after a write: the ones of the document that was there, and this one.
LEMMA StoredEdits ==
  ASSUME DocumentInv, NEW w \in Writer, Store(w), seen[w].doc = Ensured(item, ticks)
  PROVE  /\ edits' \in Seq(Writer) /\ Len(edits') = seen[w].doc.version + 1
         /\ MakeUp(Modified(seen[w].doc.content, EditOf[w]), edits')
         /\ \/ edits' = Append(edits, w)
            \/ edits' = <<w>>
<1>1. CASE Live(item, ticks)
  <2>1. item # Absent
    BY <1>1 DEF Live
  <2>2. item.version = Len(edits) /\ MakeUp(item.content, edits) /\ edits \in Seq(Writer)
    BY <2>1 DEF DocumentInv, EditsInv, DocumentTypeInv
  <2>3. seen[w].doc.version = item.version /\ seen[w].doc.content = item.content
    BY <1>1 DEF Ensured
  <2>4. edits' = Append(edits, w)
    BY <1>1 DEF Store
  <2> QED
    BY <2>2, <2>3, <2>4, MakeUpGrows, AppendProperties
<1>2. CASE ~Live(item, ticks)
  <2>1. seen[w].doc.version = 0 /\ seen[w].doc.content = <<>>
    BY <1>2 DEF Ensured
  <2>2. edits' = <<w>>
    BY <1>2 DEF Store
  <2>3. <<w>> \in Seq(Writer) /\ Len(<<w>>) = 0 + 1
    OBVIOUS
  <2> QED
    BY <2>1, <2>2, <2>3, MakeUpBegins
<1> QED
  BY <1>1, <1>2

\* A write is made on the document that is there, and counts as its last edit.
LEMMA StoredStep ==
  ASSUME DocumentInv, AbsentIsNoToken, NEW w \in Writer, stage[w] = "read",
         Condition(seen[w].token), Store(w), UNCHANGED <<ticks, seen, losses>>,
         mishaps' \in DocumentSetup, mishaps'.backend = mishaps.backend,
         mishaps'.resent <= mishaps.resent,
         \/ \E e \in Ended : stage' = [stage EXCEPT ![w] = e]
         \/ /\ stage' = stage /\ mishaps.backend \in {"dynamodb", "s3"}
            /\ mishaps.resent > 0
  PROVE  DocumentInv'
<1>1. /\ item' = [version |-> seen[w].doc.version + 1,
                  content |-> Modified(seen[w].doc.content, EditOf[w]),
                  rev |-> <<w, losses[w]>>, until |-> Until]
      /\ touched' = [v \in Writer |-> TRUE]
  BY DEF Store
<1>2. /\ item'.version = Made(w).version /\ item'.content = Made(w).content
      /\ item'.rev = <<w, losses[w]>> /\ item'.until = Until
      /\ DocOf(item') = Made(w) /\ item'.version = seen[w].doc.version + 1
  BY <1>1 DEF Made, DocOf
<1>3. seen[w].doc = Ensured(item, ticks)
  BY ConditionMeans
<1>4. /\ edits' \in Seq(Writer) /\ Len(edits') = item'.version
      /\ MakeUp(item'.content, edits')
      /\ edits' = Append(edits, w) \/ edits' = <<w>>
  BY <1>2, <1>3, StoredEdits DEF Made
<1>5. Until \in Nat /\ (mishaps.backend = "plain" => Until = 0)
  BY DEF Until, DocumentInv, DocumentTypeInv, DocumentSetup
<1>6. /\ stage' \in [Writer -> {"idle", "read", "gaveUp"} \cup Ended]
      /\ \A v \in Writer \ {w} : stage'[v] = stage[v]
      /\ stage'[w] \in {"read"} \cup Ended
      /\ mishaps.backend = "plain" => stage'[w] \in Ended
  BY DEF DocumentInv, DocumentTypeInv, Ended
<1>7. DocumentTypeInv'
  <2>1. item'.version \in Nat \ {0}
    BY <1>2 DEF DocumentInv, DocumentTypeInv
  <2>2. touched' \in [Writer -> BOOLEAN]
    BY <1>1
  <2>3. \A v \in Writer : stage'[v] = "gaveUp" <=> losses'[v] = MaxRetries + 1
    BY <1>6 DEF DocumentInv, DocumentTypeInv, Ended
  <2> QED
    BY <1>2, <1>4, <1>5, <1>6, <2>1, <2>2, <2>3, SMTT(60) DEF DocumentInv, DocumentTypeInv
<1>8. RevisionInv'
  <2>1. SUFFICES ASSUME mishaps.backend = "dynamodb" PROVE RevisionInv'
    BY DEF RevisionInv
  <2>2. \A v \in Writer : Made(v)' = Made(v)
    BY DEF Made
  <2>3. losses[w] \in Nat
    BY DEF DocumentInv, DocumentTypeInv
  <2>4. ASSUME NEW rev, NEW doc, Names(rev, doc)
        PROVE  Names(rev, doc)' /\ (rev = item'.rev => doc = DocOf(item'))
    <3>1. PICK u \in Writer, l \in Nat :
            /\ rev = <<u, l>> /\ l <= losses[u]
            /\ l = losses[u] => stage[u] \in {"read"} \cup Ended /\ doc = Made(u)
      BY <2>4 DEF Names
    <3>2. l = losses[u] => stage'[u] \in {"read"} \cup Ended /\ doc = Made(u)'
      BY <1>6, <2>2, <3>1
    <3>3. Names(rev, doc)'
      BY <3>1, <3>2 DEF Names
    <3>4. ASSUME rev = item'.rev PROVE doc = DocOf(item')
      <4>1. u = w /\ l = losses[w]
        BY <1>2, <3>1, <3>4
      <4> QED
        BY <1>2, <3>1, <4>1
    <3> QED
      BY <3>3, <3>4
  <2>5. Names(item.rev, DocOf(item))'
    <3>1. DocOf(item)' = Made(w)'
      BY <1>2, <2>2
    <3> QED
      BY <1>2, <1>6, <2>3, <3>1 DEF Names
  <2>6. ASSUME NEW v \in Writer
        PROVE  /\ seen'[v].token # Absent => Names(seen[v].token, seen[v].doc)'
               /\ seen'[v].token = item'.rev => seen'[v].doc = DocOf(item')
    <3>1. CASE seen[v].token = Absent
      <4>1. item'.rev # Absent
        BY <1>2 DEF AbsentIsNoToken
      <4> QED
        BY <3>1, <4>1
    <3>2. CASE seen[v].token # Absent
      <4>1. PICK t, d : t = seen[v].token /\ d = seen[v].doc
        OBVIOUS
      <4>2. Names(t, d)
        BY <2>1, <3>2, <4>1 DEF DocumentInv, RevisionInv
      <4>3. Names(t, d)' /\ (t = item'.rev => d = DocOf(item'))
        BY <2>4, <4>2
      <4>4. Names(seen[v].token, seen[v].doc)'
        BY <4>1, <4>3 DEF Names
      <4> QED
        BY <4>1, <4>3, <4>4
    <3> QED
      BY <3>1, <3>2
  <2> QED
    BY <2>5, <2>6 DEF RevisionInv, DocOf
<1>9. ReadInv'
  BY <1>2, <1>5, <1>6 DEF DocumentInv, ReadInv, Ended
<1>10. FreshInv'
  BY <1>1 DEF FreshInv
<1>11. EditsInv'
  BY <1>4 DEF EditsInv
<1>12. OnceInv'
  <2>1. NeverResent' => NeverResent
    BY DEF NeverResent
  <2>2. \E s \in DocumentSetups : s.backend = mishaps'.backend /\ mishaps'.resent <= s.resent
    <3>1. PICK s \in DocumentSetups : s.backend = mishaps.backend /\ mishaps.resent <= s.resent
      BY DEF DocumentInv, OnceInv
    <3>2. /\ s.resent \in Nat /\ mishaps.resent \in Nat /\ mishaps'.resent \in Nat
      BY DocumentsAssumption DEF DocumentInv, DocumentTypeInv, DocumentSetup
    <3> QED
      BY <3>1, <3>2
  <2>3. ASSUME NeverResent
        PROVE  /\ \A n \in DOMAIN edits' : stage'[edits'[n]] \in Ended
               /\ \A m, n \in DOMAIN edits' : edits'[m] = edits'[n] => m = n
    <3>1. stage'[w] \in Ended
      <4>1. PICK s \in DocumentSetups :
              s.backend = mishaps.backend /\ mishaps.resent <= s.resent
        BY DEF DocumentInv, OnceInv
      <4>2. s.resent = 0 /\ mishaps.resent \in Nat
        BY <2>3, <4>1 DEF NeverResent, DocumentInv, DocumentTypeInv, DocumentSetup
      <4>3. ~(mishaps.resent > 0)
        BY <4>1, <4>2
      <4> QED
        BY <4>3 DEF DocumentInv, DocumentTypeInv
    <3>2. /\ edits \in Seq(Writer) /\ \A n \in DOMAIN edits : stage[edits[n]] \in Ended
          /\ \A m, n \in DOMAIN edits : edits[m] = edits[n] => m = n
      BY <2>3 DEF DocumentInv, OnceInv, DocumentTypeInv
    <3>3. \A n \in DOMAIN edits : edits[n] \in Writer /\ edits[n] # w
      BY <3>2 DEF Ended
    <3>4. CASE edits' = <<w>>
      BY <3>1, <3>4
    <3>5. CASE edits' = Append(edits, w)
      <4>1. PICK k \in Nat : k = Len(edits)
        BY <3>2
      <4>2. PICK b : b = edits'
        OBVIOUS
      <4>3. /\ DOMAIN edits = 1..k /\ DOMAIN b = 1..(k + 1) /\ b[k + 1] = w
            /\ \A n \in 1..k : b[n] = edits[n]
        BY <3>2, <3>5, <4>1, <4>2, AppendProperties
      <4>4. \A n \in 1..(k + 1) : n = k + 1 \/ n \in 1..k
        BY <4>1
      <4>5. \A n \in 1..(k + 1) : stage'[b[n]] \in Ended
        BY <1>6, <3>1, <3>2, <3>3, <4>3, <4>4
      <4>6. \A m, n \in 1..(k + 1) : b[m] = b[n] => m = n
        BY <3>2, <3>3, <4>3, <4>4, SMTT(60)
      <4> QED
        BY <4>2, <4>3, <4>5, <4>6
    <3> QED
      BY <1>4, <3>4, <3>5
  <2> QED
    BY <2>1, <2>2, <2>3 DEF OnceInv
<1> QED
  BY <1>7, <1>8, <1>9, <1>10, <1>11, <1>12 DEF DocumentInv

\* A step that writes nothing: a reader begins, a writer moves on.
LEMMA RevisionKept ==
  ASSUME DocumentInv, AbsentIsNoToken, mishaps'.backend = mishaps.backend,
         item' = item \/ item' = Absent,
         \A v \in Writer :
           /\ losses'[v] \in Nat /\ losses'[v] >= losses[v]
           /\ \/ seen'[v] = seen[v]
              \/ seen'[v] = GetRevision(ticks)
           /\ \/ losses'[v] # losses[v]
              \/ stage[v] \in {"idle", "gaveUp"}
              \/ stage'[v] = stage[v] /\ seen'[v] = seen[v]
  PROVE  RevisionInv'
<1>1. SUFFICES ASSUME mishaps.backend = "dynamodb" PROVE RevisionInv'
  BY DEF RevisionInv
<1>2. ASSUME NEW rev, NEW doc, Names(rev, doc) PROVE Names(rev, doc)'
  <2>1. PICK u \in Writer, l \in Nat :
          /\ rev = <<u, l>> /\ l <= losses[u]
          /\ l = losses[u] => stage[u] \in {"read"} \cup Ended /\ doc = Made(u)
    BY <1>2 DEF Names
  <2>2. losses[u] \in Nat /\ losses'[u] \in Nat /\ losses'[u] >= losses[u]
    BY DEF DocumentInv, DocumentTypeInv
  <2>3. l <= losses'[u]
    BY <2>1, <2>2
  <2>4. ASSUME l = losses'[u] PROVE stage'[u] \in {"read"} \cup Ended /\ doc = Made(u)'
    <3>1. l = losses[u] /\ losses'[u] = losses[u]
      BY <2>1, <2>2, <2>4
    <3>2. stage[u] \in {"read"} \cup Ended /\ doc = Made(u)
      BY <2>1, <3>1
    <3>3. stage'[u] = stage[u] /\ seen'[u] = seen[u]
      BY <3>1, <3>2 DEF Ended
    <3> QED
      BY <3>2, <3>3 DEF Made
  <2> QED
    BY <2>1, <2>3, <2>4 DEF Names
<1>3. ASSUME item # Absent, NEW t, NEW d, t = item.rev, d = DocOf(item) PROVE Names(t, d)
  BY <1>1, <1>3 DEF DocumentInv, RevisionInv
<1>4. item' # Absent => Names(item.rev, DocOf(item))'
  <2>1. SUFFICES ASSUME item' # Absent PROVE Names(item.rev, DocOf(item))'
    OBVIOUS
  <2>2. item' = item
    BY <2>1
  <2>3. PICK t, d : t = item.rev /\ d = DocOf(item)
    OBVIOUS
  <2>4. Names(t, d)'
    BY <1>2, <1>3, <2>1, <2>2, <2>3
  <2> QED
    BY <2>2, <2>3, <2>4 DEF Names, DocOf
<1>5. ASSUME NEW v \in Writer
      PROVE  /\ seen'[v].token # Absent => Names(seen[v].token, seen[v].doc)'
             /\ item' # Absent /\ seen'[v].token = item'.rev => seen'[v].doc = DocOf(item')
  <2>1. PICK t, d : t = seen'[v].token /\ d = seen'[v].doc
    OBVIOUS
  <2>2. (t # Absent => Names(t, d)) /\ (item # Absent /\ t = item.rev => d = DocOf(item))
    <3>1. CASE seen'[v] = seen[v]
      <4>1. t = seen[v].token /\ d = seen[v].doc
        BY <2>1, <3>1
      <4> QED
        BY <1>1, <4>1 DEF DocumentInv, RevisionInv
    <3>2. CASE seen'[v] = GetRevision(ticks)
      <4>1. /\ Live(item, ticks) => item # Absent /\ t = item.rev /\ d = DocOf(item)
            /\ ~Live(item, ticks) => t = Absent
        BY <1>1, <2>1, <3>2, LiveIs DEF GetRevision, Ensured, TokenOf, DocOf
      <4>2. CASE Live(item, ticks)
        BY <1>3, <4>1, <4>2
      <4>3. CASE ~Live(item, ticks)
        <5>1. item # Absent => item.rev # Absent
          <6>1. SUFFICES ASSUME item # Absent PROVE item.rev # Absent
            OBVIOUS
          <6>2. PICK r, c : r = item.rev /\ c = DocOf(item)
            OBVIOUS
          <6>3. Names(r, c)
            BY <1>3, <6>1, <6>2
          <6> QED
            BY <6>2, <6>3 DEF Names, AbsentIsNoToken
        <5> QED
          BY <4>1, <4>3, <5>1
      <4> QED
        BY <4>2, <4>3
    <3> QED
      BY <3>1, <3>2
  <2>3. t # Absent => Names(t, d)'
    BY <1>2, <2>2
  <2>4. seen'[v].token # Absent => Names(seen[v].token, seen[v].doc)'
    BY <2>1, <2>3 DEF Names
  <2> QED
    BY <2>1, <2>2, <2>4
<1> QED
  BY <1>4, <1>5 DEF RevisionInv

\* Nothing of the document changes but that it may go.
LEMMA EditsKept ==
  ASSUME DocumentInv, UNCHANGED <<edits, mishaps>>, item' = item \/ item' = Absent,
         \A v \in Writer : stage[v] \in Ended => stage'[v] = stage[v]
  PROVE  EditsInv' /\ OnceInv'
<1>1. EditsInv'
  BY DEF DocumentInv, EditsInv
<1>2. \A n \in DOMAIN edits : edits[n] \in Writer
  BY DEF DocumentInv, DocumentTypeInv
<1>3. OnceInv'
  BY <1>2 DEF DocumentInv, OnceInv, NeverResent
<1> QED
  BY <1>1, <1>3

LEMMA ReadsStep ==
  ASSUME DocumentInv, AbsentIsNoToken, NEW w \in Writer, Reads(w)
  PROVE  DocumentInv'
<1>1. /\ stage[w] = "idle" /\ seen' = [seen EXCEPT ![w] = GetRevision(ticks)]
      /\ mishaps.backend = "plain" => \A v \in Writer : stage[v] # "read"
      /\ stage' = [stage EXCEPT ![w] = "read"] /\ touched' = [touched EXCEPT ![w] = FALSE]
      /\ UNCHANGED <<item, ticks, losses, edits, mishaps>>
  BY DEF Reads
<1>2. /\ seen'[w] = GetRevision(ticks) /\ seen' = [v \in Writer |-> seen'[v]]
      /\ \A v \in Writer \ {w} : seen'[v] = seen[v]
  BY <1>1 DEF DocumentInv, DocumentTypeInv
<1>3. stage'[w] = "read" /\ \A v \in Writer \ {w} : stage'[v] = stage[v]
  BY <1>1 DEF DocumentInv, DocumentTypeInv
<1>4. /\ seen'[w].doc = Ensured(item, ticks)
      /\ seen'[w].token = IF Live(item, ticks) THEN TokenOf(item) ELSE Absent
      /\ seen'[w].doc.version \in Nat /\ seen'[w].doc = DocOf(seen'[w].doc)
  <2>1. GetRevision(ticks).doc = Ensured(item, ticks)
    BY DEF GetRevision
  <2>2. Live(item, ticks) => item.version \in Nat
    BY LiveIs DEF DocumentInv, DocumentTypeInv
  <2>3. Ensured(item, ticks).version \in Nat /\ Ensured(item, ticks) = DocOf(Ensured(item, ticks))
    BY <2>2 DEF Ensured, DocOf
  <2> QED
    BY <1>2, <2>1, <2>3 DEF GetRevision
<1>5. DocumentTypeInv'
  <2>1. /\ stage' \in [Writer -> {"idle", "read", "gaveUp"} \cup Ended]
        /\ touched' \in [Writer -> BOOLEAN]
    BY <1>1 DEF DocumentInv, DocumentTypeInv
  <2>2. \A v \in Writer : seen'[v].doc.version \in Nat /\ seen'[v].doc = DocOf(seen'[v].doc)
    BY <1>2, <1>4 DEF DocumentInv, DocumentTypeInv
  <2>3. \A v \in Writer : stage'[v] = "gaveUp" <=> losses'[v] = MaxRetries + 1
    BY <1>1, <1>3 DEF DocumentInv, DocumentTypeInv
  <2> QED
    BY <1>1, <1>2, <2>1, <2>2, <2>3 DEF DocumentInv, DocumentTypeInv
<1>6. RevisionInv'
  <2>1. \A v \in Writer : losses'[v] \in Nat /\ losses'[v] >= losses[v]
    BY <1>1 DEF DocumentInv, DocumentTypeInv
  <2> QED
    BY <1>1, <1>2, <1>3, <2>1, RevisionKept
<1>7. ReadInv'
  <2>1. CASE mishaps.backend = "plain"
    <3>1. seen'[w].doc = Ensured(item, ticks)'
      BY <1>1, <1>4 DEF Ensured, Live
    <3> QED
      BY <1>1, <1>3, <2>1, <3>1 DEF DocumentInv, ReadInv
  <2>2. CASE mishaps.backend # "plain"
    <3>1. seen'[w].token = Absent => seen'[w].doc = Nothing
      <4>1. CASE Live(item, ticks) /\ mishaps.backend = "dynamodb"
        <5>1. item # Absent
          BY <4>1, LiveIs
        <5>2. PICK r, c : r = item.rev /\ c = DocOf(item)
          OBVIOUS
        <5>3. Names(r, c)
          BY <4>1, <5>1, <5>2 DEF DocumentInv, RevisionInv
        <5>4. r # Absent
          BY <5>3 DEF Names, AbsentIsNoToken
        <5> QED
          BY <1>4, <4>1, <5>2, <5>4 DEF TokenOf
      <4>2. CASE Live(item, ticks) /\ mishaps.backend # "dynamodb"
        BY <1>4, <4>2 DEF TokenOf, AbsentIsNoToken
      <4>3. CASE ~Live(item, ticks)
        BY <1>4, <4>3 DEF Ensured, Nothing
      <4> QED
        BY <4>1, <4>2, <4>3
    <3>2. mishaps.backend # "dynamodb" /\ seen'[w].token # Absent =>
            seen'[w].token = <<seen'[w].doc.version, seen'[w].doc.content>>
      BY <1>4 DEF TokenOf, Ensured
    <3> QED
      BY <1>1, <1>2, <1>3, <2>2, <3>1, <3>2 DEF DocumentInv, ReadInv
  <2> QED
    BY <2>1, <2>2
<1>8. FreshInv'
  <2>1. GetRevision(ticks)' = GetRevision(ticks)
    BY <1>1 DEF GetRevision, Ensured, Live, TokenOf
  <2>2. \A v \in Writer \ {w} : touched'[v] = touched[v]
    BY <1>1 DEF DocumentInv, DocumentTypeInv
  <2> QED
    BY <1>2, <1>3, <2>1, <2>2 DEF DocumentInv, FreshInv
<1>9. EditsInv' /\ OnceInv'
  BY <1>1, <1>3, EditsKept DEF Ended
<1> QED
  BY <1>5, <1>6, <1>7, <1>8, <1>9 DEF DocumentInv

\* Who is refused was touched.
LEMMA RefusedMeans ==
  ASSUME DocumentInv, AbsentIsNoToken, NEW w \in Writer, Refused(w)
  PROVE  touched[w]
<1> SUFFICES ASSUME ~touched[w] PROVE FALSE
  OBVIOUS
<1>1. stage[w] = "read" /\ ~Condition(seen[w].token)
  BY DEF Refused
<1>2. seen[w].token = GetRevision(ticks).token
  BY <1>1 DEF DocumentInv, FreshInv
<1>3. mishaps.backend = "dynamodb"
  BY <1>1, <1>2 DEF Condition
<1>4. seen[w].token = IF Live(item, ticks) THEN item.rev ELSE Absent
  BY <1>2, <1>3 DEF GetRevision, TokenOf
<1>5. CASE Live(item, ticks)
  <2>1. item # Absent /\ (item.until = 0 \/ Ceil2(item.until) >= ticks \div 2)
    BY <1>3, <1>5, LiveIs
  <2>2. PICK r, c : r = item.rev /\ c = DocOf(item)
    OBVIOUS
  <2>3. Names(r, c)
    BY <1>3, <2>1, <2>2 DEF DocumentInv, RevisionInv
  <2>4. r # Absent
    BY <2>3 DEF Names, AbsentIsNoToken
  <2> QED
    BY <1>1, <1>3, <1>4, <1>5, <2>1, <2>2, <2>4 DEF Condition
<1>6. CASE ~Live(item, ticks)
  <2>1. item # Absent /\ ~(item.until > 0 /\ Ceil2(item.until) < ticks \div 2)
    BY <1>1, <1>3, <1>4, <1>6 DEF Condition
  <2>2. PICK u, c, t : u = item.until /\ c = Ceil2(item.until) /\ t = ticks \div 2
    OBVIOUS
  <2>3. u \in Nat /\ c \in Nat /\ t \in Nat
    BY <2>1, <2>2, SMTT(60) DEF Ceil2, DocumentInv, DocumentTypeInv
  <2>4. ~(u = 0 \/ c >= t)
    BY <1>3, <1>6, <2>1, <2>2, LiveIs
  <2> QED
    BY <2>1, <2>2, <2>3, <2>4
<1> QED
  BY <1>5, <1>6

LEMMA RefusedStep ==
  ASSUME DocumentInv, AbsentIsNoToken, NEW w \in Writer, Refused(w)
  PROVE  DocumentInv'
<1>1. /\ stage[w] = "read" /\ losses' = [losses EXCEPT ![w] = @ + 1]
      /\ stage' = [stage EXCEPT ![w] = IF losses[w] >= MaxRetries THEN "gaveUp" ELSE "idle"]
      /\ UNCHANGED <<item, ticks, seen, edits, touched, mishaps>>
  BY DEF Refused
<1>2. losses[w] \in Nat /\ losses[w] <= MaxRetries /\ MaxRetries \in Nat
  BY <1>1, DocumentsAssumption DEF DocumentInv, DocumentTypeInv
<1>3. /\ losses'[w] = losses[w] + 1 /\ \A v \in Writer \ {w} : losses'[v] = losses[v]
      /\ stage'[w] = IF losses[w] >= MaxRetries THEN "gaveUp" ELSE "idle"
      /\ \A v \in Writer \ {w} : stage'[v] = stage[v]
  BY <1>1 DEF DocumentInv, DocumentTypeInv
<1>4. DocumentTypeInv'
  <2>1. losses' \in [Writer -> 0..(MaxRetries + 1)]
    BY <1>1, <1>2 DEF DocumentInv, DocumentTypeInv
  <2>2. stage' \in [Writer -> {"idle", "read", "gaveUp"} \cup Ended]
    BY <1>1 DEF DocumentInv, DocumentTypeInv
  <2>3. stage'[w] = "gaveUp" <=> losses'[w] = MaxRetries + 1
    BY <1>2, <1>3
  <2>4. \A v \in Writer : stage'[v] = "gaveUp" <=> losses'[v] = MaxRetries + 1
    BY <1>3, <2>3, SMTT(60) DEF DocumentInv, DocumentTypeInv
  <2> QED
    BY <1>1, <2>1, <2>2, <2>4 DEF DocumentInv, DocumentTypeInv
<1>5. RevisionInv'
  <2>1. \A v \in Writer : losses[v] \in Nat
    BY DocumentsAssumption DEF DocumentInv, DocumentTypeInv
  <2>2. losses'[w] # losses[w] /\ \A v \in Writer : losses'[v] \in Nat /\ losses'[v] >= losses[v]
    BY <1>2, <1>3, <2>1
  <2> QED
    BY <1>1, <1>3, <2>2, RevisionKept
<1>6. ReadInv'
  BY <1>1, <1>3 DEF DocumentInv, ReadInv, Ensured, Live
<1>7. FreshInv'
  <2>1. GetRevision(ticks)' = GetRevision(ticks)
    BY <1>1 DEF GetRevision, Ensured, Live, TokenOf
  <2> QED
    BY <1>1, <1>3, <2>1 DEF DocumentInv, FreshInv
<1>8. EditsInv' /\ OnceInv'
  BY <1>1, <1>3, EditsKept DEF Ended
<1> QED
  BY <1>4, <1>5, <1>6, <1>7, <1>8 DEF DocumentInv

LEMMA TruncatesStep ==
  ASSUME DocumentInv, AbsentIsNoToken, NEW w \in Writer, Truncates(w)
  PROVE  DocumentInv'
<1>1. /\ stage[w] = "idle" /\ item' = Absent /\ edits' = <<>>
      /\ mishaps.backend = "plain" => \A v \in Writer : stage[v] # "read"
      /\ touched' = [v \in Writer |-> TRUE]
      /\ stage' = [stage EXCEPT ![w] = "written"]
      /\ UNCHANGED <<ticks, seen, losses, mishaps>>
  BY DEF Truncates
<1>2. stage'[w] = "written" /\ \A v \in Writer \ {w} : stage'[v] = stage[v]
  BY <1>1 DEF DocumentInv, DocumentTypeInv
<1>3. DocumentTypeInv'
  <2>1. /\ stage' \in [Writer -> {"idle", "read", "gaveUp"} \cup Ended]
        /\ touched' \in [Writer -> BOOLEAN]
    BY <1>1 DEF DocumentInv, DocumentTypeInv, Ended
  <2>2. edits' \in Seq(Writer)
    BY <1>1
  <2>3. \A v \in Writer : stage'[v] = "gaveUp" <=> losses'[v] = MaxRetries + 1
    BY <1>1, <1>2 DEF DocumentInv, DocumentTypeInv
  <2> QED
    BY <1>1, <2>1, <2>2, <2>3 DEF DocumentInv, DocumentTypeInv
<1>4. RevisionInv'
  <2>1. \A v \in Writer : losses'[v] \in Nat /\ losses'[v] >= losses[v]
    BY <1>1, DocumentsAssumption DEF DocumentInv, DocumentTypeInv
  <2> QED
    BY <1>1, <1>2, <2>1, RevisionKept
<1>5. ReadInv'
  BY <1>1, <1>2 DEF DocumentInv, ReadInv
<1>6. FreshInv'
  BY <1>1 DEF FreshInv
<1>7. EditsInv'
  BY <1>1 DEF EditsInv
<1>8. OnceInv'
  <2>1. DOMAIN edits' = {}
    BY <1>1
  <2> QED
    BY <1>1, <2>1 DEF DocumentInv, OnceInv, NeverResent
<1> QED
  BY <1>3, <1>4, <1>5, <1>6, <1>7, <1>8 DEF DocumentInv

LEMMA TicksStep ==
  ASSUME DocumentInv, AbsentIsNoToken, Ticks
  PROVE  DocumentInv'
<1>1. /\ ticks < MaxTicks /\ ticks' = ticks + 1
      /\ touched' = IF Live(item, ticks) = Live(item, ticks + 1) THEN touched
                    ELSE [v \in Writer |-> TRUE]
      /\ UNCHANGED <<item, seen, stage, losses, edits, mishaps>>
  BY DEF Ticks
<1>2. ticks \in Nat /\ MaxTicks \in Nat
  BY DocumentsAssumption DEF DocumentInv, DocumentTypeInv
<1>3. DocumentTypeInv'
  <2>1. ticks' \in 0..MaxTicks
    BY <1>1, <1>2
  <2>2. touched' \in [Writer -> BOOLEAN]
    BY <1>1 DEF DocumentInv, DocumentTypeInv
  <2> QED
    BY <1>1, <2>1, <2>2 DEF DocumentInv, DocumentTypeInv
<1>4. RevisionInv'
  <2>1. \A v \in Writer : losses'[v] \in Nat /\ losses'[v] >= losses[v]
    BY <1>1, DocumentsAssumption DEF DocumentInv, DocumentTypeInv
  <2> QED
    BY <1>1, <2>1, RevisionKept
<1>5. Live(item, ticks)' <=> Live(item, ticks + 1)
  BY <1>1 DEF Live
<1>6. ReadInv'
  <2>1. CASE mishaps.backend = "plain"
    <3>1. item # Absent => Live(item, ticks) /\ Live(item, ticks + 1)
      BY <2>1, LiveIs DEF DocumentInv, ReadInv
    <3>2. item = Absent => ~Live(item, ticks) /\ ~Live(item, ticks + 1)
      BY LiveIs
    <3>3. Ensured(item, ticks)' = Ensured(item, ticks)
      BY <1>1, <1>5, <3>1, <3>2 DEF Ensured
    <3> QED
      BY <1>1, <2>1, <3>3 DEF DocumentInv, ReadInv
  <2>2. CASE mishaps.backend # "plain"
    BY <1>1, <2>2 DEF DocumentInv, ReadInv
  <2> QED
    BY <2>1, <2>2
<1>7. FreshInv'
  <2>1. CASE Live(item, ticks) = Live(item, ticks + 1)
    <3>1. GetRevision(ticks)'.token = GetRevision(ticks).token
      BY <1>1, <1>5, <2>1 DEF GetRevision, TokenOf
    <3> QED
      BY <1>1, <2>1, <3>1 DEF DocumentInv, FreshInv
  <2>2. CASE Live(item, ticks) # Live(item, ticks + 1)
    BY <1>1, <2>2 DEF FreshInv
  <2> QED
    BY <2>1, <2>2
<1>8. EditsInv' /\ OnceInv'
  BY <1>1, EditsKept
<1> QED
  BY <1>3, <1>4, <1>6, <1>7, <1>8 DEF DocumentInv

LEMMA SweepsStep ==
  ASSUME DocumentInv, AbsentIsNoToken, Sweeps
  PROVE  DocumentInv'
<1>1. /\ item # Absent /\ ~Live(item, ticks) /\ item' = Absent
      /\ UNCHANGED <<ticks, seen, stage, losses, edits, touched, mishaps>>
  BY DEF Sweeps
<1>2. ~Live(item, ticks)'
  BY <1>1 DEF Live
<1>3. DocumentTypeInv'
  BY <1>1 DEF DocumentInv, DocumentTypeInv
<1>4. RevisionInv'
  <2>1. \A v \in Writer : losses'[v] \in Nat /\ losses'[v] >= losses[v]
    BY <1>1, DocumentsAssumption DEF DocumentInv, DocumentTypeInv
  <2> QED
    BY <1>1, <2>1, RevisionKept
<1>5. ReadInv'
  <2>1. mishaps.backend # "plain"
    BY <1>1, LiveIs DEF DocumentInv, ReadInv
  <2> QED
    BY <1>1, <2>1 DEF DocumentInv, ReadInv
<1>6. FreshInv'
  <2>1. GetRevision(ticks).token = Absent /\ GetRevision(ticks)'.token = Absent
    BY <1>1, <1>2 DEF GetRevision
  <2> QED
    BY <1>1, <2>1 DEF DocumentInv, FreshInv
<1>7. EditsInv' /\ OnceInv'
  BY <1>1, EditsKept
<1> QED
  BY <1>3, <1>4, <1>5, <1>6, <1>7 DEF DocumentInv

\* A write whose answer may be lost, or which may be sent again.
LEMMA WriteStep ==
  ASSUME DocumentInv, AbsentIsNoToken, NEW w \in Writer,
         Writes(w) \/ WritesUnheard(w) \/ WritesAndIsSentAgain(w)
  PROVE  DocumentInv'
<1>0. PICK lost, resent \in Nat, backend \in Backend, ttl \in Nat :
        mishaps = [backend |-> backend, ttl |-> ttl, lost |-> lost, resent |-> resent]
  BY DEF DocumentInv, DocumentTypeInv, DocumentSetup
<1>1. CASE Writes(w)
  <2>1. /\ stage[w] = "read" /\ Condition(seen[w].token) /\ Store(w)
        /\ stage' = [stage EXCEPT ![w] = "written"]
        /\ UNCHANGED <<ticks, seen, losses, mishaps>>
    BY <1>1 DEF Writes
  <2>2. \E e \in Ended : stage' = [stage EXCEPT ![w] = e]
    BY <2>1 DEF Ended
  <2>3. mishaps' \in DocumentSetup /\ mishaps'.resent <= mishaps.resent
    BY <1>0, <2>1 DEF DocumentSetup
  <2> QED
    BY <2>1, <2>2, <2>3, StoredStep
<1>2. CASE WritesUnheard(w)
  <2>1. /\ stage[w] = "read" /\ Condition(seen[w].token) /\ Store(w)
        /\ mishaps.lost > 0 /\ mishaps' = [mishaps EXCEPT !.lost = @ - 1]
        /\ stage' = [stage EXCEPT ![w] = "unheard"]
        /\ UNCHANGED <<ticks, seen, losses>>
    BY <1>2 DEF WritesUnheard
  <2>2. \E e \in Ended : stage' = [stage EXCEPT ![w] = e]
    BY <2>1 DEF Ended
  <2>3. mishaps' = [backend |-> backend, ttl |-> ttl, lost |-> lost - 1, resent |-> resent]
        /\ lost - 1 \in Nat
    BY <1>0, <2>1
  <2>4. /\ mishaps' \in DocumentSetup /\ mishaps'.resent <= mishaps.resent
        /\ mishaps'.backend = mishaps.backend
    BY <1>0, <2>3 DEF DocumentSetup
  <2> QED
    BY <2>1, <2>2, <2>4, StoredStep
<1>3. CASE WritesAndIsSentAgain(w)
  <2>1. /\ stage[w] = "read" /\ Condition(seen[w].token) /\ Store(w)
        /\ mishaps.backend \in {"dynamodb", "s3"}
        /\ mishaps.resent > 0 /\ mishaps' = [mishaps EXCEPT !.resent = @ - 1]
        /\ UNCHANGED <<ticks, seen, stage, losses>>
    BY <1>3 DEF WritesAndIsSentAgain
  <2>2. mishaps' = [backend |-> backend, ttl |-> ttl, lost |-> lost, resent |-> resent - 1]
        /\ resent - 1 \in Nat
    BY <1>0, <2>1
  <2>3. /\ mishaps' \in DocumentSetup /\ mishaps'.resent <= mishaps.resent
        /\ mishaps'.backend = mishaps.backend
    BY <1>0, <2>2 DEF DocumentSetup
  <2> QED
    BY <2>1, <2>3, StoredStep
<1> QED
  BY <1>1, <1>2, <1>3

\* Nothing happens, or nothing of the document's.
LEMMA DocumentStutters ==
  ASSUME DocumentInv, UNCHANGED documentVars
  PROVE  DocumentInv'
<1>1. UNCHANGED <<item, ticks, seen, stage, losses, edits, touched, mishaps>>
  BY DEF documentVars
<1>2. DocumentTypeInv'
  BY <1>1 DEF DocumentInv, DocumentTypeInv
<1>3. RevisionInv'
  <2>1. \A v \in Writer : losses'[v] \in Nat /\ losses'[v] >= losses[v]
    BY <1>1, DocumentsAssumption DEF DocumentInv, DocumentTypeInv
  <2>2. item # Absent => item' = item
    BY <1>1
  <2> QED
    BY <1>1, <1>2, <2>1, <2>2 DEF DocumentInv, RevisionInv, Names, Made, Ended
<1>4. ReadInv'
  BY <1>1 DEF DocumentInv, ReadInv, Ensured, Live
<1>5. FreshInv'
  BY <1>1 DEF DocumentInv, FreshInv, GetRevision, Ensured, Live, TokenOf
<1>6. EditsInv' /\ OnceInv'
  BY <1>1, EditsKept
<1> QED
  BY <1>2, <1>3, <1>4, <1>5, <1>6 DEF DocumentInv

LEMMA DocumentBegins ==
  ASSUME DocumentsInit, AbsentIsNoToken
  PROVE  DocumentInv
<1>1. /\ mishaps \in DocumentSetups /\ item = Absent /\ ticks = 0 /\ edits = <<>>
      /\ seen = [w \in Writer |-> [doc |-> Nothing, token |-> Absent]]
      /\ stage = [w \in Writer |-> "idle"]
      /\ losses = [w \in Writer |-> 0] /\ touched = [w \in Writer |-> FALSE]
  BY DEF DocumentsInit, Nothing
<1>2. DocumentTypeInv
  <2>1. mishaps \in DocumentSetup /\ MaxTicks \in Nat /\ MaxRetries \in Nat
    BY <1>1, DocumentsAssumption DEF DocumentSetup
  <2>2. ticks \in 0..MaxTicks /\ edits \in Seq(Writer) /\ 0 \in 0..(MaxRetries + 1)
        /\ MaxRetries + 1 # 0
    BY <1>1, <2>1
  <2>3. \A w \in Writer : /\ seen[w].doc = Nothing /\ stage[w] = "idle" /\ losses[w] = 0
    BY <1>1
  <2>4. Nothing.version \in Nat /\ Nothing = DocOf(Nothing)
    BY DEF Nothing, DocOf
  <2> QED
    BY <1>1, <2>1, <2>2, <2>3, <2>4 DEF DocumentTypeInv
<1>3. \A w \in Writer : stage[w] = "idle" /\ seen[w].token = Absent
  BY <1>1
<1>4. RevisionInv /\ ReadInv /\ FreshInv /\ EditsInv
  BY <1>1, <1>3 DEF RevisionInv, ReadInv, FreshInv, EditsInv
<1>5. OnceInv
  <2>1. DOMAIN edits = {}
    BY <1>1
  <2>2. \E s \in DocumentSetups : s.backend = mishaps.backend /\ mishaps.resent <= s.resent
    <3>1. mishaps.resent \in Nat
      BY <1>2 DEF DocumentTypeInv, DocumentSetup
    <3> QED
      BY <1>1, <3>1
  <2> QED
    BY <2>1, <2>2 DEF OnceInv
<1> QED
  BY <1>2, <1>4, <1>5 DEF DocumentInv

LEMMA DocumentSteps ==
  ASSUME DocumentInv, AbsentIsNoToken, [DocumentsNext]_documentVars
  PROVE  DocumentInv' /\ \A w \in Writer : losses'[w] > losses[w] => touched[w]
<1>1. ASSUME NEW w \in Writer, Refused(w)
      PROVE  DocumentInv' /\ \A v \in Writer : losses'[v] > losses[v] => touched[v]
  <2>1. touched[w] /\ DocumentInv'
    BY <1>1, RefusedMeans, RefusedStep
  <2>2. losses' = [losses EXCEPT ![w] = @ + 1]
    BY <1>1 DEF Refused
  <2>3. \A v \in Writer \ {w} : losses'[v] = losses[v] /\ losses[v] \in Nat
    BY <2>2, DocumentsAssumption DEF DocumentInv, DocumentTypeInv
  <2>4. \A v \in Writer \ {w} : ~(losses'[v] > losses[v])
    BY <2>3
  <2> QED
    BY <2>1, <2>4
<1>2. \A v \in Writer : ~(losses[v] > losses[v])
  <2>1. \A v \in Writer : losses[v] \in Nat
    BY DocumentsAssumption DEF DocumentInv, DocumentTypeInv
  <2> QED
    BY <2>1
<1>3. ASSUME NEW w \in Writer,
             Reads(w) \/ Writes(w) \/ WritesUnheard(w) \/ WritesAndIsSentAgain(w)
               \/ Truncates(w)
      PROVE  DocumentInv' /\ losses' = losses
  BY <1>3, ReadsStep, WriteStep, TruncatesStep
     DEF Reads, Writes, WritesUnheard, WritesAndIsSentAgain, Truncates
<1>4. Ticks \/ Sweeps => DocumentInv' /\ losses' = losses
  BY TicksStep, SweepsStep DEF Ticks, Sweeps
<1>5. UNCHANGED documentVars => DocumentInv' /\ losses' = losses
  BY DocumentStutters DEF documentVars
<1> QED
  BY <1>1, <1>2, <1>3, <1>4, <1>5 DEF DocumentsNext

\* Rounding up to seconds shortens no life.
LEMMA RoundingIsGenerous ==
  ASSUME NEW u \in Nat, NEW t \in Nat, t < u
  PROVE  Ceil2(u) >= t \div 2
<1>1. PICK a \in Nat, b \in Nat : a = (u + 1) \div 2 /\ b = t \div 2
  BY Quotient
<1>2. u + 1 < 2 * a + 2 /\ 2 * b <= t
  BY <1>1, Quotient
<1>3. a >= b
  BY <1>2
<1> QED
  BY <1>1, <1>3 DEF Ceil2

\* What DocumentPromise says of a document, the fold of ContentIsItsEdits taken step by
\* step.
DocumentSafety ==
  /\ Live(item, ticks) => item.version = Len(edits) /\ MakeUp(item.content, edits)
  /\ EditedOnce
  /\ LivesItsTime

LEMMA DocumentIsSafe ==
  ASSUME DocumentInv
  PROVE  DocumentSafety
<1>1. Live(item, ticks) => item.version = Len(edits) /\ MakeUp(item.content, edits)
  BY LiveIs DEF DocumentInv, EditsInv
<1>2. EditedOnce
  BY DEF EditedOnce, DocumentInv, OnceInv, NeverResent
<1>3. LivesItsTime
  <2>1. SUFFICES ASSUME item # Absent, ticks < item.until PROVE Live(item, ticks)
    BY DEF LivesItsTime
  <2>2. item.until \in Nat /\ ticks \in Nat
    BY <2>1, DocumentsAssumption DEF DocumentInv, DocumentTypeInv
  <2>3. Ceil2(item.until) >= ticks \div 2 /\ ticks <= item.until
    BY <2>1, <2>2, RoundingIsGenerous
  <2> QED
    BY <2>1, <2>3 DEF Live
<1> QED
  BY <1>1, <1>2, <1>3 DEF DocumentSafety

(***************************************************************************)
(* editDocument over compareAndSet (repository/src/document/write.ts and   *)
(* the adapters), whatever backend: the stored document is its edits in    *)
(* the order they were written, one version each, none of them made twice  *)
(* (but for a write the AWS SDK sends again); it lives its time; and a     *)
(* writer loses a race only if somebody changed the document after it was  *)
(* read.                                                                   *)
(***************************************************************************)
THEOREM EditsAreNotLost ==
  ASSUME AbsentIsNoToken
  PROVE  DocumentsSpec => []DocumentSafety /\ RefusedOnlyByOthers
<1>1. DocumentsInit => DocumentInv
  BY DocumentBegins
<1>2. DocumentInv /\ [DocumentsNext]_documentVars => DocumentInv'
  BY DocumentSteps
<1>3. DocumentInv /\ [DocumentsNext]_documentVars
        => [\A w \in Writer : losses'[w] > losses[w] => touched[w]]_documentVars
  BY DocumentSteps
<1>4. DocumentInv => DocumentSafety
  BY DocumentIsSafe
<1> QED
  BY <1>1, <1>2, <1>3, <1>4, PTL DEF DocumentsSpec, RefusedOnlyByOthers

=============================================================================
