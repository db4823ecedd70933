----------------------------- MODULE PushFrames -----------------------------
(***************************************************************************)
(* The framing of what a Redis subscriber is pushed                        *)
(* (naive-redis/src/subscriber/pushFrame.ts): bulk lengths count bytes,    *)
(* the buffer holds characters, payloads may hold line ends, and a chunk   *)
(* may end anywhere.                                                       *)
(*                                                                         *)
(* A character is a record with its UTF-8 length; a header (`*3`, `$12`)   *)
(* counts as one character.                                                *)
(***************************************************************************)
EXTENDS Naturals, Sequences, SequencesExt

CONSTANT
  FrameSetups       \* the sequences of frames a server pushes: each frame a
                    \* sequence of strings, a string a sequence of characters
                    \* or one integer

VARIABLES
  pushed,           \* the frames of the setup
  arrived,          \* how much of their text has arrived
  buffer,           \* what the subscriber has not consumed
  readFrames        \* the frames it has read

frameVars == <<pushed, arrived, buffer, readFrames>>

CR == [as |-> "CR", width |-> 1]
LF == [as |-> "LF", width |-> 1]
Letter(width) == [as |-> "letter", width |-> width]
Integer_ == [as |-> ":", width |-> 1]
Header(mark, n) == <<[as |-> mark, number |-> n, width |-> 2], CR, LF>>

\* Mutant: every character is a byte.
BytesAsCharacters(s) == Len(s)

Bytes(s) == FoldLeft(LAMBDA n, c : n + c.width, 0, s)

----------------------------------------------------------------------------
(* What the server sends.                                                 *)

SentLength(s) == FoldLeft(LAMBDA n, c : n + c.width, 0, s)

Text(parts) ==
  Header("*", Len(parts)) \o
  FoldLeft(LAMBDA t, p : t \o (IF Len(p) = 1 /\ p[1].as = ":" THEN p
                              ELSE Header("$", SentLength(p)) \o p) \o <<CR, LF>>,
           <<>>, parts)

Stream == FoldLeft(LAMBDA t, f : t \o Text(f), <<>>, pushed)

----------------------------------------------------------------------------
(* parsePushFrame.                                                        *)

\* charactersForBytes: the characters from position p that make n bytes;
\* none while the buffer is short.
Taken(s, p, n) ==
  {k \in 0..n : p + k <= Len(s) + 1 /\ Bytes(SubSeq(s, p, p + k - 1)) = n}

Short == [at |-> 0, parts |-> <<>>]

\* readLine: where the line at position p ends, or 0.
LineEnd(s, p) ==
  LET ends == {q \in p..(Len(s) - 1) : s[q] = CR /\ s[q + 1] = LF}
  IN  IF ends = {} THEN 0 ELSE CHOOSE q \in ends : \A r \in ends : q <= r

\* readInline: an element that is a line.
ReadInline(s, read, end) ==
  [at |-> end + 2, parts |-> Append(read.parts, SubSeq(s, read.at, end - 1))]

ReadBulk(s, read, end) ==
  LET taken == Taken(s, end + 2, s[read.at].number)
      k == CHOOSE n \in taken : TRUE
  IN  IF taken = {} \/ end + 1 + k + 2 > Len(s) THEN Short
      ELSE [at |-> end + 2 + k + 2,
            parts |-> Append(read.parts, SubSeq(s, end + 2, end + 1 + k))]

ReadElement(s, read) ==
  LET end == LineEnd(s, read.at)
  IN  IF read.at = 0 \/ end = 0 THEN Short
      ELSE IF s[read.at].as = "$" THEN ReadBulk(s, read, end)
      ELSE ReadInline(s, read, end)

\* One frame from the head of the buffer, or Short; a reply that is no array
\* is a line.
ParsePushFrame(s) ==
  LET end == LineEnd(s, 1)
  IN  IF end = 0 THEN Short
      ELSE IF s[1].as # "*" THEN [at |-> end + 2, parts |-> <<>>]
      ELSE FoldLeft(LAMBDA read, n : ReadElement(s, read),
                    [at |-> end + 2, parts |-> <<>>],
                    [n \in 1..s[1].number |-> n])

\* The subscriber's loop: frames, as long as there is a whole one.
Consumed(s) ==
  FoldLeft(LAMBDA got, n :
             LET read == ParsePushFrame(got.rest)
             IN  IF read.at = 0 THEN got
                 ELSE [rest |-> SubSeq(got.rest, read.at, Len(got.rest)),
                       frames |-> Append(got.frames, read.parts)],
           [rest |-> s, frames |-> <<>>], pushed)

----------------------------------------------------------------------------

FramesInit ==
  /\ pushed \in FrameSetups
  /\ arrived = 0 /\ buffer = <<>> /\ readFrames = <<>>

\* Another chunk of the stream.
Arrives(n) ==
  /\ arrived + n <= Len(Stream)
  /\ arrived' = arrived + n
  /\ LET got == Consumed(buffer \o SubSeq(Stream, arrived + 1, arrived + n))
     IN  buffer' = got.rest /\ readFrames' = readFrames \o got.frames
  /\ UNCHANGED pushed

FramesNext == \E n \in 1..Len(Stream) : Arrives(n)

FramesSpec == FramesInit /\ [][FramesNext]_frameVars

----------------------------------------------------------------------------
(* Properties.                                                            *)

\* Whatever the chunks, the frames that have arrived whole are read, as they
\* were pushed and without waiting for more; the rest is kept as it came.
ReadsWhatArrived ==
  LET end(k) == Len(FoldLeft(LAMBDA t, f : t \o Text(f), <<>>, SubSeq(pushed, 1, k)))
      k == Len(readFrames)
  IN  /\ IsPrefix(readFrames, pushed)
      /\ end(k) <= arrived /\ (k < Len(pushed) => arrived < end(k + 1))
      /\ buffer = SubSeq(Stream, end(k) + 1, arrived)
=============================================================================
