------------------------------ MODULE Mailbox -------------------------------
(***************************************************************************)
(* What the queue of an actor promises, with no lock, no owner and no      *)
(* store: the messages in the order they were sent, those still queued,    *)
(* and the calls of the handler, in order.                                 *)
(*                                                                         *)
(* At least once: only the oldest queued message is handled, perhaps more  *)
(* than once, and only a handled message leaves the queue.                 *)
(* At most once: a batch leaves the queue before it is handled; it is      *)
(* handled once, in order, or it is gone.                                  *)
(***************************************************************************)
EXTENDS Naturals, Sequences

CONSTANT Message

VARIABLES sent,      \* every message, in the order of the pushes
          queue,     \* the messages still queued
          taken,     \* the batch that left the queue and is not handled yet
          handled,   \* the handled messages, in the order of the handling
          atMostOnce,  \* which of the two is promised
          calm         \* whether the owner of the queue is exclusive still

mailVars == <<sent, queue, taken, handled>>

MailInit == sent = <<>> /\ queue = <<>> /\ taken = <<>> /\ handled = <<>>

Send(m) ==
  /\ sent' = Append(sent, m)
  /\ queue' = Append(queue, m)
  /\ UNCHANGED <<taken, handled>>

\* The oldest message is handled where it is.
HandleHead ==
  /\ queue # <<>>
  /\ handled' = Append(handled, Head(queue))
  /\ UNCHANGED <<sent, queue, taken>>

\* A message that was handled leaves the queue.
DropHead ==
  /\ queue # <<>>
  /\ \E i \in DOMAIN handled : handled[i] = Head(queue)
  /\ queue' = Tail(queue)
  /\ UNCHANGED <<sent, taken, handled>>

\* The n oldest messages leave the queue.
TakeBatch(n) ==
  /\ taken = <<>>
  /\ taken' = SubSeq(queue, 1, n)
  /\ queue' = SubSeq(queue, n + 1, Len(queue))
  /\ UNCHANGED <<sent, handled>>

HandleBatch ==
  /\ handled' = handled \o taken
  /\ taken' = <<>>
  /\ UNCHANGED <<sent, queue>>

LoseBatch ==
  /\ taken' = <<>>
  /\ UNCHANGED <<sent, queue, handled>>

\* The n oldest messages are gone.
LoseOldest(n) ==
  /\ queue' = SubSeq(queue, n + 1, Len(queue))
  /\ UNCHANGED <<sent, taken, handled>>

AtLeastOnceNext ==
  \/ \E m \in Message : Send(m)
  \/ HandleHead
  \/ DropHead

AtMostOnceNext ==
  \/ \E m \in Message : Send(m)
  \/ \E n \in 1..Len(queue) : TakeBatch(n) \/ LoseOldest(n)
  \/ HandleBatch
  \/ LoseBatch

\* The promise is kept by every step taken while calm.
MailSpec ==
  /\ MailInit
  /\ [][calm => IF atMostOnce THEN AtMostOnceNext ELSE AtLeastOnceNext]_mailVars

=============================================================================
