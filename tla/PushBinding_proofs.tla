------------------------- MODULE PushBinding_proofs -------------------------
(***************************************************************************)
(* Proofs about PushBinding, for any players, any tokens of the device and *)
(* any number of sessions, calls and failures.                             *)
(*                                                                         *)
(* What a binding owes is done by the task at the head of the lane, or by  *)
(* one that waits behind it: the invariant says which of them owes what.   *)
(***************************************************************************)
EXTENDS PushBinding, TLAPS

-----------------------------------------------------------------------------
(* The inductive invariant *)

Someone == Account \cup {NoAccount}

Bindings_ == [fcm : Handset, user : Account, session : Nat, id : Nat \ {0}]

Tasks == [kind : {"clean", "register", "unregister"}, fcm : Handset \cup {"none"},
          user : Someone, session : Nat,
          step : {"start", "delete", "unsubscribe", "put", "subscribe"},
          old : Bindings_ \cup {NoBinding}, next : {"end", "bind"}]

TypeInv ==
  /\ owner \in [Handset -> Someone] /\ subscribed \in BOOLEAN
  /\ whose \in Someone /\ session \in Nat \ {0} /\ bound \in Nat
  /\ binding \in Bindings_ \cup {NoBinding}
  /\ lane \in Seq(Tasks)
  /\ left \subseteq Handset \cup {"topic"}

Under == IF lane = <<>> THEN "start" ELSE lane[1].step

\* The sessions of the tasks: they are in order, and a cleaning is left over
\* from a session that is no more. It cleans what is bound, or nothing is.
LaneInv ==
  /\ \A i, j \in 1..Len(lane) : i < j => lane[i].session <= lane[j].session
  /\ \A i \in 1..Len(lane) :
       /\ lane[i].session <= session
       /\ i > 1 => lane[i].step = "start"
       /\ lane[i].kind = "register" =>
            lane[i].fcm \in Handset /\ lane[i].user # NoAccount
       /\ lane[i].kind = "register" /\ lane[i].session = session =>
            lane[i].user = whose
       /\ lane[i].kind = "clean" =>
            /\ lane[i].session < session /\ lane[i].old # NoBinding
            /\ binding = NoBinding \/ binding = lane[i].old

\* What is bound belongs to the session, or a cleaning waits for it.
OwedInv ==
  /\ binding.session <= session
  /\ binding # NoBinding /\ binding.session = session => binding.user = whose
  /\ binding # NoBinding /\ binding.session # session =>
       \E i \in 1..Len(lane) : lane[i].kind = "clean" /\ lane[i].old = binding

\* The task under way works on what is bound.
HeadInv ==
  lane # <<>> =>
    /\ lane[1].step \in {"put", "subscribe"} =>
         /\ lane[1].kind = "register" /\ binding # NoBinding
         /\ binding.fcm = lane[1].fcm /\ binding.user = lane[1].user
         /\ binding.session = lane[1].session
    /\ lane[1].step \in {"delete", "unsubscribe"} =>
         /\ lane[1].old # NoBinding
         /\ lane[1].kind # "clean" => binding = lane[1].old
         /\ lane[1].next = "bind" => lane[1].kind = "register"

\* What the service has, is what is bound or what a failure has left behind.
ServiceInv ==
  /\ \A h \in Handset :
       owner[h] # NoAccount =>
         \/ h \in left
         \/ /\ h = binding.fcm /\ owner[h] = binding.user
            /\ Under # "unsubscribe"
  /\ subscribed => binding # NoBinding \/ "topic" \in left

\* What is bound, is served: unless the task under way is at it.
ServedInv ==
  binding # NoBinding =>
    /\ Under \in {"start", "subscribe"} => owner[binding.fcm] = binding.user
    /\ Under = "start" => subscribed

BindingInv ==
  TypeInv /\ LaneInv /\ OwedInv /\ HeadInv /\ ServiceInv /\ ServedInv

-----------------------------------------------------------------------------
(* How a lane changes *)

\* The task under way goes on as t, another one begins, a task t is added.
GoesOnAs(t) ==
  /\ lane' \in Seq(Tasks) /\ lane # <<>> /\ lane' # <<>>
  /\ Len(lane') = Len(lane)
  /\ 1 \in 1..Len(lane) /\ lane'[1] = t
  /\ \A i \in 1..Len(lane) : i # 1 => lane'[i] = lane[i]

IsOver ==
  /\ lane' \in Seq(Tasks) /\ lane # <<>>
  /\ Len(lane) = Len(lane') + 1
  /\ \A i \in 1..Len(lane') : lane'[i] = lane[i + 1] /\ i + 1 \in 1..Len(lane)
  /\ lane' # <<>> => 1 \in 1..Len(lane')

IsAdded(t) ==
  /\ lane' \in Seq(Tasks) /\ lane' # <<>>
  /\ Len(lane') = Len(lane) + 1
  /\ lane'[Len(lane) + 1] = t
  /\ \A i \in 1..Len(lane) : lane'[i] = lane[i]
  /\ lane # <<>> => 1 \in 1..Len(lane)
  /\ lane = <<>> => Len(lane) = 0

LEMMA GoesOn ==
  ASSUME lane \in Seq(Tasks), lane # <<>>, NEW t \in Tasks,
         lane' = [lane EXCEPT ![1] = t]
  PROVE  GoesOnAs(t)
BY DEF GoesOnAs

LEMMA RestOfLane ==
  ASSUME NEW q \in Seq(Tasks), NEW start \in 1..(Len(q) + 1)
  PROVE  LET r == SubSeq(q, start, Len(q)) IN
         /\ r \in Seq(Tasks) /\ Len(r) = Len(q) - start + 1
         /\ \A i \in 1..Len(r) : r[i] = q[start + i - 1]
OBVIOUS

LEMMA TaskFields ==
  ASSUME lane \in Seq(Tasks), NEW i \in 1..Len(lane)
  PROVE  /\ lane[i] \in Tasks
         /\ lane[i].kind \in {"clean", "register", "unregister"}
         /\ lane[i].fcm \in Handset \cup {"none"} /\ lane[i].user \in Someone
         /\ lane[i].session \in Nat
         /\ lane[i].step \in {"start", "delete", "unsubscribe", "put", "subscribe"}
         /\ lane[i].old \in Bindings_ \cup {NoBinding}
         /\ lane[i].next \in {"end", "bind"}
<1>1. lane[i] \in Tasks
  OBVIOUS
<1> QED
  BY <1>1 DEF Tasks

LEMMA Over ==
  ASSUME lane \in Seq(Tasks), lane # <<>>, lane' = RemoveAt(lane, 1)
  PROVE  IsOver
<1> DEFINE rest == SubSeq(lane, 2, Len(lane))
<1>1. RemoveAt(lane, 1) = SubSeq(lane, 1, 1 - 1) \o rest
  BY DEF RemoveAt
<1>2. SubSeq(lane, 1, 1 - 1) = <<>>
  OBVIOUS
<1>3. 2 \in 1..(Len(lane) + 1) /\ Len(lane) \in Nat
  OBVIOUS
<1>4. /\ rest \in Seq(Tasks) /\ Len(rest) = Len(lane) - 2 + 1
      /\ \A i \in 1..Len(rest) : rest[i] = lane[2 + i - 1]
  BY <1>3, RestOfLane
<1> HIDE DEF rest
<1>5. lane' = rest
  BY <1>1, <1>2, <1>4
<1>6. \A i \in 1..Len(rest) : 2 + i - 1 = i + 1 /\ i + 1 \in 1..Len(lane)
  BY <1>3, <1>4
<1> QED
  BY <1>3, <1>4, <1>5, <1>6 DEF IsOver

LEMMA Added ==
  ASSUME lane \in Seq(Tasks), NEW t \in Tasks, lane' = Append(lane, t)
  PROVE  IsAdded(t)
BY DEF IsAdded

\* What is bound stays, is forgotten, or is bound anew by the task under way.
MayRebind ==
  \/ binding' = binding
  \/ binding' = NoBinding
  \/ lane[1].kind = "register" /\ lane[1].session = session

LEMMA NoneIsCleaned ==
  ASSUME TypeInv, LaneInv, lane # <<>>, lane[1].session = session
  PROVE  \A i \in 1..Len(lane) : lane[i].kind # "clean"
<1> SUFFICES ASSUME NEW i \in 1..Len(lane), lane[i].kind = "clean" PROVE FALSE
  OBVIOUS
<1>1. lane \in Seq(Tasks) /\ 1 \in 1..Len(lane) /\ session \in Nat
  BY DEF TypeInv
<1>2. lane[i].session < session /\ lane[i].session \in Nat
  BY <1>1, TaskFields DEF LaneInv
<1>3. i # 1
  BY <1>1, <1>2
<1>4. 1 < i
  BY <1>1, <1>3
<1>5. session <= lane[i].session
  BY <1>1, <1>4 DEF LaneInv
<1> QED
  BY <1>1, <1>2, <1>5

LEMMA LaneGoesOn ==
  ASSUME TypeInv, LaneInv, NEW t, GoesOnAs(t), MayRebind,
         UNCHANGED <<session, whose>>,
         t.kind = lane[1].kind, t.fcm = lane[1].fcm, t.user = lane[1].user,
         t.session = lane[1].session, t.kind = "clean" => t.old = lane[1].old
  PROVE  LaneInv'
<1>1. \A i \in 1..Len(lane) :
        /\ lane'[i].kind = lane[i].kind /\ lane'[i].fcm = lane[i].fcm
        /\ lane'[i].user = lane[i].user /\ lane'[i].session = lane[i].session
        /\ lane'[i].kind = "clean" => lane'[i].old = lane[i].old
        /\ i > 1 => lane'[i] = lane[i]
  BY DEF GoesOnAs, TypeInv
<1>2. \A i \in 1..Len(lane) :
        lane[i].kind = "clean" => binding' = NoBinding \/ binding' = lane[i].old
  BY NoneIsCleaned DEF LaneInv, MayRebind, GoesOnAs
<1>3. Len(lane') = Len(lane)
  BY DEF GoesOnAs
<1> QED
  BY <1>1, <1>2, <1>3 DEF LaneInv

LEMMA LaneIsOver ==
  ASSUME TypeInv, LaneInv, IsOver, MayRebind, UNCHANGED <<session, whose>>
  PROVE  LaneInv'
<1>1. lane \in Seq(Tasks) /\ Len(lane) \in Nat /\ Len(lane') \in Nat
  BY DEF TypeInv, IsOver
<1>2. \A i \in 1..Len(lane) :
        lane[i].kind = "clean" => binding' = NoBinding \/ binding' = lane[i].old
  BY NoneIsCleaned DEF LaneInv, MayRebind, IsOver
<1>3. \A i, j \in 1..Len(lane') : i < j => i + 1 < j + 1
  BY <1>1
<1>4. \A i \in 1..Len(lane') : i + 1 > 1
  BY <1>1
<1>5. \A i, j \in 1..Len(lane') : i < j => lane'[i].session <= lane'[j].session
  BY <1>3 DEF LaneInv, IsOver
<1> QED
  BY <1>2, <1>4, <1>5 DEF LaneInv, IsOver

\* What is owed to a binding that stays.
LEMMA OwedGoesOn ==
  ASSUME OwedInv, NEW t, GoesOnAs(t), UNCHANGED <<session, whose, binding>>,
         t.kind = lane[1].kind, t.kind = "clean" => t.old = lane[1].old
  PROVE  OwedInv'
<1>1. \A i \in 1..Len(lane) :
        lane[i].kind = "clean" =>
          lane'[i].kind = "clean" /\ lane'[i].old = lane[i].old
  BY DEF GoesOnAs
<1> QED
  BY <1>1 DEF OwedInv, GoesOnAs

LEMMA OwedIsOver ==
  ASSUME TypeInv, OwedInv, IsOver, UNCHANGED <<session, whose, binding>>,
         binding # NoBinding => lane[1].kind # "clean"
  PROVE  OwedInv'
<1> SUFFICES ASSUME binding # NoBinding, binding.session # session,
                    NEW i \in 1..Len(lane), lane[i].kind = "clean",
                    lane[i].old = binding
             PROVE  \E j \in 1..Len(lane') :
                      lane'[j].kind = "clean" /\ lane'[j].old = binding
  BY DEF OwedInv
<1>1. i # 1 /\ Len(lane) \in Nat /\ Len(lane') \in Nat
  BY DEF IsOver, TypeInv
<1>2. i - 1 \in 1..Len(lane') /\ (i - 1) + 1 = i
  BY <1>1 DEF IsOver
<1> DEFINE j == i - 1
<1>3. j \in 1..Len(lane') /\ j + 1 = i
  BY <1>2
<1> HIDE DEF j
<1>4. lane'[j] = lane[i]
  BY <1>3 DEF IsOver
<1> QED
  BY <1>3, <1>4

LEMMA OwedAnew ==
  ASSUME TypeInv, binding' = NoBinding \/ (binding'.session = session /\ binding'.user = whose),
         UNCHANGED <<session, whose>>
  PROVE  OwedInv'
BY DEF OwedInv, TypeInv, NoBinding

LEMMA UnderGoesOn ==
  ASSUME NEW t, GoesOnAs(t)
  PROVE  Under = lane[1].step /\ Under' = t.step
BY DEF Under, GoesOnAs

LEMMA UnderIsOver ==
  ASSUME TypeInv, LaneInv, IsOver
  PROVE  Under = lane[1].step /\ Under' = "start" /\ HeadInv'
<1>1. lane \in Seq(Tasks) /\ Len(lane) \in Nat
  BY DEF TypeInv
<1>2. lane' # <<>> => lane'[1].step = "start"
  <2> SUFFICES ASSUME lane' # <<>> PROVE lane'[1].step = "start"
    OBVIOUS
  <2>1. lane'[1] = lane[1 + 1] /\ 1 + 1 \in 1..Len(lane) /\ 1 + 1 > 1
    BY DEF IsOver
  <2> QED
    BY <2>1 DEF LaneInv
<1>3. lane # <<>>
  BY DEF IsOver
<1> QED
  BY <1>2, <1>3 DEF Under, HeadInv

\* Who waits behind the task under way has not begun; a task that is alone has
\* not either.
LEMMA UnderIsAdded ==
  ASSUME TypeInv, HeadInv, NEW t, IsAdded(t), t.step = "start",
         UNCHANGED <<binding>>
  PROVE  Under' = Under /\ HeadInv'
<1>1. CASE lane = <<>>
  <2>1. lane'[1] = t
    BY <1>1 DEF IsAdded
  <2> QED
    BY <1>1, <2>1 DEF Under, HeadInv, IsAdded
<1>2. CASE lane # <<>>
  <2>1. lane'[1] = lane[1] /\ lane' # <<>>
    BY <1>2 DEF IsAdded
  <2> QED
    BY <1>2, <2>1 DEF Under, HeadInv
<1> QED
  BY <1>1, <1>2

-----------------------------------------------------------------------------
(* Calls, and the session *)

LEMMA InitIsBound == BindingInit => BindingInv
<1> SUFFICES ASSUME BindingInit PROVE BindingInv
  OBVIOUS
<1>1. lane \in Seq(Tasks) /\ lane = <<>> /\ Len(lane) = 0
  BY DEF BindingInit
<1>2. TypeInv
  <2>1. owner \in [Handset -> Someone] /\ subscribed \in BOOLEAN
    BY DEF BindingInit, Someone
  <2>2. /\ whose \in Someone /\ session \in Nat \ {0} /\ bound \in Nat
        /\ binding \in Bindings_ \cup {NoBinding}
        /\ left \subseteq Handset \cup {"topic"}
    BY DEF BindingInit, Someone
  <2> QED
    BY <1>1, <2>1, <2>2 DEF TypeInv
<1> QED
  BY <1>1, <1>2 DEF BindingInit, BindingInv, LaneInv, OwedInv, HeadInv,
                    ServiceInv, ServedInv, NoBinding

\* A task of the session that is, which has nothing to clean.
LEMMA CallKeeps ==
  ASSUME BindingInv, NEW t \in Tasks, lane' = Append(lane, t),
         t.session = session, t.step = "start", t.kind # "clean",
         t.kind = "register" =>
           t.fcm \in Handset /\ t.user # NoAccount /\ t.user = whose,
         UNCHANGED <<owner, subscribed, whose, session, binding, bound, left>>
  PROVE  BindingInv'
<1>1. TypeInv /\ LaneInv /\ OwedInv /\ HeadInv /\ ServiceInv /\ ServedInv
  BY DEF BindingInv
<1>2. /\ IsAdded(t) /\ lane \in Seq(Tasks) /\ Len(lane) \in Nat
      /\ session \in Nat
  BY <1>1, Added DEF TypeInv
<1>3. TypeInv'
  BY <1>1, <1>2 DEF TypeInv, IsAdded
<1>4. \A i \in 1..Len(lane') :
        \/ i \in 1..Len(lane) /\ lane'[i] = lane[i]
        \/ i = Len(lane) + 1 /\ lane'[i] = t
  BY <1>2 DEF IsAdded
<1>5. \A i \in 1..Len(lane) : lane[i].session <= session /\ i # Len(lane) + 1
  BY <1>1, <1>2 DEF LaneInv
<1>6. LaneInv'
  <2>1. \A i, j \in 1..Len(lane') : i < j => lane'[i].session <= lane'[j].session
    <3> SUFFICES ASSUME NEW i \in 1..Len(lane'), NEW j \in 1..Len(lane'), i < j
                 PROVE  lane'[i].session <= lane'[j].session
      OBVIOUS
    <3>1. Len(lane') = Len(lane) + 1
      BY <1>2 DEF IsAdded
    <3>2. i \in 1..Len(lane) /\ i # Len(lane) + 1
      BY <1>2, <3>1
    <3>3. lane'[i] = lane[i]
      BY <1>4, <3>2
    <3> QED
      BY <1>1, <1>4, <1>5, <3>2, <3>3 DEF LaneInv
  <2>2. \A i \in 1..Len(lane') :
       /\ lane'[i].session <= session
       /\ i > 1 => lane'[i].step = "start"
       /\ lane'[i].kind = "register" =>
            lane'[i].fcm \in Handset /\ lane'[i].user # NoAccount
       /\ lane'[i].kind = "register" /\ lane'[i].session = session =>
            lane'[i].user = whose
       /\ lane'[i].kind = "clean" =>
            /\ lane'[i].session < session /\ lane'[i].old # NoBinding
            /\ binding = NoBinding \/ binding = lane'[i].old
    BY <1>1, <1>2, <1>4 DEF LaneInv
  <2> QED
    BY <2>1, <2>2 DEF LaneInv
<1>7. OwedInv'
  <2>1. \A i \in 1..Len(lane) : i \in 1..Len(lane') /\ lane'[i] = lane[i]
    BY <1>2 DEF IsAdded
  <2> QED
    BY <1>1, <2>1 DEF OwedInv
<1>8. Under' = Under /\ HeadInv'
  BY <1>1, <1>2, UnderIsAdded
<1>9. ServiceInv' /\ ServedInv'
  BY <1>1, <1>8 DEF ServiceInv, ServedInv
<1> QED
  BY <1>3, <1>6, <1>7, <1>8, <1>9 DEF BindingInv

LEMMA TaskIsTask ==
  ASSUME TypeInv, NEW kind \in {"clean", "register", "unregister"},
         NEW fcm \in Handset \cup {"none"}, NEW old \in Bindings_ \cup {NoBinding}
  PROVE  /\ Task(kind, fcm, old) \in Tasks
         /\ Task(kind, fcm, old).kind = kind /\ Task(kind, fcm, old).fcm = fcm
         /\ Task(kind, fcm, old).user = whose
         /\ Task(kind, fcm, old).session = session
         /\ Task(kind, fcm, old).step = "start"
         /\ Task(kind, fcm, old).old = old
BY DEF TypeInv, Task, Tasks

LEMMA RegisterKeeps ==
  ASSUME BindingInv, NEW h \in Handset, Register(h)
  PROVE  BindingInv'
<1> DEFINE t == Task("register", h, NoBinding)
<1>1. TypeInv
  BY DEF BindingInv
<1>2. /\ t \in Tasks /\ t.kind = "register" /\ t.fcm = h /\ t.user = whose
      /\ t.session = session /\ t.step = "start"
  BY <1>1, TaskIsTask
<1>3. /\ lane' = Append(lane, t) /\ whose # NoAccount
      /\ UNCHANGED <<owner, subscribed, whose, session, binding, bound, left>>
  BY DEF Register
<1> HIDE DEF t
<1> QED
  BY <1>2, <1>3, CallKeeps

LEMMA UnregisterKeeps ==
  ASSUME BindingInv, Unregister
  PROVE  BindingInv'
<1> DEFINE t == Task("unregister", "none", NoBinding)
<1>1. TypeInv
  BY DEF BindingInv
<1>2. t \in Tasks /\ t.kind = "unregister" /\ t.session = session /\ t.step = "start"
  BY <1>1, TaskIsTask
<1>3. /\ lane' = Append(lane, t)
      /\ UNCHANGED <<owner, subscribed, whose, session, binding, bound, left>>
  BY DEF Unregister
<1> HIDE DEF t
<1> QED
  BY <1>2, <1>3, CallKeeps

\* A session ends: no task and no binding is of the one that begins, and what
\* is bound will be cleaned.
LEMMA SessionKeeps ==
  ASSUME BindingInv, NEW u \in Someone, NEW ended, SessionBecomes(u, ended)
  PROVE  BindingInv'
<1> DEFINE t == Task("clean", binding.fcm, binding)
<1>1. TypeInv /\ LaneInv /\ OwedInv /\ HeadInv /\ ServiceInv /\ ServedInv
  BY DEF BindingInv
<1>2. /\ whose' = u /\ session' = session + 1
      /\ UNCHANGED <<owner, subscribed, binding, bound, left>>
      /\ lane' = IF binding = NoBinding THEN lane ELSE Append(lane, t)
  BY DEF SessionBecomes, Cleanup
<1>3. lane \in Seq(Tasks) /\ Len(lane) \in Nat /\ session \in Nat /\ session' > session
  BY <1>1, <1>2 DEF TypeInv
<1>4. \A i \in 1..Len(lane) : /\ lane[i].session \in Nat
                              /\ lane[i].session < session'
  BY <1>1, <1>2, <1>3, TaskFields DEF LaneInv
<1>5. binding.session < session' /\ binding.session \in Nat
  BY <1>1, <1>2, <1>3 DEF OwedInv, TypeInv, Bindings_, NoBinding
<1>6. CASE binding = NoBinding
  <2>1. lane' = lane
    BY <1>2, <1>6
  <2>2. TypeInv'
    BY <1>1, <1>2, <2>1 DEF TypeInv
  <2>3. LaneInv'
    BY <1>1, <1>2, <1>3, <1>4, <2>1 DEF LaneInv
  <2>4. OwedInv'
    BY <1>2, <1>5, <1>6 DEF OwedInv
  <2> QED
    BY <1>1, <1>2, <2>1, <2>2, <2>3, <2>4 DEF BindingInv, HeadInv, ServiceInv,
                                              ServedInv, Under
<1>7. CASE binding # NoBinding
  <2>1. binding \in Bindings_ /\ binding.fcm \in Handset
    BY <1>1, <1>7 DEF TypeInv, Bindings_
  <2>2. /\ t \in Tasks /\ t.kind = "clean" /\ t.session = session
        /\ t.step = "start" /\ t.old = binding
    BY <1>1, <2>1, TaskIsTask
  <2> HIDE DEF t
  <2>3. IsAdded(t)
    BY <1>2, <1>3, <1>7, <2>2, Added
  <2>4. \A i \in 1..Len(lane') :
          \/ i \in 1..Len(lane) /\ lane'[i] = lane[i] /\ i # Len(lane) + 1
          \/ i = Len(lane) + 1 /\ lane'[i] = t
    BY <1>3, <2>3 DEF IsAdded
  <2>5. TypeInv'
    BY <1>1, <1>2, <1>3, <2>3 DEF TypeInv, IsAdded
  <2>6. LaneInv'
    <3>1. \A i, j \in 1..Len(lane') : i < j => lane'[i].session <= lane'[j].session
      <4> SUFFICES ASSUME NEW i \in 1..Len(lane'), NEW j \in 1..Len(lane'), i < j
                   PROVE  lane'[i].session <= lane'[j].session
        OBVIOUS
      <4>1. Len(lane') = Len(lane) + 1
        BY <2>3 DEF IsAdded
      <4>2. i \in 1..Len(lane) /\ i # Len(lane) + 1
        BY <1>3, <4>1
      <4>3. lane'[i] = lane[i] /\ lane[i].session <= session
        BY <1>1, <2>4, <4>2 DEF LaneInv
      <4> QED
        BY <1>1, <2>2, <2>4, <4>2, <4>3 DEF LaneInv
    <3>2. \A i \in 1..Len(lane') : lane'[i].session \in Nat /\ lane'[i].session < session'
      BY <1>3, <1>4, <2>2, <2>4
    <3>3. \A i \in 1..Len(lane') :
         /\ i > 1 => lane'[i].step = "start"
         /\ lane'[i].kind = "register" =>
              lane'[i].fcm \in Handset /\ lane'[i].user # NoAccount
         /\ lane'[i].kind = "clean" =>
              /\ lane'[i].old # NoBinding
              /\ binding = NoBinding \/ binding = lane'[i].old
      BY <1>1, <1>7, <2>2, <2>4 DEF LaneInv
    <3>4. \A i \in 1..Len(lane') :
            lane'[i].session <= session' /\ lane'[i].session # session'
      BY <1>2, <1>3, <3>2
    <3> QED
      BY <1>2, <3>1, <3>2, <3>3, <3>4 DEF LaneInv
  <2>7. OwedInv'
    <3>1. Len(lane) + 1 \in 1..Len(lane') /\ lane'[Len(lane) + 1] = t
      BY <1>3, <2>3 DEF IsAdded
    <3>2. binding.session <= session' /\ binding.session # session'
      BY <1>2, <1>3, <1>5
    <3> QED
      BY <1>2, <2>2, <3>1, <3>2 DEF OwedInv
  <2>8. Under' = Under /\ HeadInv'
    BY <1>1, <1>2, <2>2, <2>3, UnderIsAdded
  <2> QED
    BY <1>1, <1>2, <2>5, <2>6, <2>7, <2>8 DEF BindingInv, ServiceInv, ServedInv
<1> QED
  BY <1>6, <1>7

-----------------------------------------------------------------------------
(* The lane *)

\* The task under way takes its next step, and what is bound stays.
LEMMA StepKeepsBound ==
  ASSUME BindingInv, lane # <<>>, NEW t \in Tasks, lane' = [lane EXCEPT ![1] = t],
         UNCHANGED <<whose, session, binding>>,
         t.kind = lane[1].kind, t.fcm = lane[1].fcm, t.user = lane[1].user,
         t.session = lane[1].session, t.kind = "clean" => t.old = lane[1].old
  PROVE  /\ LaneInv' /\ OwedInv'
         /\ Under = lane[1].step /\ Under' = t.step
         /\ lane' \in Seq(Tasks) /\ lane'[1] = t /\ lane' # <<>>
<1>1. TypeInv /\ LaneInv /\ OwedInv /\ lane \in Seq(Tasks)
  BY DEF BindingInv, TypeInv
<1>2. GoesOnAs(t)
  BY <1>1, GoesOn
<1>3. MayRebind
  BY DEF MayRebind
<1> QED
  BY <1>1, <1>2, <1>3, LaneGoesOn, OwedGoesOn, UnderGoesOn DEF GoesOnAs

\* The task under way binds what it registers.
LEMMA BindKeeps ==
  ASSUME BindingInv, lane # <<>>, lane[1].kind = "register", ~Stale(1),
         Binds(1), Steps(1, "put"),
         UNCHANGED <<owner, whose, session, over>>,
         left' \subseteq Handset \cup {"topic"}, subscribed' \in BOOLEAN,
         \* What was bound before was cleaned, or was the same.
         \A h \in Handset : owner[h] # NoAccount =>
           h \in left' \/ (h = lane[1].fcm /\ owner[h] = lane[1].user)
  PROVE  BindingInv'
<1> DEFINE t == [lane[1] EXCEPT !.step = "put"]
<1>1. TypeInv /\ LaneInv /\ lane \in Seq(Tasks) /\ 1 \in 1..Len(lane)
  BY DEF BindingInv, TypeInv
<1>2. lane[1] \in Tasks /\ lane[1].session = session /\ lane[1].user = whose
      /\ lane[1].fcm \in Handset /\ lane[1].user # NoAccount
      /\ lane[1].user \in Someone
  BY <1>1, TaskFields DEF LaneInv, Stale
<1>3. /\ t \in Tasks /\ t.step = "put"
      /\ t.kind = lane[1].kind /\ t.fcm = lane[1].fcm /\ t.user = lane[1].user
      /\ t.session = lane[1].session
  BY <1>2 DEF Tasks
<1>4. lane' = [lane EXCEPT ![1] = t]
  BY DEF Steps
<1> HIDE DEF t
<1>5. GoesOnAs(t)
  BY <1>1, <1>3, <1>4, GoesOn
<1>6. /\ binding' \in Bindings_ /\ binding'.fcm = lane[1].fcm
      /\ binding'.user = lane[1].user /\ binding'.session = lane[1].session
      /\ bound' \in Nat
  BY <1>1, <1>2 DEF Binds, Bindings_, TypeInv, Someone
<1>7. binding' # NoBinding
  BY <1>2, <1>6 DEF NoBinding
<1>8. MayRebind
  BY <1>2 DEF MayRebind
<1>9. LaneInv'
  BY <1>1, <1>3, <1>5, <1>8, LaneGoesOn
<1>10. OwedInv'
  BY <1>1, <1>2, <1>6, OwedAnew
<1>11. Under' = "put" /\ lane' \in Seq(Tasks) /\ lane'[1] = t
  BY <1>3, <1>5, UnderGoesOn DEF GoesOnAs
<1>12. TypeInv'
  BY <1>1, <1>6, <1>11 DEF TypeInv
<1>13. HeadInv'
  BY <1>3, <1>6, <1>7, <1>11 DEF HeadInv
<1>14. ServiceInv'
  BY <1>6, <1>7, <1>11 DEF ServiceInv
<1>15. ServedInv'
  BY <1>11 DEF ServedInv
<1> QED
  BY <1>9, <1>10, <1>12, <1>13, <1>14, <1>15 DEF BindingInv

LEMMA CleansTask ==
  ASSUME lane \in Seq(Tasks), lane # <<>>, NEW old \in Bindings_ \cup {NoBinding},
         NEW next \in {"end", "bind"}, Cleans(1, old, next)
  PROVE  \E t \in Tasks :
           /\ lane' = [lane EXCEPT ![1] = t]
           /\ t.kind = lane[1].kind /\ t.fcm = lane[1].fcm
           /\ t.user = lane[1].user /\ t.session = lane[1].session
           /\ t.step = "delete" /\ t.old = old /\ t.next = next
<1> DEFINE t == [lane[1] EXCEPT !.step = "delete", !.old = old, !.next = next]
<1>1. lane[1] \in Tasks
  OBVIOUS
<1>2. /\ t \in Tasks /\ t.kind = lane[1].kind /\ t.fcm = lane[1].fcm
      /\ t.user = lane[1].user /\ t.session = lane[1].session
      /\ t.step = "delete" /\ t.old = old /\ t.next = next
  BY <1>1 DEF Tasks
<1>3. lane' = [lane EXCEPT ![1] = t]
  BY <1>1 DEF Cleans, Tasks
<1> QED
  BY <1>2, <1>3

LEMMA StepsTask ==
  ASSUME lane \in Seq(Tasks), lane # <<>>,
         NEW step \in {"unsubscribe", "subscribe"}, Steps(1, step)
  PROVE  \E t \in Tasks :
           /\ lane' = [lane EXCEPT ![1] = t]
           /\ t.kind = lane[1].kind /\ t.fcm = lane[1].fcm
           /\ t.user = lane[1].user /\ t.session = lane[1].session
           /\ t.step = step /\ t.old = lane[1].old /\ t.next = lane[1].next
<1> DEFINE t == [lane[1] EXCEPT !.step = step]
<1>1. lane[1] \in Tasks
  OBVIOUS
<1>2. /\ t \in Tasks /\ t.kind = lane[1].kind /\ t.fcm = lane[1].fcm
      /\ t.user = lane[1].user /\ t.session = lane[1].session
      /\ t.step = step /\ t.old = lane[1].old /\ t.next = lane[1].next
  BY <1>1 DEF Tasks
<1>3. lane' = [lane EXCEPT ![1] = t]
  BY DEF Steps
<1> QED
  BY <1>2, <1>3

\* What is bound, or was, is going to be cleaned.
LEMMA CleanKeeps ==
  ASSUME BindingInv, lane # <<>>, NEW old \in Bindings_,
         NEW next \in {"end", "bind"}, Cleans(1, old, next),
         lane[1].step # "unsubscribe",
         lane[1].kind = "clean" => old = lane[1].old,
         lane[1].kind # "clean" => old = binding,
         next = "bind" => lane[1].kind = "register",
         owner' \in [Handset -> Someone], subscribed' \in BOOLEAN,
         \A h \in Handset : owner'[h] # NoAccount =>
           h \in left' \/ (h = binding.fcm /\ owner'[h] = binding.user),
         subscribed' => binding # NoBinding \/ "topic" \in left',
         left' \subseteq Handset \cup {"topic"},
         UNCHANGED <<whose, session, binding, bound>>
  PROVE  BindingInv'
<1>1. TypeInv /\ lane \in Seq(Tasks)
  BY DEF BindingInv, TypeInv
<1>2. PICK t \in Tasks :
        /\ lane' = [lane EXCEPT ![1] = t]
        /\ t.kind = lane[1].kind /\ t.fcm = lane[1].fcm
        /\ t.user = lane[1].user /\ t.session = lane[1].session
        /\ t.step = "delete" /\ t.old = old /\ t.next = next
  BY <1>1, CleansTask
<1>3. /\ LaneInv' /\ OwedInv' /\ Under' = "delete"
      /\ lane' \in Seq(Tasks) /\ lane'[1] = t
  BY <1>2, StepKeepsBound
<1>4. old # NoBinding
  BY BindingAssumption DEF Bindings_, NoBinding
<1>5. TypeInv'
  BY <1>1, <1>3 DEF TypeInv
<1>6. HeadInv'
  BY <1>2, <1>3, <1>4 DEF HeadInv
<1>7. ServiceInv' /\ ServedInv'
  BY <1>3 DEF ServiceInv, ServedInv
<1> QED
  BY <1>3, <1>5, <1>6, <1>7 DEF BindingInv

\* The task under way has nothing left to do.
LEMMA EndKeeps ==
  ASSUME BindingInv, lane # <<>>, Ends_(1), UNCHANGED <<owner, whose, session, bound>>,
         binding' = binding \/ binding' = NoBinding,
         binding' # NoBinding => lane[1].kind # "clean",
         subscribed' \in BOOLEAN, left' \subseteq Handset \cup {"topic"},
         \A h \in Handset : owner[h] # NoAccount =>
           h \in left' \/ (h = binding'.fcm /\ owner[h] = binding'.user),
         subscribed' => binding' # NoBinding \/ "topic" \in left',
         binding' # NoBinding =>
           owner[binding'.fcm] = binding'.user /\ subscribed'
  PROVE  BindingInv'
<1>1. TypeInv /\ LaneInv /\ OwedInv /\ lane \in Seq(Tasks)
  BY DEF BindingInv, TypeInv
<1>2. IsOver
  BY <1>1, Over DEF Ends_
<1>3. LaneInv'
  BY <1>1, <1>2, LaneIsOver DEF MayRebind
<1>4. Under' = "start" /\ HeadInv'
  BY <1>1, <1>2, UnderIsOver
<1>5. OwedInv'
  <2>1. CASE binding' = binding /\ binding # NoBinding
    BY <1>1, <1>2, <2>1, OwedIsOver
  <2>2. CASE binding' = NoBinding
    BY <1>1, <2>2, OwedAnew
  <2> QED
    BY <2>1, <2>2
<1>6. TypeInv'
  BY <1>1, <1>2 DEF TypeInv, IsOver
<1>7. ServiceInv' /\ ServedInv'
  BY <1>4 DEF ServiceInv, ServedInv
<1> QED
  BY <1>3, <1>4, <1>5, <1>6, <1>7 DEF BindingInv

LEMMA BoundType ==
  ASSUME TypeInv
  PROVE  /\ owner \in [Handset -> Someone] /\ subscribed \in BOOLEAN
         /\ lane \in Seq(Tasks) /\ left \subseteq Handset \cup {"topic"}
         /\ lane # <<>> => 1 \in 1..Len(lane) /\ lane[1] \in Tasks
         /\ binding # NoBinding =>
              /\ binding \in Bindings_ /\ binding.fcm \in Handset
              /\ binding.user \in Account
         /\ NoBinding.user = NoAccount /\ NoBinding.fcm = "none"
         /\ "none" \notin Handset /\ "topic" \notin Handset
         /\ NoAccount \in Someone /\ Account \subseteq Someone
BY BindingAssumption DEF TypeInv, Bindings_, NoBinding, Someone

LEMMA StartsKeeps ==
  ASSUME BindingInv, Starts(1)
  PROVE  BindingInv'
<1>1. /\ TypeInv /\ LaneInv /\ HeadInv /\ ServiceInv /\ ServedInv
      /\ lane # <<>> /\ lane[1].step = "start" /\ Under = "start"
      /\ UNCHANGED <<owner, subscribed, whose, session, over, left>>
  BY DEF BindingInv, Starts, InTurn, Under
<1>2. /\ owner \in [Handset -> Someone] /\ subscribed \in BOOLEAN
      /\ lane \in Seq(Tasks) /\ left \subseteq Handset \cup {"topic"}
      /\ 1 \in 1..Len(lane) /\ lane[1] \in Tasks
      /\ binding # NoBinding => binding \in Bindings_
      /\ NoBinding.user = NoAccount /\ NoBinding.fcm = "none"
      /\ "none" \notin Handset
  BY <1>1, BoundType
<1>3. /\ \A h \in Handset : owner[h] # NoAccount =>
           h \in left \/ (h = binding.fcm /\ owner[h] = binding.user)
      /\ subscribed => binding # NoBinding \/ "topic" \in left
      /\ binding # NoBinding => owner[binding.fcm] = binding.user /\ subscribed
  BY <1>1 DEF ServiceInv, ServedInv
<1>4. ASSUME Ends_(1), UNCHANGED <<binding, bound>>, lane[1].kind # "clean"
      PROVE  BindingInv'
  BY <1>1, <1>2, <1>3, <1>4, EndKeeps
<1>5. ASSUME NEW old \in Bindings_, NEW next \in {"end", "bind"},
             Cleans(1, old, next), UNCHANGED <<binding, bound>>,
             lane[1].kind = "clean" => old = lane[1].old,
             lane[1].kind # "clean" => old = binding,
             next = "bind" => lane[1].kind = "register"
      PROVE  BindingInv'
  BY <1>1, <1>2, <1>3, <1>5, CleanKeeps
<1>6. CASE lane[1].kind = "clean"
  <2>1. Cleans(1, lane[1].old, "end") /\ UNCHANGED <<binding, bound>>
    BY <1>6 DEF Starts
  <2>2. lane[1].old \in Bindings_
    BY <1>1, <1>2, <1>6, TaskFields DEF LaneInv
  <2> QED
    BY <1>5, <1>6, <2>1, <2>2
<1>7. CASE lane[1].kind = "unregister"
  <2>1. UNCHANGED <<binding, bound>>
    BY <1>7 DEF Starts
  <2>2. CASE binding = NoBinding
    <3>1. Ends_(1)
      BY <1>7, <2>2 DEF Starts
    <3> QED
      BY <1>4, <1>7, <2>1, <3>1
  <2>3. CASE binding # NoBinding
    <3>1. Cleans(1, binding, "end")
      BY <1>7, <2>3 DEF Starts
    <3> QED
      BY <1>2, <1>5, <1>7, <2>1, <2>3, <3>1
  <2> QED
    BY <2>2, <2>3
<1>8. CASE lane[1].kind = "register" /\ Stale(1)
  <2>1. Ends_(1) /\ UNCHANGED <<binding, bound>>
    BY <1>8 DEF Starts
  <2> QED
    BY <1>4, <1>8, <2>1
<1>9. CASE lane[1].kind = "register" /\ ~Stale(1)
  <2>1. CASE binding # NoBinding /\ MustClean(1)
    <3>1. Cleans(1, binding, "bind") /\ UNCHANGED <<binding, bound>>
      BY <1>9, <2>1 DEF Starts
    <3> QED
      BY <1>2, <1>5, <1>9, <2>1, <3>1
  <2>2. CASE ~(binding # NoBinding /\ MustClean(1))
    <3>1. Binds(1) /\ Steps(1, "put")
      BY <1>9, <2>2 DEF Starts
    <3>2. \A h \in Handset : owner[h] # NoAccount =>
            h \in left \/ (h = lane[1].fcm /\ owner[h] = lane[1].user)
      BY <1>2, <1>3, <2>2 DEF MustClean
    <3> QED
      BY <1>1, <1>2, <1>9, <3>1, <3>2, BindKeeps
  <2> QED
    BY <2>1, <2>2
<1>10. lane[1].kind \in {"clean", "register", "unregister"}
  BY <1>2, TaskFields
<1> QED
  BY <1>6, <1>7, <1>8, <1>9, <1>10

LEMMA DeletesKeeps ==
  ASSUME BindingInv, NEW ok \in BOOLEAN, Deletes_(1, ok)
  PROVE  BindingInv'
<1> DEFINE old == lane[1].old
<1>1. /\ TypeInv /\ LaneInv /\ HeadInv /\ ServiceInv
      /\ lane # <<>> /\ lane[1].step = "delete" /\ Under = "delete"
      /\ UNCHANGED <<subscribed, whose, session, over, binding, bound>>
      /\ Steps(1, "unsubscribe")
      /\ IF ok
         THEN /\ owner' = [owner EXCEPT ![old.fcm] =
                             IF owner[old.fcm] = old.user THEN NoAccount
                             ELSE owner[old.fcm]]
              /\ left' = IF owner[old.fcm] = old.user THEN left \ {old.fcm} ELSE left
         ELSE left' = left \cup {old.fcm} /\ owner' = owner
  BY DEF BindingInv, Deletes_, InTurn, Under
<1>2. /\ owner \in [Handset -> Someone] /\ subscribed \in BOOLEAN
      /\ lane \in Seq(Tasks) /\ left \subseteq Handset \cup {"topic"}
      /\ 1 \in 1..Len(lane) /\ lane[1] \in Tasks
      /\ NoBinding.user = NoAccount /\ NoBinding.fcm = "none"
      /\ "none" \notin Handset /\ "topic" \notin Handset /\ NoAccount \in Someone
  BY <1>1, BoundType
<1>3. old \in Bindings_ /\ old.fcm \in Handset /\ (binding = NoBinding \/ binding = old)
  BY <1>1, <1>2, TaskFields DEF HeadInv, LaneInv, Bindings_
<1>4. PICK t \in Tasks :
        /\ lane' = [lane EXCEPT ![1] = t]
        /\ t.kind = lane[1].kind /\ t.fcm = lane[1].fcm
        /\ t.user = lane[1].user /\ t.session = lane[1].session
        /\ t.step = "unsubscribe" /\ t.old = old /\ t.next = lane[1].next
  BY <1>1, <1>2, StepsTask
<1>5. /\ LaneInv' /\ OwedInv' /\ Under' = "unsubscribe"
      /\ lane' \in Seq(Tasks) /\ lane'[1] = t
  BY <1>1, <1>4, StepKeepsBound
<1> HIDE DEF old
<1>6. TypeInv'
  BY <1>1, <1>2, <1>3, <1>5 DEF TypeInv
<1>7. HeadInv'
  BY <1>1, <1>4, <1>5 DEF HeadInv, old
<1>8. \A h \in Handset : owner[h] # NoAccount =>
         h \in left \/ (h = old.fcm /\ owner[h] = old.user)
  BY <1>1, <1>2, <1>3 DEF ServiceInv
<1>9. \A h \in Handset : owner'[h] # NoAccount => h \in left'
  BY <1>1, <1>2, <1>3, <1>8
<1>10. subscribed' => binding' # NoBinding \/ "topic" \in left'
  BY <1>1, <1>2, <1>3 DEF ServiceInv
<1> QED
  BY <1>5, <1>6, <1>7, <1>9, <1>10 DEF BindingInv, ServiceInv, ServedInv

LEMMA UnsubscribesKeeps ==
  ASSUME BindingInv, NEW ok \in BOOLEAN, Unsubscribes(1, ok)
  PROVE  BindingInv'
<1>1. /\ TypeInv /\ LaneInv /\ HeadInv /\ ServiceInv
      /\ lane # <<>> /\ lane[1].step = "unsubscribe" /\ Under = "unsubscribe"
      /\ UNCHANGED <<owner, whose, session, over>>
      /\ IF ok THEN subscribed' = FALSE /\ left' = left \ {"topic"}
         ELSE left' = left \cup {"topic"} /\ subscribed' = subscribed
  BY DEF BindingInv, Unsubscribes, InTurn, Under
<1>2. /\ owner \in [Handset -> Someone] /\ subscribed \in BOOLEAN
      /\ lane \in Seq(Tasks) /\ left \subseteq Handset \cup {"topic"}
      /\ "topic" \notin Handset
  BY <1>1, BoundType
<1>3. \A h \in Handset : owner[h] # NoAccount => h \in left'
  BY <1>1, <1>2 DEF ServiceInv
<1>4. /\ subscribed' \in BOOLEAN /\ left' \subseteq Handset \cup {"topic"}
      /\ subscribed' => "topic" \in left'
  BY <1>1, <1>2
<1>7. lane # <<>> /\ UNCHANGED <<owner, whose, session, over>>
  BY <1>1
<1>5. CASE lane[1].next = "bind" /\ ~Stale(1)
  <2>1. Binds(1) /\ Steps(1, "put")
    BY <1>5 DEF Unsubscribes
  <2>2. lane[1].kind = "register"
    BY <1>1, <1>5 DEF HeadInv
  <2> QED
    BY <1>3, <1>4, <1>5, <1>7, <2>1, <2>2, BindKeeps
<1>6. CASE ~(lane[1].next = "bind" /\ ~Stale(1))
  <2>1. /\ binding' = IF binding = lane[1].old THEN NoBinding ELSE binding
        /\ Ends_(1) /\ bound' = bound
    BY <1>6 DEF Unsubscribes
  <2>2. binding = NoBinding \/ binding = lane[1].old
    BY <1>1, <1>2 DEF HeadInv, LaneInv
  <2>3. binding' = NoBinding
    BY <2>1, <2>2
  <2> QED
    BY <1>3, <1>4, <1>7, <2>1, <2>3, EndKeeps
<1> QED
  BY <1>5, <1>6

LEMMA PutsKeeps ==
  ASSUME BindingInv, NEW ok \in BOOLEAN, NEW served \in BOOLEAN, Puts(1, ok, served)
  PROVE  BindingInv'
<1>1. /\ TypeInv /\ LaneInv /\ HeadInv /\ ServiceInv
      /\ lane # <<>> /\ lane[1].step = "put" /\ Under = "put"
      /\ UNCHANGED <<subscribed, whose, session, over, binding, bound, left>>
      /\ ok => served
      /\ owner' = IF served THEN [owner EXCEPT ![lane[1].fcm] = lane[1].user]
                  ELSE owner
  BY DEF BindingInv, Puts, InTurn, Under
<1>2. /\ owner \in [Handset -> Someone] /\ subscribed \in BOOLEAN
      /\ lane \in Seq(Tasks) /\ left \subseteq Handset \cup {"topic"}
      /\ 1 \in 1..Len(lane) /\ lane[1] \in Tasks
  BY <1>1, BoundType
<1>3. /\ lane[1].kind = "register" /\ binding # NoBinding
      /\ binding.fcm = lane[1].fcm /\ binding.user = lane[1].user
      /\ binding.session = lane[1].session
  BY <1>1 DEF HeadInv
<1>4. /\ binding \in Bindings_ /\ binding.fcm \in Handset
      /\ binding.user \in Someone
  BY <1>1, <1>3, BoundType
<1>5. /\ owner' \in [Handset -> Someone]
      /\ served => owner'[binding.fcm] = binding.user
      /\ \A h \in Handset : owner'[h] # NoAccount =>
           h \in left \/ (h = binding.fcm /\ owner'[h] = binding.user)
  BY <1>1, <1>2, <1>3, <1>4 DEF ServiceInv
<1>6. subscribed => binding # NoBinding \/ "topic" \in left
  BY <1>3
<1>7. CASE ~ok \/ Stale(1)
  <2>1. Cleans(1, binding, "end")
    BY <1>7 DEF Puts
  <2> QED
    BY <1>1, <1>2, <1>3, <1>4, <1>5, <1>6, <2>1, CleanKeeps
<1>8. CASE ok /\ ~Stale(1)
  <2>1. Steps(1, "subscribe")
    BY <1>8 DEF Puts
  <2>2. PICK t \in Tasks :
        /\ lane' = [lane EXCEPT ![1] = t]
        /\ t.kind = lane[1].kind /\ t.fcm = lane[1].fcm
        /\ t.user = lane[1].user /\ t.session = lane[1].session
        /\ t.step = "subscribe" /\ t.old = lane[1].old /\ t.next = lane[1].next
    BY <1>1, <1>2, <2>1, StepsTask
  <2>3. /\ LaneInv' /\ OwedInv' /\ Under' = "subscribe"
        /\ lane' \in Seq(Tasks) /\ lane'[1] = t
    BY <1>1, <2>2, StepKeepsBound
  <2>4. TypeInv'
    BY <1>1, <1>5, <2>3 DEF TypeInv
  <2>5. HeadInv'
    BY <1>1, <1>3, <2>2, <2>3 DEF HeadInv
  <2>6. ServiceInv' /\ ServedInv'
    BY <1>1, <1>3, <1>5, <1>8, <2>3 DEF ServiceInv, ServedInv
  <2> QED
    BY <2>3, <2>4, <2>5, <2>6 DEF BindingInv
<1> QED
  BY <1>7, <1>8

LEMMA SubscribesKeeps ==
  ASSUME BindingInv, NEW ok \in BOOLEAN, NEW served \in BOOLEAN,
         Subscribes(1, ok, served)
  PROVE  BindingInv'
<1>1. /\ TypeInv /\ LaneInv /\ HeadInv /\ ServiceInv /\ ServedInv
      /\ lane # <<>> /\ lane[1].step = "subscribe" /\ Under = "subscribe"
      /\ UNCHANGED <<owner, whose, session, over, binding, bound>>
      /\ ok => served
      /\ subscribed' = (subscribed \/ served)
      /\ left' = IF ok /\ ~Stale(1) THEN left \ {"topic"} ELSE left
  BY DEF BindingInv, Subscribes, InTurn, Under
<1>2. /\ owner \in [Handset -> Someone] /\ subscribed' \in BOOLEAN
      /\ lane \in Seq(Tasks) /\ left' \subseteq Handset \cup {"topic"}
      /\ "topic" \notin Handset
  BY <1>1, BoundType
<1>3. /\ lane[1].kind = "register" /\ binding # NoBinding
  BY <1>1 DEF HeadInv
<1>4. binding \in Bindings_
  BY <1>1, <1>3, BoundType
<1>5. \A h \in Handset : owner[h] # NoAccount =>
        h \in left' \/ (h = binding.fcm /\ owner[h] = binding.user)
  BY <1>1, <1>2 DEF ServiceInv
<1>8. /\ lane # <<>> /\ lane[1].step # "unsubscribe"
      /\ UNCHANGED <<owner, whose, session, bound>>
      /\ binding' = binding
  BY <1>1
<1>9. /\ owner' \in [Handset -> Someone]
      /\ \A h \in Handset : owner'[h] # NoAccount =>
           h \in left' \/ (h = binding.fcm /\ owner'[h] = binding.user)
  BY <1>2, <1>5, <1>8
<1>6. CASE ~ok \/ Stale(1)
  <2>1. Cleans(1, binding, "end")
    BY <1>6 DEF Subscribes
  <2> QED
    BY <1>2, <1>3, <1>4, <1>8, <1>9, <2>1, CleanKeeps
<1>7. CASE ok /\ ~Stale(1)
  <2>1. Ends_(1)
    BY <1>7 DEF Subscribes
  <2>2. owner[binding.fcm] = binding.user /\ subscribed'
    BY <1>1, <1>3, <1>7 DEF ServedInv
  <2> QED
    BY <1>2, <1>3, <1>5, <1>8, <2>1, <2>2, EndKeeps
<1> QED
  BY <1>6, <1>7

-----------------------------------------------------------------------------
(* The theorem *)

LEMMA BindingStep ==
  ASSUME BindingInv, [BindingNext]_bindingVars
  PROVE  BindingInv'
<1>1. CASE UNCHANGED bindingVars
  BY <1>1 DEF bindingVars, BindingInv, TypeInv, LaneInv, OwedInv, HeadInv,
              ServiceInv, ServedInv, Under
<1>2. ASSUME NEW k \in DOMAIN lane, InTurn(k) PROVE k = 1
  BY <1>2 DEF InTurn
<1>3. ASSUME NEW k \in DOMAIN lane, Starts(k) PROVE BindingInv'
  BY <1>2, <1>3, StartsKeeps DEF Starts
<1>4. ASSUME NEW k \in DOMAIN lane, NEW ok \in BOOLEAN, Deletes_(k, ok)
      PROVE  BindingInv'
  BY <1>2, <1>4, DeletesKeeps DEF Deletes_
<1>5. ASSUME NEW k \in DOMAIN lane, NEW ok \in BOOLEAN, Unsubscribes(k, ok)
      PROVE  BindingInv'
  BY <1>2, <1>5, UnsubscribesKeeps DEF Unsubscribes
<1>6. ASSUME NEW k \in DOMAIN lane, NEW ok \in BOOLEAN, NEW served \in BOOLEAN,
             Puts(k, ok, served)
      PROVE  BindingInv'
  BY <1>2, <1>6, PutsKeeps DEF Puts
<1>7. ASSUME NEW k \in DOMAIN lane, NEW ok \in BOOLEAN, NEW served \in BOOLEAN,
             Subscribes(k, ok, served)
      PROVE  BindingInv'
  BY <1>2, <1>7, SubscribesKeeps DEF Subscribes
<1> QED
  BY <1>1, <1>3, <1>4, <1>5, <1>6, <1>7, RegisterKeeps, UnregisterKeeps,
     SessionKeeps DEF BindingNext, Someone

\* Whatever sessions end between two steps of a registration, and whatever
\* fails: once nothing is under way, what the kit takes for its registration is
\* the service's and belongs to the session that is, and nothing else is
\* registered or subscribed but what a failed cleaning has left (push.ts).
THEOREM NothingElseIsBound == BindingSpec => []BindingInvariant
<1>1. BindingInit => BindingInv
  BY InitIsBound
<1>2. BindingInv /\ [BindingNext]_bindingVars => BindingInv'
  BY BindingStep
<1>3. BindingInv => BindingInvariant
  <2> SUFFICES ASSUME BindingInv PROVE BindingInvariant
    OBVIOUS
  <2>1. TypeInv /\ LaneInv /\ OwedInv /\ ServiceInv /\ ServedInv
    BY DEF BindingInv
  <2>2. BindingTypeOK
    <3>1. \A k \in 2..Len(lane) : k \in 1..Len(lane) /\ k > 1
      BY <2>1 DEF TypeInv
    <3>2. binding.session \in 0..session /\ binding.user \in Someone
      BY <2>1 DEF TypeInv, OwedInv, Bindings_, NoBinding, Someone
    <3> QED
      BY <2>1, <3>1, <3>2 DEF BindingTypeOK, TypeInv, LaneInv, Someone
  <2>3. BoundIsServed
    BY <2>1 DEF BoundIsServed, OwedInv, ServedInv, Under
  <2>4. NothingIsLeft
    BY <2>1 DEF NothingIsLeft, ServiceInv, Under
  <2> QED
    BY <2>2, <2>3, <2>4 DEF BindingInvariant
<1> QED
  BY <1>1, <1>2, <1>3, PTL DEF BindingSpec

=============================================================================
