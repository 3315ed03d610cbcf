--------------------------- MODULE EventLoopProofs --------------------------
(* Proofs about EventLoop for every set of producers and every bound.         *)
EXTENDS EventLoop, SequenceTheorems, TLAPS

(* Three facts about sequences: what pushing at the back of a suffix and      *)
(* moving the first element of a suffix do to a concatenation.                *)

LEMMA AppendOfConcat ==
    ASSUME NEW s \in Seq(Event), NEW t \in Seq(Event), NEW e \in Event
    PROVE  Append(s \o t, e) = s \o Append(t, e)
<1>1. Append(s \o t, e) \in Seq(Event) /\ s \o Append(t, e) \in Seq(Event)
  BY ConcatProperties
<1>2. Len(Append(s \o t, e)) = Len(s \o Append(t, e))
  BY ConcatProperties
<1>3. \A i \in 1..Len(Append(s \o t, e)) :
         Append(s \o t, e)[i] = (s \o Append(t, e))[i]
  BY ConcatProperties
<1> QED
  BY <1>1, <1>2, <1>3, SeqEqual

LEMMA MoveHeadAcross ==
    ASSUME NEW s \in Seq(Event), NEW t \in Seq(Event), t # <<>>
    PROVE  s \o t = Append(s, Head(t)) \o Tail(t)
<1>1. Head(t) \in Event /\ Tail(t) \in Seq(Event) /\ Append(s, Head(t)) \in Seq(Event)
  BY HeadTailProperties
<1>2. Len(s \o t) = Len(Append(s, Head(t)) \o Tail(t))
  BY <1>1, ConcatProperties, HeadTailProperties
<1>3. \A i \in 1..Len(s \o t) :
         (s \o t)[i] = (Append(s, Head(t)) \o Tail(t))[i]
  BY <1>1, ConcatProperties, HeadTailProperties
<1> QED
  BY <1>1, <1>2, <1>3, ConcatProperties, SeqEqual

\* Pushing at the back of the waiting events leaves those before it alone.
LEMMA PushKeepsOrder ==
    ASSUME NEW r \in Seq(Event), NEW c \in Seq(Event), NEW v \in Seq(Event), NEW e \in Event
    PROVE  Append(r \o (c \o v), e) = r \o (c \o Append(v, e))
<1>1. c \o v \in Seq(Event)
  BY ConcatProperties
<1>2. \A t \in Seq(Event) : Append(r \o t, e) = r \o Append(t, e)
  BY AppendOfConcat, Zenon
<1>3. Append(c \o v, e) = c \o Append(v, e)
  BY AppendOfConcat, Zenon
<1> QED
  BY ONLY <1>1, <1>2, <1>3

\* Running the head of the batch only moves the boundary between what ran and
\* what waits.
LEMMA DispatchKeepsOrder ==
    ASSUME NEW r \in Seq(Event), NEW c \in Seq(Event), NEW v \in Seq(Event), c # <<>>
    PROVE  Append(r, Head(c)) \o (Tail(c) \o v) = r \o (c \o v)
<1>1. Append(r, Head(c)) \in Seq(Event) /\ Tail(c) \in Seq(Event)
  BY HeadTailProperties, AppendProperties
<1>2. (Append(r, Head(c)) \o Tail(c)) \o v = Append(r, Head(c)) \o (Tail(c) \o v)
  <2>1. \A s, t \in Seq(Event) : (s \o t) \o v = s \o (t \o v)
    BY ConcatAssociative
  <2> QED
    BY ONLY <1>1, <2>1
<1>3. (r \o c) \o v = r \o (c \o v)
  BY ConcatAssociative
<1>4. r \o c = Append(r, Head(c)) \o Tail(c)
  BY MoveHeadAcross
<1> QED
  BY ONLY <1>2, <1>3, <1>4

LEMMA HeadOfConcat ==
    ASSUME NEW s \in Seq(Event), NEW t \in Seq(Event), s # <<>>
    PROVE  /\ s \o t # <<>>
           /\ Head(s \o t) = Head(s)
           /\ Tail(s \o t) = Tail(s) \o t
<1>1. Len(s) \in Nat \ {0} /\ Len(t) \in Nat
  BY EmptySeq, LenProperties
<1>2. s \o t \in Seq(Event) /\ Len(s \o t) = Len(s) + Len(t)
  BY ConcatProperties
<1>3. s \o t # <<>>
  BY <1>1, <1>2, EmptySeq
<1>4. Head(s \o t) = Head(s)
  BY <1>1, <1>2, ConcatProperties
<1>5. Tail(s \o t) = Tail(s) \o t
  <2>1. Tail(s) \in Seq(Event) /\ Len(Tail(s)) = Len(s) - 1
    BY HeadTailProperties
  <2>2. Tail(s \o t) \in Seq(Event) /\ Len(Tail(s \o t)) = Len(s \o t) - 1
    BY <1>2, <1>3, HeadTailProperties
  <2>3. Tail(s) \o t \in Seq(Event) /\ Len(Tail(s) \o t) = Len(Tail(s)) + Len(t)
    BY <2>1, ConcatProperties
  <2>4. Len(Tail(s \o t)) = Len(Tail(s) \o t)
    BY <1>1, <1>2, <2>1, <2>2, <2>3
  <2>5. \A i \in 1..Len(Tail(s \o t)) : Tail(s \o t)[i] = (Tail(s) \o t)[i]
    BY <1>1, <1>2, <1>3, <2>1, <2>2, <2>3, <2>4, ConcatProperties, HeadTailProperties
  <2> QED
    BY <2>2, <2>3, <2>4, <2>5, SeqEqual
<1> QED
  BY <1>3, <1>4, <1>5

-----------------------------------------------------------------------------
(* The strengthened invariant IInv is inductive. *)

LEMMA InitEstablishesIInv == Init => IInv
<1> SUFFICES ASSUME Init PROVE IInv
  OBVIOUS
<1>1. <<>> \in Seq(Event) /\ <<>> \o <<>> = <<>> /\ Len(<<>>) = 0
  BY EmptySeq, ConcatEmptySeq
<1>2. TypeOK
  <2>1. made \in [Producers -> 0..MaxEvents]
    BY MaxEventsAssumption DEF Init
  <2>2. seen \in [Producers -> Seq(Event)]
    BY <1>1 DEF Init
  <2>3. events \in Seq(Event) /\ current \in Seq(Event) /\ pushed \in Seq(Event) /\ ran \in Seq(Event)
    BY <1>1, Zenon DEF Init
  <2> QED
    BY <2>1, <2>2, <2>3 DEF Init, TypeOK
<1>3. OneThreadInQueue /\ ReadsAreCurrent /\ BatchAccounted /\ FrameShowsItsBatch
  BY DEF Init, OneThreadInQueue, ReadsAreCurrent, BatchAccounted, FrameShowsItsBatch
<1>4. ExactlyOnceInOrder
  BY <1>1 DEF Init, ExactlyOnceInOrder, Undispatched
<1> QED
  BY <1>2, <1>3, <1>4 DEF IInv

LEMMA NextPreservesIInv == IInv /\ [Next]_vars => IInv'
<1> SUFFICES ASSUME IInv, [Next]_vars PROVE IInv'
  OBVIOUS
<1> USE ProducersAssumption, MaxEventsAssumption
<1> USE DEF IInv, TypeOK, OneThreadInQueue, ReadsAreCurrent, BatchAccounted,
            ExactlyOnceInOrder, Undispatched, FrameShowsItsBatch
<1>1. ASSUME NEW p \in Producers, EnqueueLock(p) PROVE IInv'
  BY <1>1 DEF EnqueueLock
<1>2. ASSUME NEW p \in Producers, PushRead(p) PROVE IInv'
  BY <1>2 DEF PushRead
<1>3. ASSUME NEW p \in Producers, PushWrite(p) PROVE IInv'
  <2>1. seen[p] = events /\ eventsMu = p /\ upc # "clear"
    BY <1>3 DEF PushWrite
  <2>2. PICK e \in Event : events' = Append(events, e) /\ pushed' = Append(pushed, e)
    <3>1. [from |-> p, num |-> made[p] + 1] \in Event
      <4>1. made[p] + 1 \in 1..MaxEvents
        <5>1. made[p] \in 0..MaxEvents /\ made[p] < MaxEvents
          BY <1>3 DEF PushWrite
        <5> QED
          BY ONLY <5>1, MaxEventsAssumption
      <4> QED
        BY <4>1 DEF Event
    <3> QED
      BY <1>3, <2>1, <3>1 DEF PushWrite
  <2>3. events' \in Seq(Event) /\ pushed' \in Seq(Event)
    BY <2>2, AppendProperties
  <2>4. pushed' = ran \o (current \o events')
    <3>1. /\ ran \in Seq(Event) /\ current \in Seq(Event) /\ events \in Seq(Event)
          /\ pushed = ran \o (current \o events)
      BY <2>1
    <3> QED
      BY ONLY <2>2, <3>1, PushKeepsOrder, ZenonT(30)
  <2>5. TypeOK'
    BY <1>3, <2>3 DEF PushWrite
  <2>6. OneThreadInQueue' /\ ReadsAreCurrent' /\ BatchAccounted' /\ FrameShowsItsBatch'
    BY <1>3, <2>1 DEF PushWrite
  <2>7. ExactlyOnceInOrder'
    BY <1>3, <2>1, <2>4 DEF PushWrite
  <2> QED
    BY <2>5, <2>6, <2>7
<1>4. CASE Initialize
  BY <1>4 DEF Initialize
<1>5. CASE CheckRunning
  BY <1>5 DEF CheckRunning
<1>6. CASE LockEvents
  BY <1>6 DEF LockEvents
<1>7. CASE MoveEvents
  <2>1. current = <<>> /\ pushed = ran \o events
    BY <1>7, ConcatEmptySeq DEF MoveEvents
  <2>2. Len(pushed) \in Nat
    BY LenProperties
  <2> QED
    BY <1>7, <2>1, <2>2 DEF MoveEvents
<1>8. CASE ClearEvents
  <2>1. current = events /\ pushed = ran \o current
    BY <1>8 DEF ClearEvents
  <2>2. events' = <<>> /\ events' \in Seq(Event) /\ current' \o events' = current
    BY <1>8, EmptySeq, ConcatEmptySeq DEF ClearEvents
  <2>3. taken = Len(ran) + Len(current)
    BY <1>8, <2>1, ConcatProperties DEF ClearEvents
  <2> QED
    BY <1>8, <2>1, <2>2, <2>3 DEF ClearEvents
<1>9. CASE RunEvent
  <2>1. current # <<>> /\ upc = "dispatch"
    BY <1>9 DEF RunEvent
  <2>2. /\ ran' \in Seq(Event)
        /\ current' \in Seq(Event)
        /\ Len(ran') + Len(current') = Len(ran) + Len(current)
    BY <1>9, <2>1, HeadTailProperties, AppendProperties, LenProperties DEF RunEvent
  <2>3. ran' \o (current' \o events) = ran \o (current \o events)
    <3>1. ran \in Seq(Event) /\ current \in Seq(Event) /\ events \in Seq(Event)
      OBVIOUS
    <3>2. ran' = Append(ran, Head(current)) /\ current' = Tail(current)
      BY <1>9 DEF RunEvent
    <3> QED
      BY ONLY <2>1, <3>1, <3>2, DispatchKeepsOrder
  <2> QED
    BY <1>9, <2>1, <2>2, <2>3 DEF RunEvent
<1>10. CASE Paint
  <2>1. Len(current) = 0 /\ Len(ran) \in Nat
    BY <1>10, EmptySeq, LenProperties DEF Paint
  <2> QED
    BY <1>10, <2>1 DEF Paint
<1>11. CASE UpdateSound
  BY <1>11 DEF UpdateSound
<1>12. CASE RemoveScheme
  BY <1>12 DEF RemoveScheme
<1>13. CASE Stop
  BY <1>13 DEF Stop
<1>14. CASE UNCHANGED vars
  BY <1>14 DEF vars
<1> QED
  BY <1>1, <1>2, <1>3, <1>4, <1>5, <1>6, <1>7, <1>8, <1>9, <1>10, <1>11, <1>12,
     <1>13, <1>14 DEF Next, Produce, UI

LEMMA Invariance == Spec => []IInv
<1> QED
  BY InitEstablishesIInv, NextPreservesIInv, PTL DEF Spec

-----------------------------------------------------------------------------
\* Type correctness, for every set of threads and every number of events.
THEOREM TypeCorrectness == Spec => []TypeOK
<1>1. IInv => TypeOK
  BY DEF IInv
<1> QED
  BY <1>1, Invariance, PTL

\* However enqueue and the UI thread's move interleave, the events run and the
\* events waiting are exactly the events enqueued, in order
\* (Application.h:35-44, 81-84).
THEOREM EventsExactlyOnceInOrder == Spec => []ExactlyOnceInOrder
<1>1. IInv => ExactlyOnceInOrder
  BY DEF IInv
<1> QED
  BY <1>1, Invariance, PTL

\* Every frame shows the events that waited when its batch was taken, all of
\* them and no others (Application.h:41-46).
THEOREM FramesShowTheirBatch == Spec => []FrameShowsItsBatch
<1>1. IInv => FrameShowsItsBatch
  BY DEF IInv
<1> QED
  BY <1>1, Invariance, PTL

-----------------------------------------------------------------------------
(* The loop implements the abstract queue: every step is an enqueue, a        *)
(* dispatch, a close or a stutter of the queue Undispatched.                  *)

LEMMA InitImplements == Init => Queue!Init
BY EmptySeq, ConcatEmptySeq DEF Init, Queue!Init, Undispatched

LEMMA StepImplements == IInv /\ [Next]_vars => [Queue!Next]_(Queue!qvars)
<1> SUFFICES ASSUME IInv, [Next]_vars PROVE [Queue!Next]_(Queue!qvars)
  OBVIOUS
<1>t. /\ events \in Seq(Event) /\ current \in Seq(Event) /\ ran \in Seq(Event)
      /\ made \in [Producers -> 0..MaxEvents]
  BY DEF IInv, TypeOK
<1> DEFINE Stutters == UNCHANGED <<Undispatched, ran, running>>
<1>0. Stutters => [Queue!Next]_(Queue!qvars)
  BY DEF Queue!qvars
<1> HIDE DEF Stutters
<1>1. ASSUME NEW p \in Producers, EnqueueLock(p) PROVE Stutters
  BY <1>1 DEF EnqueueLock, Undispatched, Stutters
<1>2. ASSUME NEW p \in Producers, PushRead(p) PROVE Stutters
  BY <1>2 DEF PushRead, Undispatched, Stutters
<1>3. ASSUME NEW p \in Producers, PushWrite(p) PROVE Queue!Next
  <2>1. seen[p] = events /\ upc # "clear"
    BY <1>3, ProducersAssumption DEF PushWrite, IInv, OneThreadInQueue, ReadsAreCurrent
  <2>2. PICK e \in Event : events' = Append(events, e)
    <3>1. made[p] \in 0..MaxEvents /\ made[p] < MaxEvents
      BY <1>3, <1>t DEF PushWrite, IInv, OneThreadInQueue
    <3>2. made[p] + 1 \in 1..MaxEvents
      BY ONLY <3>1, MaxEventsAssumption
    <3>3. [from |-> p, num |-> made[p] + 1] \in Event
      BY <3>2 DEF Event
    <3> QED
      BY <1>3, <2>1, <3>3 DEF PushWrite
  <2>3. Append(current \o events, e) = current \o Append(events, e)
    BY ONLY <1>t, <2>2, AppendOfConcat, Zenon
  <2>4. Undispatched' = Append(Undispatched, e)
    BY <1>3, <2>1, <2>2, <2>3 DEF PushWrite, Undispatched
  <2>5. UNCHANGED <<ran, running>>
    BY <1>3 DEF PushWrite
  <2> QED
    BY <2>4, <2>5 DEF Queue!Next, Queue!Enqueue
<1>4. CASE Initialize \/ CheckRunning \/ LockEvents \/ Paint \/ UpdateSound \/ RemoveScheme
  <2>1. Stutters
    BY <1>4 DEF Initialize, CheckRunning, LockEvents, Paint, UpdateSound,
                RemoveScheme, Undispatched, Stutters
  <2> QED
    BY <1>0, <2>1
<1>5. CASE MoveEvents
  <2>1. current = <<>>
    BY <1>5 DEF MoveEvents, IInv, ReadsAreCurrent
  <2>2. Undispatched = events
    BY <1>5, <1>t, <2>1, ConcatEmptySeq DEF MoveEvents, Undispatched
  <2> QED
    BY <1>0, <1>5, <2>2 DEF MoveEvents, Undispatched, Stutters
<1>6. CASE ClearEvents
  <2>1. current = events
    BY <1>6 DEF ClearEvents, IInv, ReadsAreCurrent
  <2>2. current \o <<>> = current
    BY <1>t, ConcatEmptySeq
  <2> QED
    BY <1>0, <1>6, <2>1, <2>2 DEF ClearEvents, Undispatched, Stutters
<1>7. CASE RunEvent
  <2>1. current # <<>> /\ upc = "dispatch" /\ upc' = "dispatch"
    BY <1>7 DEF RunEvent
  <2>2. Head(current \o events) = Head(current)
    BY <1>t, <2>1, HeadOfConcat
  <2>3. Tail(current \o events) = Tail(current) \o events
    BY <1>t, <2>1, HeadOfConcat
  <2>4. current \o events # <<>>
    BY <1>t, <2>1, HeadOfConcat
  <2>5. /\ Undispatched = current \o events
        /\ Undispatched' = Tail(current) \o events
    BY <1>7, <2>1 DEF RunEvent, Undispatched
  <2> QED
    BY <1>7, <2>2, <2>3, <2>4, <2>5 DEF RunEvent, Queue!Next, Queue!Dispatch
<1>8. CASE Stop
  <2>1. UNCHANGED Undispatched
    BY <1>8 DEF Stop, Undispatched
  <2> QED
    BY <1>8, <2>1 DEF Stop, Queue!Next, Queue!Close
<1>9. CASE UNCHANGED vars
  BY <1>0, <1>9 DEF vars, Undispatched, Stutters
<1> QED
  BY <1>0, <1>1, <1>2, <1>3, <1>4, <1>5, <1>6, <1>7, <1>8, <1>9 DEF Next, Produce, UI

\* The frame loop is the first-in first-out queue of IEventQueue.h (its safety
\* part: that a waiting event is eventually dispatched is left to TLC).
THEOREM LoopImplementsQueue == Spec => Queue!Init /\ [][Queue!Next]_(Queue!qvars)
<1> QED
  BY InitImplements, StepImplements, Invariance, PTL DEF Spec
=============================================================================
