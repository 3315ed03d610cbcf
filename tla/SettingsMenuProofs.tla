------------------------- MODULE SettingsMenuProofs -------------------------
(* Proofs about SettingsMenu for menus of any size, any delays that the       *)
(* assumptions allow, and any number of keys and unpluggings.                 *)
EXTENDS SettingsMenu, SequenceTheorems, TLAPS

Calls == {"newCancel", "oldCancel", "newLongPress", "oldLongPress", "noLongPress"}
TimerRecord == [type : TimerEvents, id : 1..MaxKeys, left : (-MaxLag)..CancelDelay]

\* Calls put after those that restart the cancel timer.
LEMMA CallsBehind ==
    ASSUME NEW s \in Seq(Calls), NEW t \in Seq(Calls), Len(s) = 2
    PROVE  /\ s \o t \in Seq(Calls)
           /\ Len(s \o t) >= 2
           /\ (s \o t)[2] = s[2]
<1>1. Len(s) \in Nat /\ Len(t) \in Nat
  BY LenProperties
<1>2. s \o t \in Seq(Calls) /\ Len(s \o t) = Len(s) + Len(t)
  BY ConcatProperties
<1>3. \A i \in 1..(Len(s) + Len(t)) :
        (s \o t)[i] = IF i <= Len(s) THEN s[i] ELSE t[i - Len(s)]
  BY ConcatProperties
<1>4. 2 \in 1..(Len(s) + Len(t)) /\ 2 <= Len(s)
  BY <1>1
<1>5. (s \o t)[2] = IF 2 <= Len(s) THEN s[2] ELSE t[2 - Len(s)]
  BY ONLY <1>3, <1>4
<1> QED
  BY <1>1, <1>2, <1>4, <1>5

\* A key's handler restarts the cancel timer first, whatever the key.
LEMMA CallsRestartCancel ==
    ASSUME NEW k \in KeyEvents
    PROVE  /\ CallsAfter(k) \in Seq(Calls)
           /\ Len(CallsAfter(k)) >= 2
           /\ CallsAfter(k)[2] = "oldCancel"
<1>1. RestartCancelTimer \in Seq(Calls) /\ Len(RestartCancelTimer) = 2
         /\ RestartCancelTimer[2] = "oldCancel"
  BY DEF RestartCancelTimer, Calls
<1>2. RestartLongPressTimer \in Seq(Calls)
  BY DEF RestartLongPressTimer, Calls
<1>3. StopLongPressTimer \in Seq(Calls)
  BY DEF StopLongPressTimer, Calls
<1>4. \A t \in Seq(Calls) : /\ RestartCancelTimer \o t \in Seq(Calls)
                            /\ Len(RestartCancelTimer \o t) >= 2
                            /\ (RestartCancelTimer \o t)[2] = "oldCancel"
  BY <1>1, CallsBehind, Zenon
<1>5. CASE k \in {"Increment", "Decrement"}
  <2>1. CallsAfter(k) = RestartCancelTimer
    BY <1>5 DEF CallsAfter
  <2>2. 2 >= 2
    OBVIOUS
  <2> QED
    BY ONLY <1>1, <2>1, <2>2, Zenon
<1>6. CASE k = "AdjustPressed"
  BY <1>2, <1>4, <1>6 DEF CallsAfter
<1>7. CASE k = "AdjustReleased"
  BY <1>3, <1>4, <1>7 DEF CallsAfter
<1> QED
  BY <1>5, <1>6, <1>7 DEF KeyEvents


-----------------------------------------------------------------------------
(* Type correctness. *)

\* A handler has calls left and a timer runs only after a key was read, and a
\* button is held only after a press.
KeysRead ==
    /\ todo # <<>> => keys >= 1
    /\ timers # {} => keys >= 1
    /\ down => press >= 1

Types == TypeOK /\ KeysRead

\* The types hold when the program starts.
LEMMA TypeInit == Init => Types
<1> SUFFICES ASSUME Init PROVE Types
  OBVIOUS
<1>1. KeysRead
  BY DEF Init, KeysRead
<1>2. todo \in Seq(Calls) /\ queue \in Seq(Event)
  BY EmptySeq DEF Init
<1>3. index \in 0..(DeepSize - 1) /\ keys \in 0..MaxKeys /\ press \in 0..MaxKeys
         /\ held \in 0..LongPressDelay /\ unplugs \in 0..MaxUnplugs
  BY SizesAssumption, DelaysAssumption, BoundsAssumption DEF Init
<1> QED
  BY <1>1, <1>2, <1>3 DEF Init, Types, TypeOK, KnobStates, Calls

\* What an enqueue leaves of the types.
LEMMA EnqueueTypes ==
    ASSUME TypeOK, NEW e \in Event, Enqueue(e)
    PROVE  queue' \in Seq(Event)
  BY AppendProperties DEF TypeOK, Enqueue

\* The input thread outside of a key's handler touches the queue alone.
LEMMA InputKeepsTypes ==
    ASSUME Types, queue' \in Seq(Event), ipc' \in {"open", "sleep", "read", "gone"},
           UNCHANGED <<device, todo, keys, timers, menu>>
    PROVE  Types'
<1>1. /\ plugged' = plugged /\ unplugs' = unplugs /\ down' = down /\ held' = held
      /\ press' = press /\ lost' = lost /\ todo' = todo /\ keys' = keys /\ timers' = timers
      /\ vector' = vector /\ index' = index /\ knobState' = knobState
  BY DEF device, menu
<1> QED
  BY <1>1, Zenon DEF Types, KeysRead, TypeOK

\* Every step keeps the types.
LEMMA TypeStep == Types /\ [Next]_vars => Types'
<1> SUFFICES ASSUME Types, [Next]_vars PROVE Types'
  OBVIOUS
<1> USE SizesAssumption, DelaysAssumption, BoundsAssumption
<1>1. CASE Plug
  BY <1>1 DEF Plug, Types, KeysRead, TypeOK, menu
<1>2. CASE Unplug
  <2>1. lost' \subseteq 1..MaxKeys /\ unplugs' \in 0..MaxUnplugs
    BY <1>2 DEF Unplug, Types, KeysRead, TypeOK
  <2> QED
    BY <1>2, <2>1 DEF Unplug, Types, KeysRead, TypeOK, menu
<1>3. CASE OpenFails \/ OpenSucceeds
  <2>1. queue' \in Seq(Event)
    BY <1>3, EnqueueTypes DEF OpenFails, OpenSucceeds, Event, KnobStates, Types
  <2>2. ipc' \in {"open", "sleep", "read", "gone"} /\ UNCHANGED <<device, todo, keys, timers, menu>>
    BY <1>3 DEF OpenFails, OpenSucceeds
  <2> QED
    BY <2>1, <2>2, InputKeepsTypes
<1>4. CASE Wake \/ ReadFails
  <2>1. queue' \in Seq(Event)
    BY <1>4 DEF Wake, ReadFails, Types, TypeOK
  <2>2. ipc' \in {"open", "sleep", "read", "gone"} /\ UNCHANGED <<device, todo, keys, timers, menu>>
    BY <1>4 DEF Wake, ReadFails
  <2> QED
    BY <2>1, <2>2, InputKeepsTypes
<1>5. CASE Call
  <2>1. todo \in Seq(Calls) /\ Head(todo) \in Calls /\ todo' \in Seq(Calls)
    BY <1>5, HeadTailProperties DEF Call, Types, TypeOK, Calls
  <2>2. timers \subseteq TimerRecord /\ keys \in 1..MaxKeys
    BY <1>5 DEF Call, Types, KeysRead, TypeOK, TimerRecord
  <2>3. ASSUME NEW type \in TimerEvents, NEW delay \in 0..CancelDelay, NewTimer(type, delay)
        PROVE  timers' \subseteq TimerRecord
    <3>1. [type |-> type, id |-> keys, left |-> delay] \in TimerRecord
      BY <2>2 DEF TimerRecord
    <3> QED
      BY <2>2, <2>3, <3>1 DEF NewTimer
  <2>4. timers' \subseteq TimerRecord
    <3>1. CASE Head(todo) = "newCancel"
      <4>1. timers' = timers \cup {[type |-> "CancelTimerFired", id |-> keys, left |-> CancelDelay]}
        BY <1>5, <3>1 DEF Call, NewTimer
      <4>2. CancelDelay \in 0..CancelDelay
        OBVIOUS
      <4> QED
        BY <2>3, <4>1, <4>2 DEF NewTimer, TimerEvents
    <3>2. CASE Head(todo) = "newLongPress"
      <4>1. timers' = timers \cup {[type |-> "LongPressTimerFired", id |-> keys, left |-> LongPressDelay]}
        BY <1>5, <3>2 DEF Call, NewTimer
      <4>2. LongPressDelay \in 0..CancelDelay
        OBVIOUS
      <4> QED
        BY <2>3, <4>1, <4>2 DEF NewTimer, TimerEvents
    <3>3. CASE Head(todo) \in {"oldCancel", "oldLongPress", "noLongPress"}
      <4>1. timers' \subseteq timers
        BY <1>5, <3>3 DEF Call, OldTimersGone
      <4> QED
        BY <2>2, <4>1
    <3> QED
      BY <2>1, <3>1, <3>2, <3>3 DEF Calls
  <2> QED
    BY <1>5, <2>1, <2>2, <2>4 DEF Call, Types, KeysRead, TypeOK, TimerRecord, Calls, menu, device
<1>6. CASE Tick
  <2>1. timers' \subseteq TimerRecord
    <3> SUFFICES ASSUME NEW t \in timers PROVE [t EXCEPT !.left = @ - 1] \in TimerRecord
      BY <1>6 DEF Tick
    <3>1. t \in TimerRecord /\ t.left > -MaxLag
      BY <1>6 DEF Tick, Types, TypeOK, TimerRecord
    <3> QED
      BY <3>1 DEF TimerRecord
  <2>2. held' \in 0..LongPressDelay
    <3>1. held \in 0..LongPressDelay /\ LongPressDelay \in Nat
      BY DelaysAssumption DEF Types, TypeOK
    <3>2. held' = IF down /\ held < LongPressDelay THEN held + 1 ELSE held
      BY <1>6 DEF Tick
    <3> QED
      BY <3>1, <3>2
  <2> QED
    BY <1>6, <2>1, <2>2 DEF Tick, Types, KeysRead, TypeOK, TimerRecord, menu
<1>7. ASSUME NEW t \in timers, Fire(t) PROVE Types'
  <2>1. t \in TimerRecord
    BY DEF Types, TypeOK, TimerRecord
  <2>2. [type |-> t.type, id |-> t.id, seen |-> keys] \in Event
    <3>1. keys \in 1..MaxKeys /\ t.id \in 1..MaxKeys /\ t.type \in TimerEvents
      BY <2>1 DEF Types, KeysRead, TypeOK, TimerRecord
    <3> QED
      BY <3>1 DEF Event
  <2>3. queue' \in Seq(Event)
    BY <1>7, <2>2, EnqueueTypes DEF Fire, Types
  <2> QED
    BY <1>7, <2>3 DEF Fire, Types, KeysRead, TypeOK, menu, device
<1>8. ASSUME NEW k \in KeyEvents, Key(k) PROVE Types'
  <2>0. keys' \in 1..MaxKeys /\ keys' = keys + 1
    BY <1>8 DEF Key, Types, TypeOK
  <2>1. press' \in 0..MaxKeys /\ held' \in 0..LongPressDelay
    BY <1>8, <2>0 DEF Key, Types, TypeOK
  <2>5. down' \in BOOLEAN
    BY <1>8, Zenon DEF Key, Types, TypeOK
  <2>6. down' => press' >= 1
    <3>1. CASE k = "AdjustPressed"
      BY <1>8, <2>0, <3>1 DEF Key
    <3>2. CASE k = "AdjustReleased"
      BY <1>8, <3>2 DEF Key
    <3>3. CASE k \notin {"AdjustPressed", "AdjustReleased"}
      <4>1. press' = press /\ down' = down
        BY <1>8, <3>3, Zenon DEF Key
      <4> QED
        BY <4>1, Zenon DEF Types, KeysRead
    <3> QED
      BY <3>1, <3>2, <3>3
  <2>2. [type |-> k, id |-> keys + 1, seen |-> keys + 1] \in Event
    BY <1>8, <2>0 DEF Key, Event
  <2>3. queue' \in Seq(Event)
    BY <1>8, <2>2, EnqueueTypes DEF Key, Types
  <2>4. todo' \in Seq(Calls)
    BY <1>8, CallsRestartCancel DEF Key
  <2> QED
    <3>1. keys' \in 0..MaxKeys /\ keys' >= 1
      BY <2>0
    <3> QED
      BY <1>8, <2>1, <2>3, <2>4, <2>5, <2>6, <3>1, Zenon
      DEF Key, Types, KeysRead, TypeOK, Calls, menu
<1>9. CASE RunEvent
  <2>1. Head(queue) \in Event /\ queue' \in Seq(Event)
    BY <1>9, HeadTailProperties DEF RunEvent, Types, TypeOK
  <2>2. vector' \in {"null", "shallow", "deep"} /\ index' \in 0..(DeepSize - 1)
    BY <1>9, <2>1 DEF RunEvent, Types, TypeOK, HidAdjust, HidAdjustPressed, HidAdjustReleased,
       HidCancelTimerFired, HidLongPressTimerFired, SetAdjustmentKnobState, menu, Size
  <2>3. knobState' \in KnobStates
    BY <1>9, <2>1 DEF RunEvent, Types, TypeOK, HidAdjust, HidAdjustPressed, HidAdjustReleased,
       HidCancelTimerFired, HidLongPressTimerFired, SetAdjustmentKnobState, menu, Event, KnobStates,
       KeyEvents, TimerEvents
  <2> QED
    BY <1>9, <2>1, <2>2, <2>3 DEF RunEvent, Types, KeysRead, TypeOK, device
<1>10. CASE UNCHANGED vars
  BY <1>10 DEF vars, device, menu, Types, KeysRead, TypeOK
<1> QED
  BY <1>1, <1>2, <1>3, <1>4, <1>5, <1>6, <1>7, <1>8, <1>9, <1>10 DEF Next, Input

\* The variables keep their types, whatever the sizes, delays and bounds.
THEOREM TypeCorrectness == Spec => []TypeOK
<1>1. Spec => []Types
  BY TypeInit, TypeStep, PTL DEF Spec
<1> QED
  BY <1>1, PTL DEF Types

-----------------------------------------------------------------------------
(* The index of the menu. *)

\* Every step keeps the index in its menu: vector and index change together.
LEMMA IndexStep == Types /\ IndexInRange /\ [Next]_vars => IndexInRange'
<1> SUFFICES ASSUME Types, IndexInRange, [Next]_vars PROVE IndexInRange'
  OBVIOUS
<1> USE SizesAssumption
<1>1. CASE UNCHANGED menu
  BY <1>1 DEF menu, IndexInRange
<1>2. CASE RunEvent
  BY <1>2 DEF RunEvent, Types, TypeOK, IndexInRange, HidAdjust, HidAdjustPressed,
     HidAdjustReleased, HidCancelTimerFired, HidLongPressTimerFired, SetAdjustmentKnobState,
     menu, Size
<1>3. UNCHANGED menu \/ RunEvent
  BY DEF Next, Plug, Unplug, Input, OpenFails, Wake, OpenSucceeds, ReadFails, Call, Tick, Fire,
     Key, vars
<1> QED
  BY <1>1, <1>2, <1>3

\* The index that the handlers use unchecked is inside the menu that is open
\* (Settings.cpp:414, 441, 448), for menus of any size.
THEOREM IndexAlwaysInRange == Spec => []IndexInRange
<1>1. Init => IndexInRange
  BY DEF Init, IndexInRange
<1>2. Spec => [](Types /\ IndexInRange)
  BY <1>1, TypeInit, TypeStep, IndexStep, PTL DEF Spec
<1> QED
  BY <1>2, PTL

-----------------------------------------------------------------------------
(* The timers. *)

Among(c, s) == \E j \in 1..Len(s) : s[j] = c

\* A call is still to be made if it is the next one or among those after it.
LEMMA AmongTail ==
    ASSUME NEW s \in Seq(Calls), s # <<>>, NEW c
    PROVE  Among(c, s) <=> Head(s) = c \/ Among(c, Tail(s))
<1>1. /\ Tail(s) \in Seq(Calls) /\ Len(s) \in Nat \ {0} /\ Len(Tail(s)) = Len(s) - 1
      /\ Head(s) = s[1]
      /\ \A j \in 1..Len(Tail(s)) : Tail(s)[j] = s[j + 1]
  BY HeadTailProperties, LenProperties, EmptySeq
<1>2. ASSUME Among(c, s) PROVE Head(s) = c \/ Among(c, Tail(s))
  <2>1. PICK j \in 1..Len(s) : s[j] = c
    BY <1>2 DEF Among
  <2>2. CASE j = 1
    BY <1>1, <2>1, <2>2
  <2>3. CASE j # 1
    <3>1. j - 1 \in 1..Len(Tail(s)) /\ (j - 1) + 1 = j
      BY <1>1, <2>3
    <3>2. Tail(s)[j - 1] = s[(j - 1) + 1]
      BY ONLY <1>1, <3>1
    <3> QED
      BY <2>1, <3>1, <3>2 DEF Among
  <2> QED
    BY <2>2, <2>3
<1>3. ASSUME Head(s) = c PROVE Among(c, s)
  <2>1. 1 \in 1..Len(s)
    BY <1>1
  <2> QED
    BY <1>1, <1>3, <2>1 DEF Among
<1>4. ASSUME Among(c, Tail(s)) PROVE Among(c, s)
  <2>1. PICK j \in 1..Len(Tail(s)) : Tail(s)[j] = c
    BY <1>4 DEF Among
  <2>2. j + 1 \in 1..Len(s) /\ s[j + 1] = c
    BY <1>1, <2>1
  <2> QED
    BY <2>2 DEF Among
<1> QED
  BY <1>2, <1>3, <1>4

\* Between handlers no call is still to be made.
LEMMA AmongEmpty == \A c : ~Among(c, <<>>)
  BY EmptySeq DEF Among

\* The cancel timer is the one that the last key started, but while the handler
\* of that key has not got rid of the one before.
CancelTimersFresh ==
    \A t \in timers : t.type = "CancelTimerFired" =>
        /\ t.id >= keys - 1
        /\ ~Among("oldCancel", todo) => t.id >= keys

\* Every step keeps the cancel timer that of the last key, or of the one before
\* while the last key's handler runs.
LEMMA TimerStep == Types /\ CancelTimersFresh /\ [Next]_vars => CancelTimersFresh'
<1> SUFFICES ASSUME Types, CancelTimersFresh, [Next]_vars,
                    NEW t \in timers', t.type = "CancelTimerFired"
             PROVE  /\ t.id >= keys' - 1
                    /\ ~Among("oldCancel", todo') => t.id >= keys'
  BY DEF CancelTimersFresh
<1>0. keys \in Nat /\ todo \in Seq(Calls) /\ timers \subseteq TimerRecord
  BY BoundsAssumption DEF Types, TypeOK, Calls, TimerRecord
<1>1. CASE UNCHANGED <<timers, keys, todo>>
  BY <1>1 DEF CancelTimersFresh
<1>2. CASE Tick
  <2>1. PICK u \in timers : t = [u EXCEPT !.left = @ - 1]
    BY <1>2 DEF Tick
  <2>2. t.type = u.type /\ t.id = u.id
    BY <1>0, <2>1 DEF TimerRecord
  <2> QED
    BY <1>2, <2>2 DEF Tick, CancelTimersFresh
<1>3. CASE \E u \in timers : Fire(u)
  <2>1. t \in timers /\ UNCHANGED <<keys, todo>>
    BY <1>3 DEF Fire
  <2> QED
    BY <2>1 DEF CancelTimersFresh
<1>4. ASSUME NEW k \in KeyEvents, Key(k)
      PROVE  t.id >= keys' - 1 /\ Among("oldCancel", todo')
  <2>1. t \in timers /\ todo = <<>> /\ keys' = keys + 1 /\ todo' = CallsAfter(k)
    BY <1>4 DEF Key
  <2>2. t.id >= keys
    BY <2>1, AmongEmpty DEF CancelTimersFresh
  <2>3. Among("oldCancel", todo')
    <3>1. Len(CallsAfter(k)) \in Nat
      BY CallsRestartCancel, LenProperties
    <3>2. 2 \in 1..Len(CallsAfter(k))
      BY <3>1, CallsRestartCancel
    <3> QED
      BY <2>1, <3>2, CallsRestartCancel DEF Among
  <2>4. t.id \in Nat
    BY <1>0, <2>1 DEF TimerRecord
  <2> QED
    BY <1>0, <2>1, <2>2, <2>3, <2>4
<1>5. CASE Call
  <2>1. todo # <<>> /\ todo' = Tail(todo) /\ keys' = keys
    BY <1>5 DEF Call
  <2>2. Among("oldCancel", todo) <=> Head(todo) = "oldCancel" \/ Among("oldCancel", todo')
    BY <1>0, <2>1, AmongTail
  <2>3. CASE Head(todo) \in {"newCancel", "newLongPress"}
    <3>1. t \in timers \/ t.id = keys
      <4>1. CASE Head(todo) = "newCancel"
        <5>1. timers' = timers \cup {[type |-> "CancelTimerFired", id |-> keys, left |-> CancelDelay]}
          BY <1>5, <4>1 DEF Call, NewTimer
        <5> QED
          BY <5>1
      <4>2. CASE Head(todo) = "newLongPress"
        <5>1. timers' = timers \cup {[type |-> "LongPressTimerFired", id |-> keys, left |-> LongPressDelay]}
          BY <1>5, <4>2 DEF Call, NewTimer
        <5> QED
          BY <5>1
      <4> QED
        BY <2>3, <4>1, <4>2
    <3>2. CASE t \in timers
      BY <2>1, <2>2, <2>3, <3>2 DEF CancelTimersFresh
    <3>3. CASE t.id = keys
      BY <1>0, <2>1, <3>3
    <3> QED
      BY <3>1, <3>2, <3>3
  <2>4. CASE Head(todo) = "oldCancel"
    <3>1. t \in timers /\ t.id = keys
      BY <1>5, <2>4 DEF Call, OldTimersGone
    <3> QED
      BY <1>0, <2>1, <3>1
  <2>5. CASE Head(todo) \in {"oldLongPress", "noLongPress"}
    <3>1. t \in timers
      BY <1>5, <2>5 DEF Call, OldTimersGone
    <3> QED
      BY <2>1, <2>2, <2>5, <3>1 DEF CancelTimersFresh
  <2>6. Head(todo) \in Calls
    BY <1>0, <2>1, HeadTailProperties
  <2> QED
    BY <2>3, <2>4, <2>5, <2>6 DEF Calls
<1>6. \/ UNCHANGED <<timers, keys, todo>> \/ Tick \/ \E u \in timers : Fire(u)
      \/ \E k \in KeyEvents : Key(k)
      \/ Call
  BY DEF Next, Plug, Unplug, Input, OpenFails, Wake, OpenSucceeds, ReadFails, RunEvent, vars
<1> QED
  BY <1>1, <1>2, <1>3, <1>4, <1>5, <1>6

\* What an event put behind others, or taken from before them, leaves of a
\* property of each of them.
LEMMA StaleStep == Types /\ CancelTimersFresh /\ CancelStaleByOne /\ [Next]_vars => CancelStaleByOne'
<1> SUFFICES ASSUME Types, CancelTimersFresh, CancelStaleByOne, [Next]_vars
             PROVE  CancelStaleByOne'
  OBVIOUS
<1> DEFINE Timely(e) == e.type = "CancelTimerFired" => e.seen <= e.id + 1
<1>0. queue \in Seq(Event) /\ keys \in Nat
  BY BoundsAssumption DEF Types, TypeOK
<1>1. CASE UNCHANGED queue
  BY <1>1 DEF CancelStaleByOne
<1>2. ASSUME NEW e \in Event, Enqueue(e), Timely(e) PROVE CancelStaleByOne'
  <2>1. queue' = Append(queue, e) /\ Len(queue) \in Nat
    BY <1>0, <1>2, LenProperties DEF Enqueue
  <2>2. /\ Len(queue') = Len(queue) + 1
        /\ \A i \in 1..Len(queue) : queue'[i] = queue[i]
        /\ queue'[Len(queue) + 1] = e
    BY <1>0, <2>1, AppendProperties
  <2> SUFFICES ASSUME NEW i \in 1..Len(queue') PROVE Timely(queue'[i])
    BY DEF CancelStaleByOne
  <2>3. CASE i \in 1..Len(queue)
    <3>1. Timely(queue[i])
      BY <2>3 DEF CancelStaleByOne
    <3> QED
      BY <2>2, <2>3, <3>1
  <2>4. CASE i = Len(queue) + 1
    BY <1>2, <2>2, <2>4
  <2> QED
    BY <2>1, <2>2, <2>3, <2>4
<1>3. ASSUME NEW u \in timers, Fire(u) PROVE CancelStaleByOne'
  <2> DEFINE e == [type |-> u.type, id |-> u.id, seen |-> keys]
  <2>1. u.type \in TimerEvents /\ u.id \in 1..MaxKeys /\ keys \in 0..MaxKeys
    BY DEF Types, TypeOK
  <2>2. keys \in 1..MaxKeys
    BY <2>1 DEF Types, KeysRead
  <2>3. e \in Event
    BY <2>1, <2>2 DEF Event
  <2>4. Timely(e)
    <3>1. ASSUME u.type = "CancelTimerFired" PROVE keys <= u.id + 1
      <4>1. u.id >= keys - 1
        BY <3>1 DEF CancelTimersFresh
      <4> QED
        BY <1>0, <2>1, <4>1
    <3> QED
      BY <3>1
  <2> QED
    BY <1>2, <1>3, <2>3, <2>4 DEF Fire
<1>4. ASSUME NEW k \in KeyEvents, Key(k) PROVE CancelStaleByOne'
  <2>1. keys + 1 \in 1..MaxKeys
    BY <1>0, <1>4, BoundsAssumption DEF Key
  <2>2. [type |-> k, id |-> keys + 1, seen |-> keys + 1] \in Event
    BY <2>1 DEF Event
  <2>3. Timely([type |-> k, id |-> keys + 1, seen |-> keys + 1])
    BY DEF KeyEvents
  <2> QED
    BY <1>2, <1>4, <2>2, <2>3 DEF Key
<1>5. CASE OpenFails \/ OpenSucceeds
  <2>1. PICK s \in {"DISCONNECTED", "CONNECTED"} : Enqueue([type |-> "Knob", state |-> s])
    BY <1>5 DEF OpenFails, OpenSucceeds
  <2>2. [type |-> "Knob", state |-> s] \in Event
    BY DEF Event, KnobStates
  <2> QED
    BY <1>2, <2>1, <2>2
<1>6. CASE RunEvent
  <2>1. queue # <<>> /\ queue' = Tail(queue)
    BY <1>6 DEF RunEvent
  <2>2. /\ Len(queue') = Len(queue) - 1
        /\ \A i \in 1..Len(queue') : queue'[i] = queue[i + 1]
        /\ Len(queue) \in Nat
    BY <1>0, <2>1, HeadTailProperties, LenProperties
  <2> SUFFICES ASSUME NEW i \in 1..Len(queue') PROVE Timely(queue'[i])
    BY DEF CancelStaleByOne
  <2>3. i + 1 \in 1..Len(queue)
    BY <2>2
  <2>4. Timely(queue[i + 1])
    BY <2>3 DEF CancelStaleByOne
  <2> QED
    BY <2>2, <2>4
<1> QED
  BY <1>1, <1>3, <1>4, <1>5, <1>6
  DEF Next, Plug, Unplug, Input, Wake, ReadFails, Call, Tick, vars

\* A cancel event overtaken by the keys after its timer is overtaken by one of
\* them at most, for any delays and any number of keys: between two keys the
\* handler of the first got rid of every older timer (Settings.cpp:103-110).
THEOREM CancelAlwaysStaleByOne == Spec => []CancelStaleByOne
<1>1. Init => CancelTimersFresh /\ CancelStaleByOne
  BY EmptySeq DEF Init, CancelTimersFresh, CancelStaleByOne
<1>2. Spec => [](Types /\ CancelTimersFresh /\ CancelStaleByOne)
  BY <1>1, TypeInit, TypeStep, TimerStep, StaleStep, PTL DEF Spec
<1> QED
  BY <1>2, PTL

-----------------------------------------------------------------------------
(* Taps and long presses. *)

\* Only a press starts the long-press timer, and a release stops it.
LEMMA CallsLongPress ==
    /\ \A k \in KeyEvents \ {"AdjustPressed"} : ~Among("newLongPress", CallsAfter(k))
    /\ Among("noLongPress", CallsAfter("AdjustReleased"))
<1> DEFINE Others == Calls \ {"newLongPress"}
<1>1. RestartCancelTimer \in Seq(Others) /\ Len(RestartCancelTimer) = 2
  BY DEF RestartCancelTimer, Calls
<1>2. StopLongPressTimer \in Seq(Others) /\ Len(StopLongPressTimer) = 1
         /\ StopLongPressTimer[1] = "noLongPress"
  BY DEF StopLongPressTimer, Calls
<1> DEFINE released == RestartCancelTimer \o StopLongPressTimer
<1>3. /\ released \in Seq(Others)
      /\ Len(released) = Len(RestartCancelTimer) + Len(StopLongPressTimer)
      /\ \A i \in 1..(Len(RestartCancelTimer) + Len(StopLongPressTimer)) :
            released[i] = IF i <= Len(RestartCancelTimer) THEN RestartCancelTimer[i]
                          ELSE StopLongPressTimer[i - Len(RestartCancelTimer)]
  BY <1>1, <1>2, ConcatProperties
<1>4. \A s \in Seq(Others) : ~Among("newLongPress", s)
  <2> SUFFICES ASSUME NEW s \in Seq(Others), NEW j \in 1..Len(s) PROVE s[j] # "newLongPress"
    BY DEF Among
  <2>1. s[j] \in Others
    BY LenProperties
  <2> QED
    BY <2>1
<1>5. Among("noLongPress", released)
  <2>1. 3 \in 1..(Len(RestartCancelTimer) + Len(StopLongPressTimer))
           /\ ~(3 <= Len(RestartCancelTimer)) /\ 3 - Len(RestartCancelTimer) = 1
    BY <1>1, <1>2
  <2>2. released[3] = StopLongPressTimer[1]
    BY <1>3, <2>1
  <2> HIDE DEF released
  <2> QED
    BY <1>2, <1>3, <2>1, <2>2 DEF Among
<1>6. ASSUME NEW k \in {"Increment", "Decrement"} PROVE CallsAfter(k) = RestartCancelTimer
  BY DEF CallsAfter
<1>7. CallsAfter("AdjustReleased") = released
  BY DEF CallsAfter
<1> HIDE DEF released, Others
<1>8. ASSUME NEW k \in KeyEvents \ {"AdjustPressed"} PROVE ~Among("newLongPress", CallsAfter(k))
  <2>1. CASE k = "AdjustReleased"
    BY <1>3, <1>4, <1>7, <2>1
  <2>2. CASE k # "AdjustReleased"
    <3>1. k \in {"Increment", "Decrement"}
      BY <2>2 DEF KeyEvents
    <3> QED
      BY <1>1, <1>4, <1>6, <3>1
  <2> QED
    BY <2>1, <2>2
<1> QED
  BY <1>5, <1>7, <1>8

IsLongPress(t) == t.type = "LongPressTimerFired"

\* A long-press timer belongs to a press that was cut short, or to the last
\* press: it has as much time left as the button must still be held, and if the
\* button is up the handler of the release has yet to stop it.
OfPress(t) ==
    \/ t.id \in lost
    \/ /\ t.id = press
       /\ held = LongPressDelay \/ t.left = LongPressDelay - held
       /\ down \/ Among("noLongPress", todo)

HeldCounts ==
    /\ \A t \in timers : IsLongPress(t) => OfPress(t)
    /\ Among("newLongPress", todo) =>
            keys = press /\ (press \in lost \/ (down /\ held = 0))

\* Every step keeps the count of how long the button was held with the timer.
LEMMA HeldStep == Types /\ HeldCounts /\ [Next]_vars => HeldCounts'
<1> SUFFICES ASSUME Types, HeldCounts, [Next]_vars PROVE HeldCounts'
  OBVIOUS
<1>0. /\ keys \in Nat /\ todo \in Seq(Calls) /\ timers \subseteq TimerRecord
      /\ held \in 0..LongPressDelay /\ LongPressDelay \in Nat
  BY BoundsAssumption, DelaysAssumption DEF Types, TypeOK, Calls, TimerRecord
<1>1. CASE UNCHANGED <<timers, keys, todo, press, held, lost, down>>
  BY <1>1 DEF HeldCounts, OfPress
<1>2. CASE Unplug
  <2>1. UNCHANGED <<timers, keys, todo, press, held>> /\ down' = FALSE
          /\ lost' = IF down THEN lost \cup {press} ELSE lost
    BY <1>2 DEF Unplug
  <2>2. ASSUME NEW t \in timers, IsLongPress(t) PROVE OfPress(t)'
    <3>1. OfPress(t)
      BY <2>2 DEF HeldCounts
    <3>2. CASE down
      BY <2>1, <3>1, <3>2 DEF OfPress
    <3>3. CASE ~down
      BY <2>1, <3>1, <3>3 DEF OfPress
    <3> QED
      BY <3>2, <3>3
  <2>3. Among("newLongPress", todo) => keys = press /\ press \in lost'
    BY <2>1 DEF HeldCounts
  <2> QED
    BY <2>1, <2>2, <2>3 DEF HeldCounts
<1>3. CASE Tick
  <2>1. /\ todo = <<>> /\ todo' = todo /\ UNCHANGED <<keys, press, lost, down>>
        /\ held' = IF down /\ held < LongPressDelay THEN held + 1 ELSE held
    BY <1>3 DEF Tick
  <2>2. ASSUME NEW t \in timers', IsLongPress(t) PROVE OfPress(t)'
    <3>1. PICK u \in timers : t = [u EXCEPT !.left = @ - 1]
      BY <1>3, <2>2 DEF Tick
    <3>2. t.type = u.type /\ t.id = u.id /\ t.left = u.left - 1 /\ u.left \in Int
      BY <1>0, <3>1, DelaysAssumption DEF TimerRecord
    <3>3. OfPress(u)
      BY <2>2, <3>2 DEF HeldCounts, IsLongPress
    <3>4. CASE u.id \in lost
      BY <2>1, <3>2, <3>4 DEF OfPress
    <3>5. CASE u.id \notin lost
      <4>1. u.id = press /\ down /\ (held = LongPressDelay \/ u.left = LongPressDelay - held)
        BY <2>1, <3>3, <3>5, AmongEmpty DEF OfPress
      <4>2. held' = LongPressDelay \/ t.left = LongPressDelay - held'
        BY <1>0, <2>1, <3>2, <4>1
      <4> QED
        BY <2>1, <3>2, <4>1, <4>2 DEF OfPress
    <3> QED
      BY <3>4, <3>5
  <2>3. ~Among("newLongPress", todo')
    BY <2>1, AmongEmpty
  <2> QED
    BY <2>2, <2>3 DEF HeldCounts
<1>4. CASE \E u \in timers : Fire(u)
  <2>1. timers' \subseteq timers /\ UNCHANGED <<keys, todo, press, held, lost, down>>
    BY <1>4 DEF Fire, device
  <2> QED
    BY <2>1 DEF HeldCounts, OfPress
<1>5. ASSUME NEW k \in KeyEvents, Key(k) PROVE HeldCounts'
  <2>1. /\ todo = <<>> /\ todo' = CallsAfter(k) /\ keys' = keys + 1
        /\ UNCHANGED <<timers, lost>>
    BY <1>5 DEF Key
  <2>2. \A t \in timers : IsLongPress(t) =>
            \/ t.id \in lost
            \/ t.id = press /\ down /\ (held = LongPressDelay \/ t.left = LongPressDelay - held)
    BY <2>1, AmongEmpty DEF HeldCounts, OfPress
  <2>3. CASE k = "AdjustPressed"
    <3>1. ~down /\ down' = TRUE /\ held' = 0 /\ press' = keys + 1
      BY <1>5, <2>3 DEF Key
    <3> QED
      BY <2>1, <2>2, <3>1 DEF HeldCounts, OfPress
  <2>4. CASE k = "AdjustReleased"
    <3>1. UNCHANGED <<held, press>>
      BY <1>5, <2>4 DEF Key
    <3>2. Among("noLongPress", todo') /\ ~Among("newLongPress", todo')
      BY <2>1, <2>4, CallsLongPress DEF KeyEvents
    <3> QED
      BY <2>1, <2>2, <3>1, <3>2 DEF HeldCounts, OfPress
  <2>5. CASE k \in {"Increment", "Decrement"}
    <3>1. UNCHANGED <<held, press>> /\ down' = down
      BY <1>5, <2>5 DEF Key
    <3>2. ~Among("newLongPress", todo')
      BY <2>1, <2>5, CallsLongPress DEF KeyEvents
    <3> QED
      BY <2>1, <2>2, <3>1, <3>2 DEF HeldCounts, OfPress
  <2> QED
    BY <2>3, <2>4, <2>5 DEF KeyEvents
<1>6. CASE Call
  <2>1. /\ todo # <<>> /\ todo' = Tail(todo) /\ Head(todo) \in Calls
        /\ UNCHANGED <<keys, press, held, lost, down>>
    BY <1>0, <1>6, HeadTailProperties DEF Call, device
  <2>2. \A c : Among(c, todo) <=> Head(todo) = c \/ Among(c, todo')
    BY <1>0, <2>1, AmongTail
  <2>3. Among("newLongPress", todo') =>
            keys' = press' /\ (press' \in lost' \/ (down' /\ held' = 0))
    BY <2>1, <2>2 DEF HeldCounts
  <2>4. ASSUME NEW t \in timers, IsLongPress(t), Head(todo) # "noLongPress" PROVE OfPress(t)'
    <3>1. OfPress(t)
      BY <2>4 DEF HeldCounts
    <3>2. Among("noLongPress", todo) => Among("noLongPress", todo')
      BY <2>2, <2>4
    <3> QED
      BY <2>1, <3>1, <3>2 DEF OfPress
  <2>5. ASSUME NEW t \in timers', IsLongPress(t) PROVE OfPress(t)'
    <3>1. CASE Head(todo) = "newCancel"
      <4>1. timers' = timers \cup {[type |-> "CancelTimerFired", id |-> keys, left |-> CancelDelay]}
        BY <1>6, <3>1 DEF Call, NewTimer
      <4>2. t \in timers
        BY <2>5, <4>1 DEF IsLongPress
      <4> QED
        BY <2>4, <2>5, <3>1, <4>2
    <3>2. CASE Head(todo) = "newLongPress"
      <4> DEFINE new == [type |-> "LongPressTimerFired", id |-> keys, left |-> LongPressDelay]
      <4>1. timers' = timers \cup {new}
        BY <1>6, <3>2 DEF Call, NewTimer
      <4>2. CASE t \in timers
        BY <2>4, <2>5, <3>2, <4>2
      <4>3. CASE t = new
        <5>1. t.id = keys /\ t.left = LongPressDelay
          BY <4>3
        <5>2. keys = press /\ (press \in lost \/ (down /\ held = 0))
          BY <2>2, <3>2 DEF HeldCounts
        <5>3. held = 0 => t.left = LongPressDelay - held
          BY <1>0, <5>1
        <5> QED
          BY <2>1, <5>1, <5>2, <5>3 DEF OfPress
      <4> QED
        BY <2>5, <4>1, <4>2, <4>3
    <3>3. CASE Head(todo) \in {"oldCancel", "oldLongPress"}
      <4>1. t \in timers
        BY <1>6, <2>5, <3>3 DEF Call, OldTimersGone
      <4> QED
        BY <2>4, <2>5, <3>3, <4>1
    <3>4. CASE Head(todo) = "noLongPress"
      <4>1. timers' = {u \in timers : u.type # "LongPressTimerFired"}
        BY <1>6, <3>4 DEF Call
      <4> QED
        BY <2>5, <4>1 DEF IsLongPress
    <3> QED
      BY <2>1, <3>1, <3>2, <3>3, <3>4 DEF Calls
  <2> QED
    BY <2>3, <2>5 DEF HeldCounts
<1>7. \/ UNCHANGED <<timers, keys, todo, press, held, lost, down>>
      \/ Unplug \/ Tick \/ (\E u \in timers : Fire(u)) \/ (\E k \in KeyEvents : Key(k)) \/ Call
  BY DEF Next, Plug, Input, OpenFails, Wake, OpenSucceeds, ReadFails, RunEvent, vars, device
<1> QED
  BY <1>1, <1>2, <1>3, <1>4, <1>5, <1>6, <1>7

\* The long-press timer fires only for a button that was held for its whole
\* delay, or that was held when the knob was unplugged (Settings.cpp:80, 97-99).
THEOREM OnlyLongPressesFire == Spec => LongPressMeansHeld
<1>1. Init => HeldCounts
  BY AmongEmpty DEF Init, HeldCounts
<1>2. Spec => [](Types /\ HeldCounts)
  BY <1>1, TypeInit, TypeStep, HeldStep, PTL DEF Spec
<1>3. ASSUME Types, HeldCounts, NEW t \in timers, IsLongPress(t), Fire(t)
      PROVE  (t.id = press /\ held = LongPressDelay) \/ t.id \in lost
  <2>1. OfPress(t) /\ t.left <= 0
    BY <1>3 DEF HeldCounts, Fire
  <2>2. held \in 0..LongPressDelay /\ t.left \in Int /\ LongPressDelay \in Nat
    BY DelaysAssumption, <1>3 DEF Types, TypeOK
  <2> QED
    BY <2>1, <2>2 DEF OfPress
<1>4. Types /\ HeldCounts /\ [Next]_vars =>
        [\A t \in timers : t.type = "LongPressTimerFired" /\ Fire(t) =>
            \/ t.id = press /\ held = LongPressDelay
            \/ t.id \in lost]_vars
  BY <1>3 DEF IsLongPress
<1>5. Spec => [][\A t \in timers : t.type = "LongPressTimerFired" /\ Fire(t) =>
                    \/ t.id = press /\ held = LongPressDelay
                    \/ t.id \in lost]_vars
  BY <1>2, <1>4, PTL DEF Spec
<1> QED
  BY <1>5 DEF LongPressMeansHeld
=============================================================================
