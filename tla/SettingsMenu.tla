---------------------------- MODULE SettingsMenu ----------------------------
(* The adjustment knob and its menu: the input thread of SettingsEventSource  *)
(* (model/Settings.cpp:49-122), the two timers it restarts, the event queue   *)
(* it shares with them, and the menu that the UI thread keeps in Settings.    *)
(*                                                                            *)
(* The queue is the abstract one of EventQueue and a timer that of Timer: it  *)
(* fires at most once, and never after its cancel.  A handler of the input    *)
(* thread is not atomic: a timer may fire between any two of its calls.       *)
EXTENDS Integers, Sequences, FiniteSets

CONSTANTS
    ShallowSize, DeepSize,  \* sizes of adjustmentParamsShallow_ and ...Deep_
    CancelDelay,            \* kCancelDelay, in ticks
    LongPressDelay,         \* kLongPressDelay, in ticks
    MaxLag,                 \* ticks a timer thread may be late
    MaxKeys,                \* bound: key events the knob makes
    MaxUnplugs,             \* bound: times the knob is unplugged
    MaxQueue                \* bound: knob events enqueued while the UI is busy

ASSUME SizesAssumption == DeepSize \in Nat /\ ShallowSize \in 1..DeepSize
ASSUME DelaysAssumption ==
    /\ LongPressDelay \in Nat \ {0} /\ CancelDelay \in Nat /\ MaxLag \in Nat
    /\ LongPressDelay + MaxLag < CancelDelay
ASSUME BoundsAssumption == MaxKeys \in Nat /\ MaxUnplugs \in Nat /\ MaxQueue \in Nat

VARIABLES
    plugged,                \* the device file exists
    unplugs,                \* how often it went away
    down,                   \* the button is held
    held,                   \* history: ticks the last press lasted, so far
    press,                  \* history: the key event of the last press
    lost,                   \* history: the presses cut short by an unplug
    ipc,                    \* the input thread: open, sleep, read, or read from
                            \* a device that is gone
    todo,                   \* the calls left of the key handler being run
    keys,                   \* key events read so far
    timers,                 \* the armed timers
    queue,                  \* events waiting for the UI thread
    vector,                 \* currentAdjustingVector_: null, shallow or deep
    index,                  \* currentAdjustingIndex_
    knobState               \* adjustmentKnobState_

device == <<plugged, unplugs, down, held, press, lost>>
menu == <<vector, index, knobState>>
vars == <<device, ipc, todo, keys, timers, queue, menu>>

KeyEvents == {"Increment", "Decrement", "AdjustPressed", "AdjustReleased"}
TimerEvents == {"CancelTimerFired", "LongPressTimerFired"}
KnobStates == {"UNKNOWN", "DISCONNECTED", "CONNECTED"}

\* What a key or timer event carries: "id" is the key that caused it (for a
\* timer, the key that started it) and "seen" the keys read when it was enqueued.
Event == [type : KeyEvents \cup TimerEvents, id : 1..MaxKeys, seen : 1..MaxKeys]
            \cup [type : {"Knob"}, state : KnobStates \ {"UNKNOWN"}]

Init ==
    /\ plugged \in BOOLEAN
    /\ unplugs = 0
    /\ down = FALSE
    /\ held = 0
    /\ press = 0
    /\ lost = {}
    /\ ipc = "open"
    /\ todo = <<>>
    /\ keys = 0
    /\ timers = {}
    /\ queue = <<>>
    /\ vector = "null"
    /\ index = 0
    /\ knobState = "UNKNOWN"

Enqueue(e) == queue' = Append(queue, e)

-----------------------------------------------------------------------------
(* The device: the pilot plugs, unplugs, turns and presses the knob. *)

Plug ==
    /\ ~plugged
    /\ plugged' = TRUE
    /\ UNCHANGED <<unplugs, down, held, press, lost, ipc, todo, keys, timers, queue, menu>>

Unplug ==
    /\ plugged
    /\ unplugs < MaxUnplugs
    /\ plugged' = FALSE
    /\ unplugs' = unplugs + 1
    /\ down' = FALSE
    /\ lost' = IF down THEN lost \cup {press} ELSE lost
    /\ ipc' = IF ipc = "read" THEN "gone" ELSE ipc
    /\ UNCHANGED <<held, press, todo, keys, timers, queue, menu>>

-----------------------------------------------------------------------------
(* The input thread, Settings.cpp:49-100. *)

\* open() fails: report DISCONNECTED and sleep.
OpenFails ==
    /\ ipc = "open"
    /\ ~plugged
    /\ Len(queue) < MaxQueue
    /\ Enqueue([type |-> "Knob", state |-> "DISCONNECTED"])
    /\ ipc' = "sleep"
    /\ UNCHANGED <<device, todo, keys, timers, menu>>

Wake ==
    /\ ipc = "sleep"
    /\ ipc' = "open"
    /\ UNCHANGED <<device, todo, keys, timers, queue, menu>>

OpenSucceeds ==
    /\ ipc = "open"
    /\ plugged
    /\ Len(queue) < MaxQueue
    /\ Enqueue([type |-> "Knob", state |-> "CONNECTED"])
    /\ ipc' = "read"
    /\ UNCHANGED <<device, todo, keys, timers, menu>>

\* read() fails, even if the knob is back: close the device and start over.
\* The timers stay.
ReadFails ==
    /\ ipc = "gone"
    /\ todo = <<>>
    /\ ipc' = "open"
    /\ UNCHANGED <<device, todo, keys, timers, queue, menu>>

\* The calls that follow the enqueue in the handler of each key event.  reset()
\* creates the new timer before it destroys the old one.
RestartCancelTimer == <<"newCancel", "oldCancel">>
RestartLongPressTimer == <<"newLongPress", "oldLongPress">>
StopLongPressTimer == <<"noLongPress">>

\* Mutant: turning down does not restart the timer that closes the menu.
CallsAfterForgetful(k) ==
    CASE k = "Decrement" -> <<>>
      [] k = "Increment" -> RestartCancelTimer
      [] k = "AdjustPressed" -> RestartCancelTimer \o RestartLongPressTimer
      [] k = "AdjustReleased" -> RestartCancelTimer \o StopLongPressTimer

\* Mutant: a release leaves the long-press timer running.
CallsAfterNoStop(k) ==
    IF k = "AdjustPressed" THEN RestartCancelTimer \o RestartLongPressTimer
                           ELSE RestartCancelTimer

CallsAfter(k) ==
    CASE k \in {"Increment", "Decrement"} -> RestartCancelTimer
      [] k = "AdjustPressed" -> RestartCancelTimer \o RestartLongPressTimer
      [] k = "AdjustReleased" -> RestartCancelTimer \o StopLongPressTimer

\* read() returns a key event: it is enqueued first.
Key(k) ==
    /\ ipc = "read"
    /\ todo = <<>>
    /\ keys < MaxKeys
    /\ k = "AdjustPressed" => ~down
    /\ k = "AdjustReleased" => down
    /\ keys' = keys + 1
    /\ Enqueue([type |-> k, id |-> keys + 1, seen |-> keys + 1])
    /\ todo' = CallsAfter(k)
    /\ down' = CASE k = "AdjustPressed" -> TRUE
                 [] k = "AdjustReleased" -> FALSE
                 [] OTHER -> down
    /\ held' = IF k = "AdjustPressed" THEN 0 ELSE held
    /\ press' = IF k = "AdjustPressed" THEN keys + 1 ELSE press
    /\ UNCHANGED <<plugged, unplugs, lost, ipc, timers, menu>>

\* new OneShotTimer(delay, ..): the thread of the timer is running.
NewTimer(type, delay) ==
    timers' = timers \cup {[type |-> type, id |-> keys, left |-> delay]}

\* Mutant: the old timer is let go of, not cancelled.
OldTimersLeak(type) == UNCHANGED timers

\* The end of reset(): the timers of this type are cancelled and joined, but
\* for the new one.
OldTimersGone(type) ==
    timers' = {t \in timers : t.type = type => t.id = keys}

Call ==
    /\ todo # <<>>
    /\ todo' = Tail(todo)
    /\ CASE Head(todo) = "newCancel" -> NewTimer("CancelTimerFired", CancelDelay)
         [] Head(todo) = "oldCancel" -> OldTimersGone("CancelTimerFired")
         [] Head(todo) = "newLongPress" -> NewTimer("LongPressTimerFired", LongPressDelay)
         [] Head(todo) = "oldLongPress" -> OldTimersGone("LongPressTimerFired")
         [] Head(todo) = "noLongPress" ->
                timers' = {t \in timers : t.type # "LongPressTimerFired"}
    /\ UNCHANGED <<device, ipc, keys, queue, menu>>

Input == OpenFails \/ Wake \/ OpenSucceeds \/ ReadFails \/ Call

-----------------------------------------------------------------------------
(* Time and the timers' threads. *)

\* A tick passes.  Threads are prompt at this scale: a key handler takes less
\* than a tick, and a timer fires at most MaxLag ticks after it is due.
Tick ==
    /\ todo = <<>>
    /\ timers # {}
    /\ \A t \in timers : t.left > -MaxLag
    /\ timers' = {[t EXCEPT !.left = @ - 1] : t \in timers}
    /\ held' = IF down /\ held < LongPressDelay THEN held + 1 ELSE held
    /\ UNCHANGED <<plugged, unplugs, down, press, lost, ipc, todo, keys, queue,
                   menu>>

\* A due timer enqueues its event; its thread returns.
Fire(t) ==
    /\ t.left <= 0
    /\ timers' = timers \ {t}
    /\ Enqueue([type |-> t.type, id |-> t.id, seen |-> keys])
    /\ UNCHANGED <<device, ipc, todo, keys, menu>>

-----------------------------------------------------------------------------
(* The handlers of Settings, run by the UI thread. *)

Size(v) == IF v = "shallow" THEN ShallowSize ELSE DeepSize

\* startAdjustingShallow() leaves an open menu alone.
HidAdjust ==
    /\ vector' = IF vector = "null" THEN "shallow" ELSE vector
    /\ index' = IF vector = "null" THEN 0 ELSE index
    /\ UNCHANGED knobState

\* nextAdjustment()
HidAdjustPressed ==
    /\ vector' = IF vector = "null" THEN "shallow" ELSE vector
    /\ index' = IF vector = "null" THEN 0 ELSE (index + 1) % Size(vector)
    /\ UNCHANGED knobState

HidAdjustReleased == UNCHANGED menu

HidCancelTimerFired ==
    /\ vector' = IF vector = "shallow" THEN "null" ELSE vector
    /\ index' = IF vector = "shallow" THEN 0 ELSE index
    /\ UNCHANGED knobState

\* Mutant: the position in the menu survives the change of menu.
LongPressKeepsIndex ==
    /\ vector' = IF vector = "deep" THEN "shallow" ELSE "deep"
    /\ UNCHANGED <<index, knobState>>

HidLongPressTimerFired ==
    /\ vector' = IF vector = "deep" THEN "shallow" ELSE "deep"
    /\ index' = 0
    /\ UNCHANGED knobState

SetAdjustmentKnobState(s) ==
    /\ knobState' = s
    /\ UNCHANGED <<vector, index>>

RunEvent ==
    /\ queue # <<>>
    /\ queue' = Tail(queue)
    /\ LET e == Head(queue)
       IN  \/ e.type \in {"Increment", "Decrement"} /\ HidAdjust
           \/ e.type = "AdjustPressed" /\ HidAdjustPressed
           \/ e.type = "AdjustReleased" /\ HidAdjustReleased
           \/ e.type = "CancelTimerFired" /\ HidCancelTimerFired
           \/ e.type = "LongPressTimerFired" /\ HidLongPressTimerFired
           \/ e.type = "Knob" /\ SetAdjustmentKnobState(e.state)
    /\ UNCHANGED <<device, ipc, todo, keys, timers>>

-----------------------------------------------------------------------------
Next == \/ Plug \/ Unplug \/ Input \/ Tick \/ RunEvent
        \/ \E k \in KeyEvents : Key(k)
        \/ \E t \in timers : Fire(t)

(* Threads are scheduled and time passes; the pilot does nothing he does not  *)
(* want to.                                                                   *)
Fairness ==
    /\ WF_vars(Input) /\ WF_vars(RunEvent) /\ WF_vars(Tick)
    /\ WF_vars(\E t \in timers : Fire(t))

Spec == Init /\ [][Next]_vars
FairSpec == Spec /\ Fairness

-----------------------------------------------------------------------------
\* The types of the variables.
TypeOK ==
    /\ plugged \in BOOLEAN /\ down \in BOOLEAN
    /\ press \in 0..MaxKeys /\ lost \subseteq 1..MaxKeys
    /\ unplugs \in 0..MaxUnplugs
    /\ held \in 0..LongPressDelay
    /\ ipc \in {"open", "sleep", "read", "gone"}
    /\ todo \in Seq({"newCancel", "oldCancel", "newLongPress", "oldLongPress", "noLongPress"})
    /\ keys \in 0..MaxKeys
    /\ timers \subseteq [type : TimerEvents, id : 1..MaxKeys, left : (-MaxLag)..CancelDelay]
    /\ queue \in Seq(Event)
    /\ vector \in {"null", "shallow", "deep"}
    /\ index \in 0..(DeepSize - 1)
    /\ knobState \in KnobStates

\* adjustmentDisplayName() and the HID handlers index the current vector without
\* a check (Settings.cpp:414, 441, 448): the index is inside it in whatever
\* order key and timer events arrive, and 0 while no menu is open.
IndexInRange ==
    /\ vector = "null" => index = 0
    /\ vector # "null" => index < Size(vector)

\* A timer that a later key restarted or stopped may still fire, if it was due
\* while that key was handled, but it is then at most one key late: no cancel
\* overtakes two keys, so it undoes the effect of one key at most.
CancelStaleByOne ==
    \A i \in 1..Len(queue) :
        queue[i].type = "CancelTimerFired" => queue[i].seen <= queue[i].id + 1

\* A tap does not open the deep menu: the long-press timer fires only if the
\* button was held for its whole delay, or the knob was unplugged while held,
\* which leaves the timer running (Settings.cpp:80, 97-99).
LongPressMeansHeld ==
    [][\A t \in timers : t.type = "LongPressTimerFired" /\ Fire(t) =>
            \/ t.id = press /\ held = LongPressDelay
            \/ t.id \in lost]_vars

\* Once the pilot leaves the knob alone a shallow menu closes and stays closed.
ShallowCloses == <>[](vector # "shallow")
=============================================================================
