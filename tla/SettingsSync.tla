---------------------------- MODULE SettingsSync ----------------------------
(* How several displays share their settings (model/Settings.cpp:205-284 over *)
(* UdpTelemetry): a display with a knob is a leader and broadcasts its        *)
(* settings when it becomes one, when it changes them and when it is asked; a *)
(* display without a knob is a follower, asks once and applies what it hears. *)
(*                                                                            *)
(* A display's settings are a store of SettingsStore, its file and a Settings *)
(* datagram are documents.  Which parameter the knob moves is the menu's      *)
(* business (SettingsMenu): here it may be any.                               *)
EXTENDS SettingsStore, Sequences, FiniteSets

CONSTANTS
    Displays,
    Files,                  \* what a settings file may hold at first
    MaxMoves,               \* bound: what pilots, power and network do: knobs
                            \* turned, plugged or unplugged, displays switched
                            \* off, datagrams lost, duplicated or swapped
    MaxQueue                \* bound: events waiting when the input thread reports

ASSUME DisplaysAssumption == Displays # {}
ASSUME FilesAssumption == Files # {} /\ Files \subseteq Documents
ASSUME BoundsAssumption == {MaxMoves, MaxQueue} \subseteq Nat

VARIABLES
    up,                     \* [Displays -> BOOLEAN]: the program runs
    plugged,                \* [Displays -> BOOLEAN]: the knob's device exists
    reading,                \* [Displays -> the input thread has the device open:
                            \*  no, yes, or the device it has open is gone]
    net,                    \* [Displays -> datagrams on their way or in its socket]
    events,                 \* [Displays -> events waiting for its UI thread]
    upc,                    \* [Displays -> what the running handler does next]
    knob,                   \* [Displays -> adjustmentKnobState_]
    store,                  \* [Displays -> the settings in memory]
    file,                   \* [Displays -> the settings on disk]
    moves,                  \* how many moves were made
    disturbed               \* history: one of them was the network's

env == <<moves, disturbed>>
vars == <<up, plugged, reading, net, events, upc, knob, store, file, env>>

KnobStates == {"UNKNOWN", "DISCONNECTED", "CONNECTED"}
Datagram == [type : {"Settings"}, value : Stores] \cup [type : {"Request"}]
Event == Datagram \cup [type : {"Turn"}, up : BOOLEAN]
                  \cup [type : {"Knob"}, state : {"DISCONNECTED", "CONNECTED"}]

Init ==
    /\ up = [d \in Displays |-> FALSE]
    /\ plugged \in [Displays -> BOOLEAN]
    /\ reading = [d \in Displays |-> "no"]
    /\ net = [d \in Displays |-> <<>>]
    /\ events = [d \in Displays |-> <<>>]
    /\ upc = [d \in Displays |-> "idle"]
    /\ knob = [d \in Displays |-> "UNKNOWN"]
    /\ store = [d \in Displays |-> InitialStore]
    /\ file \in [Displays -> Files]
    /\ moves = 0
    /\ disturbed = FALSE

Move == moves < MaxMoves /\ moves' = moves + 1

Enqueue(d, e) == events' = [events EXCEPT ![d] = Append(@, e)]

\* sendSample: a datagram to every display that listens but the sender, which
\* drops its own (UdpPacketReader.cpp:74).
Broadcast(d, m) ==
    net' = [x \in Displays |-> IF up[x] /\ x # d THEN Append(net[x], m) ELSE net[x]]

-----------------------------------------------------------------------------
(* Power, and the pilot's hands. *)

\* The sockets are open before the Settings constructor loads the file.
Boot(d) ==
    /\ ~up[d]
    /\ up' = [up EXCEPT ![d] = TRUE]
    /\ store' = [store EXCEPT ![d] = Load(@, file[d])]
    /\ UNCHANGED <<plugged, reading, net, events, upc, knob, file, env>>

\* Memory is lost and so is what waits in the socket; the file stays.
Crash(d) ==
    /\ up[d]
    /\ Move
    /\ up' = [up EXCEPT ![d] = FALSE]
    /\ reading' = [reading EXCEPT ![d] = "no"]
    /\ net' = [net EXCEPT ![d] = <<>>]
    /\ events' = [events EXCEPT ![d] = <<>>]
    /\ upc' = [upc EXCEPT ![d] = "idle"]
    /\ knob' = [knob EXCEPT ![d] = "UNKNOWN"]
    /\ store' = [store EXCEPT ![d] = InitialStore]
    /\ UNCHANGED <<plugged, file, disturbed>>

PlugOrUnplug(d) ==
    /\ Move
    /\ plugged' = [plugged EXCEPT ![d] = ~@]
    /\ reading' = [reading EXCEPT ![d] = IF @ = "yes" THEN "gone" ELSE @]
    /\ UNCHANGED <<up, net, events, upc, knob, store, file, disturbed>>

-----------------------------------------------------------------------------
(* The input thread, Settings.cpp:49-100. *)

\* open() fails, again and again while there is no device.
ReportDisconnected(d) ==
    /\ up[d] /\ reading[d] = "no" /\ ~plugged[d]
    /\ Len(events[d]) < MaxQueue
    /\ Enqueue(d, [type |-> "Knob", state |-> "DISCONNECTED"])
    /\ UNCHANGED <<up, plugged, reading, net, upc, knob, store, file, env>>

ReportConnected(d) ==
    /\ up[d] /\ reading[d] = "no" /\ plugged[d]
    /\ Len(events[d]) < MaxQueue
    /\ Enqueue(d, [type |-> "Knob", state |-> "CONNECTED"])
    /\ reading' = [reading EXCEPT ![d] = "yes"]
    /\ UNCHANGED <<up, plugged, net, upc, knob, store, file, env>>

ReadFails(d) ==
    /\ reading[d] = "gone"
    /\ reading' = [reading EXCEPT ![d] = "no"]
    /\ UNCHANGED <<up, plugged, net, events, upc, knob, store, file, env>>

Turn(d, increment) ==
    /\ reading[d] = "yes"
    /\ Move
    /\ Enqueue(d, [type |-> "Turn", up |-> increment])
    /\ UNCHANGED <<up, plugged, reading, net, upc, knob, store, file, disturbed>>

Input(d) == ReportDisconnected(d) \/ ReportConnected(d) \/ ReadFails(d)

-----------------------------------------------------------------------------
(* The network and the telemetry thread (ab_main.cpp:121-140). *)

Receive(d) ==
    /\ up[d] /\ net[d] # <<>>
    /\ net' = [net EXCEPT ![d] = Tail(@)]
    /\ Enqueue(d, Head(net[d]))
    /\ UNCHANGED <<up, plugged, reading, upc, knob, store, file, env>>

\* Datagrams are lost, duplicated and reordered.
Fault(d) ==
    /\ Move
    /\ disturbed' = TRUE
    /\ \/ net[d] # <<>> /\ net' = [net EXCEPT ![d] = Tail(@)]
       \/ net[d] # <<>> /\ net' = [net EXCEPT ![d] = Append(@, Head(@))]
       \/ Len(net[d]) > 1 /\ net' = [net EXCEPT ![d] = Append(Tail(@), Head(@))]
    /\ UNCHANGED <<up, plugged, reading, events, upc, knob, store, file>>

-----------------------------------------------------------------------------
(* The handlers of Settings, in the UI thread.  Each change of the store is   *)
(* followed by a save and, for the knob's, by a broadcast: a display may be   *)
(* switched off in between.                                                   *)

Adjusted(p, v, increment) ==
    IF increment THEN Incremented(p, v) ELSE Decremented(p, v)

Idle(d) == up[d] /\ upc[d] = "idle" /\ events[d] # <<>>
Dequeue(d) == events' = [events EXCEPT ![d] = Tail(@)]

\* hidIncrement(), hidDecrement()
HidAdjust(d) ==
    /\ Idle(d)
    /\ Head(events[d]).type = "Turn"
    /\ Dequeue(d)
    /\ \E p \in Adjustable :
           store' = [store EXCEPT ![d][p] = Adjusted(p, @, Head(events[d]).up)]
    /\ upc' = [upc EXCEPT ![d] = "saveAndSend"]
    /\ UNCHANGED <<up, plugged, reading, net, knob, file, env>>

\* Mutant: whoever hears settings applies them.
AcceptAlways(d) ==
    /\ Idle(d)
    /\ Head(events[d]).type = "Settings"
    /\ Dequeue(d)
    /\ store' = [store EXCEPT ![d] = Load(@, Head(events[d]).value)]
    /\ upc' = [upc EXCEPT ![d] = "save"]
    /\ UNCHANGED <<up, plugged, reading, net, knob, file, env>>

\* Mutant: settings heard are applied but not saved.
AcceptUnsaved(d) ==
    /\ Idle(d)
    /\ Head(events[d]).type = "Settings"
    /\ Dequeue(d)
    /\ store' = IF knob[d] = "DISCONNECTED"
                    THEN [store EXCEPT ![d] = Load(@, Head(events[d]).value)] ELSE store
    /\ UNCHANGED <<up, plugged, reading, net, upc, knob, file, env>>

\* acceptSettings(): only a display that knows it is a follower listens.
AcceptSettings(d) ==
    /\ Idle(d)
    /\ Head(events[d]).type = "Settings"
    /\ Dequeue(d)
    /\ IF knob[d] = "DISCONNECTED"
          THEN /\ store' = [store EXCEPT ![d] = Load(@, Head(events[d]).value)]
               /\ upc' = [upc EXCEPT ![d] = "save"]
          ELSE UNCHANGED <<store, upc>>
    /\ UNCHANGED <<up, plugged, reading, net, knob, file, env>>

\* Mutant: a request is left unanswered.
IgnoreRequest(d) ==
    /\ Idle(d)
    /\ Head(events[d]).type = "Request"
    /\ Dequeue(d)
    /\ UNCHANGED <<up, plugged, reading, net, upc, knob, store, file, env>>

\* acceptSettingsRequest()
AcceptSettingsRequest(d) ==
    /\ Idle(d)
    /\ Head(events[d]).type = "Request"
    /\ Dequeue(d)
    /\ upc' = [upc EXCEPT ![d] = "send"]
    /\ UNCHANGED <<up, plugged, reading, net, knob, store, file, env>>

\* Mutant: every report of the knob counts as news.
AskAgain(d) ==
    LET s == Head(events[d]).state
    IN  /\ Idle(d)
        /\ Head(events[d]).type = "Knob"
        /\ Dequeue(d)
        /\ knob' = [knob EXCEPT ![d] = s]
        /\ upc' = [upc EXCEPT ![d] = IF s = "DISCONNECTED" THEN "ask" ELSE "send"]
        /\ UNCHANGED <<up, plugged, reading, net, store, file, env>>

\* setAdjustmentKnobState(): only a change of state is answered.
SetAdjustmentKnobState(d) ==
    LET s == Head(events[d]).state
    IN  /\ Idle(d)
        /\ Head(events[d]).type = "Knob"
        /\ Dequeue(d)
        /\ knob' = [knob EXCEPT ![d] = s]
        /\ upc' = [upc EXCEPT ![d] = CASE s = knob[d] -> "idle"
                                       [] s # knob[d] /\ s = "DISCONNECTED" -> "ask"
                                       [] OTHER -> "send"]
        /\ UNCHANGED <<up, plugged, reading, net, store, file, env>>

\* saveToFile(): a new file is renamed over the old one, whole.
SaveToFile(d) ==
    /\ upc[d] \in {"save", "saveAndSend"}
    /\ file' = [file EXCEPT ![d] = Save(store[d])]
    /\ upc' = [upc EXCEPT ![d] = IF @ = "save" THEN "idle" ELSE "send"]
    /\ UNCHANGED <<up, plugged, reading, net, events, knob, store, env>>

\* maybeSendSettings()
MaybeSendSettings(d) ==
    /\ upc[d] = "send"
    /\ IF knob[d] = "CONNECTED"
          THEN Broadcast(d, [type |-> "Settings", value |-> Save(store[d])])
          ELSE UNCHANGED net
    /\ upc' = [upc EXCEPT ![d] = "idle"]
    /\ UNCHANGED <<up, plugged, reading, events, knob, store, file, env>>

SendRequest(d) ==
    /\ upc[d] = "ask"
    /\ Broadcast(d, [type |-> "Request"])
    /\ upc' = [upc EXCEPT ![d] = "idle"]
    /\ UNCHANGED <<up, plugged, reading, events, knob, store, file, env>>

UI(d) == \/ HidAdjust(d) \/ AcceptSettings(d) \/ AcceptSettingsRequest(d)
         \/ SetAdjustmentKnobState(d) \/ SaveToFile(d) \/ MaybeSendSettings(d)
         \/ SendRequest(d)

-----------------------------------------------------------------------------
Next == \E d \in Displays :
            \/ Boot(d) \/ Crash(d) \/ PlugOrUnplug(d)
            \/ Input(d) \/ \E increment \in BOOLEAN : Turn(d, increment)
            \/ Receive(d) \/ Fault(d)
            \/ UI(d)

(* The threads of a running display are scheduled.  Nobody has to switch a    *)
(* display on, touch a knob or lose a datagram.                               *)
Fairness ==
    \A d \in Displays : WF_vars(Input(d)) /\ WF_vars(Receive(d)) /\ WF_vars(UI(d))

Spec == Init /\ [][Next]_vars
FairSpec == Spec /\ Fairness

-----------------------------------------------------------------------------
\* The types of the variables.
TypeOK ==
    /\ up \in [Displays -> BOOLEAN]
    /\ plugged \in [Displays -> BOOLEAN]
    /\ reading \in [Displays -> {"no", "yes", "gone"}]
    /\ net \in [Displays -> Seq(Datagram)]
    /\ events \in [Displays -> Seq(Event)]
    /\ upc \in [Displays -> {"idle", "save", "saveAndSend", "send", "ask"}]
    /\ knob \in [Displays -> KnobStates]
    /\ store \in [Displays -> Stores]
    /\ file \in [Displays -> Documents]

\* Whatever a display heard or was told by its knob is on its disk as soon as
\* the handler is done with its save: a restart brings all of it back, also what
\* the file at first left out or held in a way the display does not know.
StoreIsSaved ==
    \A d \in Displays :
        up[d] /\ upc[d] \notin {"save", "saveAndSend"} => Load(InitialStore, file[d]) = store[d]

\* Settings.cpp:229-230, "we apply them if and only if we know that we are a
\* settings follower": the settings of a display that is or may be a leader are
\* moved by its own knob alone, whatever the network does.
LeaderUnmoved ==
    [][\A d \in Displays :
        up[d] /\ up'[d] /\ store'[d] # store[d] =>
            knob[d] = "DISCONNECTED" \/ Head(events[d]).type = "Turn"]_vars

Leaders == {d \in Displays : knob[d] = "CONNECTED"}
InSync == \A l \in Leaders, d \in Displays : store[d] = store[l]

\* Settings.cpp:244-246: when every display is on and exactly one is a leader,
\* the others end up with its settings, in whatever order displays were
\* switched on, knobs moved and events handled - as long as the network loses,
\* duplicates and swaps nothing: the protocol repeats nothing by itself.
Converges ==
    []~disturbed =>
        <>[]((\A d \in Displays : up[d]) /\ Cardinality(Leaders) = 1 => InSync)

\* Nobody answers an answer and nobody asks twice: the network falls silent
\* once the pilots leave the knobs alone, although the input thread of a
\* follower reports DISCONNECTED for ever (Settings.cpp:51-55, 247).
FallsSilent == <>[](\A d \in Displays : net[d] = <<>>)
=============================================================================
