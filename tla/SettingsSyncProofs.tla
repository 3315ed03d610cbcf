-------------------------- MODULE SettingsSyncProofs -------------------------
(* Proofs about SettingsStore and SettingsSync, for any set of displays and   *)
(* any of the program's parameters.                                           *)
EXTENDS SettingsSync, TLAPS

-----------------------------------------------------------------------------
(* The store. *)

\* The row of a parameter, as TLC checks it of the table.
LEMMA RowOfTable ==
    ASSUME NEW p \in Params
    PROVE  LET a == ALL_PARAMS[p]
           IN  \/ /\ a.kind = "numeric"
                  /\ a.min \in Int /\ a.max \in Int
                  /\ a.initial \in Int /\ a.increment \in Int
                  /\ a.min <= a.initial /\ a.initial <= a.max
               \/ /\ a.kind = "selection"
                  /\ a.options \in Nat \ {0}
                  /\ a.initial \in 0..(a.options - 1)
               \/ a.kind = "bool" /\ a.initial \in {no, yes}
BY ParamsAssumption, TableAssumption

LEMMA ValuesAreNumbers ==
    ASSUME NEW p \in Params
    PROVE  ValuesOf(p) \subseteq Int
BY RowOfTable DEF ValuesOf, no, yes

LEMMA InitialStoreType == InitialStore \in Stores
BY RowOfTable, ValuesAreNumbers DEF InitialStore, Stores, ValuesOf, no, yes

LEMMA SaveType ==
    ASSUME NEW s \in Stores
    PROVE  Save(s) \in Stores /\ Save(s) \in Documents /\ Save(s) = s
BY DEF Save, Stores, Documents

LEMMA LoadType ==
    ASSUME NEW s \in Stores, NEW d \in Documents
    PROVE  Load(s, d) \in Stores
<1>1. ASSUME NEW p \in Params
      PROVE  Load(s, d)[p] \in ValuesOf(p)
  BY <1>1, RowOfTable, AbsentAssumption
  DEF Load, Taken, Stores, Documents, ValuesOf
<1> QED
  BY <1>1, ValuesAreNumbers DEF Load, Stores

LEMMA AdjustedType ==
    ASSUME NEW p \in Params, NEW v \in ValuesOf(p), NEW increment \in BOOLEAN
    PROVE  Adjusted(p, v, increment) \in ValuesOf(p)
BY RowOfTable DEF Adjusted, Incremented, Decremented, Clamp, ValuesOf, no, yes

\* A turn of the knob brings any number into its limits, also one that a file
\* or another display had put outside of them (SettingsStore.h:209-227).
THEOREM KnobBringsIntoRange ==
    ASSUME NEW p \in Params, NEW v \in ValuesOf(p), NEW increment \in BOOLEAN
    PROVE  InRange(p, Adjusted(p, v, increment))
BY RowOfTable DEF Adjusted, Incremented, Decremented, Clamp, ValuesOf, InRange

\* What one display saves, another one, or the same after a restart, loads
\* without a difference, whatever it held before (Settings.cpp:257-278).
THEOREM LoadOfSave ==
    ASSUME NEW s \in Stores, NEW t \in Stores
    PROVE  Load(t, Save(s)) = s
<1>1. ASSUME NEW p \in Params
      PROVE  Taken(p, Save(s))
  BY <1>1, RowOfTable, ValuesAreNumbers, AbsentAssumption
  DEF Taken, Save, Stores, ValuesOf
<1> QED
  BY <1>1 DEF Load, Save, Stores

-----------------------------------------------------------------------------
(* The displays. *)

LEMMA InitType == Init => TypeOK
BY InitialStoreType, FilesAssumption
DEF Init, TypeOK, KnobStates

LEMMA BroadcastType ==
    ASSUME TypeOK, NEW d \in Displays, NEW m \in Datagram, Broadcast(d, m)
    PROVE  net' \in [Displays -> Seq(Datagram)]
<1>1. ASSUME NEW x \in Displays PROVE Append(net[x], m) \in Seq(Datagram)
  BY <1>1 DEF TypeOK
<1> QED BY <1>1 DEF Broadcast, TypeOK

LEMMA EnqueueType ==
    ASSUME TypeOK, NEW d \in Displays, NEW e \in Event, Enqueue(d, e)
    PROVE  events' \in [Displays -> Seq(Event)]
<1>1. Append(events[d], e) \in Seq(Event)
  BY DEF TypeOK
<1> QED BY <1>1 DEF Enqueue, TypeOK

LEMMA DequeueType ==
    ASSUME TypeOK, NEW d \in Displays, Idle(d), Dequeue(d)
    PROVE  events' \in [Displays -> Seq(Event)] /\ Head(events[d]) \in Event
<1>1. events[d] \in Seq(Event) /\ events[d] # <<>>
  BY DEF TypeOK, Idle
<1>2. Tail(events[d]) \in Seq(Event) /\ Head(events[d]) \in Event
  BY <1>1
<1> QED BY <1>2 DEF Dequeue, TypeOK

\* What the pilots, the power, the input thread and the network do.
LEMMA OutsideType ==
    ASSUME TypeOK, NEW d \in Displays,
           \/ Boot(d) \/ Crash(d) \/ PlugOrUnplug(d) \/ Input(d)
           \/ \E increment \in BOOLEAN : Turn(d, increment)
           \/ Receive(d) \/ Fault(d)
    PROVE  TypeOK'
<1>1. CASE Boot(d)
  <2>1. Load(store[d], file[d]) \in Stores BY LoadType DEF TypeOK
  <2> QED BY <1>1, <2>1 DEF Boot, TypeOK, env
<1>2. CASE Crash(d)
  BY <1>2, InitialStoreType DEF Crash, TypeOK, KnobStates
<1>3. CASE PlugOrUnplug(d)
  BY <1>3 DEF PlugOrUnplug, TypeOK
<1>4. CASE ReportDisconnected(d)
  <2>1. events' \in [Displays -> Seq(Event)]
    BY <1>4, EnqueueType DEF ReportDisconnected, Event
  <2> QED BY <1>4, <2>1 DEF ReportDisconnected, TypeOK
<1>5. CASE ReportConnected(d)
  <2>1. events' \in [Displays -> Seq(Event)]
    BY <1>5, EnqueueType DEF ReportConnected, Event
  <2> QED BY <1>5, <2>1 DEF ReportConnected, TypeOK
<1>6. CASE ReadFails(d)
  BY <1>6 DEF ReadFails, TypeOK
<1>7. ASSUME NEW increment \in BOOLEAN, Turn(d, increment) PROVE TypeOK'
  <2>1. events' \in [Displays -> Seq(Event)]
    BY <1>7, EnqueueType DEF Turn, Event
  <2> QED BY <1>7, <2>1 DEF Turn, TypeOK
<1>8. CASE Receive(d)
  <2>1. net[d] \in Seq(Datagram) /\ net[d] # <<>>
    BY <1>8 DEF Receive, TypeOK
  <2>2. Head(net[d]) \in Event /\ Tail(net[d]) \in Seq(Datagram)
    BY <2>1 DEF Event
  <2>3. events' \in [Displays -> Seq(Event)]
    BY <1>8, <2>2, EnqueueType DEF Receive
  <2> QED BY <1>8, <2>2, <2>3 DEF Receive, TypeOK
<1>9. CASE Fault(d)
  <2>1. net[d] \in Seq(Datagram) BY DEF TypeOK
  <2>2. net[d] # <<>> =>
          /\ Tail(net[d]) \in Seq(Datagram)
          /\ Append(net[d], Head(net[d])) \in Seq(Datagram)
          /\ Append(Tail(net[d]), Head(net[d])) \in Seq(Datagram)
    BY <2>1
  <2>3. PICK q \in Seq(Datagram) : net' = [net EXCEPT ![d] = q]
    <3>1. Len(net[d]) > 1 => net[d] # <<>> BY <2>1
    <3> QED BY <1>9, <2>2, <3>1 DEF Fault
  <2>4. net' \in [Displays -> Seq(Datagram)] BY <2>3 DEF TypeOK
  <2> QED BY <1>9, <2>4 DEF Fault, TypeOK
<1> QED BY <1>1, <1>2, <1>3, <1>4, <1>5, <1>6, <1>7, <1>8, <1>9 DEF Input

\* What the handlers do.
LEMMA UIType ==
    ASSUME TypeOK, NEW d \in Displays, UI(d)
    PROVE  TypeOK'
<1>1. CASE HidAdjust(d)
  <2>1. events' \in [Displays -> Seq(Event)] /\ Head(events[d]) \in Event
    BY <1>1, DequeueType DEF HidAdjust
  <2>2. Head(events[d]).up \in BOOLEAN
    BY <1>1, <2>1 DEF HidAdjust, Event, Datagram
  <2>3. PICK p \in Adjustable :
          store' = [store EXCEPT ![d][p] = Adjusted(p, @, Head(events[d]).up)]
    BY <1>1 DEF HidAdjust
  <2>4. p \in Params /\ store[d] \in Stores
    BY DEF Adjustable, TypeOK
  <2>5. Adjusted(p, store[d][p], Head(events[d]).up) \in ValuesOf(p)
    BY <2>2, <2>4, AdjustedType DEF Stores
  <2>6. [store[d] EXCEPT ![p] = Adjusted(p, @, Head(events[d]).up)] \in Stores
    BY <2>4, <2>5, ValuesAreNumbers DEF Stores
  <2>7. store' \in [Displays -> Stores]
    BY <2>3, <2>6 DEF TypeOK
  <2> QED BY <1>1, <2>1, <2>7 DEF HidAdjust, TypeOK, env
<1>2. CASE AcceptSettings(d)
  <2>1. events' \in [Displays -> Seq(Event)] /\ Head(events[d]) \in Event
    BY <1>2, DequeueType DEF AcceptSettings
  <2>2. Head(events[d]).value \in Stores
    BY <1>2, <2>1 DEF AcceptSettings, Event, Datagram
  <2>3. Load(store[d], Head(events[d]).value) \in Stores
    BY <2>2, SaveType, LoadType DEF TypeOK
  <2> QED BY <1>2, <2>1, <2>3 DEF AcceptSettings, TypeOK, env
<1>3. CASE AcceptSettingsRequest(d)
  BY <1>3, DequeueType DEF AcceptSettingsRequest, TypeOK, env
<1>4. CASE SetAdjustmentKnobState(d)
  <2>1. events' \in [Displays -> Seq(Event)] /\ Head(events[d]) \in Event
    BY <1>4, DequeueType DEF SetAdjustmentKnobState
  <2>2. Head(events[d]).state \in KnobStates
    BY <1>4, <2>1 DEF SetAdjustmentKnobState, Event, Datagram, KnobStates
  <2> QED BY <1>4, <2>1, <2>2 DEF SetAdjustmentKnobState, TypeOK, env
<1>5. CASE SaveToFile(d)
  BY <1>5, SaveType DEF SaveToFile, TypeOK, env
<1>6. CASE MaybeSendSettings(d)
  <2>1. [type |-> "Settings", value |-> Save(store[d])] \in Datagram
    BY SaveType DEF Datagram, TypeOK
  <2>2. net' \in [Displays -> Seq(Datagram)]
    BY <1>6, <2>1, BroadcastType DEF MaybeSendSettings, TypeOK
  <2> QED BY <1>6, <2>2 DEF MaybeSendSettings, TypeOK, env
<1>7. CASE SendRequest(d)
  <2>1. net' \in [Displays -> Seq(Datagram)]
    BY <1>7, BroadcastType DEF SendRequest, Datagram
  <2> QED BY <1>7, <2>1 DEF SendRequest, TypeOK, env
<1> QED BY <1>1, <1>2, <1>3, <1>4, <1>5, <1>6, <1>7 DEF UI

LEMMA StepType == TypeOK /\ [Next]_vars => TypeOK'
<1> SUFFICES ASSUME TypeOK, [Next]_vars PROVE TypeOK'
  OBVIOUS
<1>1. CASE Next
  BY <1>1, OutsideType, UIType DEF Next
<1>2. CASE UNCHANGED vars
  BY <1>2 DEF vars, TypeOK
<1> QED BY <1>1, <1>2

\* The variables keep their types, the settings of every display included.
THEOREM TypeCorrectness == Spec => []TypeOK
BY InitType, StepType, PTL DEF Spec

-----------------------------------------------------------------------------
(* What is in memory is on the disk.  StoreIsSaved says nothing of a display  *)
(* that is off; the store it begins with is what its file is loaded over.     *)

OffIsBlank ==
    \A d \in Displays : ~up[d] => store[d] = InitialStore /\ upc[d] = "idle"

SavedInv == TypeOK /\ OffIsBlank /\ StoreIsSaved

LEMMA InitSaved == Init => OffIsBlank /\ StoreIsSaved
BY DEF Init, OffIsBlank, StoreIsSaved

\* A step that leaves power, memory and disk alone, and starts or ends no save.
LEMMA QuietStep ==
    ASSUME SavedInv, UNCHANGED <<up, store, file>>,
           \A d \in Displays :
              \/ upc'[d] = upc[d]
              \/ up[d] /\ upc[d] \notin {"save", "saveAndSend"}
    PROVE  OffIsBlank' /\ StoreIsSaved'
BY DEF SavedInv, OffIsBlank, StoreIsSaved

LEMMA StepSaved == SavedInv /\ [Next]_vars => OffIsBlank' /\ StoreIsSaved'
<1> SUFFICES ASSUME SavedInv, [Next]_vars PROVE OffIsBlank' /\ StoreIsSaved'
  OBVIOUS
<1> USE DEF SavedInv
<1>0. CASE UNCHANGED vars
  BY <1>0, QuietStep DEF vars
<1> SUFFICES ASSUME NEW d \in Displays,
                    \/ Boot(d) \/ Crash(d) \/ PlugOrUnplug(d) \/ Input(d)
                    \/ \E increment \in BOOLEAN : Turn(d, increment)
                    \/ Receive(d) \/ Fault(d)
                    \/ UI(d)
             PROVE  OffIsBlank' /\ StoreIsSaved'
  BY <1>0 DEF Next
<1>1. CASE Boot(d)
  BY <1>1 DEF Boot, TypeOK, OffIsBlank, StoreIsSaved
<1>2. CASE Crash(d)
  BY <1>2 DEF Crash, TypeOK, OffIsBlank, StoreIsSaved
<1>3. CASE \/ PlugOrUnplug(d) \/ Input(d) \/ Receive(d) \/ Fault(d)
           \/ \E increment \in BOOLEAN : Turn(d, increment)
  BY <1>3, QuietStep
  DEF PlugOrUnplug, Input, ReportDisconnected, ReportConnected, ReadFails,
      Receive, Fault, Turn
<1>4. CASE HidAdjust(d)
  <2>1. /\ upc' = [upc EXCEPT ![d] = "saveAndSend"] /\ up[d]
        /\ \A x \in Displays \ {d} : store'[x] = store[x]
        /\ UNCHANGED <<up, file>>
    BY <1>4 DEF HidAdjust, Idle, TypeOK
  <2> QED BY <2>1 DEF TypeOK, OffIsBlank, StoreIsSaved
<1>5. CASE AcceptSettings(d)
  <2>1. CASE knob[d] = "DISCONNECTED"
    <3>1. /\ upc' = [upc EXCEPT ![d] = "save"] /\ up[d]
          /\ \A x \in Displays \ {d} : store'[x] = store[x]
          /\ UNCHANGED <<up, file>>
      BY <1>5, <2>1 DEF AcceptSettings, Idle, TypeOK
    <3> QED BY <3>1 DEF TypeOK, OffIsBlank, StoreIsSaved
  <2>2. CASE knob[d] # "DISCONNECTED"
    BY <1>5, <2>2, QuietStep DEF AcceptSettings
  <2> QED BY <2>1, <2>2
<1>6. CASE SaveToFile(d)
  <2>1. store[d] \in Stores BY DEF TypeOK
  <2>2. Load(InitialStore, Save(store[d])) = store[d]
    BY <2>1, LoadOfSave, InitialStoreType
  <2>3. up[d]
    BY <1>6 DEF SaveToFile, OffIsBlank
  <2> QED BY <1>6, <2>2, <2>3 DEF SaveToFile, TypeOK, OffIsBlank, StoreIsSaved
<1>7. CASE AcceptSettingsRequest(d) \/ SetAdjustmentKnobState(d)
  <2>1. up[d] /\ upc[d] = "idle" /\ UNCHANGED <<up, store, file>>
    BY <1>7 DEF AcceptSettingsRequest, SetAdjustmentKnobState, Idle
  <2>2. \A x \in Displays \ {d} : upc'[x] = upc[x]
    BY <1>7 DEF AcceptSettingsRequest, SetAdjustmentKnobState, TypeOK
  <2> QED BY <2>1, <2>2, QuietStep
<1>8. CASE MaybeSendSettings(d) \/ SendRequest(d)
  <2>1. upc[d] \in {"send", "ask"} /\ UNCHANGED <<up, store, file>>
    BY <1>8 DEF MaybeSendSettings, SendRequest
  <2>2. up[d]
    BY <2>1 DEF OffIsBlank
  <2>3. \A x \in Displays \ {d} : upc'[x] = upc[x]
    BY <1>8 DEF MaybeSendSettings, SendRequest, TypeOK
  <2> QED BY <2>1, <2>2, <2>3, QuietStep
<1> QED BY <1>1, <1>2, <1>3, <1>4, <1>5, <1>6, <1>7, <1>8 DEF UI

\* Once a handler is done with its save, a restart brings back exactly what the
\* display holds, whatever it heard, was turned to or had in its file at first
\* (Settings.cpp:205-235).
THEOREM StoreAlwaysSaved == Spec => []StoreIsSaved
<1>1. Init => SavedInv
  BY InitType, InitSaved DEF SavedInv
<1>2. SavedInv /\ [Next]_vars => SavedInv'
  BY StepType, StepSaved DEF SavedInv
<1>3. SavedInv => StoreIsSaved
  BY DEF SavedInv
<1> QED BY <1>1, <1>2, <1>3, PTL DEF Spec

-----------------------------------------------------------------------------
(* A leader is moved by its knob alone. *)

LEMMA StepLeader ==
    ASSUME TypeOK, [Next]_vars, NEW d \in Displays,
           up[d], up'[d], store'[d] # store[d]
    PROVE  knob[d] = "DISCONNECTED" \/ Head(events[d]).type = "Turn"
<1>1. PICK e \in Displays :
        store' # store /\ (Boot(e) \/ Crash(e) \/ HidAdjust(e) \/ AcceptSettings(e))
  BY DEF Next, vars, UI, Input, PlugOrUnplug, ReportDisconnected, ReportConnected,
         ReadFails, Turn, Receive, Fault, AcceptSettingsRequest,
         SetAdjustmentKnobState, SaveToFile, MaybeSendSettings, SendRequest
<1>2. \A x \in Displays \ {e} : store'[x] = store[x]
  BY <1>1 DEF Boot, Crash, HidAdjust, AcceptSettings, TypeOK
<1>3. d = e
  BY <1>2
<1> QED
  BY <1>1, <1>3 DEF Boot, Crash, HidAdjust, AcceptSettings, TypeOK

\* No datagram, lost, doubled, late or not, changes the settings of a display
\* that is a leader or does not know yet (Settings.cpp:228-235).
THEOREM LeaderOnlyByItsKnob == Spec => LeaderUnmoved
<1>1. TypeOK /\ [Next]_vars =>
        [\A d \in Displays :
            up[d] /\ up'[d] /\ store'[d] # store[d] =>
                knob[d] = "DISCONNECTED" \/ Head(events[d]).type = "Turn"]_vars
  BY StepLeader
<1> QED BY <1>1, TypeCorrectness, PTL DEF Spec, LeaderUnmoved
=============================================================================
