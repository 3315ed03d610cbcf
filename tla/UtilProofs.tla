------------------------------ MODULE UtilProofs ------------------------------
(* Proofs about two parts of util/: OneShotTimer, for any number of timers,   *)
(* and AtomicStore, for any payloads, any bank size and any number of writes, *)
(* crashes and losses of power.                                               *)
EXTENDS OneShotTimer, AtomicStore, TLAPS

-----------------------------------------------------------------------------
(* OneShotTimer *)

LEMMA InitEstablishesIInv == Init => IInv
BY MaxTimersAssumption
   DEF Init, IInv, TypeOK, LocksHeld, CancelKnown, Owned, Timers, None, UIThread

LEMMA NextPreservesIInv == IInv /\ [Next]_vars => IInv'
<1> SUFFICES ASSUME IInv, [Next]_vars PROVE IInv'
  OBVIOUS
<1> USE MaxTimersAssumption
<1> USE DEF IInv, TypeOK, LocksHeld, CancelKnown, Owned, Timers, None, UIThread
<1>1. CASE Restart
  <2>1. TypeOK'
    BY <1>1 DEF Restart
  <2>2. LocksHeld'
    BY <1>1 DEF Restart
  <2>3. CancelKnown'
    BY <1>1 DEF Restart
  <2>4. Owned'
    BY <1>1 DEF Restart
  <2> QED
    BY <2>1, <2>2, <2>3, <2>4
<1>2. CASE Stop
  BY <1>2 DEF Stop
<1>3. CASE CancelLock
  BY <1>3 DEF CancelLock
<1>4. CASE CancelStore
  BY <1>4 DEF CancelStore
<1>5. CASE Join
  BY <1>5 DEF Join
<1>6. CASE UILock
  BY <1>6 DEF UILock
<1>7. CASE UIUnlock
  BY <1>7 DEF UIUnlock
<1>8. ASSUME NEW t \in Timers, Expire(t) PROVE IInv'
  BY <1>8 DEF Expire
<1>9. ASSUME NEW t \in Timers, RunLock(t) PROVE IInv'
  BY <1>9 DEF RunLock
<1>10. ASSUME NEW t \in Timers, RunCancelled(t) PROVE IInv'
  BY <1>10 DEF RunCancelled
<1>11. ASSUME NEW t \in Timers, RunSleep(t) PROVE IInv'
  BY <1>11 DEF RunSleep
<1>12. ASSUME NEW t \in Timers, RunCallback(t) PROVE IInv'
  BY <1>12 DEF RunCallback
<1>13. ASSUME NEW t \in Timers, RunReturn(t) PROVE IInv'
  BY <1>13 DEF RunReturn
<1>14. CASE UNCHANGED vars
  BY <1>14 DEF vars
<1> QED
  BY <1>1, <1>2, <1>3, <1>4, <1>5, <1>6, <1>7, <1>8, <1>9, <1>10, <1>11, <1>12,
     <1>13, <1>14 DEF Next, Destroy, Run

LEMMA Invariance == Spec => []IInv
<1> QED
  BY InitEstablishesIInv, NextPreservesIInv, PTL DEF Spec

-----------------------------------------------------------------------------
\* Type correctness, and with it: a timer calls back once at most.
THEOREM TypeCorrectness == Spec => []TypeOK
<1>1. IInv => TypeOK
  BY DEF IInv
<1> QED
  BY <1>1, Invariance, PTL

\* No thread runs in the memory of a destroyed timer (one_shot_timer.cpp:18-21).
THEOREM NoUseAfterFree == Spec => []FreedIsQuiet
<1>1. IInv => FreedIsQuiet
  BY MaxTimersAssumption
     DEF IInv, TypeOK, LocksHeld, CancelKnown, Owned, FreedIsQuiet, Timers, None
<1> QED
  BY <1>1, Invariance, PTL

\* reset() leaves no timer behind but the one in the slot (Settings.cpp:103-122).
THEOREM RestartLeavesOneTimer == Spec => []OnlySlotLives
<1>1. IInv => OnlySlotLives
  BY MaxTimersAssumption DEF IInv, TypeOK, Owned, OnlySlotLives, None
<1> QED
  BY <1>1, Invariance, PTL

\* The callback is never called after cancel() (one_shot_timer_test.cpp:24-35).
THEOREM CancelIsFinal == Spec => NoCallAfterCancel
<1> DEFINE Silent == \A t \in Timers : calls'[t] # calls[t] => running[t] /\ ~freed[t]
<1>1. IInv /\ [Next]_vars => [Silent]_vars
  <2> SUFFICES ASSUME IInv, [Next]_vars, NEW t \in Timers, calls'[t] # calls[t]
               PROVE  running[t] /\ ~freed[t]
    OBVIOUS
  <2>1. calls # calls'
    OBVIOUS
  <2>2. PICK u \in Timers : RunReturn(u)
    BY <2>1 DEF Next, Destroy, Run, Restart, Stop, CancelLock, CancelStore, Join,
                UILock, UIUnlock, Expire, RunLock, RunCancelled, RunSleep,
                RunCallback, vars
  <2>3. u = t
    BY <2>2 DEF RunReturn, IInv, TypeOK
  <2> QED
    BY <2>2, <2>3 DEF RunReturn, IInv, CancelKnown
<1> QED
  BY <1>1, Invariance, PTL DEF Spec, NoCallAfterCancel

-----------------------------------------------------------------------------
(* The class implements the abstract timer: creating it is a Start, the       *)
(* return of its callback a Fire, cancel()'s store a Cancel unless it comes   *)
(* too late, and every other step a stutter.                                  *)

LEMMA InitImplements == Init => AbstractTimer!Init
BY DEF Init, AbstractTimer!Init, TimerState

\* The steps of a timer's life that a user of it can see.
LEMMA StateOf ==
    ASSUME NEW t \in Timers, IInv
    PROVE  /\ tpc[t] = "unborn" => TimerState[t] = "unborn"
           /\ calls[t] = 1 => TimerState[t] = "fired"
           /\ tpc[t] # "unborn" /\ calls[t] = 0 /\ running[t] => TimerState[t] = "armed"
           /\ tpc[t] # "unborn" /\ calls[t] = 0 /\ ~running[t] => TimerState[t] = "off"
BY DEF TimerState, IInv, TypeOK, CancelKnown

LEMMA StepImplements ==
    IInv /\ IInv' /\ [Next]_vars => [AbstractTimer!Next]_TimerState
<1> SUFFICES ASSUME IInv, IInv', [Next]_vars
             PROVE  [AbstractTimer!Next]_TimerState
  OBVIOUS
<1>t. /\ tpc \in [Timers -> {"unborn", "awake", "locked", "calling", "exited"}]
      /\ calls \in [Timers -> {0, 1}]
      /\ running \in [Timers -> BOOLEAN]
      /\ created \in 0..MaxTimers /\ dying \in 0..MaxTimers
  BY DEF IInv, TypeOK
\* A step that changes one timer's state only, or none.
<1>a. ASSUME NEW t \in Timers, NEW v, TimerState' = [TimerState EXCEPT ![t] = v],
             \/ TimerState[t] = "unborn" /\ v = "armed"
             \/ TimerState[t] = "armed" /\ v \in {"fired", "off"}
      PROVE  AbstractTimer!Next
  BY <1>a DEF AbstractTimer!Next, AbstractTimer!Start, AbstractTimer!Fire, AbstractTimer!Cancel
<1>b. ASSUME NEW t \in Timers, NEW v, \A u \in Timers \ {t} : TimerState'[u] = TimerState[u],
             TimerState'[t] = v
      PROVE  TimerState' = [TimerState EXCEPT ![t] = v]
  <2>1. DOMAIN TimerState = Timers /\ DOMAIN TimerState' = Timers
    BY DEF TimerState
  <2>2. TimerState = [u \in Timers |-> TimerState[u]]
    BY DEF TimerState
  <2>3. TimerState' = [u \in Timers |-> TimerState'[u]]
    BY DEF TimerState
  <2> QED
    BY ONLY <1>b, <2>1, <2>2, <2>3
<1>1. CASE Restart
  <2> DEFINE n == created + 1
  <2>1. n \in Timers /\ tpc[n] = "unborn" /\ calls[n] = 0
    BY <1>1, <1>t, MaxTimersAssumption DEF Restart, IInv, CancelKnown, Timers
  <2>2. TimerState' = [TimerState EXCEPT ![n] = "armed"]
    <3>1. \A u \in Timers \ {n} : TimerState'[u] = TimerState[u]
      BY <1>1, <1>t, <2>1 DEF Restart, TimerState
    <3>2. TimerState'[n] = "armed"
      BY <1>1, <1>t, <2>1 DEF Restart, TimerState
    <3> QED
      BY <1>b, <2>1, <3>1, <3>2
  <2>3. TimerState[n] = "unborn"
    BY <2>1 DEF TimerState
  <2> QED
    BY <1>a, <2>1, <2>2, <2>3
<1>2. CASE CancelStore
  <2>1. dying \in Timers /\ tpc[dying] # "unborn"
    BY <1>2, <1>t, MaxTimersAssumption DEF CancelStore, IInv, Owned, CancelKnown, Timers, None
  <2>2. CASE TimerState[dying] = "armed"
    <3>1. TimerState' = [TimerState EXCEPT ![dying] = "off"]
      <4>1. \A u \in Timers \ {dying} : TimerState'[u] = TimerState[u]
        BY <1>2, <1>t, <2>1 DEF CancelStore, TimerState
      <4>2. TimerState'[dying] = "off"
        BY <1>2, <1>t, <2>1, <2>2 DEF CancelStore, TimerState
      <4> QED
        BY <1>b, <2>1, <4>1, <4>2
    <3> QED
      BY <1>a, <2>1, <2>2, <3>1
  <2>3. CASE TimerState[dying] # "armed"
    <3>1. TimerState' = TimerState
      BY <1>2, <1>t, <2>1, <2>3 DEF CancelStore, TimerState
    <3> QED
      BY <3>1
  <2> QED
    BY <2>2, <2>3
<1>3. ASSUME NEW t \in Timers, RunReturn(t) PROVE [AbstractTimer!Next]_TimerState
  <2>1. running[t] /\ calls[t] = 0 /\ calls'[t] = 1 /\ tpc[t] # "unborn" /\ tpc'[t] # "unborn"
    BY <1>3, <1>t DEF RunReturn, IInv, CancelKnown
  <2>2. TimerState' = [TimerState EXCEPT ![t] = "fired"]
    <3>1. \A u \in Timers \ {t} : TimerState'[u] = TimerState[u]
      BY <1>3, <1>t, <2>1 DEF RunReturn, TimerState
    <3>2. TimerState'[t] = "fired"
      BY <1>3, <1>t, <2>1 DEF RunReturn, TimerState
    <3> QED
      BY <1>b, <3>1, <3>2
  <2>3. TimerState[t] = "armed"
    BY <2>1, StateOf
  <2> QED
    BY <1>a, <2>2, <2>3
<1>4. CASE Stop \/ CancelLock \/ Join \/ UILock \/ UIUnlock
  BY <1>4 DEF Stop, CancelLock, Join, UILock, UIUnlock, TimerState
<1>5. ASSUME NEW t \in Timers, Expire(t) PROVE TimerState' = TimerState
  BY <1>5 DEF Expire, TimerState
<1>6. ASSUME NEW t \in Timers,
             RunLock(t) \/ RunCancelled(t) \/ RunSleep(t) \/ RunCallback(t)
      PROVE  TimerState' = TimerState
  BY <1>6, <1>t DEF RunLock, RunCancelled, RunSleep, RunCallback, TimerState
<1>7. CASE UNCHANGED vars
  BY <1>7 DEF vars, TimerState
<1> QED
  BY <1>1, <1>2, <1>3, <1>4, <1>5, <1>6, <1>7 DEF Next, Destroy, Run

\* OneShotTimer is a timer that fires at most once and never after a cancel
\* (the safety part of TimerSpec; that it fires is left to TLC).
THEOREM ImplementsTimer == Spec => AbstractTimer!Init /\ [][AbstractTimer!Next]_TimerState
<1> QED
  BY InitImplements, StepImplements, Invariance, PTL DEF Spec

-----------------------------------------------------------------------------
(* AtomicStore: a payload is there whole or not at all. *)

\* Before a payload and before a header is written, the disk has all there is.
SyncedBeforeWrite ==
    pc \in {"writeBank", "writeHeader"} => dbank = bank /\ dcells = cells

\* The call knows whether it writes the current bank, and once it has written
\* the payload it has written all of it.
CallKnows ==
    /\ pc # "idle" => (atomic <=> target # bank)
    /\ pc # "idle" => payload \in Payload
    /\ pc \in {"syncBetween", "writeHeader"} => Holds(payload, target)

\* What the disk lacks is either the header, and then the bank it names holds a
\* payload, or cells of a bank; if that is the current bank nothing is promised.
DiskIsBehind ==
    /\ bank # dbank => cells = dcells /\ \E p \in fallback : Holds(p, dbank)
    /\ cells[bank] # dcells[bank] => Garbage \in fallback

FileIInv == FileTypeOK /\ SyncedBeforeWrite /\ CallKnows /\ DiskIsBehind /\ OldOrNew

-----------------------------------------------------------------------------
\* A store that was just initialized.
LEMMA InitEstablishesFileIInv == FileInit => FileIInv
<1> SUFFICES ASSUME FileInit PROVE FileIInv
  OBVIOUS
<1>1. FileTypeOK
  <2>1. cells \in [Banks -> Content] /\ bank \in Banks
    BY DEF FileInit, Content, Banks
  <2> QED
    BY <2>1 DEF FileInit, FileTypeOK, Banks
<1>2. Holds(Empty, bank)
  BY DEF Holds, Empty
<1> QED
  BY <1>1, <1>2 DEF FileInit, FileIInv, SyncedBeforeWrite, CallKnows, DiskIsBehind, OldOrNew

\* A call begins.
LEMMA CallKeepsIInv ==
  ASSUME FileIInv, NEW b \in Banks, NEW p \in Payload, NEW isAtomic \in BOOLEAN,
         isAtomic <=> b # bank, Call(b, p, isAtomic)
  PROVE  FileIInv'
<1>1. /\ target' = b /\ payload' = p /\ atomic' = isAtomic /\ pc' = "syncBefore"
      /\ UNCHANGED <<bank, cells, dbank, dcells, current, fallback, written>>
  BY DEF Call, file, disk, history
<1>2. FileTypeOK'
  BY <1>1 DEF FileIInv, FileTypeOK
<1>3. SyncedBeforeWrite' /\ CallKnows'
  BY <1>1 DEF SyncedBeforeWrite, CallKnows
<1>4. DiskIsBehind' /\ OldOrNew'
  BY <1>1 DEF FileIInv, DiskIsBehind, OldOrNew, Holds
<1> QED
  BY <1>2, <1>3, <1>4 DEF FileIInv

\* An fsync.
LEMMA FsyncKeepsIInv ==
  ASSUME FileIInv, \/ Fsync("syncBefore", "writeBank")
               \/ Fsync("syncBetween", "writeHeader")
  PROVE  FileIInv'
<1>1. /\ \/ pc = "syncBefore" /\ pc' = "writeBank"
         \/ pc = "syncBetween" /\ pc' = "writeHeader"
      /\ dbank' = bank /\ dcells' = cells
      /\ UNCHANGED <<bank, cells, target, payload, atomic, current, fallback, written>>
  BY DEF Fsync, file, call, history
<1>2. FileTypeOK'
  BY <1>1 DEF FileIInv, FileTypeOK
<1>3. SyncedBeforeWrite' /\ CallKnows' /\ DiskIsBehind' /\ OldOrNew'
  BY <1>1 DEF FileIInv, SyncedBeforeWrite, CallKnows, DiskIsBehind, OldOrNew, Holds
<1> QED
  BY <1>2, <1>3 DEF FileIInv

\* The payload is written, to the other bank or over the current one.
LEMMA WriteBankKeepsIInv ==
  ASSUME FileIInv, WriteBank
  PROVE  FileIInv'
<1>1. /\ pc = "writeBank" /\ pc' = "syncBetween"
      /\ cells' = [cells EXCEPT ![target] = Over(payload, cells[target])]
      /\ current' = IF atomic THEN current ELSE {payload}
      /\ fallback' = IF atomic THEN current ELSE {Garbage}
      /\ written' = IF atomic THEN written ELSE Garbage
      /\ UNCHANGED <<bank, dbank, dcells, target, payload, atomic>>
  BY DEF WriteBank, disk, call
<1>2. /\ cells \in [Banks -> Content] /\ target \in Banks /\ bank \in Banks
      /\ payload \in Payload /\ (atomic <=> target # bank)
      /\ dbank = bank /\ dcells = cells
  BY <1>1 DEF FileIInv, FileTypeOK, CallKnows, SyncedBeforeWrite
<1>3. /\ Over(payload, cells[target]) \in Content
      /\ \A i \in 1..payload.size : Over(payload, cells[target])[i] = payload.name
  <2>1. payload.name \in Names /\ payload.size \in Nat /\ payload.size < BankSize /\ BankSize \in Nat
    BY <1>2, SizesAssumption DEF Payload
  <2>2. cells[target] \in Content
    BY <1>2
  <2> QED
    BY <2>1, <2>2 DEF Over, Content
<1>4. cells' \in [Banks -> Content] /\ cells'[target] = Over(payload, cells[target])
      /\ (target # bank => cells'[bank] = cells[bank])
  BY <1>1, <1>2, <1>3
<1>5. Holds(payload, target)'
  BY <1>1, <1>3, <1>4 DEF Holds
<1>6. FileTypeOK'
  BY <1>1, <1>2, <1>4 DEF FileIInv, FileTypeOK
<1>7. SyncedBeforeWrite' /\ CallKnows'
  BY <1>1, <1>2, <1>5 DEF FileIInv, SyncedBeforeWrite, CallKnows
<1>8. DiskIsBehind'
  BY <1>1, <1>2, <1>4 DEF DiskIsBehind
<1>9. OldOrNew'
  <2>1. CASE atomic
    <3>1. current' = current /\ written' = written /\ cells'[bank] = cells[bank] /\ bank' = bank
      BY <1>1, <1>2, <1>4, <2>1
    <3> QED
      BY <3>1 DEF FileIInv, OldOrNew, Holds
  <2>2. CASE ~atomic
    <3>1. current' = {payload} /\ written' = Garbage /\ target' = bank' /\ payload' = payload
      BY <1>1, <1>2, <2>2
    <3>2. Holds(payload, bank)'
      BY <1>5, <3>1 DEF Holds
    <3>3. Holds(written, bank)'
      BY <3>1 DEF Holds, Garbage
    <3>4. \E p \in current' : Holds(p, bank)'
      BY <3>1, <3>2 DEF Holds
    <3> QED
      BY <3>3, <3>4 DEF OldOrNew
  <2> QED
    BY <2>1, <2>2
<1> QED
  BY <1>6, <1>7, <1>8, <1>9 DEF FileIInv

\* The header is written: the bank with the new payload is the current one.
LEMMA WriteHeaderKeepsIInv ==
  ASSUME FileIInv, WriteHeader
  PROVE  FileIInv'
<1>1. /\ pc = "writeHeader" /\ pc' = "idle" /\ bank' = target
      /\ current' = {payload} /\ fallback' = current /\ written' = payload
      /\ UNCHANGED <<cells, dbank, dcells, target, payload, atomic>>
  BY DEF WriteHeader, disk, call
<1>2. dbank = bank /\ dcells = cells /\ payload \in Payload /\ Holds(payload, target)
  BY <1>1 DEF FileIInv, SyncedBeforeWrite, CallKnows
<1>3. FileTypeOK'
  BY <1>1, <1>2 DEF FileIInv, FileTypeOK
<1>4. SyncedBeforeWrite' /\ CallKnows'
  BY <1>1 DEF SyncedBeforeWrite, CallKnows
<1>5. DiskIsBehind' /\ OldOrNew'
  BY <1>1, <1>2 DEF FileIInv, DiskIsBehind, OldOrNew, Holds
<1> QED
  BY <1>3, <1>4, <1>5 DEF FileIInv

\* The power goes in any state: the header and the cells that come back make a
\* payload that the current bank, or the one the disk names, may hold.
LEMMA PowerLossKeepsIInv ==
  ASSUME FileIInv, PowerLoss
  PROVE  FileIInv'
<1>1. /\ pc' = "idle" /\ bank' \in {bank, dbank}
      /\ cells' \in [Banks -> Content]
      /\ \A b \in Banks, i \in 1..BankSize : cells'[b][i] \in {cells[b][i], dcells[b][i]}
      /\ dbank' = bank' /\ dcells' = cells'
      /\ current' = current \cup fallback /\ fallback' = current' /\ written' = Garbage
      /\ UNCHANGED <<target, payload, atomic>>
  BY DEF PowerLoss, call
<1>2. /\ bank \in Banks /\ dbank \in Banks
      /\ cells \in [Banks -> Content] /\ dcells \in [Banks -> Content]
  BY DEF FileIInv, FileTypeOK
<1>3. FileTypeOK'
  BY <1>1, <1>2 DEF FileIInv, FileTypeOK
<1>4. ASSUME NEW b \in Banks, cells[b] = dcells[b] PROVE cells'[b] = cells[b]
  <2>1. cells'[b] \in Content /\ cells[b] \in Content
    BY <1>1, <1>2
  <2>2. \A i \in 1..BankSize : cells'[b][i] = cells[b][i]
    BY <1>1, <1>4
  <2>3. /\ cells'[b] = [i \in 1..BankSize |-> cells'[b][i]]
        /\ cells[b] = [i \in 1..BankSize |-> cells[b][i]]
    BY <2>1 DEF Content
  <2>4. [i \in 1..BankSize |-> cells'[b][i]] = [i \in 1..BankSize |-> cells[b][i]]
    BY <2>2
  <2> QED
    BY <2>3, <2>4, Zenon
<1>5. SyncedBeforeWrite' /\ CallKnows' /\ DiskIsBehind'
  BY <1>1 DEF SyncedBeforeWrite, CallKnows, DiskIsBehind
<1>6. \E p \in current' : Holds(p, bank)'
  <2>1. CASE bank' # bank
    <3>1. bank' = dbank /\ cells'[dbank] = cells[dbank]
      BY <1>1, <1>2, <1>4, <2>1 DEF FileIInv, DiskIsBehind
    <3> QED
      BY <1>1, <2>1, <3>1 DEF FileIInv, DiskIsBehind, Holds
  <2>2. CASE bank' = bank /\ cells[bank] = dcells[bank]
    <3>1. cells'[bank'] = cells[bank]
      BY <1>2, <1>4, <2>2
    <3> QED
      BY <1>1, <2>2, <3>1 DEF FileIInv, OldOrNew, Holds
  <2>3. CASE cells[bank] # dcells[bank]
    <3>1. Garbage \in current'
      BY <1>1, <2>3 DEF FileIInv, DiskIsBehind
    <3> QED
      BY <3>1 DEF Holds
  <2> QED
    BY <2>1, <2>2, <2>3
<1>7. Holds(written, bank)'
  BY <1>1 DEF Holds, Garbage
<1> QED
  BY <1>3, <1>5, <1>6, <1>7 DEF FileIInv, OldOrNew

\* Every step keeps the invariant.
LEMMA NextPreservesFileIInv == FileIInv /\ [FileNext]_fileVars => FileIInv'
<1> SUFFICES ASSUME FileIInv, [FileNext]_fileVars PROVE FileIInv'
  OBVIOUS
<1>1. ASSUME NEW p \in Payload, WritePayload(p) PROVE FileIInv'
  <2>1. InverseBank(bank) \in Banks /\ InverseBank(bank) # bank
    BY DEF InverseBank, Banks, FileIInv, FileTypeOK
  <2> QED
    BY <1>1, <2>1, CallKeepsIInv DEF WritePayload
<1>2. ASSUME NEW p \in Payload, NEW b \in Banks, WritePayloadTo(b, p) PROVE FileIInv'
  BY <1>2, CallKeepsIInv DEF WritePayloadTo
<1>3. CASE Crash \/ UNCHANGED fileVars
  <2>1. /\ pc' \in {"idle", pc}
        /\ UNCHANGED <<bank, cells, dbank, dcells, target, payload, atomic, current,
                       fallback, written>>
    BY <1>3 DEF Crash, fileVars, file, disk, call, history
  <2>2. FileTypeOK'
    BY <2>1 DEF FileIInv, FileTypeOK
  <2>3. SyncedBeforeWrite' /\ CallKnows' /\ DiskIsBehind' /\ OldOrNew'
    BY <2>1 DEF FileIInv, SyncedBeforeWrite, CallKnows, DiskIsBehind, OldOrNew, Holds
  <2> QED
    BY <2>2, <2>3 DEF FileIInv
<1> QED
  BY <1>1, <1>2, <1>3, FsyncKeepsIInv, WriteBankKeepsIInv, WriteHeaderKeepsIInv,
     PowerLossKeepsIInv DEF FileNext

\* The invariant holds throughout.
LEMMA FileInvariance == FileSpec => []FileIInv
BY InitEstablishesFileIInv, NextPreservesFileIInv, PTL DEF FileSpec

-----------------------------------------------------------------------------
\* The variables of the store keep their types.
THEOREM FileTypeCorrectness == FileSpec => []FileTypeOK
<1>1. FileIInv => FileTypeOK
  BY DEF FileIInv
<1> QED
  BY <1>1, FileInvariance, PTL

\* The current bank begins with a whole payload, the last or the one before,
\* whatever a crash or a loss of power cut short; and a payload whose call returned
\* stays through a crash (atomic_store.cpp:58-62, 110-117).
THEOREM AlwaysOldOrNew == FileSpec => []OldOrNew
<1>1. FileIInv => OldOrNew
  BY DEF FileIInv
<1> QED
  BY <1>1, FileInvariance, PTL
=============================================================================
