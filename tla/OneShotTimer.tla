---------------------------- MODULE OneShotTimer ----------------------------
(* util/one_shot_timer.cpp with the slot that owns it: Settings.cpp keeps a   *)
(* unique_ptr to the current timer, and restarts it by reset(new Timer), so   *)
(* the new timer's thread runs before the old timer is cancelled, joined and  *)
(* freed.  The callback enqueues under eventsMu_, which the UI thread shares. *)
EXTENDS Naturals

CONSTANT MaxTimers          \* bound: timers created over a run

ASSUME MaxTimersAssumption == MaxTimers \in Nat \ {0}

Timers == 1..MaxTimers      \* in the order they are created
None == 0
UIThread == MaxTimers + 1

VARIABLES
    mu,                     \* [Timers -> holder of mu_]: free, run, owner
    running,                \* [Timers -> running_]
    due,                    \* [Timers -> BOOLEAN]: now() > end_
    tpc,                    \* [Timers -> where run() is]
    calls,                  \* [Timers -> how often callback_ enqueued its event]
    freed,                  \* [Timers -> BOOLEAN]: the destructor returned
    eventsMu,               \* holder of eventsMu_: None, UIThread or a timer
    opc,                    \* where the owner (input thread) is in reset()
    slot,                   \* the timer the unique_ptr points to
    dying,                  \* the timer whose destructor runs
    created                 \* timers created so far

vars == <<mu, running, due, tpc, calls, freed, eventsMu, opc, slot, dying, created>>

Init ==
    /\ mu = [t \in Timers |-> "free"]
    /\ running = [t \in Timers |-> FALSE]
    /\ due = [t \in Timers |-> FALSE]
    /\ tpc = [t \in Timers |-> "unborn"]
    /\ calls = [t \in Timers |-> 0]
    /\ freed = [t \in Timers |-> FALSE]
    /\ eventsMu = None
    /\ opc = "idle"
    /\ slot = None
    /\ dying = None
    /\ created = 0

-----------------------------------------------------------------------------
(* The owner: reset(new OneShotTimer(..)) and reset(nullptr). *)

\* Mutant: a raw pointer is overwritten and the old timer forgotten.
RestartForgets ==
    /\ opc = "idle"
    /\ created < MaxTimers
    /\ created' = created + 1
    /\ running' = [running EXCEPT ![created + 1] = TRUE]
    /\ tpc' = [tpc EXCEPT ![created + 1] = "awake"]
    /\ slot' = created + 1
    /\ UNCHANGED <<mu, due, calls, freed, eventsMu, opc, dying>>

\* The constructor (running_, end_, then the thread), then the swap of the
\* unique_ptr; the old timer is destroyed afterwards.
Restart ==
    /\ opc = "idle"
    /\ created < MaxTimers
    /\ created' = created + 1
    /\ running' = [running EXCEPT ![created + 1] = TRUE]
    /\ tpc' = [tpc EXCEPT ![created + 1] = "awake"]
    /\ slot' = created + 1
    /\ dying' = slot
    /\ opc' = IF slot = None THEN "idle" ELSE "cancel"
    /\ UNCHANGED <<mu, due, calls, freed, eventsMu>>

Stop ==
    /\ opc = "idle"
    /\ slot # None
    /\ slot' = None
    /\ dying' = slot
    /\ opc' = "cancel"
    /\ UNCHANGED <<mu, running, due, tpc, calls, freed, eventsMu, created>>

\* cancel(), called by the destructor.
CancelLock ==
    /\ opc = "cancel"
    /\ mu[dying] = "free"
    /\ mu' = [mu EXCEPT ![dying] = "owner"]
    /\ opc' = "store"
    /\ UNCHANGED <<running, due, tpc, calls, freed, eventsMu, slot, dying, created>>

CancelStore ==
    /\ opc = "store"
    /\ running' = [running EXCEPT ![dying] = FALSE]
    /\ mu' = [mu EXCEPT ![dying] = "free"]
    /\ opc' = "join"
    /\ UNCHANGED <<due, tpc, calls, freed, eventsMu, slot, dying, created>>

\* Mutant: the thread is detached, not joined.
Detach ==
    /\ opc = "join"
    /\ freed' = [freed EXCEPT ![dying] = TRUE]
    /\ dying' = None
    /\ opc' = "idle"
    /\ UNCHANGED <<mu, running, due, tpc, calls, eventsMu, slot, created>>

\* thread_.join() returns and the members are destroyed.
Join ==
    /\ opc = "join"
    /\ tpc[dying] = "exited"
    /\ freed' = [freed EXCEPT ![dying] = TRUE]
    /\ dying' = None
    /\ opc' = "idle"
    /\ UNCHANGED <<mu, running, due, tpc, calls, eventsMu, slot, created>>

Destroy == CancelLock \/ CancelStore \/ Join

-----------------------------------------------------------------------------
(* The timer's own thread: run(). *)

\* Time passes end_.
Expire(t) ==
    /\ tpc[t] # "unborn"
    /\ ~due[t]
    /\ due' = [due EXCEPT ![t] = TRUE]
    /\ UNCHANGED <<mu, running, tpc, calls, freed, eventsMu, opc, slot, dying, created>>

RunLock(t) ==
    /\ tpc[t] = "awake"
    /\ mu[t] = "free"
    /\ mu' = [mu EXCEPT ![t] = "run"]
    /\ tpc' = [tpc EXCEPT ![t] = "locked"]
    /\ UNCHANGED <<running, due, calls, freed, eventsMu, opc, slot, dying, created>>

\* if (!running_) return
RunCancelled(t) ==
    /\ tpc[t] = "locked"
    /\ ~running[t]
    /\ mu' = [mu EXCEPT ![t] = "free"]
    /\ tpc' = [tpc EXCEPT ![t] = "exited"]
    /\ UNCHANGED <<running, due, calls, freed, eventsMu, opc, slot, dying, created>>

\* Mutant: the sleep is inside the lock's scope.
SleepLocked(t) ==
    /\ tpc[t] = "locked"
    /\ running[t]
    /\ ~due[t]
    /\ tpc' = [tpc EXCEPT ![t] = "awake"]
    /\ UNCHANGED <<mu, running, due, calls, freed, eventsMu, opc, slot, dying, created>>

\* now() <= end_: leave the lock's scope and sleep for kResolution.
RunSleep(t) ==
    /\ tpc[t] = "locked"
    /\ running[t]
    /\ ~due[t]
    /\ mu' = [mu EXCEPT ![t] = "free"]
    /\ tpc' = [tpc EXCEPT ![t] = "awake"]
    /\ UNCHANGED <<running, due, calls, freed, eventsMu, opc, slot, dying, created>>

\* Mutant: running_ is not looked at again once the time has come.
CallbackUnchecked(t) ==
    /\ tpc[t] = "locked"
    /\ due[t]
    /\ eventsMu = None
    /\ eventsMu' = t
    /\ tpc' = [tpc EXCEPT ![t] = "calling"]
    /\ UNCHANGED <<mu, running, due, calls, freed, opc, slot, dying, created>>

\* Mutant: mu_ is released before the callback is called.
CallbackUnlocked(t) ==
    /\ tpc[t] = "locked"
    /\ running[t]
    /\ due[t]
    /\ eventsMu = None
    /\ eventsMu' = t
    /\ mu' = [mu EXCEPT ![t] = "free"]
    /\ tpc' = [tpc EXCEPT ![t] = "calling"]
    /\ UNCHANGED <<running, due, calls, freed, opc, slot, dying, created>>

\* now() > end_: callback_() waits for eventsMu_ with mu_ held ...
RunCallback(t) ==
    /\ tpc[t] = "locked"
    /\ running[t]
    /\ due[t]
    /\ eventsMu = None
    /\ eventsMu' = t
    /\ tpc' = [tpc EXCEPT ![t] = "calling"]
    /\ UNCHANGED <<mu, running, due, calls, freed, opc, slot, dying, created>>

\* Mutant: no return after the callback.
CallAgain(t) ==
    /\ tpc[t] = "calling"
    /\ calls' = [calls EXCEPT ![t] = @ + 1]
    /\ eventsMu' = None
    /\ mu' = [mu EXCEPT ![t] = "free"]
    /\ tpc' = [tpc EXCEPT ![t] = "awake"]
    /\ UNCHANGED <<running, due, freed, opc, slot, dying, created>>

\* ... enqueues, and run() returns.
RunReturn(t) ==
    /\ tpc[t] = "calling"
    /\ calls' = [calls EXCEPT ![t] = @ + 1]
    /\ eventsMu' = None
    /\ mu' = [mu EXCEPT ![t] = "free"]
    /\ tpc' = [tpc EXCEPT ![t] = "exited"]
    /\ UNCHANGED <<running, due, freed, opc, slot, dying, created>>

Run(t) == \/ RunLock(t) \/ RunCancelled(t) \/ RunSleep(t)
          \/ RunCallback(t) \/ RunReturn(t)

-----------------------------------------------------------------------------
(* The UI thread at the queue: it moves the events out under eventsMu_, and   *)
(* the handlers it runs afterwards never touch a timer.                       *)
UILock ==
    /\ eventsMu = None
    /\ eventsMu' = UIThread
    /\ UNCHANGED <<mu, running, due, tpc, calls, freed, opc, slot, dying, created>>

UIUnlock ==
    /\ eventsMu = UIThread
    /\ eventsMu' = None
    /\ UNCHANGED <<mu, running, due, tpc, calls, freed, opc, slot, dying, created>>

Next == \/ Restart \/ Stop \/ Destroy
        \/ UILock \/ UIUnlock
        \/ \E t \in Timers : Expire(t) \/ Run(t)

(* Threads are scheduled and time passes.  A timer polls mu_ once a           *)
(* millisecond, so whoever waits for it gets it (SF); so it is for eventsMu_, *)
(* which is only held for a push or a move.  Nobody has to restart a timer.   *)
Fairness ==
    /\ SF_vars(CancelLock) /\ WF_vars(CancelStore) /\ WF_vars(Join)
    /\ WF_vars(UIUnlock)
    /\ \A t \in Timers :
        /\ WF_vars(Expire(t))
        /\ WF_vars(RunCancelled(t)) /\ WF_vars(RunSleep(t)) /\ WF_vars(RunReturn(t))
        /\ SF_vars(RunLock(t)) /\ SF_vars(RunCallback(t))

Spec == Init /\ [][Next]_vars
FairSpec == Spec /\ Fairness

-----------------------------------------------------------------------------
\* The types; a timer calls back once at most (one_shot_timer.cpp:36-37).
TypeOK ==
    /\ mu \in [Timers -> {"free", "run", "owner"}]
    /\ running \in [Timers -> BOOLEAN]
    /\ due \in [Timers -> BOOLEAN]
    /\ tpc \in [Timers -> {"unborn", "awake", "locked", "calling", "exited"}]
    /\ calls \in [Timers -> {0, 1}]
    /\ freed \in [Timers -> BOOLEAN]
    /\ eventsMu \in 0..UIThread
    /\ opc \in {"idle", "cancel", "store", "join"}
    /\ slot \in 0..MaxTimers
    /\ dying \in 0..MaxTimers
    /\ created \in 0..MaxTimers

\* Once a timer's memory is gone its thread is gone too: run() never looks at
\* mu_, running_ or callback_ of a freed timer (one_shot_timer.cpp:18-21).
FreedIsQuiet == \A t \in Timers : freed[t] => tpc[t] = "exited" /\ mu[t] = "free"

\* When reset() has returned, the timer in the slot is the only one left: every
\* older one is cancelled, joined and freed.
OnlySlotLives ==
    opc = "idle" => \A t \in 1..created : t # slot => freed[t]

\* one_shot_timer_test.cpp:24-35: after cancel() the function is not called,
\* however close the two come.
NoCallAfterCancel ==
    [][\A t \in Timers : calls'[t] # calls[t] => running[t] /\ ~freed[t]]_vars

\* The input thread always gets back from reset(), although the timer it waits
\* for may itself be waiting for the UI thread's mutex (no deadlock over
\* mu_ and eventsMu_).
OwnerReturns == opc # "idle" ~> opc = "idle"

\* The timer's abstract state.
TimerState ==
    [t \in Timers |-> CASE tpc[t] = "unborn" -> "unborn"
                        [] calls[t] > 0 -> "fired"
                        [] tpc[t] # "unborn" /\ calls[t] = 0 /\ running[t] -> "armed"
                        [] OTHER -> "off"]

\* The class with its thread, lock and polling implements a timer that fires
\* once unless cancelled.
AbstractTimer == INSTANCE Timer WITH state <- TimerState
TimerSpec == AbstractTimer!Spec

(* The strengthening that makes FreedIsQuiet and OnlySlotLives inductive. *)

\* Who holds which mutex, read off the program counters.
LocksHeld ==
    /\ \A t \in Timers : mu[t] = "run" <=> tpc[t] \in {"locked", "calling"}
    /\ \A t \in Timers : mu[t] = "owner" <=> opc = "store" /\ dying = t
    /\ \A t \in Timers : eventsMu = t <=> tpc[t] = "calling"

\* What the threads know about running_ at each point.
CancelKnown ==
    /\ \A t \in Timers : tpc[t] = "calling" => running[t]
    /\ \A t \in Timers : tpc[t] = "unborn" <=> t > created
    /\ \A t \in Timers : calls[t] = 1 => tpc[t] = "exited"
    /\ \A t \in Timers : freed[t] => tpc[t] = "exited" /\ ~running[t]
    /\ opc = "join" => ~running[dying]

\* Every timer is the current one, the one being destroyed, or freed.
Owned ==
    /\ slot <= created /\ dying <= created
    /\ slot # None => ~freed[slot] /\ slot # dying
    /\ opc = "idle" <=> dying = None
    /\ dying # None => ~freed[dying]
    /\ \A t \in 1..created : t # slot /\ t # dying => freed[t]

IInv == TypeOK /\ LocksHeld /\ CancelKnown /\ Owned
=============================================================================
