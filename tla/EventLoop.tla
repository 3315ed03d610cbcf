----------------------------- MODULE EventLoop ------------------------------
(* The event loop of framework/Application.h: any thread may enqueue a        *)
(* closure; the UI thread moves the whole vector out under eventsMu_, runs    *)
(* the closures in order, paints, updates the sound and goes round again.     *)
(*                                                                            *)
(* The vector is deliberately not atomic here.  push_back is a read of the    *)
(* vector and a later write of it, the move is a read and a later clear, and  *)
(* only eventsMu_ keeps them apart.                                           *)
EXTENDS Naturals, Sequences

CONSTANTS
    Producers,              \* threads that enqueue: telemetry, input, timers...
    MaxEvents               \* bound: events each producer enqueues

ASSUME ProducersAssumption == "ui" \notin Producers /\ "free" \notin Producers
ASSUME MaxEventsAssumption == MaxEvents \in Nat \ {0}

VARIABLES
    eventsMu,               \* holder of eventsMu_, "free" when nobody
    events,                 \* events_
    current,                \* currentEvents: the rest of the batch being run
    ppc,                    \* [Producers -> where in enqueue the thread is]
    seen,                   \* [Producers -> the vector push_back is working on]
    made,                   \* [Producers -> events enqueued so far]
    upc,                    \* where in Application::run the UI thread is
    running,                \* running_
    installed,              \* the sound scheme is installed on the mixer
    pushed,                 \* history: every event, in push_back order
    ran,                    \* history: every event run, in the order it ran
    taken,                  \* history: Len(pushed) when the batch was moved
    painted                 \* history: Len(ran) when the view last painted

vars == <<eventsMu, events, current, ppc, seen, made, upc, running, installed,
          pushed, ran, taken, painted>>

Event == [from : Producers, num : 1..MaxEvents]

Init ==
    /\ eventsMu = "free"
    /\ events = <<>>
    /\ current = <<>>
    /\ ppc = [p \in Producers |-> "idle"]
    /\ seen = [p \in Producers |-> <<>>]
    /\ made = [p \in Producers |-> 0]
    /\ upc = "initialize"
    /\ running = TRUE
    /\ installed = FALSE
    /\ pushed = <<>>
    /\ ran = <<>>
    /\ taken = 0
    /\ painted = 0

-----------------------------------------------------------------------------
(* EventQueueImpl::enqueue, in any thread but the UI thread. *)

\* Mutant: enqueue without the lock_guard.
EnqueueUnlocked(p) ==
    /\ ppc[p] = "idle"
    /\ made[p] < MaxEvents
    /\ ppc' = [ppc EXCEPT ![p] = "locked"]
    /\ UNCHANGED <<eventsMu, events, current, seen, made, upc, running,
                   installed, pushed, ran, taken, painted>>

EnqueueLock(p) ==
    /\ ppc[p] = "idle"
    /\ made[p] < MaxEvents
    /\ eventsMu = "free"
    /\ eventsMu' = p
    /\ ppc' = [ppc EXCEPT ![p] = "locked"]
    /\ UNCHANGED <<events, current, seen, made, upc, running, installed,
                   pushed, ran, taken, painted>>

PushRead(p) ==
    /\ ppc[p] = "locked"
    /\ seen' = [seen EXCEPT ![p] = events]
    /\ ppc' = [ppc EXCEPT ![p] = "pushing"]
    /\ UNCHANGED <<eventsMu, events, current, made, upc, running, installed,
                   pushed, ran, taken, painted>>

\* The end of push_back and of the lock_guard's scope.
PushWrite(p) ==
    LET e == [from |-> p, num |-> made[p] + 1]
    IN  /\ ppc[p] = "pushing"
        /\ events' = Append(seen[p], e)
        /\ pushed' = Append(pushed, e)
        /\ made' = [made EXCEPT ![p] = @ + 1]
        /\ eventsMu' = "free"
        /\ ppc' = [ppc EXCEPT ![p] = "idle"]
        /\ UNCHANGED <<current, seen, upc, running, installed, ran, taken,
                       painted>>

Produce(p) == EnqueueLock(p) \/ PushRead(p) \/ PushWrite(p)

-----------------------------------------------------------------------------
(* Application::run, in the UI thread. *)

\* initialize() and soundScheme_->install(); threads started by initialize()
\* may have enqueued events by now.
Initialize ==
    /\ upc = "initialize"
    /\ installed' = TRUE
    /\ upc' = "while"
    /\ UNCHANGED <<eventsMu, events, current, ppc, seen, made, running, pushed,
                   ran, taken, painted>>

\* Mutant: running_ is read once, before the loop.
CheckCached ==
    /\ upc = "while"
    /\ upc' = "lock"
    /\ UNCHANGED <<eventsMu, events, current, ppc, seen, made, running,
                   installed, pushed, ran, taken, painted>>

CheckRunning ==
    /\ upc = "while"
    /\ upc' = IF running THEN "lock" ELSE "remove"
    /\ UNCHANGED <<eventsMu, events, current, ppc, seen, made, running,
                   installed, pushed, ran, taken, painted>>

LockEvents ==
    /\ upc = "lock"
    /\ eventsMu = "free"
    /\ eventsMu' = "ui"
    /\ upc' = "move"
    /\ UNCHANGED <<events, current, ppc, seen, made, running, installed,
                   pushed, ran, taken, painted>>

\* currentEvents = std::move(events_): the target takes the buffer ...
MoveEvents ==
    /\ upc = "move"
    /\ current' = events
    /\ upc' = "clear"
    /\ taken' = Len(pushed)
    /\ UNCHANGED <<eventsMu, events, ppc, seen, made, running, installed,
                   pushed, ran, painted>>

\* ... and the moved-from vector is left empty; the lock_guard's scope ends.
ClearEvents ==
    /\ upc = "clear"
    /\ events' = <<>>
    /\ eventsMu' = "free"
    /\ upc' = "dispatch"
    /\ UNCHANGED <<current, ppc, seen, made, running, installed, pushed, ran,
                   taken, painted>>

\* Mutant: the batch is run from its end, as a stack.
RunNewest ==
    /\ upc = "dispatch"
    /\ current # <<>>
    /\ ran' = Append(ran, current[Len(current)])
    /\ current' = SubSeq(current, 1, Len(current) - 1)
    /\ UNCHANGED <<eventsMu, events, ppc, seen, made, upc, running, installed,
                   pushed, taken, painted>>

RunEvent ==
    /\ upc = "dispatch"
    /\ current # <<>>
    /\ ran' = Append(ran, Head(current))
    /\ current' = Tail(current)
    /\ UNCHANGED <<eventsMu, events, ppc, seen, made, upc, running, installed,
                   pushed, taken, painted>>

\* Mutant: a frame is painted after each event, the rest of the batch dropped.
PaintEarly ==
    /\ upc = "dispatch"
    /\ painted' = Len(ran)
    /\ upc' = "update"
    /\ UNCHANGED <<eventsMu, events, current, ppc, seen, made, running,
                   installed, pushed, ran, taken>>

\* The for loop is over: view_->paint() and screen_->flush().
Paint ==
    /\ upc = "dispatch"
    /\ current = <<>>
    /\ painted' = Len(ran)
    /\ upc' = "update"
    /\ UNCHANGED <<eventsMu, events, current, ppc, seen, made, running,
                   installed, pushed, ran, taken>>

\* soundScheme_->update() and the sleep between frames.
UpdateSound ==
    /\ upc = "update"
    /\ upc' = "while"
    /\ UNCHANGED <<eventsMu, events, current, ppc, seen, made, running,
                   installed, pushed, ran, taken, painted>>

\* soundScheme_->remove(); run() returns.
RemoveScheme ==
    /\ upc = "remove"
    /\ installed' = FALSE
    /\ upc' = "done"
    /\ UNCHANGED <<eventsMu, events, current, ppc, seen, made, running, pushed,
                   ran, taken, painted>>

UI == \/ Initialize \/ CheckRunning \/ LockEvents \/ MoveEvents \/ ClearEvents
      \/ RunEvent \/ Paint \/ UpdateSound \/ RemoveScheme

\* Application::stop(), from any thread.
Stop ==
    /\ running' = FALSE
    /\ UNCHANGED <<eventsMu, events, current, ppc, seen, made, upc, installed,
                   pushed, ran, taken, painted>>

Next == UI \/ Stop \/ \E p \in Producers : Produce(p)

(* A thread that holds or awaits the mutex is scheduled; nothing makes a      *)
(* producer start an enqueue, or anybody call stop().                         *)
Fairness ==
    /\ WF_vars(UI)
    /\ \A p \in Producers : WF_vars(PushRead(p) \/ PushWrite(p))

Spec == Init /\ [][Next]_vars
FairSpec == Spec /\ Fairness

-----------------------------------------------------------------------------
\* The types of the variables.
TypeOK ==
    /\ eventsMu \in Producers \cup {"ui", "free"}
    /\ events \in Seq(Event)
    /\ current \in Seq(Event)
    /\ ppc \in [Producers -> {"idle", "locked", "pushing"}]
    /\ seen \in [Producers -> Seq(Event)]
    /\ made \in [Producers -> 0..MaxEvents]
    /\ upc \in {"initialize", "while", "lock", "move", "clear", "dispatch",
                "update", "remove", "done"}
    /\ running \in BOOLEAN
    /\ installed \in BOOLEAN
    /\ pushed \in Seq(Event)
    /\ ran \in Seq(Event)
    /\ taken \in Nat
    /\ painted \in Nat

\* Enqueued and not yet run.  Between the two halves of the move the batch is
\* in both vectors and counts once.
Undispatched == IF upc = "clear" THEN events ELSE current \o events

\* Application.h:35-44 and 81-84: whatever the threads do, the events run so
\* far followed by the events still waiting are exactly the events enqueued,
\* in order.  None is lost, run twice or overtaken.
ExactlyOnceInOrder == pushed = ran \o Undispatched

\* A frame shows every event that was waiting when its batch was taken and
\* none that came later (Application.h:44).
FrameShowsItsBatch ==
    upc = "update" => painted = taken /\ Len(ran) = taken

(* The strengthening that makes the three properties above inductive. *)

\* A thread inside push_back or inside the move holds eventsMu_, so no other
\* thread is.
OneThreadInQueue ==
    /\ \A p \in Producers : ppc[p] # "idle" => eventsMu = p /\ made[p] < MaxEvents
    /\ upc \in {"move", "clear"} => eventsMu = "ui"

\* What a thread read from the vector is still there when it writes.
ReadsAreCurrent ==
    /\ \A p \in Producers : ppc[p] = "pushing" => seen[p] = events
    /\ upc = "clear" => current = events
    /\ upc \notin {"clear", "dispatch"} => current = <<>>

\* The batch is what was pushed when it was taken, less what has run.
BatchAccounted ==
    /\ upc = "clear" => taken = Len(pushed)
    /\ upc = "dispatch" => taken = Len(ran) + Len(current)

IInv ==
    /\ TypeOK
    /\ OneThreadInQueue
    /\ ReadsAreCurrent
    /\ BatchAccounted
    /\ ExactlyOnceInOrder
    /\ FrameShowsItsBatch

\* After stop() the loop ends, and the sound scheme is removed once it has.
StopEndsLoop == ~running ~> (upc = "done" /\ ~installed)

\* The loop implements the queue that IEventQueue promises.
Queue == INSTANCE EventQueue
            WITH pending <- Undispatched, handled <- ran, open <- running
QueueSpec == Queue!Spec
=============================================================================
