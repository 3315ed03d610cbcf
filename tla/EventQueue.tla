----------------------------- MODULE EventQueue -----------------------------
(* What IEventQueue (framework/IEventQueue.h) promises its clients, without   *)
(* the vector, the mutex or the frame loop that Application.h builds it from: *)
(* a first-in first-out queue whose events are each run exactly once by one   *)
(* thread, until the application is stopped.                                  *)
EXTENDS Sequences

CONSTANT Event              \* the closures that threads hand over

VARIABLES
    pending,                \* enqueued and not yet run, oldest first
    handled,                \* run so far, in the order they ran
    open                    \* FALSE once Application::stop() was called

qvars == <<pending, handled, open>>

Init ==
    /\ pending = <<>>
    /\ handled = <<>>
    /\ open = TRUE

\* IEventQueue::enqueue(e), from any thread.
Enqueue(e) ==
    /\ pending' = Append(pending, e)
    /\ UNCHANGED <<handled, open>>

\* The UI thread runs the oldest event.
Dispatch ==
    /\ pending # <<>>
    /\ handled' = Append(handled, Head(pending))
    /\ pending' = Tail(pending)
    /\ UNCHANGED open

Close ==
    /\ open' = FALSE
    /\ UNCHANGED <<pending, handled>>

Next == (\E e \in Event : Enqueue(e)) \/ Dispatch \/ Close

\* While the application runs, a queue that is never empty is always served.
Spec ==
    /\ Init
    /\ [][Next]_qvars
    /\ WF_qvars(open /\ Dispatch)
=============================================================================
