------------------------------- MODULE Timer --------------------------------
(* What a user of util/one_shot_timer.h sees: a timer is started once, calls  *)
(* its function at most once, and never after it was cancelled.  A cancel     *)
(* that comes too late changes nothing.                                       *)
CONSTANT Timers

VARIABLE state              \* [Timers -> {"unborn", "armed", "fired", "off"}]

Init == state = [t \in Timers |-> "unborn"]

Start(t) ==
    /\ state[t] = "unborn"
    /\ state' = [state EXCEPT ![t] = "armed"]

Fire(t) ==
    /\ state[t] = "armed"
    /\ state' = [state EXCEPT ![t] = "fired"]

Cancel(t) ==
    /\ state[t] = "armed"
    /\ state' = [state EXCEPT ![t] = "off"]

Next == \E t \in Timers : Start(t) \/ Fire(t) \/ Cancel(t)

\* A timer that nobody cancels fires.
Spec ==
    /\ Init
    /\ [][Next]_state
    /\ \A t \in Timers : WF_state(Fire(t))
=============================================================================
