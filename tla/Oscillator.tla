----------------------------- MODULE Oscillator ------------------------------
(* What sine_layer.h promises of an oscillation that is changed while it      *)
(* plays: it finishes the cycle it is in, and begins the next one as it was   *)
(* last told.  pwm_layer is one as well; its cycles have more than a period.  *)
EXTENDS Naturals

CONSTANT Cycles             \* records with a field period

VARIABLES
    cycle,                  \* the cycle being played
    phase,                  \* its frame that was played last
    next                    \* the cycle that comes after it

ovars == <<cycle, phase, next>>

Init ==
    /\ cycle \in Cycles
    /\ phase = cycle.period - 1
    /\ next = cycle

\* set_period(), set_parameters()
Tell ==
    /\ next' \in Cycles
    /\ UNCHANGED <<cycle, phase>>

GoOn ==
    /\ phase + 1 < cycle.period
    /\ phase' = phase + 1
    /\ UNCHANGED <<cycle, next>>

Begin ==
    /\ phase + 1 = cycle.period
    /\ cycle' = next
    /\ phase' = 0
    /\ UNCHANGED next

Play == GoOn \/ Begin
Next == Play \/ Tell

\* The sound never stops.
Spec == Init /\ [][Next]_ovars /\ WF_ovars(Play)
=============================================================================
