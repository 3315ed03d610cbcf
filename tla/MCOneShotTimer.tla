--------------------------- MODULE MCOneShotTimer ---------------------------
(* A finite instance of OneShotTimer: three timers, so that a timer can be    *)
(* restarted while the one before it is still being destroyed.                *)
EXTENDS OneShotTimer
=============================================================================
