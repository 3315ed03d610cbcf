---------------------------- MODULE MCEventLoop -----------------------------
(* A finite instance of EventLoop: two producing threads with two events      *)
(* each, so that one can enqueue while the other waits and the UI thread      *)
(* moves the vector between any two of their steps.                           *)
EXTENDS EventLoop

MCProducers == {"telemetry", "input"}
=============================================================================
