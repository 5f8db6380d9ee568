---------------------------- MODULE LifecycleMC -----------------------------
(* Model values for the run of Lifecycle.                                  *)
EXTENDS Lifecycle

CONSTANTS p1, p2

TwoProcesses == {p1, p2}
=============================================================================
