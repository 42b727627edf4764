-------------------------- MODULE MCInteropPoller --------------------------
(* `main`, one more Lean thread, one Lean function that JavaScript calls    *)
(* twice, and one awaited promise; a poll takes at most two events.         *)
EXTENDS InteropPoller
CONSTANTS W, F, C1, C2, P1
MCWorkers == {W}
MCFunctions == {F}
MCCalls == {C1, C2}
MCPromises == {P1}
=============================================================================
