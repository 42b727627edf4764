----------------------------- MODULE MCWasiServe -----------------------------
(***************************************************************************)
(* Values for TLC: timer 1 fires once after a tick, timer 2 repeats.       *)
(***************************************************************************)
EXTENDS WasiServe

MCTimeout == [t \in Timers |-> 1]
=============================================================================
