----------------------------- MODULE MCCoopLoop -----------------------------
(***************************************************************************)
(* Values for TLC: timer 1 fires once after a tick, timer 2 repeats.       *)
(***************************************************************************)
EXTENDS CoopLoop, TLC

MCTimeout == [t \in Timers |-> 1]
=============================================================================
