---------------------------- MODULE MCCompletions ----------------------------
(* A thread and a synchronous callback that start and cancel operations, and  *)
(* the completion thread, which takes one packet at a time.                   *)
EXTENDS Completions
CONSTANTS T1, S, H1, P1, P2
OneThread == {T1}
OneHandle == {H1}
TwoPromises == {P1, P2}
=============================================================================
