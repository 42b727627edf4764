---------------------------- MODULE MCSyncBridge ----------------------------
(* The callback thread's slot S0 alone, with its deeper slot S1, or with    *)
(* the slots of workers that run tasks for the callback: W0 and V0, and W1  *)
(* one depth below W0.                                                      *)
EXTENDS SyncBridge, TLC
CONSTANTS S1, W0, W1, V0, K1, K2, T1, T2, Read, Clock, Write, Free

MCParent == [s \in Slots |-> CASE s = S1 -> S0 [] s = W1 -> W0 [] OTHER -> None]
MCThread == [s \in Slots |-> IF MCParent[s] = None THEN s ELSE MCParent[s]]
MCDepth  == [s \in Slots |-> IF MCParent[s] = None THEN 0 ELSE 1]

SingleSlot  == {S0}
NestedSlots == {S0, S1}
TaskSlots   == {S0, W0}
MailSlots   == {S0, W0, W1}
WorkerSlots == {S0, W0, V0}

OneTask  == {T1}
TwoTasks == {T1, T2}

NestedOperations == {Clock}
ServedOperations == {Read, Write}
TaskOperations   == {Write}
FreeOperations   == {Free}

MCOutcomes == {"ok", "refused", "failure"}
TaskOutcomes == {"ok", "failure"}
MCSize == [b \in Operations \X Outcomes |-> IF b = <<Clock, "ok">> THEN 2 ELSE 1]

MCCallbacks == {K1, K2}
JustFailure == {"failure"}
OneCallback == {K1}
Empty == {}
Interchangeable == Permutations({W0, V0}) \cup Permutations({T1, T2})
=============================================================================
