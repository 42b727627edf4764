----------------------------- MODULE MCHostSlot -----------------------------
(* A Lean thread that also calls from inside its wait: two slots that       *)
(* compete for the main thread.  One reply fits a new slot's buffer, one    *)
(* does not when ReplyBytes is 1.                                           *)
EXTENDS HostSlot
CONSTANTS A0, A1, Read, Clock

MCOutcomes == {"ok", "failure"}

NestedSlots == {A0, A1}
NestedParent == [s \in NestedSlots |-> IF s = A1 THEN A0 ELSE None]
NestedRingers == {A1}
BothOperations == {Read, Clock}
BothAsync == {Read}
BothSize == [b \in BothOperations \X MCOutcomes |-> IF b = <<Read, "ok">> THEN 2 ELSE 1]
=============================================================================
