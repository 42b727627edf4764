----------------------------- MODULE EventQueue -----------------------------
(***************************************************************************)
(* What the host promises for events on their way to Lean: each one is     *)
(* delivered at most once, in the order in which they were pushed, and     *)
(* none is dropped in between.  InteropPoller and Completions implement it.*)
(***************************************************************************)
EXTENDS Sequences, SequencesExt

CONSTANT Events

VARIABLES queue,      \* pushed and not yet delivered, oldest first
          delivered   \* what Lean has handled

Init == queue = <<>> /\ delivered = <<>>

Push(e) == /\ e \notin ToSet(queue) \cup ToSet(delivered)
           /\ queue' = Append(queue, e)
           /\ UNCHANGED delivered

Deliver == /\ queue # <<>>
           /\ delivered' = Append(delivered, Head(queue))
           /\ queue' = Tail(queue)

Next == (\E e \in Events : Push(e)) \/ Deliver

Spec == Init /\ [][Next]_<<queue, delivered>>
=============================================================================
