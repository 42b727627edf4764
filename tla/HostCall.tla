------------------------------ MODULE HostCall ------------------------------
(***************************************************************************)
(* What a Lean host call promises, without shared memory: a caller asks    *)
(* for one operation, the host executes it at most once, and the caller    *)
(* returns with the outcome of that very operation.                        *)
(* HostSlot (one thread and the event loop) and SyncBridge (the same slots *)
(* served inline during a synchronous callback) implement it.              *)
(***************************************************************************)
CONSTANTS Slots,        \* callers: a Lean thread at one nesting depth
          Operations,   \* what a caller may ask for
          Outcomes,     \* what an executed operation may answer
          None

VARIABLES asked,        \* the operation a caller waits for, or None
          times,        \* how often the host has executed it
          outcome,      \* its outcome, or None
          returned      \* <<operation, outcome>> a caller got, until it asks again

callVars == <<asked, times, outcome, returned>>

Init == /\ asked = [s \in Slots |-> None]
        /\ times = [s \in Slots |-> 0]
        /\ outcome = [s \in Slots |-> None]
        /\ returned = [s \in Slots |-> None]

Ask(s, o) == /\ asked[s] = None
             /\ asked' = [asked EXCEPT ![s] = o]
             /\ returned' = [returned EXCEPT ![s] = None]
             /\ UNCHANGED <<times, outcome>>

\* The operation starts to run; its outcome may come later.
Execute(s) == /\ asked[s] # None
              /\ times[s] = 0
              /\ outcome[s] = None
              /\ times' = [times EXCEPT ![s] = 1]
              /\ UNCHANGED <<asked, outcome, returned>>

\* An executed operation answers.
Answer(s, r) == /\ asked[s] # None
                /\ times[s] = 1
                /\ outcome[s] = None
                /\ outcome' = [outcome EXCEPT ![s] = r]
                /\ UNCHANGED <<asked, times, returned>>

\* A synchronous operation runs and answers at once.
ExecuteNow(s, r) == /\ asked[s] # None
                    /\ times[s] = 0
                    /\ outcome[s] = None
                    /\ times' = [times EXCEPT ![s] = 1]
                    /\ outcome' = [outcome EXCEPT ![s] = r]
                    /\ UNCHANGED <<asked, returned>>

\* The host cannot be loaded: the call fails and nothing is executed.
Refuse(s) == /\ asked[s] # None
             /\ times[s] = 0
             /\ outcome[s] = None
             /\ outcome' = [outcome EXCEPT ![s] = "failure"]
             /\ UNCHANGED <<asked, times, returned>>

Return(s) == /\ asked[s] # None
             /\ outcome[s] # None
             /\ returned' = [returned EXCEPT ![s] = <<asked[s], outcome[s]>>]
             /\ asked' = [asked EXCEPT ![s] = None]
             /\ times' = [times EXCEPT ![s] = 0]
             /\ outcome' = [outcome EXCEPT ![s] = None]

Next == \E s \in Slots :
          \/ \E o \in Operations : Ask(s, o)
          \/ Execute(s)
          \/ \E r \in Outcomes : Answer(s, r) \/ ExecuteNow(s, r)
          \/ Refuse(s)
          \/ Return(s)

Spec == Init /\ [][Next]_callVars
=============================================================================
