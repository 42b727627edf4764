------------------------------ MODULE HostSlot ------------------------------
(***************************************************************************)
(* Lean host calls of a full build.  A Lean pthread writes a request into  *)
(* a slot of shared Wasm memory, bumps the slot's sequence, notifies it    *)
(* and waits on the slot's reply word (scripts/full-lean/host-library.js,  *)
(* $lasmFullRPC).  Node's main thread waits on the sequence with           *)
(* Atomics.waitAsync, runs the operation and writes the reply in place     *)
(* (scripts/full-lean/host-pre.js, lasmFullServe and what it calls).       *)
(*                                                                         *)
(* Every access of a shared word is a step of its own, so a thread and the *)
(* main thread interleave between any two of them; only an entry of the    *)
(* wait list and its epoch move together (in between, the thread counts as *)
(* running, which is what it does).  A slot stands for one                 *)
(* thread at one nesting depth: a call nested in the wait of another one   *)
(* (mailbox work run by Emscripten's futex wait) uses the next depth's     *)
(* slot.  A call is a request, a release or a start: all that matters here *)
(* is whether its operation answers at once or with a promise.             *)
(***************************************************************************)
EXTENDS Naturals, FiniteSets

CONSTANTS Slots,        \* host call slots
          None,
          Parent,       \* the slot one depth below, None at depth 0
          Operations,   \* what a call asks for
          AsyncOps,     \* the operations the host answers with a promise
          Outcomes,     \* what an operation may answer, "failure" for one that throws
          Size,         \* bytes of the reply of an operation, per outcome
          ReplyBytes,   \* a new slot's reply buffer (65536 in the code)
          SeqModulus,   \* the sequence is an i32 (2^32 in the code)
          Ringers,      \* slots of the synchronous-callback thread
          WaitSlots     \* entries of the wait list (256 in the code)

Statuses == Outcomes \cup {"overflow"}
Replies  == Operations \X Outcomes

ASSUME SlotsAssumption == /\ None \notin Slots
                          /\ Parent \in [Slots -> Slots \cup {None}]
                          /\ \A s, t \in Slots : /\ Parent[s] # s
                                                 /\ Parent[s] = Parent[t] /\ Parent[s] # None => s = t
                          /\ Ringers \subseteq Slots
ASSUME OperationsAssumption == /\ AsyncOps \subseteq Operations
                               /\ "failure" \in Outcomes /\ "overflow" \notin Outcomes
                               /\ None \notin Outcomes
                               /\ None \notin Operations
                               /\ None \notin Replies
ASSUME SizesAssumption == /\ Size \in [Replies -> Nat]
                          /\ ReplyBytes \in Nat
ASSUME BoundsAssumption == /\ SeqModulus \in Nat /\ SeqModulus > 1
                           /\ WaitSlots \in Nat

VARIABLES
  (* a Lean thread *)
  cpc,        \* where its call stands
  want,       \* the operation it called with
  returned,   \* what its last call returned, <<operation of the bytes, status>>,
              \* until the next one
  (* the slot, in shared memory *)
  seq, ready, kind, op, status, buffer, length, capacity,
  (* Lasm.JS words in shared memory *)
  bell,       \* has the doorbell moved since the main thread last read it?
  listed,     \* slots in the wait list
  moved,      \* has the wait list's epoch moved since the main thread last read it?
  (* the main thread *)
  main,       \* the slot whose server runs, or None: the event loop is free
  host,       \* the host module
  srv,        \* where a slot's server stands
  served,     \* slot.sequence
  large,      \* slot.large: a reply that did not fit
  inlined,    \* slots recorded by lasmFullServeSync before their registration
  viaPromise, \* does the request in hand answer through a promise?
  job,        \* its reply
  (* history *)
  runs,       \* executions of a call's operation, until it returns
  out         \* the outcome the host computed for it, until it returns

clientVars == <<cpc, want, returned>>
wordVars   == <<kind, op, status, buffer, length, capacity>>
waitVars   == <<bell, listed, moved>>
hostVars   == <<main, host, srv, served, large, inlined, viaPromise, job>>
ghostVars  == <<runs, out>>
slotVars   == <<clientVars, seq, ready, wordVars, waitVars, hostVars, ghostVars>>

ClientPCs == {"idle", "clear", "bump", "notify", "ring", "check", "list",
              "futex", "sleep", "nested", "leave"}
ServerPCs == {"none", "message", "armed", "woken", "loading", "pending",
              "load", "arm", "dispatch", "run", "write", "set", "wake"}
OnMain    == {"load", "arm", "dispatch", "run", "write", "set", "wake"}

All(v) == [s \in Slots |-> v]

Init == /\ cpc = All("idle") /\ want = All(None) /\ returned = All(None)
        /\ seq = All(0) /\ ready = All(0)
        /\ kind = All("request") /\ op = All(None) /\ status = All("failure")
        /\ buffer = All(None) /\ length = All(0) /\ capacity = All(ReplyBytes)
        /\ bell = FALSE /\ listed = {} /\ moved = FALSE
        /\ main = None /\ host = "unset"
        /\ srv = All("none") /\ served = All(0) /\ large = All(None)
        /\ inlined = {} /\ viaPromise = All(FALSE) /\ job = All(None)
        /\ runs = All(0) /\ out = All(None)

-----------------------------------------------------------------------------
(* The calling thread: $lasmFullRPC.call and exchange.                     *)

GoTo(s, pc) == cpc' = [cpc EXCEPT ![s] = pc]

\* lasmFullRPC.call: take the slot of this depth, made (newSlot) and announced
\* to the main thread at its first use, and write the request.  A nested call
\* starts inside the parent's futex wait.
Call(s, o) ==
  /\ cpc[s] = "idle"
  /\ Parent[s] # None => cpc[Parent[s]] = "sleep"
  /\ cpc' = [t \in Slots |-> IF t = s THEN "clear"
                             ELSE IF t = Parent[s] THEN "nested" ELSE cpc[t]]
  /\ want' = [want EXCEPT ![s] = o]
  /\ kind' = [kind EXCEPT ![s] = "request"]
  /\ op' = [op EXCEPT ![s] = o]
  /\ srv' = [srv EXCEPT ![s] = IF @ = "none" THEN "message" ELSE @]
  /\ returned' = [returned EXCEPT ![s] = None]
  /\ UNCHANGED <<seq, ready, status, buffer, length, capacity, waitVars, main, host,
                 served, large, inlined, viaPromise, job, ghostVars>>

\* Atomics.store(HEAP32, (slot + 4) / 4, 0)
ClearReady(s) ==
  /\ cpc[s] = "clear"
  /\ ready' = [ready EXCEPT ![s] = 0]
  /\ GoTo(s, "bump")
  /\ UNCHANGED <<want, returned, seq, wordVars, waitVars, hostVars, ghostVars>>

\* Mutant: the sequence does not wrap.
BumpNoWrap(s) ==
  /\ cpc[s] = "bump"
  /\ seq' = [seq EXCEPT ![s] = @ + 1]
  /\ GoTo(s, "notify")
  /\ UNCHANGED <<want, returned, ready, wordVars, waitVars, hostVars, ghostVars>>

\* Atomics.add(HEAP32, slot / 4, 1)
BumpSequence(s) ==
  /\ cpc[s] = "bump"
  /\ seq' = [seq EXCEPT ![s] = (@ + 1) % SeqModulus]
  /\ GoTo(s, "notify")
  /\ UNCHANGED <<want, returned, ready, wordVars, waitVars, hostVars, ghostVars>>

\* Atomics.notify(HEAP32, slot / 4): the promise of a waitAsync resolves.
NotifySequence(s) ==
  /\ cpc[s] = "notify"
  /\ srv' = [srv EXCEPT ![s] = IF @ = "armed" THEN "woken" ELSE @]
  /\ GoTo(s, IF s \in Ringers THEN "ring" ELSE "check")
  /\ UNCHANGED <<want, returned, seq, ready, wordVars, waitVars, main, host, served,
                 large, inlined, viaPromise, job, ghostVars>>

\* The synchronous-callback thread also rings the main thread's doorbell.
RingDoorbell(s) ==
  /\ cpc[s] = "ring"
  /\ bell' = TRUE
  /\ GoTo(s, "check")
  /\ UNCHANGED <<want, returned, seq, ready, wordVars, listed, moved, hostVars, ghostVars>>

\* The loop's test of the reply word, while the reply is pending.
SeePending(s) ==
  /\ cpc[s] = "check"
  /\ ready[s] = 0
  /\ GoTo(s, "list")
  /\ UNCHANGED <<want, returned, seq, ready, wordVars, waitVars, hostVars, ghostVars>>

\* waits_enter: a full list leaves the thread unlisted.
EnterWaits(s) ==
  /\ cpc[s] = "list"
  /\ listed' = IF Cardinality(listed) < WaitSlots THEN listed \cup {s} ELSE listed
  /\ moved' = TRUE
  /\ GoTo(s, "futex")
  /\ UNCHANGED <<want, returned, seq, ready, wordVars, bell, hostVars, ghostVars>>

\* Mutant: the wait does not compare the word.
FutexBlind(s) ==
  /\ cpc[s] = "futex"
  /\ GoTo(s, "sleep")
  /\ UNCHANGED <<want, returned, seq, ready, wordVars, waitVars, hostVars, ghostVars>>

\* emscripten_futex_wait(ready, 0): sleeps only if the word still is 0.
FutexWait(s) ==
  /\ cpc[s] = "futex"
  /\ GoTo(s, IF ready[s] = 0 THEN "sleep" ELSE "leave")
  /\ UNCHANGED <<want, returned, seq, ready, wordVars, waitVars, hostVars, ghostVars>>

\* waits_leave
LeaveWaits(s) ==
  /\ cpc[s] = "leave"
  /\ listed' = listed \ {s}
  /\ moved' = TRUE
  /\ GoTo(s, "check")
  /\ UNCHANGED <<want, returned, seq, ready, wordVars, bell, hostVars, ghostVars>>

\* Status 3: grow the reply buffer to the reply's length and ask for the copy.
AskForCopy(s) ==
  /\ cpc[s] = "check"
  /\ ready[s] = 1
  /\ status[s] = "overflow"
  /\ capacity' = [capacity EXCEPT ![s] = length[s]]
  /\ kind' = [kind EXCEPT ![s] = "copy"]
  /\ op' = [op EXCEPT ![s] = None]
  /\ GoTo(s, "clear")
  /\ UNCHANGED <<want, returned, seq, ready, status, buffer, length, waitVars, hostVars, ghostVars>>

\* The call returns (or throws, status 2) what the slot holds.  After a nested
\* call the parent's futex wait compares its word again.
Return(s) ==
  /\ cpc[s] = "check"
  /\ ready[s] = 1
  /\ status[s] # "overflow"
  /\ returned' = [returned EXCEPT ![s] = <<buffer[s], status[s]>>]
  /\ want' = [want EXCEPT ![s] = None]
  /\ cpc' = [t \in Slots |-> IF t = s THEN "idle"
                             ELSE IF t = Parent[s] THEN "futex" ELSE cpc[t]]
  /\ runs' = [runs EXCEPT ![s] = 0]
  /\ out' = [out EXCEPT ![s] = None]
  /\ UNCHANGED <<seq, ready, wordVars, waitVars, hostVars>>

ThreadStep(s) ==
  \/ ClearReady(s) \/ BumpSequence(s) \/ NotifySequence(s) \/ RingDoorbell(s)
  \/ SeePending(s) \/ EnterWaits(s) \/ FutexWait(s) \/ LeaveWaits(s)
  \/ AskForCopy(s) \/ Return(s)

-----------------------------------------------------------------------------
(* The main thread: lasmFullHostSlot, lasmFullServe, lasmFullServeOne and  *)
(* lasmFullReply.  A server runs until it waits for a notification or a    *)
(* promise; the event loop then takes the next one.                        *)

ServerAt(s, pc) == srv' = [srv EXCEPT ![s] = pc]

\* Mutant: the registration forgets what was served inline.
RegisterAfresh(s) ==
  /\ main = None
  /\ srv[s] = "message"
  /\ main' = s
  /\ ServerAt(s, "load")
  /\ served' = [served EXCEPT ![s] = 0]
  /\ large' = [large EXCEPT ![s] = None]
  /\ inlined' = inlined \ {s}
  /\ UNCHANGED <<clientVars, seq, ready, wordVars, waitVars, host, viaPromise, job, ghostVars>>

\* lasmFullHostSlot: a slot already served inline keeps its sequence.
RegisterSlot(s) ==
  /\ main = None
  /\ srv[s] = "message"
  /\ main' = s
  /\ ServerAt(s, "load")
  /\ served' = [served EXCEPT ![s] = IF s \in inlined THEN @ ELSE 0]
  /\ large' = [large EXCEPT ![s] = IF s \in inlined THEN @ ELSE None]
  /\ inlined' = inlined \ {s}
  /\ UNCHANGED <<clientVars, seq, ready, wordVars, waitVars, host, viaPromise, job, ghostVars>>

\* The promise a server waited for runs lasmFullServe(slot) again.
Resume(s) ==
  /\ main = None
  /\ srv[s] = "woken"
  /\ main' = s
  /\ ServerAt(s, "load")
  /\ UNCHANGED <<clientVars, seq, ready, wordVars, waitVars, host, served, large,
                 inlined, viaPromise, job, ghostVars>>

\* Mutant: the sequence served is not recorded.
LoadForgets(s) ==
  /\ srv[s] = "load"
  /\ ServerAt(s, IF seq[s] = served[s] THEN "arm" ELSE "dispatch")
  /\ UNCHANGED <<clientVars, seq, ready, wordVars, waitVars, main, host, served, large, inlined,
                 viaPromise, job, ghostVars>>

\* Atomics.load of the sequence.
LoadSequence(s) ==
  /\ srv[s] = "load"
  /\ ServerAt(s, IF seq[s] = served[s] THEN "arm" ELSE "dispatch")
  /\ served' = [served EXCEPT ![s] = seq[s]]
  /\ UNCHANGED <<clientVars, seq, ready, wordVars, waitVars, main, host, large, inlined,
                 viaPromise, job, ghostVars>>

\* Mutant: the wait does not compare the sequence.
ArmBlindly(s) ==
  /\ srv[s] = "arm"
  /\ ServerAt(s, "armed") /\ main' = None
  /\ UNCHANGED <<clientVars, seq, ready, wordVars, waitVars, host, served, large, inlined,
                 viaPromise, job, ghostVars>>

\* Atomics.waitAsync compares again: the server waits only if nothing came.
Arm(s) ==
  /\ srv[s] = "arm"
  /\ IF seq[s] = served[s]
     THEN ServerAt(s, "armed") /\ main' = None
     ELSE ServerAt(s, "load") /\ UNCHANGED main
  /\ UNCHANGED <<clientVars, seq, ready, wordVars, waitVars, host, served, large, inlined,
                 viaPromise, job, ghostVars>>

\* lasmFullServeOne, a copy request: answer with the reply that was kept.
ServeCopy(s) ==
  /\ srv[s] = "dispatch"
  /\ kind[s] = "copy"
  /\ job' = [job EXCEPT ![s] = large[s]]
  /\ large' = [large EXCEPT ![s] = None]
  /\ viaPromise' = [viaPromise EXCEPT ![s] = FALSE]
  /\ ServerAt(s, "write")
  /\ UNCHANGED <<clientVars, seq, ready, wordVars, waitVars, main, host, served, inlined, ghostVars>>

\* lasmFullServeOne, a request: run it now if the host is loaded, else load
\* the host (once) and wait for it.
ServeRequest(s) ==
  /\ srv[s] = "dispatch"
  /\ kind[s] = "request"
  /\ IF host = "loaded"
     THEN /\ ServerAt(s, "run")
          /\ viaPromise' = [viaPromise EXCEPT ![s] = FALSE]
          /\ UNCHANGED <<main, host>>
     ELSE /\ ServerAt(s, "loading")
          /\ viaPromise' = [viaPromise EXCEPT ![s] = TRUE]
          /\ main' = None
          /\ host' = IF host = "unset" THEN "loading" ELSE host
  /\ UNCHANGED <<clientVars, seq, ready, wordVars, waitVars, served, large, inlined, job, ghostVars>>

\* The import of the host module settles, for good.
HostSettles ==
  /\ main = None
  /\ host = "loading"
  /\ host' \in {"loaded", "failed"}
  /\ UNCHANGED <<clientVars, seq, ready, wordVars, waitVars, main, srv, served, large,
                 inlined, viaPromise, job, ghostVars>>

\* .then(run, error => lasmFullFail(slot, error)) of lasmFullLoadHost()
AfterLoad(s) ==
  /\ main = None
  /\ srv[s] = "loading"
  /\ host \in {"loaded", "failed"}
  /\ main' = s
  /\ IF host = "loaded"
     THEN ServerAt(s, "run") /\ UNCHANGED <<job, out>>
     ELSE /\ ServerAt(s, "write")
          /\ job' = [job EXCEPT ![s] = <<op[s], "failure">>]
          /\ out' = [out EXCEPT ![s] = "failure"]
  /\ UNCHANGED <<clientVars, seq, ready, wordVars, waitVars, host, served, large, inlined,
                 viaPromise, runs>>

\* run(host), an operation that answers at once; one that throws answers
\* through lasmFullFail, an async function.
RunNow(s, r) ==
  /\ srv[s] = "run"
  /\ op[s] \notin AsyncOps
  /\ runs' = [runs EXCEPT ![s] = @ + 1]
  /\ out' = [out EXCEPT ![s] = r]
  /\ job' = [job EXCEPT ![s] = <<op[s], r>>]
  /\ viaPromise' = [viaPromise EXCEPT ![s] = @ \/ r = "failure"]
  /\ ServerAt(s, "write")
  /\ UNCHANGED <<clientVars, seq, ready, wordVars, waitVars, main, host, served, large, inlined>>

\* run(host), an operation that answers with a promise.
RunAsync(s) ==
  /\ srv[s] = "run"
  /\ op[s] \in AsyncOps
  /\ runs' = [runs EXCEPT ![s] = @ + 1]
  /\ viaPromise' = [viaPromise EXCEPT ![s] = TRUE]
  /\ ServerAt(s, "pending")
  /\ main' = None
  /\ UNCHANGED <<clientVars, seq, ready, wordVars, waitVars, host, served, large, inlined, job, out>>

\* That promise settles, and its reaction starts the reply.
Settle(s, r) ==
  /\ main = None
  /\ srv[s] = "pending"
  /\ main' = s
  /\ job' = [job EXCEPT ![s] = <<op[s], r>>]
  /\ out' = [out EXCEPT ![s] = r]
  /\ ServerAt(s, "write")
  /\ UNCHANGED <<clientVars, seq, ready, wordVars, waitVars, host, served, large, inlined,
                 viaPromise, runs>>

\* Mutants: a reply that does not fit is not kept; it is announced as if it fitted.
PutReplyUnkept(s, b) ==
  LET fits == Size[b] <= capacity[s]
  IN /\ length' = [length EXCEPT ![s] = Size[b]]
     /\ status' = [status EXCEPT ![s] = IF fits THEN b[2] ELSE "overflow"]
     /\ buffer' = [buffer EXCEPT ![s] = IF fits THEN b[1] ELSE @]
     /\ UNCHANGED large
PutReplyCut(s, b) ==
  /\ length' = [length EXCEPT ![s] = Size[b]]
  /\ status' = [status EXCEPT ![s] = b[2]]
  /\ buffer' = [buffer EXCEPT ![s] = IF Size[b] <= capacity[s] THEN b[1] ELSE @]
  /\ UNCHANGED large

\* What lasmFullReply writes for the reply b: its bytes and status, or, when
\* they do not fit, the length alone; the reply is then kept in slot.large.
PutReply(s, b) ==
  LET fits == Size[b] <= capacity[s]
  IN /\ length' = [length EXCEPT ![s] = Size[b]]
     /\ status' = [status EXCEPT ![s] = IF fits THEN b[2] ELSE "overflow"]
     /\ buffer' = [buffer EXCEPT ![s] = IF fits THEN b[1] ELSE @]
     /\ large' = [large EXCEPT ![s] = IF fits THEN @ ELSE b]

WriteReply(s) ==
  /\ srv[s] = "write"
  /\ PutReply(s, job[s])
  /\ job' = [job EXCEPT ![s] = None]
  /\ ServerAt(s, "set")
  /\ UNCHANGED <<clientVars, seq, ready, kind, op, capacity, waitVars, main, host, served,
                 inlined, viaPromise, ghostVars>>

\* Atomics.store(i32, (p + 4) / 4, 1)
SetReady(s) ==
  /\ srv[s] = "set"
  /\ ready' = [ready EXCEPT ![s] = 1]
  /\ ServerAt(s, "wake")
  /\ UNCHANGED <<clientVars, seq, wordVars, waitVars, main, host, served, large, inlined,
                 viaPromise, job, ghostVars>>

\* Atomics.notify(i32, (p + 4) / 4); a request answered at once goes on with
\* lasmFullServe's loop, another one resumes it from its promise.
WakeCaller(s) ==
  /\ srv[s] = "wake"
  /\ cpc' = [cpc EXCEPT ![s] = IF @ = "sleep" THEN "leave" ELSE @]
  /\ IF viaPromise[s]
     THEN ServerAt(s, "woken") /\ main' = None
     ELSE ServerAt(s, "load") /\ UNCHANGED main
  /\ UNCHANGED <<want, returned, seq, ready, wordVars, waitVars, host, served, large,
                 inlined, viaPromise, job, ghostVars>>

\* The steps that take the event loop, and the ones of the running server.
TakeLoop(s) == RegisterSlot(s) \/ Resume(s) \/ AfterLoad(s) \/ \E r \in Outcomes : Settle(s, r)
RunServer(s) ==
  \/ LoadSequence(s) \/ Arm(s) \/ ServeCopy(s) \/ ServeRequest(s)
  \/ RunAsync(s) \/ \E r \in Outcomes : RunNow(s, r)
  \/ WriteReply(s) \/ SetReady(s) \/ WakeCaller(s)

Next == \/ \E s \in Slots : \/ \E o \in Operations : Call(s, o)
                            \/ ThreadStep(s) \/ TakeLoop(s) \/ RunServer(s)
        \/ HostSettles

Spec == Init /\ [][Next]_slotVars

\* Threads are scheduled; the event loop runs every task it has queued, and an
\* operation's promise settles (a long poll is not one of AsyncOps).
Fairness == /\ \A s \in Slots : WF_slotVars(ThreadStep(s)) /\ WF_slotVars(RunServer(s))
            /\ \A s \in Slots : SF_slotVars(TakeLoop(s))
            /\ SF_slotVars(HostSettles)

FairSpec == Spec /\ Fairness
-----------------------------------------------------------------------------
(* Properties.                                                             *)

\* Types of the shared words, the thread and the server of every slot.
TypeOK ==
  /\ cpc \in [Slots -> ClientPCs]
  /\ want \in [Slots -> Operations \cup {None}]
  /\ returned \in [Slots -> ((Operations \cup {None}) \X Statuses) \cup {None}]
  /\ seq \in [Slots -> 0..(SeqModulus - 1)]
  /\ ready \in [Slots -> {0, 1}]
  /\ kind \in [Slots -> {"request", "copy"}]
  /\ op \in [Slots -> Operations \cup {None}]
  /\ status \in [Slots -> Statuses]
  /\ buffer \in [Slots -> Operations \cup {None}]
  /\ length \in [Slots -> Nat]
  /\ capacity \in [Slots -> Nat]
  /\ bell \in BOOLEAN /\ listed \in SUBSET Slots /\ moved \in BOOLEAN
  /\ main \in Slots \cup {None}
  /\ host \in {"unset", "loading", "loaded", "failed"}
  /\ srv \in [Slots -> ServerPCs]
  /\ served \in [Slots -> 0..(SeqModulus - 1)]
  /\ large \in [Slots -> Replies \cup {None}]
  /\ inlined \in SUBSET Slots
  /\ viaPromise \in [Slots -> BOOLEAN]
  /\ job \in [Slots -> Replies \cup {None}]
  /\ runs \in [Slots -> Nat]
  /\ out \in [Slots -> Outcomes \cup {None}]

(* The inductive invariant.  A request is posted by the bump, taken by the *)
(* server's load, replied by the store of the reply word.                  *)
Posted == {"notify", "ring", "check", "list", "futex", "sleep", "nested", "leave"}
Taken  == {"dispatch", "loading", "run", "pending", "write", "set"}

Fresh(s)   == cpc[s] \in {"clear", "bump"} \/ seq[s] # served[s]
Replied(s) == cpc[s] \in Posted /\ seq[s] = served[s] /\ srv[s] \notin Taken

\* Where a thread and its server stand relative to each other.
Control(s) ==
  /\ srv[s] \in OnMain <=> main = s
  /\ srv[s] \in Taken => cpc[s] \in Posted /\ seq[s] = served[s] /\ ready[s] = 0
  /\ seq[s] # served[s] => cpc[s] \in Posted /\ ready[s] = 0
  /\ Replied(s) => ready[s] = 1
  /\ cpc[s] = "bump" => ready[s] = 0
  /\ cpc[s] = "sleep" /\ ready[s] = 1 => srv[s] = "wake"
  /\ srv[s] = "armed" /\ seq[s] # served[s] => cpc[s] = "notify"
  /\ srv[s] = "none" => cpc[s] = "idle"
  /\ srv[s] = "message" => Fresh(s) /\ kind[s] = "request"
  /\ srv[s] \in {"none", "message"} => served[s] = 0
  /\ cpc[s] # "idle" /\ Parent[s] # None => cpc[Parent[s]] = "nested"

\* What the slot, the server and the call's history hold at each point.
Answered(s) == \/ status[s] = out[s] /\ buffer[s] = want[s] /\ large[s] = None
               \/ /\ kind[s] = "request" /\ status[s] = "overflow"
                  /\ large[s] = <<want[s], out[s]>> /\ length[s] = Size[large[s]]

Carried(s) ==
  /\ cpc[s] = "idle" <=> want[s] = None
  /\ cpc[s] = "idle" => runs[s] = 0 /\ out[s] = None /\ large[s] = None
  /\ runs[s] <= 1
  /\ cpc[s] # "idle" /\ kind[s] = "request" =>
       /\ op[s] = want[s]
       /\ Fresh(s) \/ srv[s] \in {"dispatch", "loading", "run"}
            => runs[s] = 0 /\ out[s] = None /\ large[s] = None
       /\ srv[s] = "pending" => runs[s] = 1 /\ out[s] = None /\ large[s] = None
       /\ srv[s] = "write" => large[s] = None
  /\ cpc[s] # "idle" /\ kind[s] = "copy" =>
       /\ out[s] # None
       /\ Fresh(s) \/ srv[s] = "dispatch"
            => large[s] = <<want[s], out[s]>> /\ capacity[s] = Size[large[s]]
       /\ srv[s] \notin {"loading", "run", "pending"}
       /\ srv[s] = "write" => large[s] = None /\ capacity[s] = Size[job[s]]
  /\ srv[s] = "write" => out[s] # None /\ job[s] = <<want[s], out[s]>>
  /\ srv[s] = "set" \/ Replied(s) => out[s] # None /\ Answered(s)

\* The inductive invariant: the thread, the shared words and the server agree on
\* whose turn it is at every slot, and on the call and the reply the slot carries.
SlotInv == inlined = {} /\ \A s \in Slots : Control(s) /\ Carried(s)

\* No wake-up is lost on either side.  A thread asleep on its reply word has
\* no reply, unless the main thread is about to notify it; a server waiting on
\* a sequence has served it, unless the thread is about to notify it.
NoLostWakeup ==
  \A s \in Slots :
    /\ cpc[s] = "sleep" /\ ready[s] = 1 => srv[s] = "wake"
    /\ srv[s] = "armed" /\ seq[s] # served[s] => cpc[s] = "notify"

\* An operation runs at most once per call, a too large reply fetched by a
\* second exchange included; a copy request always finds the reply kept.
AtMostOnce ==
  \A s \in Slots :
    /\ runs[s] <= 1
    /\ srv[s] = "dispatch" /\ kind[s] = "copy" => large[s] # None

\* A host call implements HostCall: what it returns is the outcome of its own
\* operation, executed at most once and never after the host failed to load.
Abstract == INSTANCE HostCall WITH asked <- want, times <- runs, outcome <- out
Implements == Abstract!Spec

\* Every host call returns, unless the main thread stays for good in the serving
\* loop of another slot, whose thread posts each request before the loop looks.
CallsReturn ==
  \A s \in Slots : \/ []<>(cpc[s] = "idle")
                   \/ \E t \in Slots \ {s} : <>[](main = t)
=============================================================================
