---------------------------- MODULE Completions ----------------------------
(***************************************************************************)
(* Asynchronous operations of the Lean runtime (timers, sockets, DNS) in a *)
(* full build.  A Lean thread starts one with a single host call that      *)
(* carries raw pointers to its promise and resource (op 94); the host      *)
(* sends the pointers back with the result, to the completion thread's     *)
(* long poll (op 95), which resolves the promise and drops both            *)
(* references.  A cancelled operation goes back to the thread that         *)
(* cancelled it instead (op 96).  Sources: runtime/node-async.cpp          *)
(* begin_request, ensure_completion_thread, release_cancelled and          *)
(* scripts/full-lean/host-pre.js lasmFullDispatch, lasmFullComplete.       *)
(*                                                                         *)
(* A host call is one step, its dispatch on Node's main thread (HostSlot   *)
(* is about the call itself).  Promise reactions are microtasks: they run  *)
(* one by one, all before the next macrotask, and none inside a            *)
(* synchronous callback, where the main thread serves only the callback's  *)
(* thread.                                                                 *)
(***************************************************************************)
EXTENDS Naturals, Sequences, FiniteSets, SequencesExt

CONSTANTS Threads,      \* Lean threads
          SyncThread,   \* the synchronous-callback thread, or None
          Handles,      \* sockets, timers, signals
          Promises,     \* one for each operation started
          None,
          BatchLimit    \* packets of one op 95 reply (256 in the code)

Callers == IF SyncThread = None THEN Threads ELSE Threads \cup {SyncThread}

ASSUME CompletionsAssumption == /\ SyncThread \notin Threads
                                /\ None \notin Threads \cup Handles
                                /\ \A ps \in SUBSET Promises : ps # None
                                /\ BatchLimit \in Nat /\ BatchLimit > 0

VARIABLES
  (* the host *)
  mode,        \* "loop", or "callback" inside a synchronous callback
  pending,     \* operations that run; each is a promise of the host
  settling,    \* promises settled whose reaction has not run
  waiting,     \* lasmFullWaiting: unsettled operations per handle
  cancelling,  \* lasmFullCancelling: per handle, what a cancel call diverted, or None
  orphans,     \* handles whose op 96 answers nobody
  queue,       \* lasmFullCompletions
  (* what a promise was started for *)
  of, stoppable, counted, result,
  (* the completion thread *)
  cpc, batch, delivered,
  (* the other threads *)
  tpc, target, held, released,
  forgotten    \* history: promises whose packet was discarded with its references

hostState   == <<mode, pending, settling, waiting, cancelling, orphans, queue>>
promiseInfo == <<of, stoppable, counted, result>>
completer   == <<cpc, batch, delivered>>
threadState == <<tpc, target, held, released>>
vars        == <<hostState, promiseInfo, completer, threadState, forgotten>>

Started == {p \in Promises : of[p] # None}

Init ==
  /\ mode = "loop" /\ pending = {} /\ settling = {}
  /\ waiting = [h \in Handles |-> 0] /\ cancelling = [h \in Handles |-> None] /\ orphans = {}
  /\ queue = <<>>
  /\ of = [p \in Promises |-> None] /\ stoppable = {} /\ counted = {}
  /\ result = [p \in Promises |-> None]
  /\ cpc = "none" /\ batch = <<>> /\ delivered = <<>>
  /\ tpc = [t \in Callers |-> "idle"] /\ target = [t \in Callers |-> None]
  /\ held = [t \in Callers |-> {}] /\ released = {} /\ forgotten = {}

\* Whose host calls the main thread serves now.
Served(t) == mode = IF t = SyncThread THEN "callback" ELSE "loop"

-----------------------------------------------------------------------------
(* Starting an operation: begin_request and op 94.                         *)

\* ensure_completion_thread, once: its first poll may come much later.
EnsureThread == cpc' = IF cpc = "none" THEN "poll" ELSE cpc

Starts(t, p, h) == /\ Served(t)
                   /\ tpc[t] = "idle"
                   /\ of[p] = None
                   /\ EnsureThread
                   /\ UNCHANGED <<mode, cancelling, orphans, queue, batch, delivered, threadState, forgotten>>

\* A second accept or receive, like any other error at once, is returned by the
\* call itself when it is checked; nothing is registered.
StartRefused(t, p, h) ==
  /\ Starts(t, p, h)
  /\ UNCHANGED <<pending, settling, waiting, promiseInfo>>

\* The operation answers at once: its promise is already settled.
StartAnswered(t, p, h) ==
  /\ Starts(t, p, h)
  /\ of' = [of EXCEPT ![p] = h]
  /\ result' = [result EXCEPT ![p] = "done"]
  /\ settling' = settling \cup {p}
  /\ UNCHANGED <<pending, waiting, stoppable, counted>>

\* It answers with a promise.  A cancel call can stop it, or (a send) cannot;
\* a handle has one operation of the first kind at a time.
StartPending(t, p, h, stop) ==
  /\ Starts(t, p, h)
  /\ stop => \A q \in pending \cap stoppable : of[q] # h
  /\ of' = [of EXCEPT ![p] = h]
  /\ stoppable' = IF stop THEN stoppable \cup {p} ELSE stoppable
  /\ counted' = counted \cup {p}
  /\ pending' = pending \cup {p}
  /\ waiting' = [waiting EXCEPT ![h] = @ + 1]
  /\ UNCHANGED <<settling, result>>

-----------------------------------------------------------------------------
(* Settling.                                                               *)

\* The operation ends by itself; "failure" stands for a promise that rejects,
\* which no encoded result does.
OperationEnds(p, r) ==
  /\ mode = "loop"
  /\ p \in pending
  /\ pending' = pending \ {p}
  /\ settling' = settling \cup {p}
  /\ result' = [result EXCEPT ![p] = r]
  /\ UNCHANGED <<mode, waiting, cancelling, orphans, queue, of, stoppable, counted, completer,
                 threadState, forgotten>>

\* batch() of op 95: the packets up to the limit, a failure alone.
Failures(q) == {i \in DOMAIN q : result[q[i]] = "failure"}
BatchSize(q) ==
  IF 1 \in Failures(q) THEN 1
  ELSE CHOOSE n \in 1..Len(q) : /\ n <= BatchLimit /\ \A i \in Failures(q) : n < i
                                /\ \/ n = Len(q) \/ n = BatchLimit \/ n + 1 \in Failures(q)
Reply(q) == /\ batch' = SubSeq(q, 1, BatchSize(q))
            /\ queue' = SubSeq(q, BatchSize(q) + 1, Len(q))
            /\ cpc' = "handle"

\* Mutants: a completion overtakes the ones queued; one is queued while a poll waits.
CompleteFirst(p) == IF cpc = "parked" THEN Reply(<<p>> \o queue)
                                      ELSE queue' = <<p>> \o queue /\ UNCHANGED <<cpc, batch>>
CompleteQuietly(p) == queue' = Append(queue, p) /\ UNCHANGED <<cpc, batch>>

\* lasmFullComplete: to the waiting poll, else into the queue.
Complete(p) == IF cpc = "parked" THEN Reply(<<p>> \o queue)
                                 ELSE queue' = Append(queue, p) /\ UNCHANGED <<cpc, batch>>

Diverted(p) == result[p] = "cancelled" /\ cancelling[of[p]] # None

\* Mutant: operations that never were counted are counted down.
UncountAll(p) == waiting' = [waiting EXCEPT ![of[p]] = @ - 1]

\* settled(): one operation of the handle less.
Uncount(p) == waiting' = IF p \in counted THEN [waiting EXCEPT ![of[p]] = @ - 1] ELSE waiting

\* The reaction to a settled operation.
Settled(p) ==
  /\ mode = "loop"
  /\ p \in settling
  /\ settling' = settling \ {p}
  /\ Uncount(p)
  /\ IF Diverted(p)
     THEN /\ cancelling' = [cancelling EXCEPT ![of[p]] = @ \cup {p}]
          /\ UNCHANGED <<queue, cpc, batch>>
     ELSE Complete(p) /\ UNCHANGED cancelling
  /\ UNCHANGED <<mode, pending, orphans, promiseInfo, delivered, threadState, forgotten>>

-----------------------------------------------------------------------------
(* Cancelling: cancel_call and stop_timer, a cancel call followed by op 96. *)

Cancel(t, h) ==
  LET stops == {p \in pending \cap stoppable : of[p] = h}
  IN /\ Served(t)
     /\ tpc[t] = "idle"
     /\ cancelling' = [cancelling EXCEPT ![h] = IF @ = None THEN {} ELSE @]
     /\ pending' = pending \ stops
     /\ settling' = settling \cup stops
     /\ result' = [p \in Promises |-> IF p \in stops THEN "cancelled" ELSE result[p]]
     /\ tpc' = [tpc EXCEPT ![t] = "cancelled"]
     /\ target' = [target EXCEPT ![t] = h]
     /\ UNCHANGED <<mode, waiting, orphans, queue, of, stoppable, counted, completer, held, released,
                    forgotten>>

Dropped(h) == IF cancelling[h] = None THEN {} ELSE cancelling[h]

\* Mutant: the list is given away and kept.
GiveAndKeep(t, h) == /\ held' = [held EXCEPT ![t] = Dropped(h)]
                     /\ tpc' = [tpc EXCEPT ![t] = "releasing"]
                     /\ UNCHANGED cancelling

\* take() of op 96
Give(t, h) == /\ held' = [held EXCEPT ![t] = Dropped(h)]
              /\ cancelling' = [cancelling EXCEPT ![h] = None]
              /\ tpc' = [tpc EXCEPT ![t] = "releasing"]

\* Op 96, nothing of the handle still settling: the reply comes now ...
TakeNow(t) ==
  /\ Served(t)
  /\ tpc[t] = "cancelled"
  /\ waiting[target[t]] = 0
  /\ Give(t, target[t])
  /\ UNCHANGED <<mode, pending, settling, waiting, orphans, queue, promiseInfo, completer, target,
                 released, forgotten>>

\* ... else in a macrotask, by a promise.  Served inline, the call fails instead
\* and the promise's value is discarded.
TakeLater(t) ==
  /\ Served(t)
  /\ tpc[t] = "cancelled"
  /\ waiting[target[t]] # 0
  /\ IF t = SyncThread
     THEN tpc' = [tpc EXCEPT ![t] = "idle"] /\ orphans' = orphans \cup {target[t]}
     ELSE tpc' = [tpc EXCEPT ![t] = "awaiting"] /\ UNCHANGED orphans
  /\ UNCHANGED <<mode, pending, settling, waiting, cancelling, queue, promiseInfo, completer, target,
                 held, released, forgotten>>

\* Mutant: the reply is put off by a microtask only.
Microtask == mode = "loop"

\* setImmediate: every reaction queued before has run.
Macrotask == mode = "loop" /\ settling = {}

TakeImmediate(t) ==
  /\ Macrotask
  /\ tpc[t] = "awaiting"
  /\ Give(t, target[t])
  /\ UNCHANGED <<mode, pending, settling, waiting, orphans, queue, promiseInfo, completer, target,
                 released, forgotten>>

TakeOrphan(h) ==
  /\ Macrotask
  /\ h \in orphans
  /\ orphans' = orphans \ {h}
  /\ forgotten' = forgotten \cup Dropped(h)
  /\ cancelling' = [cancelling EXCEPT ![h] = None]
  /\ UNCHANGED <<mode, pending, settling, waiting, queue, promiseInfo, completer, threadState>>

\* release_cancelled drops the references it got.
ReleaseDropped(t) ==
  /\ tpc[t] = "releasing"
  /\ released' = released \cup held[t]
  /\ held' = [held EXCEPT ![t] = {}]
  /\ tpc' = [tpc EXCEPT ![t] = "idle"]
  /\ target' = [target EXCEPT ![t] = None]
  /\ UNCHANGED <<hostState, promiseInfo, completer, forgotten>>

-----------------------------------------------------------------------------
(* The completion thread.                                                  *)

Poll ==
  /\ mode = "loop"
  /\ cpc = "poll"
  /\ IF queue = <<>> THEN cpc' = "parked" /\ UNCHANGED <<queue, batch>> ELSE Reply(queue)
  /\ UNCHANGED <<mode, pending, settling, waiting, cancelling, orphans, promiseInfo, delivered,
                 threadState, forgotten>>

\* resolve_request of the next packet; a failed batch is an internal panic.
Handle ==
  /\ cpc = "handle"
  /\ delivered' = Append(delivered, Head(batch))
  /\ batch' = Tail(batch)
  /\ cpc' = IF result[Head(batch)] = "failure" THEN "panicked"
            ELSE IF Len(batch) = 1 THEN "poll" ELSE "handle"
  /\ UNCHANGED <<hostState, promiseInfo, threadState, forgotten>>

-----------------------------------------------------------------------------
EnterCallback ==
  /\ SyncThread # None
  /\ mode = "loop"
  /\ mode' = "callback"
  /\ UNCHANGED <<pending, settling, waiting, cancelling, orphans, queue, promiseInfo, completer,
                 threadState, forgotten>>

LeaveCallback ==
  /\ mode = "callback"
  /\ tpc[SyncThread] = "idle"
  /\ mode' = "loop"
  /\ UNCHANGED <<pending, settling, waiting, cancelling, orphans, queue, promiseInfo, completer,
                 threadState, forgotten>>

Next ==
  \/ \E t \in Callers :
       \/ \E p \in Promises, h \in Handles :
            \/ StartRefused(t, p, h) \/ StartAnswered(t, p, h)
            \/ \E stop \in BOOLEAN : StartPending(t, p, h, stop)
       \/ \E h \in Handles : Cancel(t, h)
       \/ TakeNow(t) \/ TakeLater(t) \/ TakeImmediate(t) \/ ReleaseDropped(t)
  \/ \E p \in Promises : Settled(p) \/ \E r \in {"done", "failure"} : OperationEnds(p, r)
  \/ \E h \in Handles : TakeOrphan(h)
  \/ Poll \/ Handle \/ EnterCallback \/ LeaveCallback

Spec == Init /\ [][Next]_vars

\* The event loop runs what it has queued, however many synchronous callbacks run
\* between two of its tasks (hence strong fairness); each callback makes finitely
\* many calls and returns; the threads are scheduled; an operation may run for ever.
Fairness == /\ SF_vars(Poll \/ \E p \in Promises : Settled(p))
            /\ \A t \in Callers : SF_vars(TakeNow(t) \/ TakeLater(t) \/ TakeImmediate(t))
            /\ SF_vars(\E h \in Handles : TakeOrphan(h))
            /\ SF_vars(LeaveCallback)
            /\ WF_vars(Handle) /\ \A t \in Callers : WF_vars(ReleaseDropped(t))

FairSpec == Spec /\ Fairness
-----------------------------------------------------------------------------
(* Properties.                                                             *)

\* Types of the operations, their packets and the callers; no waiting count goes below zero.
TypeOK ==
  /\ mode \in {"loop", "callback"}
  /\ pending \subseteq Promises /\ settling \subseteq Promises
  /\ waiting \in [Handles -> Nat]
  /\ cancelling \in [Handles -> (SUBSET Promises) \cup {None}]
  /\ orphans \subseteq Handles
  /\ queue \in Seq(Promises) /\ batch \in Seq(Promises) /\ delivered \in Seq(Promises)
  /\ of \in [Promises -> Handles \cup {None}]
  /\ stoppable \subseteq Promises /\ counted \subseteq Promises
  /\ result \in [Promises -> {None, "done", "cancelled", "failure"}]
  /\ cpc \in {"none", "poll", "parked", "handle", "panicked"}
  /\ tpc \in [Callers -> {"idle", "cancelled", "awaiting", "releasing"}]
  /\ target \in [Callers -> Handles \cup {None}]
  /\ held \in [Callers -> SUBSET Promises] /\ released \subseteq Promises
  /\ forgotten \subseteq Promises

\* Who owns the references that op 94 passed as raw pointers.
Owners(p) ==
  (IF p \in pending THEN {"operation"} ELSE {}) \cup (IF p \in settling THEN {"reaction"} ELSE {})
  \cup {<<"diverted", h>> : h \in {k \in Handles : p \in Dropped(k)}}
  \cup {<<"packet", i>> : i \in {j \in DOMAIN (delivered \o batch \o queue) :
                                   (delivered \o batch \o queue)[j] = p}}
  \cup {<<"held", t>> : t \in {u \in Callers : p \in held[u]}}
  \cup (IF p \in released THEN {"released"} ELSE {})
  \cup (IF p \in forgotten THEN {"forgotten"} ELSE {})

\* The pointers of a started operation are never handled twice, and leave the
\* host only with a reply, or with one that TakeOrphan discards: exactly one
\* place owns them, up to the one that drops them.
OneOwner == \A p \in Promises : Cardinality(Owners(p)) = IF p \in Started THEN 1 ELSE 0

\* What a cancel call stops is never dropped on the completion thread, where
\* the promise's continuations would run and might block it.
CancelledByCaller == \A p \in ToSet(delivered \o batch \o queue) : result[p] # "cancelled"

\* Completions reach the completion thread in order, each once.
Events == INSTANCE EventQueue WITH Events <- Promises, queue <- batch \o queue
Implements == Events!Spec

\* A settled operation is at last handled or released, unless its packet was
\* discarded or the program fails.
AllSettle == \A p \in Promises :
  p \in settling ~> p \in released \cup forgotten \/ p \in ToSet(delivered) \/ cpc = "panicked"

\* runtime/node-async.cpp on a failed op 96: "A failure leaves the completions with
\* the completion thread."  So no packet, with the references to the promise and
\* the resource it points to, is discarded.
NoneForgotten == forgotten = {}
=============================================================================
