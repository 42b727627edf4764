------------------------------ MODULE CoopLoop ------------------------------
(***************************************************************************)
(* The cooperative Lean runtime of the WASI targets: one thread, one Lean  *)
(* stack, no completion thread.  A blocking wait (Task.get, IO.waitAny,    *)
(* IO.sleep) runs queued Lean tasks on top of the waiting frame; when none *)
(* is left it takes completed host operations (op 95), and when there are  *)
(* none it sleeps in lasm_edge_wait until a timer, a sleep or an outbound  *)
(* request can make progress.                                              *)
(*                                                                         *)
(* From runtime/edge.cpp, the wait loops of the cooperative task manager   *)
(* (scripts/full-lean/patches/lean-4.35.0-edge.patch), the timers,         *)
(* completions and event loop of src/wasi/lasm_wasi.c, the outbound        *)
(* requests of src/wasi/lasm_wasi_http.c and the timer objects and         *)
(* promises of runtime/node-async.cpp.                                     *)
(*                                                                         *)
(* Time is relative: every deadline is the number of ticks left, and Tick  *)
(* counts all of them down.  The Lean program is any sequence of at most   *)
(* Budget calls; its tasks end.                                            *)
(***************************************************************************)
EXTENDS Integers, Sequences, FiniteSets, SequencesExt

CONSTANTS
    Tasks,      \* Lean tasks the program may create
    Timers,     \* timer handles
    Repeating,  \* the timers made with repeating = true
    Timeout,    \* Timeout[t]: timeout of timer t, in ticks
    Requests,   \* other asynchronous operations: outbound requests and ops that complete at once
    MaxSleep,   \* longest IO.sleep, in ticks
    Budget,     \* how many calls the program makes (bounds generations and the stack)
    NoPromise

ASSUME CoopAssumption ==
    /\ Repeating \subseteq Timers
    /\ Timeout \in [Timers -> Nat]
    /\ MaxSleep \in Nat /\ Budget \in Nat
    /\ IsFiniteSet(Tasks) /\ IsFiniteSet(Timers) /\ IsFiniteSet(Requests)
    /\ Requests \cap (Timers \X Nat) = {}    \* a timer's promise is no request

VARIABLES
    pc,          \* "lean", a step of the wait loop ("loop", "wait", "repoll"), "failed" or "exited"
    stack,       \* frames of the one Lean stack, innermost last
    queue,       \* the task manager's queue
    job,         \* job[k]: state of task k
    dep,         \* dep[k]: the promise whose result task k continues
    budget,      \* calls the program may still make
    promise,     \* promise[p]: "unused", "pending", "value" (resolved) or "none" (dropped)
    held,        \* timers whose Lean object is alive
    wrap,        \* wrap[t]: generation of the promise the timer object keeps, 0 for nullptr
    alive,       \* timers in the host's resource table
    timer,       \* timer[t]: the host's record of timer t
    waiters,     \* op 94 requests for a timer's current promise
    outbound,    \* outbound requests without a response taken
    arrived,     \* outbound requests the host has an answer for
    completions, \* completed operations not yet taken by op 95
    lost,        \* requests for a timer that has no promise: kept by nobody
    blocking,    \* blocking host calls, innermost last: ticks left of each
    fired,       \* history: the generations of timers that came due
    cancelled    \* history: the generations that were cancelled or stopped

hostVars == <<alive, timer, waiters, outbound, arrived, completions, lost, fired, cancelled>>
leanVars == <<queue, job, dep, promise, held, wrap>>
vars == <<pc, stack, budget, blocking, leanVars, hostVars>>

\* A timer makes one promise per generation.
Promise == (Timers \X (1..Budget)) \cup Requests
Awaitable == Promise \cup Tasks

Frame == [kind : {"main", "task"}, on : SUBSET Tasks, left : {0}]
    \cup [kind : {"get"}, on : SUBSET Awaitable, left : {0}]
    \cup [kind : {"sleep"}, on : {{}}, left : 0..MaxSleep]

TypeOK ==
    /\ pc \in {"lean", "loop", "wait", "repoll", "failed", "exited"}
    /\ stack \in Seq(Frame)
    /\ queue \in Seq(Tasks)
    /\ job \in [Tasks -> {"new", "bound", "queued", "running", "done"}]
    /\ dep \in [Tasks -> Promise \cup {NoPromise}]
    /\ budget \in 0..Budget
    /\ promise \in [Promise -> {"unused", "pending", "value", "none"}]
    /\ held \subseteq Timers /\ alive \subseteq Timers
    /\ wrap \in [Timers -> 0..Budget]
    /\ timer \in [Timers -> [phase : 0..2, gen : 0..Budget, has : BOOLEAN,
                             done : BOOLEAN, armed : BOOLEAN, left : Nat]]
    /\ waiters \subseteq Promise /\ lost \subseteq Promise
    /\ outbound \subseteq Requests /\ arrived \subseteq Requests
    /\ completions \in Seq([of : Promise, ok : BOOLEAN])
    /\ blocking \in Seq(0..MaxSleep)
    /\ fired \subseteq Promise /\ cancelled \subseteq Promise

Init ==
    /\ pc = "lean"
    /\ stack = <<[kind |-> "main", on |-> {}, left |-> 0]>>
    /\ queue = <<>>
    /\ job = [k \in Tasks |-> "new"]
    /\ dep = [k \in Tasks |-> NoPromise]
    /\ budget = Budget
    /\ promise = [p \in Promise |-> "unused"]
    /\ held = {} /\ alive = {}
    /\ wrap = [t \in Timers |-> 0]
    /\ timer = [t \in Timers |-> [phase |-> 0, gen |-> 0, has |-> FALSE,
                                  done |-> FALSE, armed |-> FALSE, left |-> 0]]
    /\ waiters = {} /\ outbound = {} /\ arrived = {} /\ lost = {}
    /\ completions = <<>> /\ blocking = <<>>
    /\ fired = {} /\ cancelled = {}

-----------------------------------------------------------------------------
(* Promises, tasks and the stack. *)

Top == stack[Len(stack)]
Pop == SubSeq(stack, 1, Len(stack) - 1)
Push(kind, on, left) == Append(stack, [kind |-> kind, on |-> on, left |-> left])

\* t->m_value of a task, or of the task behind a promise.
Finished(x) == IF x \in Tasks THEN job[x] = "done" ELSE promise[x] \in {"value", "none"}

\* The sequences that list a finite set once; operations that complete together
\* complete in the order of their table, which no property here tells apart.
Listings(S) == {s \in [1..Cardinality(S) -> S] : \A x \in S : \E i \in DOMAIN s : s[i] = x}

\* Promises q end: the tasks that continue them join the queue.
Enqueue(q) ==
    LET ready == {k \in Tasks : job[k] = "bound" /\ dep[k] \in q}
    IN  /\ \E s \in Listings(ready) : queue' = queue \o s
        /\ job' = [k \in Tasks |-> IF k \in ready THEN "queued" ELSE job[k]]

\* A call of the Lean program.
Call == pc = "lean" /\ budget > 0 /\ budget' = budget - 1

-----------------------------------------------------------------------------
(* Timers of the host. *)

\* Mutant: a tick too early.
ArmEarly(r, ticks) == [r EXCEPT !.armed = TRUE, !.left = ticks - 1]

Arm(r, ticks) == [r EXCEPT !.armed = TRUE, !.left = ticks]
Fresh(r) == [r EXCEPT !.gen = @ + 1, !.done = FALSE, !.has = TRUE]

Due(t) == t \in alive /\ timer[t].armed /\ timer[t].left = 0
Fires(t) == Due(t) /\ timer[t].has /\ ~timer[t].done

\* The record of timer t after fire_timers.
Fire(t) ==
    LET r == [timer[t] EXCEPT !.done = @ \/ Fires(t)]
    IN  IF ~Due(t) THEN timer[t]
        ELSE IF t \in Repeating /\ Timeout[t] > 0 THEN Arm(r, Timeout[t])
        ELSE [r EXCEPT !.armed = FALSE, !.phase = 2]

\* settle_waiters: the requests that wait for generation gen of timer t.
WaitsFor(w, t, gen) == w \notin Requests /\ w[1] = t /\ w[2] = gen

SettledByFiring == {w \in waiters : \E t \in Timers : Fires(t) /\ WaitsFor(w, t, timer[t].gen)}
Answered == outbound \cap arrived

Record(s, ok) == [i \in DOMAIN s |-> [of |-> s[i], ok |-> ok]]

\* fire_timers, without the completions it makes (SettledByFiring).
FireTimers ==
    /\ timer' = [t \in Timers |-> Fire(t)]
    /\ waiters' = waiters \ SettledByFiring
    /\ fired' = fired \cup {<<t, timer[t].gen>> : t \in {u \in Timers : Fires(u)}}

\* The requests timer_drop settles, and the generation it cancels.
Dropped(t) == IF timer[t].has /\ ~timer[t].done
              THEN {v \in waiters : WaitsFor(v, t, timer[t].gen)} ELSE {}
Cancelled(t) == IF timer[t].has /\ ~timer[t].done THEN {<<t, timer[t].gen>>} ELSE {}
Forget(t, r) == timer' = [timer EXCEPT ![t] = [r EXCEPT !.has = FALSE, !.gen = @ + 1]]

\* Mutant: the waiters are not told.
DropSilently(t, r) ==
    /\ cancelled' = cancelled \cup Cancelled(t)
    /\ Forget(t, r)
    /\ UNCHANGED <<completions, waiters>>

\* Mutant: the waiters are told that the timer fired.
DropResolves(t, r) ==
    /\ \E s \in Listings(Dropped(t)) : completions' = completions \o Record(s, TRUE)
    /\ waiters' = waiters \ Dropped(t)
    /\ cancelled' = cancelled \cup Cancelled(t)
    /\ Forget(t, r)

\* timer_drop with the record r the operation leaves.
Drop(t, r) ==
    /\ \E s \in Listings(Dropped(t)) : completions' = completions \o Record(s, FALSE)
    /\ waiters' = waiters \ Dropped(t)
    /\ cancelled' = cancelled \cup Cancelled(t)
    /\ Forget(t, r)

-----------------------------------------------------------------------------
(* Calls of the Lean program. *)

\* Task.spawn, IO.asTask.
Spawn(k) ==
    /\ Call /\ job[k] = "new"
    /\ job' = [job EXCEPT ![k] = "queued"]
    /\ queue' = Append(queue, k)
    /\ UNCHANGED <<pc, stack, blocking, dep, promise, held, wrap, hostVars>>

\* IO.mapTask on a promise: task k runs once p has ended.
Continue(k, p) ==
    /\ Call /\ job[k] = "new" /\ promise[p] # "unused"
    /\ dep' = [dep EXCEPT ![k] = p]
    /\ IF Finished(p)
       THEN job' = [job EXCEPT ![k] = "queued"] /\ queue' = Append(queue, k)
       ELSE job' = [job EXCEPT ![k] = "bound"] /\ UNCHANGED queue
    /\ UNCHANGED <<pc, stack, blocking, promise, held, wrap, hostVars>>

\* Op 70: the record is the one Init gives.
MakeTimer(t) ==
    /\ Call /\ t \notin alive /\ promise[<<t, 1>>] = "unused" /\ timer[t].gen = 0
    /\ held' = held \cup {t}
    /\ alive' = alive \cup {t}
    /\ UNCHANGED <<pc, stack, blocking, queue, job, dep, promise, wrap, timer, waiters,
                   outbound, arrived, completions, lost, fired, cancelled>>

\* Op 71.
NextRecord(t) ==
    LET r == timer[t]
    IN  IF r.phase = 0
        THEN Arm([Fresh(r) EXCEPT !.phase = 1], IF t \in Repeating THEN 0 ELSE Timeout[t])
        ELSE IF t \in Repeating /\ r.phase = 1 /\ (r.done \/ ~r.has) THEN Fresh(r)
        ELSE r

\* lean_uv_timer_next: op 71, and op 94 for a new generation's promise.
NextTimer(t) ==
    LET r == NextRecord(t)
        p == <<t, r.gen>>
    IN  /\ Call /\ t \in held
        /\ timer' = [timer EXCEPT ![t] = r]
        /\ IF wrap[t] = r.gen
           THEN UNCHANGED <<promise, wrap, waiters, completions, lost>>
           ELSE /\ wrap' = [wrap EXCEPT ![t] = r.gen]
                /\ promise' = [promise EXCEPT ![p] = "pending"]
                /\ waiters' = IF r.has /\ ~r.done THEN waiters \cup {p} ELSE waiters
                /\ completions' = IF r.has /\ r.done
                                  THEN completions \o Record(<<p>>, TRUE) ELSE completions
                /\ lost' = IF r.has THEN lost ELSE lost \cup {p}
        /\ UNCHANGED <<pc, stack, blocking, queue, job, dep, held, alive, outbound,
                       arrived, fired, cancelled>>

\* lean_uv_timer_reset: op 73.
ResetTimer(t) ==
    /\ Call /\ t \in held /\ timer[t].phase = 1
    /\ timer' = [timer EXCEPT ![t] = Arm(@, Timeout[t])]
    /\ UNCHANGED <<pc, stack, blocking, leanVars, alive, waiters, outbound, arrived,
                   completions, lost, fired, cancelled>>

\* The timer object gives up its promise; the host's reference keeps it alive.
Unwrap(t) == wrap' = [wrap EXCEPT ![t] = 0]

\* lean_uv_timer_stop: op 74.
StopTimer(t) ==
    /\ Call /\ t \in held
    /\ Drop(t, [timer[t] EXCEPT !.armed = FALSE, !.phase = 2])
    /\ Unwrap(t)
    /\ UNCHANGED <<pc, stack, blocking, queue, job, dep, promise, held, alive, outbound,
                   arrived, lost, fired>>

\* lean_uv_timer_cancel: op 75; with no promise to cancel it changes nothing.
CancelTimer(t) ==
    /\ Call /\ t \in held /\ timer[t].phase = 1 /\ timer[t].has
    /\ Drop(t, IF t \in Repeating THEN timer[t]
               ELSE [timer[t] EXCEPT !.armed = FALSE, !.phase = 0])
    /\ Unwrap(t)
    /\ UNCHANGED <<pc, stack, blocking, queue, job, dep, promise, held, alive, outbound,
                   arrived, lost, fired>>

\* Requests that hold a reference to timer t's handle, among the requests S.
HolderOf(t, S) == \E p \in S \ Requests : p[1] = t

Queued == {completions[i].of : i \in DOMAIN completions}

\* timer_finalize; the handle's last reference releases the timer.
DropTimer(t) ==
    /\ Call /\ t \in held
    /\ held' = held \ {t}
    /\ Unwrap(t)
    /\ alive' = IF HolderOf(t, waiters \cup lost \cup Queued) THEN alive ELSE alive \ {t}
    /\ UNCHANGED <<pc, stack, blocking, queue, job, dep, promise, timer, waiters, outbound,
                   arrived, completions, lost, fired, cancelled>>

\* lasm_fetch_send: an outbound request the host accepted.
SendRequest(r) ==
    /\ Call /\ promise[r] = "unused"
    /\ promise' = [promise EXCEPT ![r] = "pending"]
    /\ outbound' = outbound \cup {r}
    /\ UNCHANGED <<pc, stack, blocking, queue, job, dep, held, wrap, alive, timer, waiters,
                   arrived, completions, lost, fired, cancelled>>

\* Op 94 with an operation that completes at once (random bytes, refused operations).
StartRequest(r) ==
    /\ Call /\ promise[r] = "unused"
    /\ promise' = [promise EXCEPT ![r] = "pending"]
    /\ completions' = completions \o Record(<<r>>, TRUE)
    /\ UNCHANGED <<pc, stack, blocking, queue, job, dep, held, wrap, alive, timer, waiters,
                   outbound, arrived, lost, fired, cancelled>>

\* Task.get and IO.wait on one task or promise, IO.waitAny on several, when none has ended.
Get(X) ==
    /\ Call
    /\ \A x \in X : ~Finished(x) /\ (x \in Promise => promise[x] # "unused")
                                 /\ (x \in Tasks => job[x] # "new")
    /\ stack' = Push("get", X, 0)
    /\ pc' = "loop"
    /\ UNCHANGED <<blocking, leanVars, hostVars>>

\* IO.sleep: op 35, block_until.
Sleep(n) ==
    /\ Call
    /\ stack' = Push("sleep", {}, n)
    /\ blocking' = Append(blocking, n)
    /\ pc' = "loop"
    /\ UNCHANGED <<leanVars, hostVars>>

\* The running task ends and its stack frame with it; main ends the program.
Return ==
    /\ pc = "lean"
    /\ IF Top.kind = "main"
       THEN pc' = "exited" /\ UNCHANGED <<stack, job>>
       ELSE /\ pc' = "loop"
            /\ stack' = Pop
            /\ job' = [k \in Tasks |-> IF k \in Top.on THEN "done" ELSE job[k]]
    /\ UNCHANGED <<budget, blocking, queue, dep, promise, held, wrap, hostVars>>

-----------------------------------------------------------------------------
(* The wait loop. *)

\* lasm_edge_call_ready: the innermost blocking host call is due.
CallReady == blocking # <<>> /\ Last(blocking) = 0

\* Whether the innermost frame's wait is over.
WaitOver == IF Top.kind = "sleep" THEN CallReady ELSE \E x \in Top.on : Finished(x)

\* Mutant: the blocking call that was made first is taken.
WaitReturnsFirst ==
    /\ pc = "loop" /\ WaitOver
    /\ stack' = Pop
    /\ blocking' = IF Top.kind = "sleep" THEN Tail(blocking) ELSE blocking
    /\ pc' = "lean"
    /\ UNCHANGED <<budget, leanVars, hostVars>>

\* wait_for and wait_any return, lasm_edge_await_call takes its call.
WaitReturns ==
    /\ pc = "loop" /\ WaitOver
    /\ stack' = Pop
    /\ blocking' = IF Top.kind = "sleep" THEN Front(blocking) ELSE blocking
    /\ pc' = "lean"
    /\ UNCHANGED <<budget, leanVars, hostVars>>

\* task_manager::run_one on top of the waiting frame.
RunOne ==
    /\ pc = "loop" /\ ~WaitOver /\ queue # <<>>
    /\ queue' = Tail(queue)
    /\ job' = [job EXCEPT ![Head(queue)] = "running"]
    /\ stack' = Push("task", {Head(queue)}, 0)
    /\ pc' = "lean"
    /\ UNCHANGED <<budget, blocking, dep, promise, held, wrap, hostVars>>

\* complete_batch: resolve, or drop the host's reference of a cancelled promise.
Deliver(batch) ==
    LET all      == {batch[i].of : i \in DOMAIN batch}
        resolved == {batch[i].of : i \in {j \in DOMAIN batch : batch[j].ok}}
        kept(p)  == p \notin Requests /\ wrap[p[1]] = p[2]
        ended    == resolved \cup {p \in all : ~kept(p)}
    IN  /\ promise' = [p \in Promise |-> IF p \in resolved THEN "value"
                                         ELSE IF p \in ended THEN "none" ELSE promise[p]]
        /\ Enqueue(ended)
        /\ alive' = {t \in alive : t \in held \/ HolderOf(t, waiters' \cup lost)}

\* Mutant: the completions stay in the queue.
TakeAndKeep ==
    /\ FireTimers
    /\ outbound' = outbound \ Answered
    /\ completions' = completions
    /\ \E s \in Listings(SettledByFiring), a \in Listings(Answered) :
           Deliver(completions \o Record(s \o a, TRUE))
    /\ UNCHANGED <<stack, budget, blocking, dep, held, wrap, arrived, lost, cancelled>>

\* Mutant: timers fire only inside lasm_edge_wait.
TakeOnly ==
    /\ UNCHANGED <<timer, waiters, fired>>
    /\ outbound' = outbound \ Answered
    /\ completions' = <<>>
    /\ \E a \in Listings(Answered) :
           Deliver(completions \o Record(a, TRUE))
    /\ UNCHANGED <<stack, budget, blocking, dep, held, wrap, arrived, lost, cancelled>>

\* lasm_edge_poll_completions: op 95 fires timers, polls requests and takes everything.
TakeCompletions ==
    /\ FireTimers
    /\ outbound' = outbound \ Answered
    /\ completions' = <<>>
    /\ \E s \in Listings(SettledByFiring), a \in Listings(Answered) :
           Deliver(completions \o Record(s \o a, TRUE))
    /\ UNCHANGED <<stack, budget, blocking, dep, held, wrap, arrived, lost, cancelled>>

\* Nothing to run: take completions; lasm_coop_block waits when there are none.
Poll ==
    /\ pc = "loop" /\ ~WaitOver /\ queue = <<>>
    /\ TakeCompletions
    /\ pc' = IF completions = <<>> /\ SettledByFiring = {} /\ Answered = {} THEN "wait" ELSE "loop"

\* lasm_coop_block polls again after a wait; lasm_edge_await_call does not.
PollAgain == pc = "repoll" /\ TakeCompletions /\ pc' = "loop"
AfterWait == IF Top.kind = "sleep" THEN "loop" ELSE "repoll"

\* lasm_edge_wait returns at once.
WaitEvent == completions # <<>> \/ CallReady
WaitDone ==
    /\ pc = "wait" /\ WaitEvent
    /\ pc' = AfterWait
    /\ UNCHANGED <<stack, budget, blocking, leanVars, hostVars>>

\* ... or fires timers and, if no promise was settled, takes the responses that have arrived,
WaitTurn ==
    LET any    == \E t \in Timers : Fires(t)
        polled == IF any THEN {} ELSE Answered
    IN  /\ pc = "wait" /\ ~WaitEvent
        /\ Answered # {} \/ \E t \in Timers : Due(t)
        /\ FireTimers
        /\ outbound' = outbound \ polled
        /\ \E s \in Listings(SettledByFiring), a \in Listings(polled) :
               completions' = completions \o Record(s \o a, TRUE)
        /\ pc' = IF any \/ polled # {} THEN AfterWait ELSE "wait"
        /\ UNCHANGED <<stack, budget, blocking, leanVars, alive, arrived, lost, cancelled>>

\* Mutant: a blocking sleep is no deadline.
TimedByTimers == \E t \in alive : timer[t].armed

\* next_deadline has something to wait for.
Timed == blocking # <<>> \/ \E t \in alive : timer[t].armed

\* ... stops the program when nothing is pending; otherwise the host sleeps.
WaitFails ==
    /\ pc = "wait" /\ ~WaitEvent /\ ~\E t \in Timers : Due(t)
    /\ outbound = {} /\ ~Timed
    /\ pc' = "failed"
    /\ UNCHANGED <<stack, budget, blocking, leanVars, hostVars>>

-----------------------------------------------------------------------------
(* The environment. *)

Less(n) == IF n = 0 THEN 0 ELSE n - 1

\* A tick of the clock, while it matters to some deadline.
Tick ==
    /\ pc \notin {"failed", "exited"}
    /\ \/ \E t \in alive : timer[t].armed /\ timer[t].left > 0
       \/ \E i \in DOMAIN blocking : blocking[i] > 0
    /\ timer' = [t \in Timers |-> [timer[t] EXCEPT !.left = Less(@)]]
    /\ blocking' = [i \in DOMAIN blocking |-> Less(blocking[i])]
    /\ stack' = [i \in DOMAIN stack |-> [stack[i] EXCEPT !.left = Less(@)]]
    /\ UNCHANGED <<pc, budget, leanVars, alive, waiters, outbound, arrived, completions,
                   lost, fired, cancelled>>

\* The host has the response to an outbound request, or its failure.
Arrive(r) ==
    /\ pc \notin {"failed", "exited"}
    /\ r \in outbound \ arrived
    /\ arrived' = arrived \cup {r}
    /\ UNCHANGED <<pc, stack, budget, blocking, leanVars, alive, timer, waiters, outbound,
                   completions, lost, fired, cancelled>>

Over == pc \in {"failed", "exited"} /\ UNCHANGED vars

Runtime == WaitReturns \/ RunOne \/ Poll \/ PollAgain \/ WaitDone \/ WaitTurn \/ WaitFails

Program ==
    \/ \E k \in Tasks : Spawn(k) \/ \E p \in Promise : Continue(k, p)
    \/ \E t \in Timers : \/ MakeTimer(t) \/ NextTimer(t) \/ ResetTimer(t)
                         \/ StopTimer(t) \/ CancelTimer(t) \/ DropTimer(t)
    \/ \E r \in Requests : SendRequest(r) \/ StartRequest(r)
    \/ \E x, y \in Awaitable : Get({x, y})
    \/ \E n \in 1..MaxSleep : Sleep(n)
    \/ Return

Next == Program \/ Runtime \/ Tick \/ (\E r \in Requests : Arrive(r)) \/ Over

(***************************************************************************)
(* The single thread keeps running; the code between two waits ends; time  *)
(* passes; the host answers or fails every outbound request.               *)
(***************************************************************************)
Fairness ==
    /\ WF_vars(Runtime)
    /\ WF_vars(Return)
    /\ WF_vars(Tick)
    /\ \A r \in Requests : WF_vars(Arrive(r))

Spec == Init /\ [][Next]_vars /\ Fairness

-----------------------------------------------------------------------------
(* Properties. *)

\* Number of places of the host that hold the reference of promise p.
References(p) ==
    Cardinality({i \in DOMAIN completions : completions[i].of = p})
    + Cardinality({S \in {<<waiters, 1>>, <<lost, 2>>, <<outbound, 3>>} : p \in S[1]})

(***************************************************************************)
(* The raw promise pointer that begin_request passes to the host is in     *)
(* exactly one of the host's tables until complete_batch takes it back:    *)
(* it is never resolved twice, and never forgotten, however timers fire,   *)
(* are restarted, cancelled, stopped or dropped meanwhile.                 *)
(***************************************************************************)
OneReference == \A p \in Promise : References(p) = IF promise[p] = "pending" THEN 1 ELSE 0

(***************************************************************************)
(* A request that waits for a timer waits for its current generation, and  *)
(* the timer is armed and has not fired: fire_timers or timer_drop will    *)
(* settle it.  So lasm_node_release never meets a waiter.                  *)
(***************************************************************************)
WaitersWillBeSettled ==
    \A w \in waiters :
        /\ w[1] \in alive
        /\ timer[w[1]].gen = w[2] /\ timer[w[1]].has
        /\ ~timer[w[1]].done /\ timer[w[1]].armed

(***************************************************************************)
(* A timer's promise gets its value only if the timer came due in that     *)
(* very generation, and ends without one only if that generation was       *)
(* stopped or cancelled before.                                            *)
(***************************************************************************)
OwnGeneration ==
    \A p \in Timers \X (1..Budget) :
        /\ promise[p] = "value" => p \in fired \ cancelled
        /\ promise[p] = "none" => p \in cancelled \ fired

(***************************************************************************)
(* The host's stack of blocking calls mirrors the Lean stack: the call     *)
(* lasm_edge_take_call pops is the one of the innermost sleeping frame,    *)
(* which therefore never returns before its own time.                      *)
(***************************************************************************)
BlockingIsStack ==
    \E at \in [DOMAIN blocking -> DOMAIN stack] :
        /\ \A i, j \in DOMAIN blocking : i < j => at[i] < at[j]
        /\ {at[i] : i \in DOMAIN blocking} = {i \in DOMAIN stack : stack[i].kind = "sleep"}
        /\ \A i \in DOMAIN blocking : blocking[i] = stack[at[i]].left

\* The innermost frame waits for what no task, timer, request or completion can end.
Hopeless ==
    /\ Top.kind = "get" /\ ~WaitOver
    /\ queue = <<>> /\ completions = <<>> /\ waiters = {} /\ outbound = {}

Stuck == pc \in {"loop", "wait", "repoll"} /\ Hopeless

(***************************************************************************)
(* The program is stopped for a deadlock only when the innermost wait is   *)
(* one that nothing can end.                                               *)
(***************************************************************************)
NoFalseDeadlock == pc = "failed" => Hopeless

(***************************************************************************)
(* docs/WASI.md: "A wait that no timer or task can ever end is a deadlock, *)
(* and the program stops with a message saying so instead of hanging."     *)
(***************************************************************************)
StuckWaitStops == Stuck ~> pc = "failed"
=============================================================================
