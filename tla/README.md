# Lasm in TLA+

Lasm compiles Lean 4 programs to WebAssembly and runs them on Node.js (and on
edge platforms). In a full build, Lean's threads are pthreads in Node Workers
that share one Wasm memory. Everything a Lean program does outside that memory
(files, sockets, timers, JavaScript objects) is done by Node's main thread. The
*host bridge* between the two is hand-written concurrent code: futexes and
`Atomics` in shared memory, promises and long polls on the event loop, callbacks
that block the event loop, raw Lean pointers held by JavaScript. These modules
model that bridge from its source, check it with TLC and prove its safety with
TLAPS.

Two more parts have behaviour that tests hardly reach and are modelled as well:
the *cooperative runtime* of the WASI targets, where one thread runs Lean tasks,
timers, sleeps and HTTP requests on one stack, with the server that answers a
request on it; and the *tool cache*, shared by builds and repairs of independent
processes that may die at any step.

## The system and its parts

| Component | State | Operations | Interacts with | What is hard |
| --- | --- | --- | --- | --- |
| Host call slots (`scripts/full-lean/host-library.js`, `host-pre.js`) | per thread and depth: sequence, reply word, request and reply fields; per slot on the host: sequence served, kept reply | post a request, wait, copy a large reply; serve, reply, fail, load the host | every other component calls through it | two waits on words another thread changes; second exchange; nesting |
| Interop poller (`src/node-js.mjs`, `library/c/lasm_js.c`, `library/Lasm/JS/Core.lean`) | event queue, waiting poll, spawn timer, poller claim, function registry, promise references | push, take, poll, park, spawn, expose, collect, call, reply, await | host calls 205–210; Lean tasks | who becomes the poller; events before it exists; raw promise pointers |
| Synchronous callbacks (same files) | channel (state, doorbell, buffer, task wait word, stopped flag), wait list and epoch | call, serve inline, look for a stuck wait, stop it, post | host call slots (same slots, second server), Lean's task manager | the event loop is blocked; two servers of one slot; detection of a wait nobody can end |
| Completions (`host-pre.js`, `runtime/node-async.cpp`) | queue, waiting poll, unsettled operations and diverted completions per handle | start (op 94), settle, cancel, take (op 96), poll (op 95) | sockets, timers, signals; callbacks | microtask order; two threads cancelling; failure of the second call |
| JavaScript value handles | handle table, batch of released handles | retain, release, batch | every Lasm.JS call | when a release may overtake a use |
| Sockets, timers, signals, locks (`src/node-network.mjs`, …) | handles, generations, waiters | connect, accept, receive, cancel, close, lock, wait | completions | late answers against cancel and close |
| Cooperative runtime (`runtime/edge.cpp`, `lean-4.35.0-edge.patch`, `src/wasi/lasm_wasi.c`, `runtime/node-async.cpp`) | task queue, one stack of waiting frames, timers, waiters, completions, blocking calls, promises | spawn, get, waitAny, sleep, timer next/reset/stop/cancel/drop, send, op 94, op 95, wait | outbound requests of `lasm_wasi_http.c`, Lean's task manager | nested waits that end out of order, generations of a timer, raw promise pointers, recognising a deadlock |
| HTTP serving on WASI (`library/Lasm/Fetch.lean`, `src/wasi/lasm_fetch_wasi.c`, `lasm_wasi_http.c`) | request and response, their bodies and streams | take, read, send, start, write, finish | the cooperative runtime; the host | closures that outlive the response, failures in the middle |
| File workers, working directory (`src/native-file-worker-pool.mjs`, `src/working-directory.mjs`) | pool, leases | submit, lease, change directory | host calls | limits, blocked workers |
| Build lock and cache (`src/application-lock.mjs`, `src/cache-lifecycle.mjs`, `src/managed-artifacts.mjs`, `src/cache-repair.mjs`) | locks, staging, published tree, verification record, quarantine | lease, lock, install, verify, publish, record, repair | other Lasm processes | crashes between two steps, removals that fail, repair beside builds |
| Development loop (`src/dev*.mjs`) | current build, server process | change, build, restart, proxy | build worker | changes during a build |
| Edge runtime in JavaScript hosts, WASI and Wasmtime packaging, build and link, UI/KV/RPC libraries | – | – | – | see `PROJECT.json` |

Correct means:

* host calls: a call returns the reply of its own operation, executed at most
  once; no wake-up is lost; every call returns;
* poller: one poller, every event once, in order, its promise alive;
* synchronous callbacks: every callback returns, with its own result; a wait is
  stopped only if nothing can end it; inline service and the event loop do not
  execute a request twice;
* completions: the pointers passed to JavaScript have exactly one owner until
  they are dropped; a cancelled operation is dropped by a canceller;
* cooperative runtime: a promise is resolved once, by its own generation of its
  timer; a sleep lasts its time; a program is stopped as deadlocked if and only if
  nothing can end its wait;
* serving: a request is answered once, a failed body is not taken for a complete
  one, no dropped stream is used;
* cache: a build uses a whole tree or none, whoever died before; what the record
  vouches for was checked; the cache recovers.

The repository has its own explicit-state model of the bridge in Lean
(`verification/host-bridge/`, `docs/TESTING.md`). These modules are written from
the code, not from that model. They add the copy of large replies, the wrap of
the sequence, failing host loads, the release of reply values, promise references
and function collection, op 96, and proofs for any number of slots.

## Modules

| Module | Models |
| --- | --- |
| `HostCall` | Abstract: ask, execute at most once, answer, return that answer. |
| `HostSlot` | The slots: one variable per shared word, one step per atomic access. Implements `HostCall`. |
| `HostSlotProofs` | Inductive invariant, safety theorems and refinement of `HostSlot`. |
| `EventQueue` | Abstract: a FIFO in which everything is delivered once. |
| `InteropPoller` | Event queue, spawn timer, poller, dispatcher. Implements `EventQueue`. |
| `SyncBridge` | Extends `HostSlot` by the channel, the main thread inside `syncFunction`, the callback thread, worker threads and their tasks. Implements `HostCall`. |
| `Completions` | Ops 94, 95, 96, the completion thread, cancelling threads. Implements `EventQueue`. |
| `CoopLoop` | The cooperative runtime: wait loops, timers, completions, promises. |
| `FetchServe` | `serveOnce` over CGI, Fastly and wasi-http. |
| `WasiServe` | Composes the two: the handler and its tasks run in the loop, reads and writes come from any of them. |
| `BuildCache` | One cache entry, builds and a repair. |
| `QueueLemmas` | Lemmas about sequences: their elements, repetitions, cutting and joining. |
| `SyncBridgeProofs` | Safety theorems and refinement of `SyncBridge`, from `HostSlot`'s invariant for two servers. |
| `InteropPollerProofs`, `CompletionsProofs` | Safety theorems of the two queues, and that they implement `EventQueue`. |
| `CoopLoopProofs` | Safety theorems of the cooperative runtime, alone. |
| `WasiServeProofs` | Safety theorems of serving, and those of the runtime while it serves. |
| `BuildCacheProofs` | Safety theorems of the cache entry. |
| `MC*` | Values of the constants for TLC. |

Operators commented as mutants are plausible bugs of the definition that follows
them (a dropped comparison, a missing reset). No specification uses them; each
replaces that definition in a run of its own to show that a property notices.

### `HostSlot`

`cpc[s]` is where the thread stands in `exchange`; `srv[s]` where its server
stands: `none`, `message` (registration posted), `armed` (`waitAsync`), `woken`
(promise resolved), `loading`, `pending` (an operation's promise), or a step on
the main thread. `main` is the slot whose server runs, so JavaScript's
run-to-completion is explicit. `seq`, `ready`, `kind`, `op`, `status`, `buffer`,
`length`, `capacity` are the fields of the slot; `buffer` holds the operation
whose bytes were written, so that a stale reply is visible. `Parent` gives the
slot one depth below: a nested call starts inside the parent's sleep. `runs` and
`out` are history. `bell`, `listed`, `moved` are the words of the synchronous
callbacks that a host call touches. Kinds `request`, `release` and `start` differ
only in whether the operation answers by a promise (`AsyncOps`).

### `InteropPoller`

A task of the event loop is one step, a host call is posted, served and taken.
`refs` counts the references to a promise held for the host. An `await` stands
for `lasm_js_await_into` and `lasm_js_call_into`. The timer's decision to re-arm
depends on progress counters and time and is nondeterministic, up to `MaxRearms`.
A Lean callback is a task that replies once.

### `SyncBridge`

The main thread's `mpc` follows `syncFunction` access by access, including
`stuckWait` and the walk over nested slots; outside callbacks (`out`) the event
loop of `HostSlot` runs. JavaScript may make a callback from the event loop or
from inside an operation of another thread. The callback thread makes host
calls, spawns tasks, opens the locks tasks wait for, waits for one of several
tasks. `Others` are the worker threads, any number, as the wait list sees them,
from how the code uses Lean's task manager (external): a worker takes a queued
task, calls the host, spawns tasks, waits for its task's lock, opens another's
(`TaskOpens`), finishes. `Thread` and `Depth` name the slots of a thread: mailbox
work run inside the wait of a host call makes host calls of its own at the next
depth (`CallsNested`). A thread's wait outside host calls is listed under its
slot at depth 0. A broadcast wakes all who sleep for the same reason; one that
finds nothing waits again. `Resting(t)` says that thread `t` goes on only if the
event loop, the callback or another thread gives it a reason, and `NoWrongStop`
that all others rest when a wait is stopped. Threads neither start nor end
meanwhile (`liveThreads` is fixed), mailbox work runs inside host calls only, and
the list is read in one step: an entry that changes while it is read moves the
epoch, which the next look notices.

Time appears only in `stuckMs`: `lagging` holds the threads on their way into or
out of a wait when a mark was made, and `AskToStop` needs it to have been empty
when the epoch was read. This is the assumption the code makes: 50 ms and one
look are enough for a listed thread that was woken, or had not slept yet, to
leave its wait or to sleep. `Release` is the release host call of a full batch;
with `None` the batch never fills. The model starts after op 211.

### `Completions`

A host call is its dispatch, one step. `settling` holds settled promises whose
reaction has not run: reactions run before the next macrotask (`Macrotask`), and
none inside a synchronous callback. `cancelling[h]` is `None` or the set diverted,
`orphans` the op 96 calls that answered nobody. Each promise is started once.
`OperationEnds` with `"failure"` stands for a host defect, which panics.
`forgotten` is history: the promises an orphaned op 96 took with it.

### `CoopLoop`

`stack` is the Lean stack as far as the loop sees it: main, running tasks, and
the frames that wait (`get` for `Task.get`, `IO.wait` and `IO.waitAny`, `sleep`).
`pc` says where the innermost frame is: Lean code, the loop of `wait_for`,
`wait_any` or `lasm_edge_await_call`, inside `lasm_edge_wait`, or before
`lasm_coop_block`'s second poll (`repoll`). A promise of a timer is the pair of
the timer and its generation. `timer[t]` is the host's record; `wrap[t]` the
promise the Lean object keeps; `waiters`, `outbound`, `completions` and `lost`
are the places of the host where a raw promise pointer may be. Deadlines are
ticks left, so that time needs no bound. The history variables `fired` and
`cancelled` say what happened to each generation. A program is any sequence of
at most `Budget` calls. Lean's task queue and dependants are external: a task
that continues a promise joins the queue when the promise ends; `Listings` leaves
the order of things that end together open.

### `FetchServe` and `WasiServe`

`phase` follows `serveOnce`. A handle is absent, open or dropped; `trapped`
records a use that the host of a component answers with a trap. `res.client` is
what the client knows: nothing, a head, a complete body or a cut one; the bytes
are left out. Each `lasm_fetch_` function is one step since it blocks the only
thread. `Unstarted` lists the states a failing start may leave. In `WasiServe`
the handler and the producer are programs of `CoopLoop`; after `serve` tasks run
only if main waits for one, and may still read and write.

### `BuildCache`

A process's `pc` follows `provisionArtifact` (`deriveArtifact` takes the same
locks and publishes in the same way; its tree is linked or built from other verified
trees, and what fails is that work, not a download) from the lease to the end of its compilers, or
`repairManagedCache`. `staging` is what a directory holds: `mixed` is a tree
built on top of what another process left. `dir.print` is a fingerprint that
every change of the tree renews, `record` the one last recorded, `before[b]` the one
taken before hashing. A lock is given back whenever its process ends. The branch
that meets a tree installed by another process after the rename is unreachable
under the entry's lock and left out.

## Runs

| Run | Question | Bounds |
| --- | --- | --- |
| `HostSlotNested` | Lost wake-ups, double execution, mixed-up replies, the inductive invariant; does every call return? | two nested slots, an immediate and a promised operation, one reply too large for the first buffer, sequence modulo 2, host load may fail, one entry in the wait list; 750k states |
| `InteropPoller` | One poller; every event once and in order; references | `main`, one thread, one function, two calls, one promise, batches of 2; 59k states |
| `SyncBridgeNested` | Inline service with the event loop: once, own reply | callback thread at two depths, copy of a large reply; 739k states |
| `SyncBridgeTask` | Is a wait stopped only when stuck? | one worker, two tasks that call the host, start and release one another, one action per callback; 6.7M states up to symmetry |
| `SyncBridgeWaits` | Do callbacks with task waits return? Is one wait taken for another? | one worker, one task, three actions per callback, three numbers for waits, no host calls; 306k states |
| `SyncBridgeServes` | Do callbacks with host calls return, each with its result? | two callbacks, refused and queued operations; 84k states |
| `Completions` | One owner; cancelled by a canceller; order; all settle | one thread and the callback thread, one handle, two operations, batches of 1; 45k states |
| `WasiServe` | References, generations, nesting, deadlock reports, one answer, no trap, every run ends | three platforms, one task, a timer that fires once and one that repeats, one outbound request, sleeps of 1 and 2 ticks, 5 calls; 574k states |
| `BuildCache` | Whole trees, sound records, recovery | two builds and a repair, 5 faults (crashes, failed downloads, removals and records, damage); 46k states |
| `SyncBridgeReleaseLive`, `CompletionsLost`, `CoopLoopDeadlock` | Disagreements, below | |

Why these bounds are enough to be interesting: a sequence modulo 2 wraps at every
second call, so every confusion of equal sequences that a wrap could cause shows;
a wait list of one entry fills; the smallest batch makes every second event exceed
it; two servers, two threads and one nested depth give each pair of actors that
meet in the code. Larger instances repeat these pairs. For safety the proofs
remove the bounds. Five calls of a cooperative program are enough to make a timer,
take its promise, let a task run inside a wait and stop or restart the timer
there; five faults let a build die, its staging resist removal, the tree be
damaged and the repair fail as well. `RunEnds` allows one kind of run that neither
ends nor is stopped: its innermost wait can be ended by nothing, and a repeating
timer or a sleep below it hides that from `lasm_edge_wait`.

Deadlock is checked in the `HostSlot`, `SyncBridge`, `WasiServe` and `BuildCache`
runs; an ended cooperative program stutters (`Over`). `InteropPoller` and
`Completions` may stop: the program is then done and nothing is pending.

`SyncBridge` assumes that one callback makes no more task waits than there are
numbers for them (`NumbersAssumption`): with 2^30 in the code, an equal word after a
full turn is excluded.

The runs of `SyncBridge` have one worker: with two, host calls and fairness exceed
what TLC does in minutes. `MCSyncBridge` has slots for larger instances, which
found nothing new: two workers with two tasks and two actions per callback, without
host calls (`Slots <- WorkerSlots`, `WaitSlots = 3`, `TaskOps <- Empty`,
`MaxBody = 2`; 6.1M states up to symmetry, safety); two workers with one task
(0.9M states, `CallbacksReturn` as well); a worker with mailbox work in its host calls
(`Slots <- MailSlots`; 10M states, not finished). Their safety is proved for any
number.

## Fairness

Threads are scheduled by the operating system and a started server runs to its
next wait (weak fairness). A queued task of the event loop is taken even if other
tasks keep coming (strong fairness of `TakeLoop`, `HostSettles`,
`TakeImmediate`), since the loop's queues are first-in first-out. Operations in
`HostSlot` settle; in `Completions` they need not. In `SyncBridge` an unchanged
mark at last is older than `stuckMs` (strong fairness of `AskToStop`). Nothing
obliges a program to make calls, or JavaScript to settle a promise. In
`Completions` a settled reaction, a caller's second look and the end of a
synchronous callback are strongly fair, the event loop being first-in first-out.

In `CoopLoop` and `WasiServe` the one thread runs, Lean code between two waits
ends, time passes and the host answers or fails every outbound request (weak
fairness). In `BuildCache` processes run (weak), a lock that is free again and
again is taken, as it is polled every 50 ms, and users build again and repair
when told to (strong for the locks and for the start of a repair, which gives up
at once when a build is active). `Recovers` leaves out the case that builds never
leave the cache idle.

`CallsReturn` has an escape that the code deserves: `lasmFullServe` loops while
its slot has a new request, so a thread that always posts in time keeps the main
thread from the other slots.

## What is proved

Every invariant and every refinement that a passing run checks is proved for all
values of the constants. The theorems are stated as
`Spec => []Inv`, so they hold with and without fairness. Except for the slots the
invariants that TLC checks say what the code promises, not why it holds, and few of
them are inductive. Each proof module defines its strengthening from named parts, has
one lemma per action, and keeps what concerns one thread, promise, timer or
generation in definitions with that parameter, so that a lemma looks at the one
its action touches. The assumptions are the named `ASSUME`s of the modules; TLC
evaluates them in the runs.

### `HostSlotProofs`

For every set of slots and nesting, every set of operations, outcomes and reply
sizes, every buffer size, sequence modulus above 1 and size of the wait list:

* `Invariance`: `Spec => [](TypeOK /\ SlotInv)`, and `Typed` from it (`TypeOK` is
  checked by TLC as a part of `SyncTypeOK`, in `SyncBridgeNested`);
* `NoWakeupIsLost`, `ExecutedAtMostOnce`: the two safety invariants;
* `SlotRefinesCall`: `HostSlot` implements `HostCall`.

The safety invariants are not inductive: that a sleeping thread is not forgotten
depends on who owns the slot. `SlotInv` says so. `Control` relates the positions
of thread and server: a request is fresh between the bump and the load, taken
until the reply word is stored, then replied; in each phase it fixes `ready` and
whether `seq` equals `served`. `Carried` says what the slot, `slot.large` and the
history hold in each phase. Only the slot of an action and, for nested calls, its
parent change. Assumptions: slots have distinct parents, `None` is no operation or
outcome, the modulus is at least 2.

### `SyncBridgeProofs`

For any nesting of the callback thread's slots and any further slots, operations,
outcomes, sizes and callbacks:

* `SyncTyped`, `OnceByEither` (`ServedOnce`), `ResultIsOwn` (`OwnResult`);
* `SyncRefinesCall`: the slots with two servers still implement `HostCall`;
* `StoppedOnlyIfStuck` (`NoWrongStop`), for any number of workers and tasks and any
  nesting of each worker's slots.

`SlotInv` of `HostSlot` does not hold here: while the main thread serves a slot
inline, `srv` stays at `armed`, `woken` or `message` although the request is taken.
`Turn` and `Load` therefore speak of `Server(s)`, where the server of a slot stands
whichever of the two has it, and say that a slot recorded inline keeps its record
until it is registered. `Blocked` is why the two never work on one slot: a callback
is entered only with the event loop free or inside an operation that runs, and no
step of the loop's servers is taken before it ends. `Channel` says whose turn it
is at the channel and what its buffer then holds. Together (`SyncInv`) they are
inductive and give all but the last theorem.

`NoWrongStop` depends on what happened between two looks of `stuckWait` at threads
that come and go, so `StopInv` adds where threads are and the past. `Stack` says that
a thread stands at its innermost host call, `Working` where a worker stands while it
is listed and that a sleeping one has no reason to go on. `Recent` says that the
numbers of the waits of one callback differ: a word equal to the marked one is the
same wait. `Mark` says what the mark still means while the list's epoch has not
moved: every thread is listed, whoever is no longer on its way rests, and the
callback's thread has looked at its tasks again. Hence the look that finds the mark
unchanged, and nobody on the way, finds the wait `Stuck`. The thread sees the swapped
word only later. Meanwhile every thread but the callback's rests (`Quiet`), and
resting is kept by every step: a thread that rests is ended by a reply, which only
the blocked event loop gives, or by a task or a lock, which only a thread that does
not rest gives. Workers do not interfere with this argument, whatever their number:
`RestsStill`, `SlotGoes` and `HostOthers` say for one thread that a step of another
leaves it at rest. The assumption about time stays in `AskToStop`, as in the model.

### `InteropPollerProofs`

For any threads, functions, calls and promises, any batch limit, any number of
re-armings: `Typed`, `PollerIsOne`, `EventsKeepAPoller`, `PromisesAreHeld`,
`CallsAreAccepted`, and `EventsAreQueued`: the module implements `EventQueue`.

`Polls` says who may poll, and that only the polling thread has a batch. The batch
followed by the queue is therefore one sequence, which grows at its end and shrinks
at its head, and which the refinement needs. `Awaits` follows a promise from the
thread that starts to wait, to the host that watches it, to its event: it is in one
of these places at most, and from the second on it holds its reference. `Exposed`
follows a function's registration in the same way and adds the order of its events:
the collection comes after every call, hence no call is refused. Assumption beside
the declared ones: `None` is no thread and no request of one.

### `CompletionsProofs`

For any threads, handles, operations and batch limit: `Typed`,
`PointersHaveOneOwner`, `CancelledAreDiverted`, and `PacketsAreQueued`: the module
implements `EventQueue`.

`OneOwner` counts owners. Inductive is `Owned`: the places are disjoint sets whose
union is what was started, a thread is given packets only when it holds none, a
packet is queued once. `CancelledByCaller` needs `Diverting`: while a cancelled
operation settles, its handle has a list to divert it to. The list goes when op 96
answers, and op 96 waits until `waiting[h]` is zero; so the invariant also says
that this counter is the number of operations of the handle still to settle.

### `CoopLoopProofs`

For any tasks, timers, requests, intervals and budget of calls: `Typed`,
`PromisesAreHeldOnce` (`OneReference`), `WaitersAreSettled`
(`WaitersWillBeSettled`), `GenerationsAreKept` (`OwnGeneration`), `CallsAreNested`
(`BlockingIsStack`), `StopsAreDeadlocks` (`NoFalseDeadlock`).

The invariant has two halves. `HostInv` is about the host's tables. That each
pending promise has one reference needs that the tables are disjoint, that no
promise of a generation to come exists yet, and that the host's record of a timer
agrees with the generation its Lean object keeps; `Histories` follows each
generation to its one end. `LeanInv` is about the stack: a wait is always on top of
a frame that runs, so what the runtime pops is a wait and what the program pops is
not; and whoever enters `lasm_edge_wait` found nothing to run and has seen no
promise end since, which makes its report of a deadlock true. The second half uses
the first, not the other way round. The constants' assumption says that requests
are not promises of timers, and that the sets are finite.

### `WasiServeProofs`

For the same parameters: `WasiTyped`, `Answers` (`AnsweredOnce`), `FailuresShow`
(`FailedIsIncomplete`), `NeverTraps` (`NoTrap`). `ServeInv` says what the client was
told in each phase, where a failed body may still be written, and in which phases
which handle is open. `WasiPromises` and `WasiWaits` carry the invariants of the
runtime over: every step of `WasiSpec` is a step of the runtime or leaves its state
alone (`StepsOfRuntime`), so the lemmas of `CoopLoopProofs` apply unchanged.

### `BuildCacheProofs`

For any number of builds and faults: `Typed`, `UseIsWhole` (`WholeInUse`),
`RecordIsSound` (`RecordSound`). `Locks` says which locks a process holds at each
step, hence that one build installs and none is inside while repair runs.
`Progress` says what that build finds in staging and in the tree's place; nobody
else can have touched them. `Fingerprints` says that a tree never has a print the
record could have held before. Assumption: `None` is not a tree.

### Only model-checked

* Liveness: `CallsReturn`, `EventsDelivered`, `CallbacksReturn`, `AllSettle`,
  `RunEnds`, `Recovers`. They rest on fairness, which is out of the prover's reach.

## Where code and documentation disagree

* `SyncBridgeReleaseLive`. `docs/TESTING.md:41` says that the bridge has no
  deadlocks. A release answers by a promise. Taken by the event loop and followed
  by a synchronous callback before its reaction runs, it leaves the callback
  thread waiting for the event loop and the main thread for the callback thread.
* `CompletionsLost`. `release_cancelled` says that a failed op 96 leaves the
  completions with the completion thread. Inside a synchronous callback the
  failure discards them. `OneOwner` counts such promises as forgotten;
  `NoneForgotten` says there are none.
* `CoopLoopDeadlock`. `docs/WASI.md:107` says that a wait nothing can end stops the
  program "instead of hanging". While a frame below sleeps it does not, and when
  that sleep is due `lasm_edge_wait` returns at once, again and again: the program
  spins. A repeating timer nobody waits for also hides the deadlock.

Seen while reading, without a run of its own:

* The comments of `sync_main` (`library/c/lasm_js.c:419`) and `syncDispatch`
  (`Core.lean:363`) say that the values of a reply live until the main thread has
  read it. `lean_dec(result)` follows the post at once; if the batch of 1024
  released handles is full it is a host call, which the main thread may serve
  inline before it reads the result.
* `docs/FETCH.md:100` says that the client of a failed streamed response sees an
  incomplete body. On CGI `lasm_fetch_finish` ignores its argument
  (`src/wasi/lasm_fetch_wasi.c:232`); `FailedIsIncomplete` leaves CGI out.
* `FailedIsIncomplete` speaks of failures that reach the end of the response: `broken`
  is set when the producer throws or its body is not written. A failed write that a
  producer swallows ends as a complete body.
* `docs/INSTALLATION_HARDENING.md:98` says that receipts "are fully checked again
  before reuse". With a matching verification record (`verifyTreeOnce`,
  `src/managed-artifacts.mjs:270`) they are not; the record's soundness is what
  `RecordSound` is about. It means unchanged since publication: `inventory` (209-215)
  takes the hash of a file that was extracted, or hard-linked from a verified tree
  (413-414), when its size is right, so a change of the same size before the rename
  goes unnoticed.
* `try_finish` (`src/wasi/lasm_wasi_http.c:468`) ignores the result of `read_body`, and
  `read_request` (299) takes an error of the stream for the end of the body: a body
  cut off on the way is delivered as a complete one.

The passing `SyncBridge` runs leave the release batch unfilled (`Release = None`).

## Not modelled

* Of modelled parts: `serveMailbox` (proxied `pthread_create`), threads that
  start or end during a synchronous callback, op 211, the refusal
  of a synchronous callback inside another; process exit (`LeanExit`, `onExit`) and
  memory growth; ops 91 and 92; clocks read on the calling thread; op 72 as a
  blocking call (nothing calls it so), task priorities, and mutexes and condition
  variables of cooperative builds (`docs/EDGE.md:337`); a second call of
  `serve`; the project's own build lock and the order of its waits, retries and
  resumption inside a download, Windows tool prefixes, loss of power, compilers
  that outlive a killed CLI.
* `library/prebuilt/` is about 196,000 of the repository's 205,000 lines of C: code the
  Lean compiler generated from `library/Lasm/*.lean`. It has no state machine of its
  own; where its logic matters (`serveOnce`, `callAsync`, `syncDispatch`) the Lean
  source is modelled. Measured against those lines the map stays thin whatever is
  modelled.
* `runtime/tasks.inc.cpp` is not part of any build.
* Everything else the component list in `PROJECT.json` marks so, with its reason.

## Plan

1. Done: `HostCall`, `HostSlot` and its proofs; `InteropPoller`, `SyncBridge`,
   `Completions`; `CoopLoop`, `FetchServe`, `WasiServe`; `BuildCache`; their runs.
2. Done: the safety proofs of every module, and every refinement.
   `StoppedOnlyIfStuck` for any number of workers and nested slots.
3. Further models: `HandleTable` (batches of released handles, generations),
   sockets and signals on `Completions`, the file workers with the working
   directory's leases, the development loop.

Runs of finished components are merged where their questions allow, to make room
for new ones.
