--------------------------- MODULE InteropPoller ---------------------------
(***************************************************************************)
(* Events from JavaScript to Lean in a program that imports Lasm.JS: the   *)
(* host's event queue and its grace timer (src/node-js.mjs), the one Lean  *)
(* thread that long-polls it (library/c/lasm_js.c), and the dispatcher it  *)
(* runs (library/Lasm/JS/Core.lean).                                       *)
(*                                                                         *)
(* The poller is whichever comes first: `main` parked in waitForever, a    *)
(* thread started by the first await of a JavaScript promise, or a thread  *)
(* the host asks for when an event waits and Lean makes no host calls.     *)
(*                                                                         *)
(* Node's main thread runs one event-loop task at a time, so each of its   *)
(* tasks is one step.  A host call is posted, served and taken (HostSlot   *)
(* is about what lies beneath).                                            *)
(***************************************************************************)
EXTENDS Naturals, Sequences, SequencesExt

CONSTANTS Main, Workers,   \* the thread running `main`, and other Lean threads
          Thread,          \* the poller thread, when one is started
          Functions,       \* Lean functions that may be exposed to JavaScript
          Calls,           \* calls JavaScript may make of them
          Promises,        \* Lean promises that may await a JavaScript value
          None,
          BatchLimit,      \* events per poll (1024 in the code)
          MaxRearms        \* grace periods in the patience (25 in the code)

Callers == Workers \cup {Main}
Threads == Callers \cup {Thread}

ASSUME ThreadsAssumption == Main \notin Workers /\ Thread \notin Callers
ASSUME NoneAssumption ==
  None \notin Threads \cup ({"make"} \X Functions) \cup ({"await"} \X Promises)
ASSUME LimitsAssumption == BatchLimit \in Nat \ {0} /\ MaxRearms \in Nat

\* An event: a settled promise (kind 1), a call (2) or a collected function (3).
Settled(p)      == <<"settled", p>>
Called(c, f)    == <<"called", c, f>>
Collected(f)    == <<"collected", f>>
Events == {Settled(p) : p \in Promises} \cup {Called(c, f) : c \in Calls, f \in Functions}
            \cup {Collected(f) : f \in Functions}

VARIABLES
  (* Lean *)
  dispatcher,   \* has lasm_js_start registered the dispatcher?
  claimed,      \* poller_claimed
  pc,           \* where each thread stands
  request,      \* what the posted host call of a thread is about
  batch,        \* the events the poller still has to handle
  registry,     \* Lean functions JavaScript may call, by id
  refs,         \* references to a Lean promise held for the host
  resolved,     \* resolved Lean promises
  tasks,        \* calls running as Lean tasks
  (* Node's main thread *)
  events, waiter, polled, timer, rearms,
  live,         \* JavaScript functions made by op 210 and not collected
  watched,      \* Lean promises whose JavaScript value has not settled
  js,           \* what JavaScript has of each of its calls
  (* history *)
  fresh,        \* function ids and promises not used yet
  delivered,    \* events the poller has handled
  refused       \* calls answered "the Lean function was released"

leanVars == <<dispatcher, claimed, pc, request, batch, registry, refs, resolved, tasks>>
hostVars == <<events, waiter, polled, timer, rearms, live, watched, js>>
vars     == <<leanVars, hostVars, fresh, delivered, refused>>

Init == /\ dispatcher = FALSE /\ claimed = FALSE
        /\ pc = [t \in Threads |-> IF t = Thread THEN "none" ELSE "run"]
        /\ request = [t \in Threads |-> None]
        /\ batch = <<>> /\ registry = {}
        /\ refs = [p \in Promises |-> 0] /\ resolved = {} /\ tasks = {}
        /\ events = <<>> /\ waiter = None /\ polled = FALSE /\ timer = FALSE /\ rearms = 0
        /\ live = {} /\ watched = {} /\ js = [c \in Calls |-> "unused"]
        /\ fresh = Functions \cup Promises /\ delivered = <<>> /\ refused = {}

-----------------------------------------------------------------------------
(* Lean threads: library/c/lasm_js.c and library/Lasm/JS/Core.lean.        *)

\* lasm_js_start, from ensureStarted: once.
Start(t) ==
  /\ pc[t] = "run" /\ ~dispatcher
  /\ dispatcher' = TRUE
  /\ UNCHANGED <<claimed, pc, request, batch, registry, refs, resolved, tasks, hostVars,
                 fresh, delivered, refused>>

\* Function.ofFn: the function enters the registry, then op 210 is posted.
ExposeFunction(t, f) ==
  /\ pc[t] = "run" /\ dispatcher
  /\ f \in fresh
  /\ fresh' = fresh \ {f}
  /\ registry' = registry \cup {f}
  /\ request' = [request EXCEPT ![t] = <<"make", f>>]
  /\ pc' = [pc EXCEPT ![t] = "posted"]
  /\ UNCHANGED <<dispatcher, claimed, batch, refs, resolved, tasks, hostVars, delivered, refused>>

\* Mutants: the thread is created without the claim, or never.
StartUnclaimed == [pc EXCEPT ![Thread] = "creating"]
StartNobody == pc

\* start_poller: who wins claim_poller's compare-and-swap creates the thread.
StartPoller == IF claimed THEN pc ELSE [pc EXCEPT ![Thread] = "creating"]

\* lasm_js_await_into and lasm_js_call_into: start_poller first...
AwaitStarts(t, p) ==
  /\ pc[t] = "run" /\ dispatcher
  /\ p \in fresh
  /\ fresh' = fresh \ {p}
  /\ claimed' = TRUE
  /\ pc' = [StartPoller EXCEPT ![t] = "hold"]
  /\ request' = [request EXCEPT ![t] = <<"await", p>>]
  /\ UNCHANGED <<dispatcher, batch, registry, refs, resolved, tasks, hostVars, delivered, refused>>

\* ... then lean_inc(promise), and op 207 (or 205, 214 with flag 16) is posted.
HoldPromise(t) ==
  /\ pc[t] = "hold"
  /\ refs' = [refs EXCEPT ![request[t][2]] = @ + 1]
  /\ pc' = [pc EXCEPT ![t] = "posted"]
  /\ UNCHANGED <<dispatcher, claimed, request, batch, registry, resolved, tasks, hostVars,
                 fresh, delivered, refused>>

\* Mutant: the reference is given back after a success too.
TakeReplyGives(t) ==
  /\ pc[t] \in {"replied", "failed"}
  /\ refs' = IF request[t][1] = "await" THEN [refs EXCEPT ![request[t][2]] = @ - 1] ELSE refs
  /\ request' = [request EXCEPT ![t] = None]
  /\ pc' = [pc EXCEPT ![t] = "run"]
  /\ UNCHANGED <<dispatcher, claimed, batch, registry, resolved, tasks, hostVars, fresh, delivered, refused>>

\* The reply of op 207 or 210; after a failure the caller gives its reference back.
TakeReply(t) ==
  /\ pc[t] \in {"replied", "failed"}
  /\ refs' = IF pc[t] = "failed" THEN [refs EXCEPT ![request[t][2]] = @ - 1] ELSE refs
  /\ request' = [request EXCEPT ![t] = None]
  /\ pc' = [pc EXCEPT ![t] = "run"]
  /\ UNCHANGED <<dispatcher, claimed, batch, registry, resolved, tasks, hostVars, fresh, delivered, refused>>

\* lasm_js_park: `main` becomes the poller unless there is one.
Park ==
  /\ pc[Main] = "run" /\ dispatcher
  /\ claimed' = TRUE
  /\ pc' = [pc EXCEPT ![Main] = IF claimed THEN "waiting" ELSE "poll"]
  /\ UNCHANGED <<dispatcher, request, batch, registry, refs, resolved, tasks, hostVars,
                 fresh, delivered, refused>>

\* pthread_create: the Worker starts and enters interop_main.
ThreadStarts ==
  /\ pc[Thread] = "creating"
  /\ pc' = [pc EXCEPT ![Thread] = "poll"]
  /\ UNCHANGED <<dispatcher, claimed, request, batch, registry, refs, resolved, tasks, hostVars,
                 fresh, delivered, refused>>

\* interop_loop posts op 209.
Poll(t) ==
  /\ pc[t] = "poll"
  /\ pc' = [pc EXCEPT ![t] = "polling"]
  /\ UNCHANGED <<dispatcher, claimed, request, batch, registry, refs, resolved, tasks, hostVars,
                 fresh, delivered, refused>>

\* interop_loop handles one event of its batch.  A settled promise is resolved and
\* released; a call becomes a task, or is refused at once if the function is gone;
\* a collected function leaves the registry.
Handle(t) ==
  /\ pc[t] = "handle"
  /\ LET e == Head(batch)
     IN /\ IF e[1] = "settled"
           THEN /\ resolved' = resolved \cup {e[2]}
                /\ refs' = [refs EXCEPT ![e[2]] = @ - 1]
           ELSE UNCHANGED <<resolved, refs>>
        /\ IF e[1] = "called" /\ e[3] \in registry
           THEN tasks' = tasks \cup {e[2]} ELSE UNCHANGED tasks
        /\ IF e[1] = "called" /\ e[3] \notin registry
           THEN refused' = refused \cup {e[2]} ELSE UNCHANGED refused
        /\ registry' = IF e[1] = "collected" THEN registry \ {e[2]} ELSE registry
        /\ delivered' = Append(delivered, e)
  /\ batch' = Tail(batch)
  /\ pc' = [pc EXCEPT ![t] = IF Len(batch) = 1 THEN "poll" ELSE "handle"]
  /\ UNCHANGED <<dispatcher, claimed, request, hostVars, fresh>>

-----------------------------------------------------------------------------
(* Node's main thread: src/node-js.mjs.                                    *)

Take(q) == SubSeq(q, 1, IF Len(q) < BatchLimit THEN Len(q) ELSE BatchLimit)
\* Mutant: the last event taken stays in the queue.
RestRepeats(q) == SubSeq(q, Len(Take(q)), Len(q))

Rest(q) == SubSeq(q, Len(Take(q)) + 1, Len(q))

\* Mutant: nobody asks for a poller.
WantNobody == UNCHANGED <<timer, rearms>>

\* wantPoller: a grace timer, unless it runs or a thread has polled already.
WantPoller == /\ timer' = (timer \/ ~polled)
              /\ rearms' = IF timer \/ polled THEN rearms ELSE 0

\* push: a waiting poll takes the event at once; without one the host wants a poller.
PushEvent(e) ==
  LET queued == Append(events, e)
  IN IF waiter # None
     THEN /\ batch' = Take(queued)
          /\ events' = Rest(queued)
          /\ waiter' = None
          /\ pc' = [pc EXCEPT ![waiter] = "handle"]
          /\ UNCHANGED <<polled, timer, rearms>>
     ELSE /\ events' = queued
          /\ WantPoller
          /\ UNCHANGED <<batch, waiter, polled, pc>>

\* The timer of wantPoller.  While Lean makes host calls and patience lasts it is
\* re-armed; then the host asks for a poller (lasm_js_spawn_poller).
TimerRearms ==
  /\ timer /\ ~polled /\ rearms < MaxRearms
  /\ rearms' = rearms + 1
  /\ UNCHANGED <<leanVars, events, waiter, polled, timer, live, watched, js, fresh, delivered, refused>>

TimerSpawns ==
  /\ timer /\ ~polled
  /\ timer' = FALSE
  /\ IF dispatcher THEN claimed' = TRUE /\ pc' = StartPoller ELSE UNCHANGED <<claimed, pc>>
  /\ UNCHANGED <<dispatcher, request, batch, registry, refs, resolved, tasks, events, waiter,
                 polled, rearms, live, watched, js, fresh, delivered, refused>>

\* Op 209: from now on the host counts on this poller.
ServePoll(t) ==
  /\ pc[t] = "polling"
  /\ polled' = TRUE
  /\ timer' = FALSE
  /\ IF events # <<>>
     THEN /\ batch' = Take(events)
          /\ events' = Rest(events)
          /\ pc' = [pc EXCEPT ![t] = "handle"]
          /\ UNCHANGED waiter
     ELSE /\ waiter' = t
          /\ pc' = [pc EXCEPT ![t] = "long"]
          /\ UNCHANGED <<batch, events>>
  /\ UNCHANGED <<dispatcher, claimed, request, registry, refs, resolved, tasks, rearms, live,
                 watched, js, fresh, delivered, refused>>

\* Op 210.
ServeMake(t) ==
  /\ pc[t] = "posted" /\ request[t][1] = "make"
  /\ live' = live \cup {request[t][2]}
  /\ pc' = [pc EXCEPT ![t] = "replied"]
  /\ UNCHANGED <<dispatcher, claimed, request, batch, registry, refs, resolved, tasks, events,
                 waiter, polled, timer, rearms, watched, js, fresh, delivered, refused>>

\* Mutant: a request that throws leaves the value watched.
ServeAwaitAnyway(t, ok) ==
  /\ pc[t] = "posted" /\ request[t][1] = "await"
  /\ watched' = watched \cup {request[t][2]}
  /\ pc' = [pc EXCEPT ![t] = IF ok THEN "replied" ELSE "failed"]
  /\ UNCHANGED <<dispatcher, claimed, request, batch, registry, refs, resolved, tasks, events,
                 waiter, polled, timer, rearms, live, js, fresh, delivered, refused>>

\* Op 207, or 205 and 214 with flag 16: the value is watched, or the request throws.
ServeAwait(t, ok) ==
  /\ pc[t] = "posted" /\ request[t][1] = "await"
  /\ watched' = IF ok THEN watched \cup {request[t][2]} ELSE watched
  /\ pc' = [pc EXCEPT ![t] = IF ok THEN "replied" ELSE "failed"]
  /\ UNCHANGED <<dispatcher, claimed, request, batch, registry, refs, resolved, tasks, events,
                 waiter, polled, timer, rearms, live, js, fresh, delivered, refused>>

\* settle: the JavaScript value has settled.
SettlePromise(p) ==
  /\ p \in watched
  /\ watched' = watched \ {p}
  /\ PushEvent(Settled(p))
  /\ UNCHANGED <<dispatcher, claimed, request, registry, refs, resolved, tasks, live, js,
                 fresh, delivered, refused>>

\* JavaScript calls a Lean function; arguments that do not convert reject the
\* call's promise at once.
CallFunction(c, f) ==
  /\ f \in live /\ js[c] = "unused"
  /\ js' = [js EXCEPT ![c] = "pending"]
  /\ PushEvent(Called(c, f))
  /\ UNCHANGED <<dispatcher, claimed, request, registry, refs, resolved, tasks, live, watched,
                 fresh, delivered, refused>>

CallFails(c) ==
  /\ live # {} /\ js[c] = "unused"
  /\ js' = [js EXCEPT ![c] = "settled"]
  /\ UNCHANGED <<leanVars, events, waiter, polled, timer, rearms, live, watched, fresh, delivered, refused>>

\* Mutant: a collected function leaves the registry at once, before its calls.
CollectAtOnce(f) ==
  /\ f \in live
  /\ live' = live \ {f}
  /\ registry' = registry \ {f}
  /\ UNCHANGED <<dispatcher, claimed, pc, request, batch, refs, resolved, tasks, events, waiter,
                 polled, timer, rearms, watched, js, fresh, delivered, refused>>

\* The FinalizationRegistry callback of a function JavaScript no longer holds.
CollectFunction(f) ==
  /\ f \in live
  /\ live' = live \ {f}
  /\ PushEvent(Collected(f))
  /\ UNCHANGED <<dispatcher, claimed, request, registry, refs, resolved, tasks, watched, js,
                 fresh, delivered, refused>>

\* Op 208: a Lean callback replies (or the dispatcher refuses the call).
ServeReply(c) ==
  /\ c \in tasks \cup refused /\ js[c] = "pending"
  /\ js' = [js EXCEPT ![c] = "settled"]
  /\ tasks' = tasks \ {c}
  /\ UNCHANGED <<dispatcher, claimed, pc, request, batch, registry, refs, resolved, events,
                 waiter, polled, timer, rearms, live, watched, fresh, delivered, refused>>

-----------------------------------------------------------------------------
LeanStep(t)  == TakeReply(t) \/ HoldPromise(t) \/ Poll(t) \/ Handle(t)
ServeStep(t) == ServePoll(t) \/ ServeMake(t) \/ \E ok \in BOOLEAN : ServeAwait(t, ok)
Program(t)   == \/ Start(t) \/ \E f \in Functions : ExposeFunction(t, f)
                \/ \E p \in Promises : AwaitStarts(t, p)
JavaScript   == \/ \E p \in Promises : SettlePromise(p)
                \/ \E c \in Calls : CallFails(c) \/ \E f \in Functions : CallFunction(c, f)
                \/ \E f \in Functions : CollectFunction(f)

Next == \/ \E t \in Callers : Program(t)
        \/ \E t \in Threads : LeanStep(t) \/ ServeStep(t)
        \/ Park \/ ThreadStarts \/ JavaScript \/ TimerRearms \/ TimerSpawns
        \/ \E c \in Calls : ServeReply(c)

Spec == Init /\ [][Next]_vars

\* Started threads run, the event loop serves what is posted, a timer fires and
\* a Lean callback's task finishes.  Nothing obliges the program or JavaScript.
Fairness == /\ \A t \in Threads : WF_vars(LeanStep(t)) /\ WF_vars(ServeStep(t))
            /\ WF_vars(ThreadStarts) /\ WF_vars(TimerRearms \/ TimerSpawns)
            /\ \A c \in Calls : WF_vars(ServeReply(c))

FairSpec == Spec /\ Fairness
-----------------------------------------------------------------------------
(* Properties.                                                             *)

PCs == {"none", "creating", "run", "hold", "posted", "replied", "failed", "waiting",
        "poll", "polling", "long", "handle"}
Polling == {"poll", "polling", "long", "handle"}

\* Types of the threads, the events and the polls; an await takes at most one reference.
TypeOK ==
  /\ dispatcher \in BOOLEAN /\ claimed \in BOOLEAN
  /\ pc \in [Threads -> PCs]
  /\ request \in [Threads -> {None} \cup ({"make"} \X Functions) \cup ({"await"} \X Promises)]
  /\ batch \in Seq(Events) /\ events \in Seq(Events)
  /\ registry \subseteq Functions /\ live \subseteq Functions
  /\ refs \in [Promises -> {0, 1}]
  /\ resolved \subseteq Promises /\ watched \subseteq Promises
  /\ tasks \subseteq Calls /\ refused \subseteq Calls
  /\ waiter \in Threads \cup {None}
  /\ polled \in BOOLEAN /\ timer \in BOOLEAN /\ rearms \in 0..MaxRearms
  /\ js \in [Calls -> {"unused", "pending", "settled"}]
  /\ fresh \subseteq Functions \cup Promises /\ delivered \in Seq(Events)

\* At most one thread is, or is about to become, the poller, whoever of `main`,
\* an awaiting thread and the host's timer asked first; and a waiting poll is its.
OnePoller ==
  /\ \A t, u \in Threads : pc[t] \in Polling \cup {"creating"} /\ pc[u] \in Polling \cup {"creating"}
                             => t = u
  /\ waiter # None => pc[waiter] = "long" /\ events = <<>>

\* An event that waits while no thread polls has a timer running, or a poller
\* on its way: it is never left for good.
EventsAreWatched ==
  events # <<>> => timer \/ \E t \in Threads : pc[t] \in Polling \cup {"creating"}

\* A promise the host may still resolve holds exactly one reference: it cannot be
\* freed before its event is handled, and no second event can release it.
PromiseHeld ==
  \A p \in Promises :
    p \in watched \/ Settled(p) \in ToSet(events \o batch) => refs[p] = 1 /\ p \notin resolved

\* No call of a Lean function meets a released function: the collection event of
\* a function follows all of its calls.
NoCallRefused == refused = {}

\* The events reach Lean once each, in the order JavaScript produced them.
Queue == INSTANCE EventQueue WITH queue <- batch \o events
Implements == Queue!Spec

\* Every event reaches Lean, and every call JavaScript made settles.
EventsDelivered ==
  /\ \A e \in Events : e \in ToSet(events \o batch) ~> e \in ToSet(delivered)
  /\ \A c \in Calls : js[c] = "pending" ~> js[c] = "settled"
=============================================================================
