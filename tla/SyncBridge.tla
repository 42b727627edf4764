----------------------------- MODULE SyncBridge -----------------------------
(***************************************************************************)
(* Synchronous Lean callbacks (Lasm.JS.Function.ofSyncFn).  JavaScript on  *)
(* Node's main thread calls a Lean function and waits for it: the main     *)
(* thread posts the call in a channel of shared memory and waits on a      *)
(* doorbell, while the synchronous-callback thread runs the function       *)
(* (src/node-js.mjs syncFunction, library/c/lasm_js.c sync_main).  The     *)
(* event loop is blocked meanwhile, so the main thread serves that         *)
(* thread's host calls inline (host-pre.js lasmFullServeSync), and stops a *)
(* task wait of the callback that no thread can end (stuckWait).           *)
(*                                                                         *)
(* The slots are HostSlot's.  A thread is named by its slot at depth 0: S0 *)
(* is the callback thread, the others are worker threads of Lean's task    *)
(* manager, which run tasks for the callback.  A thread's wait outside     *)
(* host calls is listed under that slot.  The model starts once the        *)
(* channel is registered (op 211).                                         *)
(***************************************************************************)
EXTENDS HostSlot

CONSTANTS S0,            \* the callback thread
          Thread,        \* the thread whose slot it is
          Depth,         \* how many host calls of that thread it is nested in
          Tasks,         \* Lean tasks
          Callbacks,     \* calls JavaScript makes, told apart by name
          Queued,        \* writes and flushes: answered at once, done later
          Release,       \* the release of a value when the batch is full, or None
          BodyOps,       \* what a callback asks the host for
          TaskOps,       \* what a task asks the host for
          MaxBody,       \* what one callback does at most
          MaxTask,       \* host calls of one task at most
          Generations    \* task waits are numbered (2^30 in the code)

Waits  == (0..(Generations - 1)) \X (0..2)    \* what the callback's wait word holds
Others == {t \in Slots : t # S0 /\ Parent[t] = None}

ASSUME SyncAssumption == /\ S0 \in Slots /\ Parent[S0] = None
                         /\ Queued \subseteq AsyncOps
                         /\ BodyOps \subseteq Operations /\ TaskOps \subseteq Operations
                         /\ Queued # {} => "ok" \in Outcomes
                         /\ AsyncOps # Queued => "refused" \in Outcomes
                         /\ Generations \in Nat /\ Generations > 1
                         /\ MaxBody \in Nat /\ MaxTask \in Nat
                         /\ Release \in Operations \cup {None}
                         /\ None \notin Waits \cup (Waits \X BOOLEAN \X BOOLEAN)
                         /\ None \notin Tasks

\* A thread has one slot at each depth, linked from the one above.
ASSUME ThreadAssumption ==
  /\ Thread \in [Slots -> Slots] /\ Depth \in [Slots -> Nat]
  /\ \A s \in Slots : IF Parent[s] = None
                      THEN Thread[s] = s /\ Depth[s] = 0
                      ELSE Thread[s] = Thread[Parent[s]] /\ Depth[s] = Depth[Parent[s]] + 1
  /\ \A s, t \in Slots : Thread[s] = Thread[t] /\ Depth[s] = Depth[t] => s = t

\* No callback makes more task waits than there are numbers for them.
ASSUME NumbersAssumption == MaxBody <= Generations

VARIABLES
  (* the channel, in shared memory *)
  chan,       \* state: 0 idle, 1 call posted, 2 result, 3 failure
  payload,    \* what its buffer holds
  stopped,    \* is the failure posted a stopped wait's?
  word,       \* the callback's task wait: <<generation, 0 none, 1 waiting, 2 stop>>
  (* the main thread *)
  mpc,        \* where syncFunction stands; "out": the event loop is not blocked
  cur,        \* the slot being served inline
  back,       \* where the inline serving returns to
  call,       \* the callback being made
  lastSeq,    \* `sequence`, the sequence of S0 last seen
  look,       \* stuckWait's view: <<wait word, has the epoch moved?, is the
              \* mark old enough?>>, or None
  seen,       \* the wait word of the mark kept from the last look, or None
  lagging,    \* threads that were on their way into or out of a wait at that mark
  got,        \* what the last callback returned
  (* the callback thread *)
  spc, sv, running, fuel, verdict,
  awaited,    \* the task it waits for, or the tasks (IO.waitAny)
  (* the worker threads and the tasks *)
  wpc, wfuel,
  doing,      \* the task a worker runs, or None
  task,
  gate        \* is the lock or promise open that the task waits for?

chanVars == <<chan, payload, stopped, word>>
mainVars == <<mpc, cur, back, call, lastSeq, look, seen, got>>
syncThread == <<spc, sv, running, fuel, verdict, awaited>>
workVars == <<wpc, wfuel, doing, task, gate>>
syncVars == <<slotVars, chanVars, mainVars, lagging, syncThread, workVars>>

\* HostSlot once S0 is registered and answered; the workers wait for a task.
SyncInit ==
  /\ cpc = All("idle") /\ want = All(None) /\ returned = All(None)
  /\ seq = [s \in Slots |-> IF s = S0 THEN 1 ELSE 0] /\ served = seq
  /\ ready = [s \in Slots |-> IF s = S0 THEN 1 ELSE 0]
  /\ kind = All("request") /\ op = All(None) /\ status = All("failure")
  /\ buffer = All(None) /\ length = All(0) /\ capacity = All(ReplyBytes)
  /\ bell = FALSE /\ listed = Others /\ moved = FALSE
  /\ main = None /\ host = "loaded"
  /\ srv = [s \in Slots |-> IF s = S0 THEN "armed" ELSE "none"]
  /\ large = All(None) /\ inlined = {} /\ viaPromise = All(FALSE) /\ job = All(None)
  /\ runs = All(0) /\ out = All(None)
  /\ chan = 0 /\ payload = None /\ stopped = FALSE /\ word = <<0, 0>>
  /\ mpc = "out" /\ cur = None /\ back = "loop" /\ call = None /\ lastSeq = 0
  /\ look = None /\ seen = None /\ lagging = {} /\ got = None
  /\ spc = "look" /\ sv = 0 /\ running = None /\ fuel = 0 /\ verdict = "ok"
  /\ awaited = {}
  /\ wpc = [w \in Others |-> "asleep"] /\ wfuel = [w \in Others |-> 0]
  /\ doing = [w \in Others |-> None]
  /\ task = [k \in Tasks |-> "none"] /\ gate = [k \in Tasks |-> FALSE]

-----------------------------------------------------------------------------
(* The main thread inside syncFunction.                                    *)

MainAt(pc) == mpc' = pc
MainOnly == UNCHANGED <<slotVars, chanVars, lagging, syncThread, workVars>>

\* JavaScript calls the function, from the event loop or from inside an operation
\* of another thread (op 205); the arguments go into the channel's buffer.
EnterCallback(k) ==
  /\ mpc = "out"
  /\ main # None => main # S0 /\ srv[main] = "run"
  /\ MainAt("bell")
  /\ call' = k
  /\ payload' = <<"arguments", k>>
  /\ got' = None
  /\ UNCHANGED <<slotVars, chan, stopped, word, cur, back, lastSeq, look, seen, lagging, syncThread,
                 workVars>>

ReadBell ==
  /\ mpc = "bell"
  /\ bell' = FALSE
  /\ MainAt("sequence")
  /\ UNCHANGED <<clientVars, seq, ready, wordVars, listed, moved, hostVars, ghostVars, chanVars, cur,
                 back, call, lastSeq, look, seen, lagging, got, syncThread, workVars>>

ReadSequence ==
  /\ mpc = "sequence"
  /\ lastSeq' = seq[S0]
  /\ MainAt("post")
  /\ MainOnly /\ UNCHANGED <<cur, back, call, look, seen, got>>

PostCall ==
  /\ mpc = "post"
  /\ chan' = 1
  /\ MainAt("notify")
  /\ UNCHANGED <<slotVars, payload, stopped, word, cur, back, call, lastSeq, look, seen, lagging,
                 got, syncThread, workVars>>

NotifyCall ==
  /\ mpc = "notify"
  /\ spc' = IF spc = "asleep" THEN "leave" ELSE spc
  /\ MainAt("loop")
  /\ UNCHANGED <<slotVars, chanVars, cur, back, call, lastSeq, look, seen, lagging, got, sv, running,
                 fuel, verdict, awaited, workVars>>

\* Mutant: the flag of a stopped wait is not reset.
TakeResultKeepsStop ==
  /\ mpc = "loop"
  /\ chan \in {2, 3}
  /\ got' = [for |-> call, from |-> payload, stop |-> chan = 3 /\ stopped]
  /\ chan' = 0
  /\ MainAt("out")
  /\ call' = None /\ lastSeq' = 0 /\ back' = "loop" /\ look' = None /\ seen' = None /\ lagging' = {}
  /\ UNCHANGED <<slotVars, payload, stopped, word, cur, syncThread, workVars>>

\* A result or failure: read it, free the channel and return or throw; the
\* locals of syncFunction are gone.
TakeResult ==
  /\ mpc = "loop"
  /\ chan \in {2, 3}
  /\ got' = [for |-> call, from |-> payload, stop |-> chan = 3 /\ stopped]
  /\ chan' = 0
  /\ stopped' = IF chan = 3 THEN FALSE ELSE stopped
  /\ MainAt("out")
  /\ call' = None /\ lastSeq' = 0 /\ back' = "loop" /\ look' = None /\ seen' = None /\ lagging' = {}
  /\ UNCHANGED <<slotVars, payload, word, cur, syncThread, workVars>>

NoResult ==
  /\ mpc = "loop"
  /\ chan \notin {2, 3}
  /\ MainAt("changed")
  /\ MainOnly /\ UNCHANGED <<cur, back, call, lastSeq, look, seen, got>>

\* serveSync(slot) starts at depth 0 and comes back to pc.
ServeInline(pc) == MainAt("walk") /\ cur' = S0 /\ back' = pc

SequenceChanged ==
  /\ mpc = "changed"
  /\ IF seq[S0] # lastSeq
     THEN ServeInline("loop") /\ lastSeq' = seq[S0]
     ELSE MainAt("wait") /\ UNCHANGED <<cur, back, lastSeq>>
  /\ MainOnly /\ UNCHANGED <<call, look, seen, got>>

\* Atomics.wait on the doorbell: rung (or rung before the wait) ...
BellRings ==
  /\ mpc = "wait"
  /\ bell
  /\ MainAt("reread")
  /\ MainOnly /\ UNCHANGED <<cur, back, call, lastSeq, look, seen, got>>

\* ... or timed out: serve the slot anyway, then look for a stuck wait.
BellTimesOut ==
  /\ mpc = "wait"
  /\ ServeInline("look")
  /\ MainOnly /\ UNCHANGED <<call, lastSeq, look, seen, got>>

RereadBell ==
  /\ mpc = "reread"
  /\ bell' = FALSE
  /\ MainAt("loop")
  /\ UNCHANGED <<clientVars, seq, ready, wordVars, listed, moved, hostVars, ghostVars, chanVars, cur,
                 back, call, lastSeq, look, seen, lagging, got, syncThread, workVars>>

(* stuckWait *)
\* Read the wait word and the list's epoch.
LookAtWait ==
  /\ mpc = "look"
  /\ IF word[2] = 1
     THEN look' = <<word, moved, lagging = {}>> /\ moved' = FALSE /\ MainAt("list") /\ UNCHANGED seen
     ELSE look' = None /\ seen' = None /\ MainAt("reread") /\ UNCHANGED moved
  /\ UNCHANGED <<clientVars, seq, ready, wordVars, bell, listed, hostVars, ghostVars, chanVars, cur,
                 back, call, lastSeq, lagging, got, syncThread, workVars>>

\* A listed thread that is not asleep: on its way into or out of a wait, or at
\* work its mailbox brought into the wait of a host call.  The callback thread:
\* between its look at the tasks and its look at the wait word.
OnItsWay(t) ==
  IF t = S0 THEN spc = "poll"
  ELSE \/ \E s \in Slots : Thread[s] = t /\ cpc[s] \notin {"idle", "sleep", "nested"}
       \/ cpc[t] = "idle" /\ wpc[t] # "asleep"
\* A step by which such a thread may arrive: it sleeps, or has left the list.
Arrives == lagging' = {t \in lagging : OnItsWay(t)'}

Listed(t) == \E s \in listed : Thread[s] = t

\* Mutants: the callback's thread counts as running; the mark lacks the epoch.
SelfListed == \A t \in Others \cup {S0} : Listed(t)
SameWord == seen = look[1]

AllListed == \A t \in Others : Listed(t)
SameMark  == seen = look[1] /\ ~look[2]

\* A thread that runs: nothing is stuck.  A new mark starts the clock.
LookAtList ==
  /\ mpc = "list"
  /\ ~AllListed \/ ~SameMark
  /\ seen' = IF AllListed THEN look[1] ELSE None
  /\ lagging' = IF AllListed THEN {t \in Others \cup {S0} : OnItsWay(t)} ELSE {}
  /\ MainAt("reread")
  /\ UNCHANGED <<slotVars, chanVars, cur, back, call, lastSeq, look, got, syncThread, workVars>>

\* The mark is not stuckMs old yet.
StillYoung ==
  /\ mpc = "list"
  /\ AllListed /\ SameMark
  /\ MainAt("reread")
  /\ MainOnly /\ UNCHANGED <<cur, back, call, lastSeq, look, seen, got>>

\* It is: a thread that was on its way at the mark had moved when this look read
\* the epoch (assumption: that takes it less than stuckMs and the look's time).
AskToStop ==
  /\ mpc = "list"
  /\ AllListed /\ SameMark
  /\ look[3]
  /\ MainAt("swap")
  /\ MainOnly /\ UNCHANGED <<cur, back, call, lastSeq, look, seen, got>>

\* The compare-and-swap: only the wait that was looked at is stopped.
SwapWait ==
  /\ mpc = "swap"
  /\ word' = IF word = look[1] THEN <<word[1], 2>> ELSE word
  /\ seen' = None
  /\ MainAt("reread")
  /\ UNCHANGED <<slotVars, chan, payload, stopped, cur, back, call, lastSeq, look, lagging, got,
                 syncThread, workVars>>

(* lasmFullServeSync and lasmFullServeSyncSlot *)
\* The next depth's slot, linked from this one once it exists.
Linked(s) == {t \in Slots : Parent[t] = s /\ srv[t] # "none"}
NextDepth(s) == IF Linked(s) = {} THEN None ELSE CHOOSE t \in Linked(s) : TRUE
WalkOn == IF NextDepth(cur) = None THEN MainAt(back) /\ cur' = None
                                   ELSE MainAt("walk") /\ cur' = NextDepth(cur)

\* Mutant: what is served inline is not recorded.
WalkForgets ==
  /\ mpc = "walk"
  /\ IF seq[cur] = served[cur] THEN WalkOn ELSE MainAt("run") /\ UNCHANGED cur
  /\ UNCHANGED <<slotVars, chanVars, back, call, lastSeq, look, seen, lagging, got, syncThread,
                 workVars>>

\* A slot the event loop has not registered yet is recorded here.  A sequence
\* already served, by whichever server, is skipped.
WalkLoad ==
  /\ mpc = "walk"
  /\ inlined' = IF srv[cur] = "message" THEN inlined \cup {cur} ELSE inlined
  /\ served' = [served EXCEPT ![cur] = seq[cur]]
  /\ IF seq[cur] = served[cur] THEN WalkOn ELSE MainAt("run") /\ UNCHANGED cur
  /\ UNCHANGED <<clientVars, seq, ready, wordVars, waitVars, main, host, srv, large, viaPromise, job,
                 ghostVars, chanVars, back, call, lastSeq, look, seen, lagging, got, syncThread,
                 workVars>>

\* A copy request is answered as lasmFullServeOne does.
WalkCopy ==
  /\ mpc = "run"
  /\ kind[cur] = "copy"
  /\ job' = [job EXCEPT ![cur] = large[cur]]
  /\ large' = [large EXCEPT ![cur] = None]
  /\ MainAt("write")
  /\ UNCHANGED <<clientVars, seq, ready, wordVars, waitVars, main, host, srv, served, inlined,
                 viaPromise, ghostVars, chanVars, cur, back, call, lastSeq, look, seen, lagging, got,
                 syncThread, workVars>>

\* An operation that answers with a promise is executed, but its result is
\* discarded: it is answered with an error, or as done if it only queues.  One
\* that throws fails.
InlineOutcomes(o) == {"failure"} \cup (IF o \notin AsyncOps THEN Outcomes \ {"refused"}
                                       ELSE IF o \in Queued THEN {"ok"} ELSE {"refused"})
WalkRun(r) ==
  /\ mpc = "run"
  /\ kind[cur] = "request"
  /\ r \in InlineOutcomes(op[cur])
  /\ runs' = [runs EXCEPT ![cur] = @ + 1]
  /\ out' = [out EXCEPT ![cur] = r]
  /\ job' = [job EXCEPT ![cur] = <<op[cur], r>>]
  /\ MainAt("write")
  /\ UNCHANGED <<clientVars, seq, ready, wordVars, waitVars, main, host, srv, served, large, inlined,
                 viaPromise, chanVars, cur, back, call, lastSeq, look, seen, lagging, got, syncThread,
                 workVars>>

WalkWrite ==
  /\ mpc = "write"
  /\ PutReply(cur, job[cur])
  /\ job' = [job EXCEPT ![cur] = None]
  /\ MainAt("set")
  /\ UNCHANGED <<clientVars, seq, ready, kind, op, capacity, waitVars, main, host, srv, served,
                 inlined, viaPromise, ghostVars, chanVars, cur, back, call, lastSeq, look, seen,
                 lagging, got, syncThread, workVars>>

WalkSet ==
  /\ mpc = "set"
  /\ ready' = [ready EXCEPT ![cur] = 1]
  /\ MainAt("wake")
  /\ UNCHANGED <<clientVars, seq, wordVars, waitVars, hostVars, ghostVars, chanVars, cur, back, call,
                 lastSeq, look, seen, lagging, got, syncThread, workVars>>

WalkWake ==
  /\ mpc = "wake"
  /\ cpc' = [cpc EXCEPT ![cur] = IF @ = "sleep" THEN "leave" ELSE @]
  /\ WalkOn
  /\ UNCHANGED <<want, returned, seq, ready, wordVars, waitVars, hostVars, ghostVars, chanVars, back,
                 call, lastSeq, look, seen, lagging, got, syncThread, workVars>>

InCallback ==
  \/ ReadBell \/ ReadSequence \/ PostCall \/ NotifyCall \/ TakeResult \/ NoResult
  \/ SequenceChanged \/ BellRings \/ BellTimesOut \/ RereadBell
  \/ LookAtWait \/ LookAtList \/ StillYoung \/ AskToStop \/ SwapWait
  \/ WalkLoad \/ WalkCopy \/ (\E r \in Outcomes : WalkRun(r)) \/ WalkWrite \/ WalkSet \/ WalkWake

-----------------------------------------------------------------------------
(* The callback thread: sync_main, post and sync_wait.  It is not at a step *)
(* of its own while one of its host calls is under way.                     *)

Verdicts == {"ok", "failed"}
SyncAt(pc) == spc' = pc
SyncFree(pc) == spc = pc /\ cpc[S0] = "idle"

\* Its words and list entry change, nothing of the main thread.
SyncKeeps == UNCHANGED <<mainVars, lagging>>
HostKeeps == UNCHANGED <<clientVars, seq, ready, wordVars, hostVars, ghostVars>>
Enlist(t) == listed' = IF Cardinality(listed) < WaitSlots THEN listed \cup {t} ELSE listed

\* The load of the channel's state: a call is started, else the word is waited on.
LookAtChannel ==
  /\ SyncFree("look")
  /\ sv' = chan
  /\ IF chan = 1
     THEN SyncAt("body") /\ running' = payload[2] /\ fuel' = MaxBody
     ELSE SyncAt("enter") /\ UNCHANGED <<running, fuel>>
  /\ SyncKeeps /\ UNCHANGED <<slotVars, chanVars, verdict, awaited, workVars>>

\* __wrap_emscripten_futex_wait lists the wait ...
EnterIdle ==
  /\ SyncFree("enter")
  /\ Enlist(S0) /\ moved' = TRUE
  /\ SyncAt("futex")
  /\ HostKeeps /\ SyncKeeps
  /\ UNCHANGED <<bell, chanVars, sv, running, fuel, verdict, awaited, workVars>>

\* Mutant: the wait does not compare the state.
IdleBlind ==
  /\ SyncFree("futex")
  /\ SyncAt("asleep")
  /\ SyncKeeps /\ UNCHANGED <<slotVars, chanVars, sv, running, fuel, verdict, awaited, workVars>>

\* ... which sleeps only if the state is still the one seen ...
IdleFutex ==
  /\ SyncFree("futex")
  /\ SyncAt(IF chan = sv THEN "asleep" ELSE "leave")
  /\ SyncKeeps /\ UNCHANGED <<slotVars, chanVars, sv, running, fuel, verdict, awaited, workVars>>

\* ... and takes it from the list.
LeaveIdle ==
  /\ SyncFree("leave")
  /\ listed' = listed \ {S0} /\ moved' = TRUE
  /\ SyncAt("look")
  /\ HostKeeps /\ SyncKeeps
  /\ UNCHANGED <<bell, chanVars, sv, running, fuel, verdict, awaited, workVars>>

\* The Lean function: host calls, tasks, the lock it opens for its task, waits.
InBody == SyncFree("body") /\ fuel > 0 /\ fuel' = fuel - 1

BodyCalls(o) ==
  /\ InBody
  /\ Call(S0, o)
  /\ SyncKeeps /\ UNCHANGED <<chanVars, spc, sv, running, verdict, awaited, workVars>>

\* The sleeping workers a change concerns: the ones without a task, or the one
\* that runs task d.  All are woken; one that comes too late waits again.
Rouse(d) ==
  wpc' = [w \in Others |-> IF wpc[w] = "asleep" /\ doing[w] = d THEN "leave" ELSE wpc[w]]

Spawn(k) == /\ task' = [task EXCEPT ![k] = "queued"]
            /\ gate' = [gate EXCEPT ![k] = FALSE]
            /\ Rouse(None)
Open(k) == /\ task[k] \in {"queued", "running"} /\ ~gate[k]
           /\ gate' = [gate EXCEPT ![k] = TRUE]
           /\ Rouse(k)
           /\ UNCHANGED task

SpawnTask(k) ==
  /\ InBody
  /\ task[k] \in {"none", "finished"}
  /\ Spawn(k)
  /\ SyncKeeps
  /\ UNCHANGED <<slotVars, chanVars, spc, sv, running, verdict, awaited, wfuel, doing>>

OpenGate(k) ==
  /\ InBody
  /\ Open(k)
  /\ SyncKeeps
  /\ UNCHANGED <<slotVars, chanVars, spc, sv, running, verdict, awaited, wfuel, doing>>

\* Mutant: a wait has the number of the one before.
SameNumber == word[1]
NextNumber == (word[1] + 1) % Generations

\* sync_wait: only if no task waited for is finished.
StartWait(ks) ==
  /\ InBody
  /\ ks # {} /\ \A k \in ks : task[k] \in {"queued", "running"}
  /\ word' = <<NextNumber, 1>>
  /\ awaited' = ks
  /\ SyncAt("wait")
  /\ SyncKeeps
  /\ UNCHANGED <<slotVars, chan, payload, stopped, sv, running, verdict, workVars>>

\* One turn of its loop: is a task finished? ...
Done == \E k \in awaited : task[k] = "finished"

EndWait ==
  /\ SyncFree("wait")
  /\ Done
  /\ word' = <<word[1], 0>>
  /\ awaited' = {}
  /\ SyncAt("body")
  /\ UNCHANGED <<mainVars, slotVars, chan, payload, stopped, sv, running, fuel, verdict, workVars>>
  /\ Arrives

SeeUnfinished ==
  /\ SyncFree("wait")
  /\ ~Done
  /\ SyncAt("poll")
  /\ UNCHANGED <<mainVars, slotVars, chanVars, sv, running, fuel, verdict, awaited, workVars>>
  /\ Arrives

\* ... Does the word ask to stop?  Then longjmp to sync_main, which posts the
\* failure; else a short timed wait.
StopWait ==
  /\ SyncFree("poll")
  /\ IF word[2] = 2
     THEN /\ word' = <<word[1], 0>> /\ stopped' = TRUE /\ verdict' = "stopped"
          /\ SyncAt("post")
     ELSE SyncAt("wait") /\ UNCHANGED <<word, stopped, verdict>>
  /\ UNCHANGED <<mainVars, slotVars, chan, payload, sv, running, fuel, awaited, workVars>>
  /\ Arrives

FinishBody(v) ==
  /\ SyncFree("body")
  /\ verdict' = v
  /\ SyncAt("post")
  /\ SyncKeeps /\ UNCHANGED <<slotVars, chanVars, sv, running, fuel, awaited, workVars>>

\* Mutant: the state is stored before the result.
PostEarly ==
  /\ SyncFree("post")
  /\ chan' = IF verdict = "ok" THEN 2 ELSE 3
  /\ SyncAt("ring")
  /\ SyncKeeps
  /\ UNCHANGED <<slotVars, payload, stopped, word, sv, running, fuel, verdict, awaited, workVars>>

\* post: the result, then the state.
PostResult ==
  /\ SyncFree("post")
  /\ payload' = <<"result", running, verdict>>
  /\ chan' = IF verdict = "ok" THEN 2 ELSE 3
  /\ SyncAt("ring")
  /\ SyncKeeps
  /\ UNCHANGED <<slotVars, stopped, word, sv, running, fuel, verdict, awaited, workVars>>

RingResult ==
  /\ SyncFree("ring")
  /\ bell' = TRUE
  /\ SyncAt("tail")
  /\ HostKeeps /\ SyncKeeps
  /\ UNCHANGED <<listed, moved, chanVars, sv, running, fuel, verdict, awaited, workVars>>

\* lean_dec(result): drops the reply's values.  When the batch of released
\* handles is full, value_finalize makes a host call (lasm_node_release).
DropResult ==
  /\ SyncFree("tail")
  /\ SyncAt("look")
  /\ IF Release # None /\ verdict = "ok" THEN Call(S0, Release) ELSE UNCHANGED slotVars
  /\ running' = None /\ verdict' = "ok" /\ fuel' = 0 /\ awaited' = {}
  /\ SyncKeeps /\ UNCHANGED <<chanVars, sv, workVars>>

SyncStep ==
  \/ LookAtChannel \/ EnterIdle \/ IdleFutex \/ LeaveIdle
  \/ \E o \in BodyOps : BodyCalls(o)
  \/ \E k \in Tasks : SpawnTask(k) \/ OpenGate(k)
  \/ \E ks \in SUBSET Tasks : StartWait(ks)
  \/ EndWait \/ SeeUnfinished \/ StopWait \/ (\E v \in Verdicts : FinishBody(v))
  \/ PostResult \/ RingResult \/ DropResult

-----------------------------------------------------------------------------
(* The worker threads of Lean's task manager, as the wait list sees them.  *)

WorkerFree(w, pc) == wpc[w] = pc /\ cpc[w] = "idle"
WorkerAt(w, pc) == wpc' = [wpc EXCEPT ![w] = pc]
WorkerKeeps == UNCHANGED <<chanVars, mainVars, syncThread>> /\ Arrives

\* What an indefinite wait of a worker waits for.
MayGoOn(w) == IF doing[w] = None THEN \E k \in Tasks : task[k] = "queued" ELSE gate[doing[w]]

EnterWork(w) ==
  /\ WorkerFree(w, "enter")
  /\ Enlist(w) /\ moved' = TRUE
  /\ WorkerAt(w, "futex")
  /\ HostKeeps /\ UNCHANGED <<bell, wfuel, doing, task, gate>>
  /\ WorkerKeeps

WorkFutex(w) ==
  /\ WorkerFree(w, "futex")
  /\ WorkerAt(w, IF MayGoOn(w) THEN "leave" ELSE "asleep")
  /\ UNCHANGED <<slotVars, wfuel, doing, task, gate>>
  /\ WorkerKeeps

\* A wait for work ends with a task; one for a task's lock goes on with it.
LeaveWork(w) ==
  /\ WorkerFree(w, "leave")
  /\ listed' = listed \ {w} /\ moved' = TRUE
  /\ WorkerAt(w, IF MayGoOn(w) THEN "work" ELSE "enter")
  /\ IF doing[w] = None /\ MayGoOn(w)
     THEN \E k \in Tasks : /\ task[k] = "queued"
                           /\ task' = [task EXCEPT ![k] = "running"]
                           /\ doing' = [doing EXCEPT ![w] = k]
                           /\ wfuel' = [wfuel EXCEPT ![w] = MaxTask]
     ELSE UNCHANGED <<task, doing, wfuel>>
  /\ HostKeeps /\ UNCHANGED <<bell, gate>>
  /\ WorkerKeeps

WorkCalls(w, o) ==
  /\ WorkerFree(w, "work")
  /\ wfuel[w] > 0 /\ wfuel' = [wfuel EXCEPT ![w] = @ - 1]
  /\ Call(w, o)
  /\ UNCHANGED <<wpc, doing, task, gate>>
  /\ WorkerKeeps

\* A task starts another one (a new one, so that tasks come to an end) ...
TaskSpawns(w, k) ==
  /\ WorkerFree(w, "work")
  /\ task[k] = "none"
  /\ Spawn(k)
  /\ UNCHANGED <<slotVars, wfuel, doing>>
  /\ WorkerKeeps

\* ... or lets it go on.
TaskOpens(w, k) ==
  /\ WorkerFree(w, "work")
  /\ doing[w] # k
  /\ Open(k)
  /\ UNCHANGED <<slotVars, wfuel, doing>>
  /\ WorkerKeeps

WaitForGate(w) ==
  /\ WorkerFree(w, "work")
  /\ ~gate[doing[w]]
  /\ WorkerAt(w, "enter")
  /\ UNCHANGED <<slotVars, wfuel, doing, task, gate>>
  /\ WorkerKeeps

FinishTask(w) ==
  /\ WorkerFree(w, "work")
  /\ task' = [task EXCEPT ![doing[w]] = "finished"]
  /\ doing' = [doing EXCEPT ![w] = None]
  /\ WorkerAt(w, "enter")
  /\ UNCHANGED <<slotVars, wfuel, gate>>
  /\ WorkerKeeps

WorkStep(w) ==
  \/ EnterWork(w) \/ WorkFutex(w) \/ LeaveWork(w)
  \/ \E o \in TaskOps : WorkCalls(w, o)
  \/ \E k \in Tasks : TaskSpawns(w, k) \/ TaskOpens(w, k)
  \/ WaitForGate(w) \/ FinishTask(w)

-----------------------------------------------------------------------------
(* Together.  The event loop of HostSlot runs only outside callbacks; the  *)
(* threads' host calls go on.                                              *)

Alongside == UNCHANGED <<chanVars, mainVars, syncThread, workVars>>

InHostCall(s) == /\ ThreadStep(s)
                 /\ Alongside
                 /\ Arrives

\* Mailbox work run inside the wait of a host call makes calls of its own.
CallsNested(s, o) == /\ Parent[s] # None
                     /\ Call(s, o)
                     /\ Alongside
                     /\ Arrives

LoopTakes(s) == mpc = "out" /\ TakeLoop(s) /\ Alongside /\ UNCHANGED lagging
LoopServes(s) == /\ mpc = "out"
                 /\ RunServer(s)
                 /\ Alongside /\ UNCHANGED lagging

SyncNext ==
  \/ \E k \in Callbacks : EnterCallback(k)
  \/ InCallback \/ SyncStep \/ \E w \in Others : WorkStep(w)
  \/ \E s \in Slots : \/ InHostCall(s) \/ LoopTakes(s) \/ LoopServes(s)
                      \/ \E o \in BodyOps \cup TaskOps : CallsNested(s, o)

SyncSpec == SyncInit /\ [][SyncNext]_syncVars

\* A thread's next step, in the innermost of its host calls or outside.
ThreadRuns(t) == \/ t = S0 /\ SyncStep
                 \/ t \in Others /\ WorkStep(t)
                 \/ \E s \in Slots : Thread[s] = t /\ InHostCall(s)

\* Threads are scheduled and the main thread runs; a mark that nothing changes
\* grows older than stuckMs, so the wait is at last asked to stop.
SyncFairness == /\ WF_syncVars(InCallback) /\ SF_syncVars(AskToStop)
                /\ \A t \in Others \cup {S0} : WF_syncVars(ThreadRuns(t))

SyncFairSpec == SyncSpec /\ SyncFairness
-----------------------------------------------------------------------------
(* Properties.                                                             *)

\* Types of the synchronous calls, their replies and the threads that serve them.
SyncTypeOK ==
  /\ TypeOK
  /\ chan \in 0..3 /\ stopped \in BOOLEAN
  /\ payload \in {None} \cup ({"arguments"} \X Callbacks)
                 \cup ({"result"} \X Callbacks \X (Verdicts \cup {"stopped"}))
  /\ word \in Waits
  /\ mpc \in {"out", "bell", "sequence", "post", "notify", "loop", "changed", "wait", "reread",
              "look", "list", "swap", "walk", "run", "write", "set", "wake"}
  /\ cur \in Slots \cup {None} /\ back \in {"loop", "look"}
  /\ call \in Callbacks \cup {None} /\ lastSeq \in 0..(SeqModulus - 1)
  /\ look \in {None} \cup (Waits \X BOOLEAN \X BOOLEAN)
  /\ seen \in {None} \cup Waits
  /\ lagging \in SUBSET (Others \cup {S0})
  /\ spc \in {"look", "enter", "futex", "asleep", "leave", "body", "wait", "poll", "post", "ring",
             "tail"}
  /\ sv \in 0..3 /\ running \in Callbacks \cup {None} /\ fuel \in 0..MaxBody
  /\ verdict \in Verdicts \cup {"stopped"} /\ awaited \in SUBSET Tasks
  /\ wpc \in [Others -> {"enter", "futex", "asleep", "leave", "work"}]
  /\ wfuel \in [Others -> 0..MaxTask] /\ doing \in [Others -> Tasks \cup {None}]
  /\ task \in [Tasks -> {"none", "queued", "running", "finished"}]
  /\ gate \in [Tasks -> BOOLEAN]

\* A callback returns the result of its own call, never an earlier one's, and it
\* throws "stopped" exactly when its own wait was stopped.
OwnResult ==
  got # None => \E v \in Verdicts \cup {"stopped"} :
                  /\ got.from = <<"result", got.for, v>>
                  /\ got.stop <=> v = "stopped"

\* A host call of the thread is without reply, which only the event loop gives.
Unanswered(t) ==
  \E s \in Slots : Thread[s] = t /\ cpc[s] \in {"futex", "sleep", "nested"} /\ ready[s] = 0

\* A thread that goes on only if the event loop, the callback or another thread
\* gives it a reason: it has such a host call or sleeps on what is not the case.
Resting(t) == Unanswered(t) \/ (cpc[t] = "idle" /\ wpc[t] = "asleep" /\ ~MayGoOn(t))

\* A wait is stopped only if nothing can end it: no task waited for is finished
\* and every other thread rests, so that none can give another one a reason.
NoWrongStop ==
  spc = "post" /\ verdict = "stopped" => ~Done /\ \A t \in Others : Resting(t)

\* Inline serving and the event loop together execute a request at most once, and
\* a reply kept for a copy is there for whichever of them gets the copy request.
ServedOnce ==
  \A s \in Slots :
    /\ runs[s] <= 1
    /\ kind[s] = "copy" /\ (srv[s] = "dispatch" \/ (mpc = "run" /\ cur = s)) => large[s] # None

\* JavaScript's call of a synchronous Lean function always returns: no wake-up
\* is lost, each host call of the callback is served, a wait that cannot end is
\* stopped.
CallbacksReturn == (mpc # "out") ~> (mpc = "out")
=============================================================================
