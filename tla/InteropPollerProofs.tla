------------------------- MODULE InteropPollerProofs -------------------------
(***************************************************************************)
(* Theorems about InteropPoller, for any threads, functions, calls and     *)
(* promises, any batch limit and any patience: its types, one poller,      *)
(* events that are never left without a poller or a timer, promises held   *)
(* until they are resolved, no call of a released function, and that the   *)
(* events implement EventQueue.                                            *)
(*                                                                         *)
(* The invariant is TypeOK /\ PollerInv.  Polls says who may poll, and     *)
(* that only a polling thread has a batch; so the events pushed and not    *)
(* handled are one sequence, Pushed, that grows at its end and shrinks at  *)
(* its head.  Awaits follows a promise from the thread that starts to wait *)
(* for it, to the host that watches it, to its event: it is at one of them *)
(* at most, and holds its reference from the second step on.  Exposed does *)
(* the same for a function, and adds the order of its events: the          *)
(* collection comes after the calls.                                       *)
(***************************************************************************)
EXTENDS InteropPoller, QueueLemmas

\* Events pushed and not handled, and all that were ever pushed.
Pushed == batch \o events
History == ToSet(Pushed) \cup ToSet(delivered)

Poller(t) == pc[t] \in Polling \cup {"creating"}

Polls ==
  /\ OnePoller
  /\ pc[Thread] \in {"none", "creating"} \cup Polling
  /\ \A t \in Callers : pc[t] \notin {"none", "creating"} /\ (t # Main => ~Poller(t))
  /\ claimed <=> \E t \in Threads : Poller(t)
  /\ polled => claimed
  /\ batch # <<>> <=> \E t \in Threads : pc[t] = "handle"
  /\ EventsAreWatched
  /\ ~dispatcher => /\ events = <<>> /\ live = {} /\ watched = {}
                    /\ \A t \in Threads : pc[t] \in {"none", "run"}

\* Thread t waits for the reply about promise p, or has just got a refusal.
Asks(t, p) == pc[t] \in {"hold", "posted", "failed"} /\ request[t] = <<"await", p>>

\* A promise nobody has waited for, or whose event was not pushed, is as it was made.
Unsettled(p) == p \notin resolved /\ Settled(p) \notin History

Awaits ==
  /\ \A t \in Threads : /\ pc[t] \in {"hold", "failed"} => \E p \in Promises : Asks(t, p)
                        /\ pc[t] = "posted" => request[t] # None
  /\ \A t \in Threads, p \in Promises :
        Asks(t, p) => /\ p \notin fresh \cup watched /\ Unsettled(p)
                      /\ refs[p] = IF pc[t] = "hold" THEN 0 ELSE 1
                      /\ \A u \in Threads : Asks(u, p) => u = t
  /\ \A p \in Promises : /\ p \in fresh => Unsettled(p) /\ p \notin watched /\ refs[p] = 0
                         /\ p \in watched => Unsettled(p) /\ refs[p] = 1
                         /\ Settled(p) \in ToSet(Pushed) => p \notin resolved /\ refs[p] = 1

\* Thread t makes the JavaScript function of f.
Makes(t, f) == pc[t] = "posted" /\ request[t] = <<"make", f>>

Exposed ==
  /\ \A t \in Threads, f \in Functions :
        Makes(t, f) => /\ f \notin fresh \cup live /\ f \in registry /\ Collected(f) \notin History
                       /\ \A u \in Threads : Makes(u, f) => u = t
  /\ \A f \in Functions : /\ f \in fresh => f \notin live /\ Collected(f) \notin History
                          /\ f \in live => f \in registry /\ Collected(f) \notin History
  /\ \A c \in Calls, f \in Functions :
        /\ js[c] = "unused" => Called(c, f) \notin History
        /\ Called(c, f) \in ToSet(Pushed) => f \in registry
        /\ Precedes(Pushed, Called(c, f), Collected(f))
  /\ NoCallRefused

\* Every event was pushed once.
Once == IsInjective(Pushed) /\ ToSet(Pushed) \cap ToSet(delivered) = {}

PollerInv == Polls /\ Awaits /\ Exposed /\ Once

-----------------------------------------------------------------------------
(* Events and queues.                                                      *)

LEMMA EventKinds ==
  /\ \A p \in Promises : Settled(p) \in Events
  /\ \A f \in Functions : Collected(f) \in Events
  /\ \A c \in Calls, f \in Functions : Called(c, f) \in Events
  /\ \A e \in Events : \/ \E p \in Promises : e = Settled(p)
                       \/ \E f \in Functions : e = Collected(f)
                       \/ \E c \in Calls, f \in Functions : e = Called(c, f)
BY DEF Events

LEMMA EventFields ==
  /\ \A p : Settled(p)[1] = "settled" /\ Settled(p)[2] = p
  /\ \A f : Collected(f)[1] = "collected" /\ Collected(f)[2] = f
  /\ \A c, f : Called(c, f)[1] = "called" /\ Called(c, f)[2] = c /\ Called(c, f)[3] = f
BY DEF Settled, Collected, Called

\* What a request is about.
LEMMA RequestFields ==
  /\ \A p : <<"await", p>>[1] = "await" /\ <<"await", p>>[2] = p
  /\ \A f : <<"make", f>>[1] = "make" /\ <<"make", f>>[2] = f
  /\ \A p, q : <<"await", p>> = <<"await", q>> => p = q
  /\ \A f, g : <<"make", f>> = <<"make", g>> => f = g
  /\ \A p, f : <<"await", p>> # <<"make", f>>
  /\ \A p \in Promises : <<"await", p>> # None
  /\ \A f \in Functions : <<"make", f>> # None
BY NoneAssumption

\* A batch and the rest make the queue, and a batch is not empty.
LEMMA BatchTaken ==
  ASSUME NEW q \in Seq(Events), q # <<>>
  PROVE  Take(q) \in Seq(Events) /\ Rest(q) \in Seq(Events) /\ Take(q) \o Rest(q) = q /\ Take(q) # <<>>
<1> DEFINE n == IF Len(q) < BatchLimit THEN Len(q) ELSE BatchLimit
<1>1. n \in 0..Len(q) /\ n > 0
  BY LimitsAssumption, LenProperties, EmptySeq
<1> HIDE DEF n
<1>2. Take(q) = SubSeq(q, 1, n)
  BY DEF Take, n
<1>3. Len(Take(q)) = n
  <2>1. \A i \in 1..n : q[i] \in Events
    BY <1>1, LenProperties, ElementOfSeq
  <2>2. Len(SubSeq(q, 1, n)) = IF 1 <= n THEN n - 1 + 1 ELSE 0
    BY <1>1, <2>1, SubSeqProperties
  <2> QED BY <1>1, <1>2, <2>2
<1>4. Rest(q) = SubSeq(q, n + 1, Len(q))
  BY <1>3 DEF Rest
<1> QED BY <1>1, <1>2, <1>4, CutQueue

LEMMA PushedFacts ==
  ASSUME TypeOK
  PROVE  /\ Pushed \in Seq(Events)
         /\ ToSet(Pushed) = ToSet(batch) \cup ToSet(events)
         /\ ToSet(events \o batch) = ToSet(Pushed)
<1>1. batch \in Seq(Events) /\ events \in Seq(Events)
  BY DEF TypeOK
<1>2. /\ Pushed \in Seq(Events)
      /\ ToSet(Pushed) = ToSet(batch) \cup ToSet(events)
  BY <1>1, JoinedQueue DEF Pushed
<1>3. ToSet(events \o batch) = ToSet(events) \cup ToSet(batch)
  BY <1>1, JoinedQueue
<1> QED BY <1>2, <1>3

\* A thread that polls, and its event, when an event is pushed.
LEMMA PushFacts ==
  ASSUME TypeOK, Polls, NEW e \in Events, PushEvent(e)
  PROVE  /\ Pushed' = Append(Pushed, e)
         /\ batch' \in Seq(Events) /\ events' \in Seq(Events)
         /\ waiter # None => batch = <<>> /\ batch' # <<>> /\ pc[waiter] = "long"
<1>1. batch \in Seq(Events) /\ events \in Seq(Events) /\ Append(events, e) \in Seq(Events)
  BY AppendProperties DEF TypeOK
<1>2. Append(events, e) # <<>> /\ batch \o Append(events, e) = Append(Pushed, e)
  BY <1>1, AppendProperties, JoinedEnds DEF Pushed
<1>3. CASE waiter = None
  BY <1>1, <1>2, <1>3 DEF PushEvent, Pushed
<1>4. CASE waiter # None
  <2>1. waiter \in Threads /\ pc[waiter] = "long"
    BY <1>4 DEF Polls, OnePoller, TypeOK
  <2>2. batch = <<>>
    BY <2>1 DEF Polls, OnePoller, Polling
  <2>3. batch' = Take(Append(events, e)) /\ events' = Rest(Append(events, e))
    BY <1>4 DEF PushEvent
  <2>4. /\ batch' \in Seq(Events) /\ events' \in Seq(Events) /\ batch' # <<>>
        /\ batch' \o events' = Append(events, e)
    BY <1>1, <1>2, <2>3, BatchTaken
  <2>5. batch \o Append(events, e) = Append(events, e)
    BY <1>1, <2>2, ConcatEmptySeq
  <2> QED BY <1>2, <2>1, <2>2, <2>4, <2>5 DEF Pushed
<1> QED BY <1>3, <1>4

LEMMA ServePollFacts ==
  ASSUME TypeOK, Polls, NEW t \in Threads, ServePoll(t)
  PROVE  /\ Pushed' = Pushed
         /\ batch' \in Seq(Events) /\ events' \in Seq(Events) /\ batch = <<>>
         /\ events # <<>> => batch' # <<>>
<1>1. batch \in Seq(Events) /\ events \in Seq(Events)
  BY DEF TypeOK
<1>2. batch = <<>>
  BY DEF ServePoll, Polls, OnePoller, Polling
<1>3. CASE events = <<>>
  BY <1>1, <1>2, <1>3 DEF ServePoll, Pushed
<1>4. CASE events # <<>>
  <2>1. batch' = Take(events) /\ events' = Rest(events)
    BY <1>4 DEF ServePoll
  <2>2. /\ batch' \in Seq(Events) /\ events' \in Seq(Events) /\ batch' # <<>>
        /\ batch' \o events' = events
    BY <1>1, <1>4, <2>1, BatchTaken
  <2> QED BY <1>1, <1>2, <2>2, ConcatEmptySeq DEF Pushed
<1> QED BY <1>3, <1>4

LEMMA HandleFacts ==
  ASSUME TypeOK, Polls, NEW t \in Threads, Handle(t)
  PROVE  /\ batch # <<>> /\ Pushed # <<>> /\ Pushed' = Tail(Pushed)
         /\ Head(batch) = Head(Pushed) /\ Head(batch) \in Events
         /\ batch' = Tail(batch) /\ batch' \in Seq(Events)
         /\ Len(batch) = 1 <=> batch' = <<>>
         /\ delivered' = Append(delivered, Head(Pushed))
         /\ delivered' \in Seq(Events)
         /\ ToSet(Pushed) = {Head(Pushed)} \cup ToSet(Pushed')
         /\ ToSet(delivered') = ToSet(delivered) \cup {Head(Pushed)}
<1>1. batch \in Seq(Events) /\ events \in Seq(Events) /\ delivered \in Seq(Events)
  BY DEF TypeOK
<1>2. batch # <<>> /\ batch' = Tail(batch) /\ events' = events
  BY DEF Handle, Polls, hostVars
<1>3. delivered' = Append(delivered, Head(batch))
  BY DEF Handle
<1>4. Pushed # <<>> /\ Head(Pushed) = Head(batch) /\ Tail(Pushed) = Tail(batch) \o events
  <2>1. Head(batch) \in Events
    BY <1>1, <1>2, TakenQueue
  <2> QED BY <1>1, <1>2, <2>1, JoinedEnds DEF Pushed
<1>5. Pushed' = Tail(Pushed)
  BY <1>2, <1>4 DEF Pushed
<1>6. /\ Head(batch) \in Events /\ Tail(batch) \in Seq(Events)
      /\ Len(batch) = 1 <=> Tail(batch) = <<>>
  BY <1>1, <1>2, TakenQueue
<1>7. /\ delivered' \in Seq(Events)
      /\ ToSet(delivered') = ToSet(delivered) \cup {Head(batch)}
  BY <1>1, <1>3, <1>6, AppendedQueue
<1>8. Pushed \in Seq(Events)
  BY PushedFacts
<1>9. ToSet(Pushed) = {Head(Pushed)} \cup ToSet(Tail(Pushed))
  BY <1>4, <1>8, TakenQueue
<1> QED BY <1>2, <1>3, <1>4, <1>5, <1>6, <1>7, <1>9

-----------------------------------------------------------------------------
(* Steps that leave the promises, the functions and the events alone.      *)

\* A step of pc that moves only threads between the states of no request.
Elsewhere(t) == /\ pc[t] \notin {"hold", "posted", "failed"}
                /\ pc'[t] \notin {"hold", "posted", "failed"}

LEMMA SameRequests ==
  ASSUME UNCHANGED request, \A t \in Threads : pc'[t] = pc[t] \/ Elsewhere(t)
  PROVE  /\ \A t \in Threads, p \in Promises : Asks(t, p)' <=> Asks(t, p) /\ pc'[t] = pc[t]
         /\ \A t \in Threads, f \in Functions : Makes(t, f)' <=> Makes(t, f)
         /\ \A t \in Threads : pc'[t] \in {"hold", "posted", "failed"} => pc'[t] = pc[t]
BY DEF Asks, Makes, Elsewhere

LEMMA Quiet ==
  ASSUME PollerInv,
         UNCHANGED <<request, fresh, watched, refs, resolved, live, registry, delivered, refused>>,
         Pushed' = Pushed,
         \A t \in Threads : pc'[t] = pc[t] \/ Elsewhere(t),
         \A c \in Calls : js'[c] = "unused" => js[c] = "unused"
  PROVE  Awaits' /\ Exposed' /\ Once'
<1>1. History' = History
  BY DEF History
<1>2. Awaits'
  <2> USE <1>1, SameRequests DEF PollerInv
  <2>1. \A t \in Threads : /\ pc'[t] \in {"hold", "failed"} => \E p \in Promises : Asks(t, p)'
                           /\ pc'[t] = "posted" => request'[t] # None
    BY DEF Awaits
  <2>2. ASSUME NEW t \in Threads, NEW p \in Promises, Asks(t, p)'
        PROVE  /\ p \notin fresh' \cup watched' /\ Unsettled(p)'
               /\ refs'[p] = IF pc'[t] = "hold" THEN 0 ELSE 1
               /\ \A u \in Threads : Asks(u, p)' => u = t
    BY <2>2 DEF Awaits, Unsettled
  <2>3. \A p \in Promises : /\ p \in fresh' => Unsettled(p)' /\ p \notin watched' /\ refs'[p] = 0
                            /\ p \in watched' => Unsettled(p)' /\ refs'[p] = 1
                            /\ Settled(p) \in ToSet(Pushed') => p \notin resolved' /\ refs'[p] = 1
    BY DEF Awaits, Unsettled
  <2> QED BY <2>1, <2>2, <2>3 DEF Awaits
<1>3. Exposed'
  BY <1>1, SameRequests DEF PollerInv, Exposed, NoCallRefused
<1>4. Once'
  BY DEF PollerInv, Once
<1> QED BY <1>2, <1>3, <1>4

-----------------------------------------------------------------------------
LEMMA InitInv == Init => TypeOK /\ PollerInv
<1> SUFFICES ASSUME Init
             PROVE  TypeOK /\ PollerInv
  OBVIOUS
<1>1. /\ <<>> \in Seq(Events) /\ ToSet(<<>>) = {} /\ IsInjective(<<>>)
      /\ \A a, b : a # b => Precedes(<<>>, a, b)
  BY EmptySeq, EmptyQueue, PrecedesKept
<1>2. Pushed = <<>> /\ History = {} /\ delivered = <<>>
  BY <1>1, ConcatEmptySeq DEF Init, Pushed, History
<1>3. TypeOK
  <2>1. /\ pc \in [Threads -> PCs] /\ refs \in [Promises -> {0, 1}]
        /\ js \in [Calls -> {"unused", "pending", "settled"}]
        /\ rearms \in 0..MaxRearms
    BY LimitsAssumption DEF Init, PCs
  <2>2. request \in [Threads -> {None} \cup ({"make"} \X Functions) \cup ({"await"} \X Promises)]
    BY DEF Init
  <2> QED BY <1>1, <2>1, <2>2 DEF Init, TypeOK
<1>4. Polls
  BY ThreadsAssumption, NoneAssumption DEF Init, Polls, Poller, Polling, OnePoller, EventsAreWatched, Callers, Threads
<1>5. Awaits
  BY <1>1, <1>2 DEF Init, Awaits, Asks, Unsettled
<1>6. Exposed
  BY <1>1, <1>2, EventFields DEF Init, Exposed, Makes, NoCallRefused
<1>7. Once
  BY <1>1, <1>2 DEF Once
<1> QED BY <1>3, <1>4, <1>5, <1>6, <1>7 DEF PollerInv

\* Threads, and who may poll.
LEMMA ThreadFacts ==
  /\ Callers \subseteq Threads /\ Thread \in Threads /\ Main \in Callers
  /\ Thread \notin Callers /\ None \notin Threads
  /\ \A t \in Threads : t = Thread \/ t \in Callers
BY ThreadsAssumption, NoneAssumption DEF Threads, Callers

LEMMA StartInv ==
  ASSUME TypeOK, PollerInv, NEW t \in Callers, Start(t)
  PROVE  TypeOK' /\ PollerInv'
<1>1. TypeOK'
  BY DEF TypeOK, Start, hostVars
<1>2. Polls'
  BY DEF PollerInv, Polls, Start, hostVars, Poller, OnePoller, EventsAreWatched
<1>3. Awaits' /\ Exposed' /\ Once'
  BY Quiet DEF Start, hostVars, Pushed
<1> QED BY <1>1, <1>2, <1>3 DEF PollerInv

LEMMA ParkInv ==
  ASSUME TypeOK, PollerInv, Park
  PROVE  TypeOK' /\ PollerInv'
<1>1. TypeOK'
  BY ThreadFacts DEF TypeOK, Park, hostVars, PCs
<1>2. Polls'
  BY ThreadFacts DEF PollerInv, TypeOK, Polls, Park, hostVars, Poller, Polling, OnePoller,
                     EventsAreWatched
<1>3. \A u \in Threads : pc'[u] = pc[u] \/ Elsewhere(u)
  BY ThreadFacts DEF TypeOK, Park, Elsewhere
<1>4. Awaits' /\ Exposed' /\ Once'
  BY <1>3, Quiet DEF Park, hostVars, Pushed
<1> QED BY <1>1, <1>2, <1>4 DEF PollerInv

LEMMA ThreadStartsInv ==
  ASSUME TypeOK, PollerInv, ThreadStarts
  PROVE  TypeOK' /\ PollerInv'
<1>1. TypeOK'
  BY ThreadFacts DEF TypeOK, ThreadStarts, hostVars, PCs
<1>2. Polls'
  BY ThreadFacts DEF PollerInv, TypeOK, Polls, ThreadStarts, hostVars, Poller, Polling, OnePoller,
                     EventsAreWatched
<1>3. \A u \in Threads : pc'[u] = pc[u] \/ Elsewhere(u)
  BY ThreadFacts DEF TypeOK, ThreadStarts, Elsewhere
<1>4. Awaits' /\ Exposed' /\ Once'
  BY <1>3, Quiet DEF ThreadStarts, hostVars, Pushed
<1> QED BY <1>1, <1>2, <1>4 DEF PollerInv

LEMMA PollInv ==
  ASSUME TypeOK, PollerInv, NEW t \in Threads, Poll(t)
  PROVE  TypeOK' /\ PollerInv'
<1>1. TypeOK'
  BY DEF TypeOK, Poll, hostVars, PCs
<1>2. Polls'
  BY ThreadFacts DEF PollerInv, TypeOK, Polls, Poll, hostVars, Poller, Polling, OnePoller,
                     EventsAreWatched
<1>3. \A u \in Threads : pc'[u] = pc[u] \/ Elsewhere(u)
  BY DEF TypeOK, Poll, Elsewhere
<1>4. Awaits' /\ Exposed' /\ Once'
  BY <1>3, Quiet DEF Poll, hostVars, Pushed
<1> QED BY <1>1, <1>2, <1>4 DEF PollerInv

LEMMA TimerRearmsInv ==
  ASSUME TypeOK, PollerInv, TimerRearms
  PROVE  TypeOK' /\ PollerInv'
<1>1. TypeOK'
  BY LimitsAssumption DEF TypeOK, TimerRearms, leanVars
<1>2. Polls'
  BY DEF PollerInv, Polls, TimerRearms, leanVars, Poller, OnePoller, EventsAreWatched
<1>3. Awaits' /\ Exposed' /\ Once'
  BY Quiet DEF TimerRearms, leanVars, Pushed
<1> QED BY <1>1, <1>2, <1>3 DEF PollerInv

LEMMA TimerSpawnsInv ==
  ASSUME TypeOK, PollerInv, TimerSpawns
  PROVE  TypeOK' /\ PollerInv'
<1>1. TypeOK'
  BY ThreadFacts DEF TypeOK, TimerSpawns, StartPoller, PCs
<1>2. Polls'
  BY ThreadFacts DEF PollerInv, TypeOK, Polls, TimerSpawns, StartPoller, Poller, Polling, OnePoller,
                     EventsAreWatched
<1>3. \A u \in Threads : pc'[u] = pc[u] \/ Elsewhere(u)
  BY ThreadFacts DEF PollerInv, Polls, Poller, Polling, TypeOK, TimerSpawns, StartPoller, Elsewhere
<1>4. Awaits' /\ Exposed' /\ Once'
  BY <1>3, Quiet DEF TimerSpawns, Pushed
<1> QED BY <1>1, <1>2, <1>4 DEF PollerInv

LEMMA ServePollInv ==
  ASSUME TypeOK, PollerInv, NEW t \in Threads, ServePoll(t)
  PROVE  TypeOK' /\ PollerInv'
<1>1. TypeOK'
  BY ServePollFacts DEF TypeOK, ServePoll, PCs, PollerInv
<1>2. Polls'
  <2>1. /\ pc[t] = "polling" /\ \A u \in Threads : u # t => pc'[u] = pc[u] /\ ~Poller(u)
        /\ claimed /\ dispatcher /\ Poller(t) /\ batch = <<>>
    BY ServePollFacts DEF PollerInv, Polls, OnePoller, ServePoll, TypeOK, Poller, Polling
  <2>2. CASE events = <<>>
    <3>1. pc'[t] = "long" /\ waiter' = t /\ events' = <<>> /\ batch' = <<>>
      BY <2>1, <2>2 DEF ServePoll, TypeOK
    <3> QED BY <2>1, <3>1, ThreadFacts DEF PollerInv, Polls, ServePoll, Poller, Polling, OnePoller,
                                           EventsAreWatched
  <2>3. CASE events # <<>>
    <3>1. pc'[t] = "handle" /\ waiter' = waiter /\ batch' # <<>>
      BY <2>1, <2>3, ServePollFacts DEF ServePoll, TypeOK, PollerInv
    <3>2. waiter' = None
      BY <2>1, <2>3, <3>1 DEF PollerInv, Polls, OnePoller
    <3> QED BY <2>1, <3>1, <3>2, ThreadFacts DEF PollerInv, Polls, ServePoll, Poller, Polling,
                                                OnePoller, EventsAreWatched
  <2> QED BY <2>2, <2>3
<1>3. \A u \in Threads : pc'[u] = pc[u] \/ Elsewhere(u)
  BY DEF TypeOK, ServePoll, Elsewhere
<1>4. Awaits' /\ Exposed' /\ Once'
  BY <1>3, Quiet, ServePollFacts DEF ServePoll, PollerInv
<1> QED BY <1>1, <1>2, <1>4 DEF PollerInv

LEMMA CallFailsInv ==
  ASSUME TypeOK, PollerInv, NEW c \in Calls, CallFails(c)
  PROVE  TypeOK' /\ PollerInv'
<1>1. TypeOK'
  BY DEF TypeOK, CallFails, leanVars
<1>2. Polls'
  BY DEF PollerInv, Polls, CallFails, leanVars, Poller, OnePoller, EventsAreWatched
<1>3. \A d \in Calls : js'[d] = "unused" => js[d] = "unused"
  BY DEF TypeOK, CallFails
<1>4. Awaits' /\ Exposed' /\ Once'
  BY <1>3, Quiet DEF CallFails, leanVars, Pushed
<1> QED BY <1>1, <1>2, <1>4 DEF PollerInv

LEMMA ServeReplyInv ==
  ASSUME TypeOK, PollerInv, NEW c \in Calls, ServeReply(c)
  PROVE  TypeOK' /\ PollerInv'
<1>1. TypeOK'
  BY DEF TypeOK, ServeReply
<1>2. Polls'
  BY DEF PollerInv, Polls, ServeReply, Poller, OnePoller, EventsAreWatched
<1>3. \A d \in Calls : js'[d] = "unused" => js[d] = "unused"
  BY DEF TypeOK, ServeReply
<1>4. Awaits' /\ Exposed' /\ Once'
  BY <1>3, Quiet DEF ServeReply, Pushed
<1> QED BY <1>1, <1>2, <1>4 DEF PollerInv

-----------------------------------------------------------------------------
(* Requests about promises and functions.                                  *)

LEMMA ExposeFunctionInv ==
  ASSUME TypeOK, PollerInv, NEW t \in Callers, NEW f \in Functions, ExposeFunction(t, f)
  PROVE  TypeOK' /\ PollerInv'
<1>1. TypeOK'
  BY ThreadFacts DEF TypeOK, ExposeFunction, hostVars, PCs
<1>2. Polls'
  BY ThreadFacts DEF PollerInv, TypeOK, Polls, ExposeFunction, hostVars, Poller, Polling, OnePoller,
                     EventsAreWatched
<1>3. /\ pc[t] = "run" /\ pc'[t] = "posted" /\ request'[t] = <<"make", f>>
      /\ \A u \in Threads : u # t => pc'[u] = pc[u] /\ request'[u] = request[u]
      /\ Pushed' = Pushed /\ History' = History /\ fresh' = fresh \ {f} /\ f \in fresh
      /\ f \in registry' /\ registry \subseteq registry'
      /\ UNCHANGED <<watched, live, js, resolved, refs, delivered, refused>>
  BY ThreadFacts DEF TypeOK, ExposeFunction, hostVars, Pushed, History
<1>4. /\ \A u \in Threads, p \in Promises : Asks(u, p)' <=> Asks(u, p) /\ u # t
      /\ \A u \in Threads, g \in Functions :
            Makes(u, g)' <=> IF u = t THEN g = f ELSE Makes(u, g)
      /\ \A u \in Threads, p \in Promises : Asks(u, p) => u # t
  BY <1>3, RequestFields DEF Asks, Makes
<1>5. Awaits'
  <2>1. ASSUME NEW u \in Threads
        PROVE  /\ pc'[u] \in {"hold", "failed"} => \E p \in Promises : Asks(u, p)'
               /\ pc'[u] = "posted" => request'[u] # None
    <3>1. CASE u = t
      BY <1>3, <3>1, RequestFields
    <3>2. CASE u # t
      BY <1>3, <1>4, <3>2 DEF PollerInv, Awaits
    <3> QED BY <3>1, <3>2
  <2> QED BY <1>3, <1>4, <2>1 DEF PollerInv, Awaits, Unsettled
<1>6. Exposed'
  <2>1. f \notin live /\ Collected(f) \notin History /\ \A u \in Threads : ~Makes(u, f)
    BY <1>3 DEF PollerInv, Exposed
  <2> QED BY <1>3, <1>4, <2>1 DEF PollerInv, Exposed, NoCallRefused
<1>7. Once'
  BY <1>3 DEF PollerInv, Once
<1> QED BY <1>1, <1>2, <1>5, <1>6, <1>7 DEF PollerInv

LEMMA AwaitStartsInv ==
  ASSUME TypeOK, PollerInv, NEW t \in Callers, NEW p \in Promises, AwaitStarts(t, p)
  PROVE  TypeOK' /\ PollerInv'
<1>1. TypeOK'
  BY ThreadFacts DEF TypeOK, AwaitStarts, StartPoller, hostVars, PCs
<1>2. /\ pc[t] = "run" /\ pc'[t] = "hold" /\ request'[t] = <<"await", p>>
      /\ \A u \in Threads : u # t => request'[u] = request[u]
      /\ \A u \in Threads : u # t /\ u # Thread => pc'[u] = pc[u]
      /\ pc'[Thread] = IF claimed THEN pc[Thread] ELSE "creating"
      /\ Pushed' = Pushed /\ History' = History /\ fresh' = fresh \ {p} /\ p \in fresh
      /\ UNCHANGED <<registry, watched, live, js, resolved, refs, delivered, refused>>
  BY ThreadFacts DEF TypeOK, AwaitStarts, StartPoller, hostVars, Pushed, History
<1>3. pc[Thread] \in {"none", "creating"} \cup Polling /\ t # Thread
  BY ThreadFacts DEF PollerInv, Polls
<1>4. Polls'
  <2>1. ~claimed => \A u \in Threads : ~Poller(u)
    BY DEF PollerInv, Polls
  <2>2. CASE claimed
    <3>1. \A u \in Threads : u # t => pc'[u] = pc[u]
      BY <1>2, <2>2
    <3>2. ~Poller(t) /\ ~Poller(t)' /\ pc'[t] \notin {"none", "run", "creating", "handle", "long"}
      BY <1>2 DEF Poller, Polling
    <3>3. \A u \in Threads : Poller(u)' <=> Poller(u)
      BY <3>1, <3>2 DEF Poller
    <3>4. \A u \in Threads : pc'[u] \in {"handle", "long"} <=> u # t /\ pc[u] \in {"handle", "long"}
      BY <3>1, <3>2
    <3>5. claimed' /\ dispatcher' /\ UNCHANGED <<batch, events, waiter, polled, timer>>
      BY <2>2 DEF AwaitStarts, hostVars
    <3>6. OnePoller' /\ EventsAreWatched'
      <4>1. waiter # None => waiter # t
        BY <1>2 DEF PollerInv, Polls, OnePoller
      <4> QED BY <3>1, <3>3, <3>5, <4>1 DEF PollerInv, Polls, OnePoller, EventsAreWatched, Poller, TypeOK
    <3>7. batch # <<>> <=> \E u \in Threads : pc'[u] = "handle"
      BY <1>2, <3>1, <3>2 DEF PollerInv, Polls
    <3> QED BY <1>2, <1>3, <2>2, <3>1, <3>2, <3>3, <3>5, <3>6, <3>7, ThreadFacts DEF PollerInv, Polls
  <2>3. CASE ~claimed
    <3>1. waiter = None /\ batch = <<>> /\ Poller(Thread)' /\ pc[Thread] = "none"
      BY <1>2, <1>3, <2>1, <2>3, ThreadFacts DEF PollerInv, Polls, OnePoller, Poller, Polling, TypeOK
    <3>2. \A u \in Threads : u # Thread => ~Poller(u)' /\ pc'[u] # "handle"
      BY <1>2, <2>1, <2>3 DEF Poller, Polling
    <3> QED BY <1>2, <2>3, <3>1, <3>2, ThreadFacts
         DEF PollerInv, Polls, AwaitStarts, hostVars, Poller, Polling, OnePoller, EventsAreWatched
  <2> QED BY <2>2, <2>3
<1>5. /\ \A u \in Threads, q \in Promises :
            Asks(u, q)' <=> IF u = t THEN q = p ELSE Asks(u, q)
      /\ \A u \in Threads, f \in Functions : Makes(u, f)' <=> Makes(u, f)
      /\ \A u \in Threads : u # t /\ pc'[u] \in {"hold", "posted", "failed"} => pc'[u] = pc[u]
  BY <1>2, <1>3, RequestFields DEF Asks, Makes, Polling
<1>6. Awaits'
  <2>1. Unsettled(p) /\ p \notin watched /\ refs[p] = 0 /\ \A u \in Threads : ~Asks(u, p)
    BY <1>2 DEF PollerInv, Awaits
  <2>2. ASSUME NEW u \in Threads
        PROVE  /\ pc'[u] \in {"hold", "failed"} => \E q \in Promises : Asks(u, q)'
               /\ pc'[u] = "posted" => request'[u] # None
    <3>1. CASE u = t
      BY <1>2, <1>5, <3>1
    <3>2. CASE u # t
      BY <1>2, <1>5, <3>2 DEF PollerInv, Awaits
    <3> QED BY <3>1, <3>2
  <2>3. ASSUME NEW u \in Threads, NEW q \in Promises, Asks(u, q)'
        PROVE  /\ q \notin fresh' \cup watched' /\ Unsettled(q)'
               /\ refs'[q] = IF pc'[u] = "hold" THEN 0 ELSE 1
               /\ \A v \in Threads : Asks(v, q)' => v = u
    <3>1. CASE u = t
      BY <1>2, <1>5, <2>1, <2>3, <3>1 DEF Unsettled
    <3>2. CASE u # t
      <4>1. Asks(u, q) /\ pc'[u] = pc[u] /\ q # p
        BY <1>5, <2>1, <2>3, <3>2 DEF Asks
      <4> QED BY <1>2, <1>5, <4>1 DEF PollerInv, Awaits, Unsettled
    <3> QED BY <3>1, <3>2
  <2>4. \A q \in Promises : /\ q \in fresh' => Unsettled(q)' /\ q \notin watched' /\ refs'[q] = 0
                            /\ q \in watched' => Unsettled(q)' /\ refs'[q] = 1
                            /\ Settled(q) \in ToSet(Pushed') => q \notin resolved' /\ refs'[q] = 1
    BY <1>2 DEF PollerInv, Awaits, Unsettled
  <2> QED BY <2>2, <2>3, <2>4 DEF Awaits
<1>7. Exposed'
  BY <1>2, <1>5 DEF PollerInv, Exposed, NoCallRefused
<1>8. Once'
  BY <1>2 DEF PollerInv, Once
<1> QED BY <1>1, <1>4, <1>6, <1>7, <1>8 DEF PollerInv

LEMMA HoldPromiseInv ==
  ASSUME TypeOK, PollerInv, NEW t \in Threads, HoldPromise(t)
  PROVE  TypeOK' /\ PollerInv'
<1> PICK p \in Promises : Asks(t, p)
  BY DEF PollerInv, Awaits, HoldPromise
<1>1. pc[t] = "hold" /\ request[t] = <<"await", p>> /\ request[t][2] = p /\ refs[p] = 0
  BY RequestFields DEF PollerInv, Awaits, HoldPromise, Asks
<1>2. /\ refs' = [refs EXCEPT ![p] = 1] /\ refs'[p] = 1
      /\ \A q \in Promises : q # p => refs'[q] = refs[q]
  BY <1>1 DEF HoldPromise, TypeOK
<1>3. /\ pc' \in [Threads -> PCs] /\ pc'[t] = "posted" /\ \A u \in Threads : u # t => pc'[u] = pc[u]
      /\ Pushed' = Pushed /\ History' = History
      /\ UNCHANGED <<request, fresh, registry, watched, live, js, resolved, delivered, refused>>
  BY DEF TypeOK, HoldPromise, hostVars, Pushed, History, PCs
<1>4. TypeOK'
  BY <1>2, <1>3 DEF TypeOK, HoldPromise, hostVars
<1>5. Polls'
  BY <1>1, <1>3, ThreadFacts DEF PollerInv, Polls, HoldPromise, hostVars, Poller, Polling, OnePoller,
                                 EventsAreWatched
<1>6. /\ \A u \in Threads, q \in Promises : Asks(u, q)' <=> Asks(u, q)
      /\ \A u \in Threads, f \in Functions : Makes(u, f)' <=> Makes(u, f)
      /\ \A u \in Threads : Asks(u, p) => u = t
      /\ \A q \in Promises : Asks(t, q) => q = p
  BY <1>1, <1>3, RequestFields DEF PollerInv, Awaits, Asks, Makes
<1>7. Awaits'
  <2>1. Unsettled(p) /\ p \notin fresh \cup watched /\ Settled(p) \notin ToSet(Pushed)
    BY DEF PollerInv, Awaits, Unsettled, History
  <2>2. ASSUME NEW u \in Threads
        PROVE  /\ pc'[u] \in {"hold", "failed"} => \E q \in Promises : Asks(u, q)'
               /\ pc'[u] = "posted" => request'[u] # None
    <3>1. CASE u = t
      BY <1>1, <1>3, <3>1, RequestFields
    <3>2. CASE u # t
      BY <1>3, <1>6, <3>2 DEF PollerInv, Awaits
    <3> QED BY <3>1, <3>2
  <2>3. ASSUME NEW u \in Threads, NEW q \in Promises, Asks(u, q)'
        PROVE  /\ q \notin fresh' \cup watched' /\ Unsettled(q)'
               /\ refs'[q] = IF pc'[u] = "hold" THEN 0 ELSE 1
               /\ \A v \in Threads : Asks(v, q)' => v = u
    <3>1. CASE u = t
      BY <1>2, <1>3, <1>6, <2>1, <2>3, <3>1 DEF Unsettled
    <3>2. CASE u # t
      <4>1. Asks(u, q) /\ pc'[u] = pc[u] /\ q # p
        BY <1>3, <1>6, <2>3, <3>2
      <4> QED BY <1>2, <1>3, <1>6, <4>1 DEF PollerInv, Awaits, Unsettled
    <3> QED BY <3>1, <3>2
  <2>4. \A q \in Promises : /\ q \in fresh' => Unsettled(q)' /\ q \notin watched' /\ refs'[q] = 0
                            /\ q \in watched' => Unsettled(q)' /\ refs'[q] = 1
                            /\ Settled(q) \in ToSet(Pushed') => q \notin resolved' /\ refs'[q] = 1
    BY <1>2, <1>3, <2>1 DEF PollerInv, Awaits, Unsettled
  <2> QED BY <2>2, <2>3, <2>4 DEF Awaits
<1>8. Exposed'
  BY <1>3, <1>6 DEF PollerInv, Exposed, NoCallRefused
<1>9. Once'
  BY <1>3 DEF PollerInv, Once
<1> QED BY <1>4, <1>5, <1>7, <1>8, <1>9 DEF PollerInv

LEMMA TakeReplyInv ==
  ASSUME TypeOK, PollerInv, NEW t \in Threads, TakeReply(t)
  PROVE  TypeOK' /\ PollerInv'
<1>1. /\ pc' \in [Threads -> PCs] /\ pc[t] \in {"replied", "failed"} /\ pc'[t] = "run"
      /\ \A u \in Threads : u # t => pc'[u] = pc[u] /\ request'[u] = request[u]
      /\ Pushed' = Pushed /\ History' = History
      /\ UNCHANGED <<fresh, registry, watched, live, js, resolved, delivered, refused>>
  BY DEF TypeOK, TakeReply, hostVars, Pushed, History, PCs
<1>2. /\ \A u \in Threads, q \in Promises : Asks(u, q)' <=> Asks(u, q) /\ u # t
      /\ \A u \in Threads, f \in Functions : Makes(u, f)' <=> Makes(u, f)
  BY <1>1 DEF Asks, Makes
<1>3. /\ refs' \in [Promises -> {0, 1}]
      /\ \A q \in Promises : refs'[q] = refs[q] \/ (pc[t] = "failed" /\ Asks(t, q))
  <2>0. refs \in [Promises -> {0, 1}]
    BY DEF TypeOK
  <2>1. CASE pc[t] = "failed"
    <3> PICK p \in Promises : Asks(t, p)
      BY <2>1 DEF PollerInv, Awaits
    <3>1. request[t][2] = p /\ refs[p] = 1
      BY <2>1, RequestFields DEF PollerInv, Awaits, Asks
    <3>2. refs' = [refs EXCEPT ![p] = 0]
      BY <2>1, <3>1 DEF TakeReply
    <3>3. refs' \in [Promises -> {0, 1}] /\ \A q \in Promises : q # p => refs'[q] = refs[q]
      BY <2>0, <3>2
    <3> QED BY <2>1, <3>3
  <2>2. CASE pc[t] # "failed"
    <3>1. refs' = refs
      BY <2>2 DEF TakeReply
    <3> QED BY <2>0, <3>1
  <2> QED BY <2>1, <2>2
<1>4. TypeOK'
  BY <1>1, <1>3 DEF TypeOK, TakeReply, hostVars
<1>5. Polls'
  BY <1>1, ThreadFacts DEF PollerInv, Polls, TakeReply, hostVars, Poller, Polling, OnePoller,
                           EventsAreWatched
<1>6. Awaits'
  <2>1. \A q \in Promises : Asks(t, q) => /\ Unsettled(q) /\ q \notin fresh \cup watched
                                         /\ Settled(q) \notin ToSet(Pushed)
                                         /\ \A u \in Threads : Asks(u, q) => u = t
    BY DEF PollerInv, Awaits, Unsettled, History
  <2>2. ASSUME NEW u \in Threads
        PROVE  /\ pc'[u] \in {"hold", "failed"} => \E q \in Promises : Asks(u, q)'
               /\ pc'[u] = "posted" => request'[u] # None
    <3>1. CASE u = t
      BY <1>1, <3>1
    <3>2. CASE u # t
      BY <1>1, <1>2, <3>2 DEF PollerInv, Awaits
    <3> QED BY <3>1, <3>2
  <2>3. ASSUME NEW u \in Threads, NEW q \in Promises, Asks(u, q)'
        PROVE  /\ q \notin fresh' \cup watched' /\ Unsettled(q)'
               /\ refs'[q] = IF pc'[u] = "hold" THEN 0 ELSE 1
               /\ \A v \in Threads : Asks(v, q)' => v = u
    <3>1. Asks(u, q) /\ u # t /\ pc'[u] = pc[u] /\ ~Asks(t, q)
      BY <1>1, <1>2, <2>1, <2>3
    <3> QED BY <1>1, <1>2, <1>3, <3>1 DEF PollerInv, Awaits, Unsettled
  <2>4. \A q \in Promises : /\ q \in fresh' => Unsettled(q)' /\ q \notin watched' /\ refs'[q] = 0
                            /\ q \in watched' => Unsettled(q)' /\ refs'[q] = 1
                            /\ Settled(q) \in ToSet(Pushed') => q \notin resolved' /\ refs'[q] = 1
    BY <1>1, <1>3, <2>1 DEF PollerInv, Awaits, Unsettled
  <2> QED BY <2>2, <2>3, <2>4 DEF Awaits
<1>7. Exposed'
  BY <1>1, <1>2 DEF PollerInv, Exposed, NoCallRefused
<1>8. Once'
  BY <1>1 DEF PollerInv, Once
<1> QED BY <1>4, <1>5, <1>6, <1>7, <1>8 DEF PollerInv

\* A posted request is about a function or a promise, and the dispatcher is there.
LEMMA PostedFacts ==
  ASSUME TypeOK, PollerInv, NEW t \in Threads, pc[t] = "posted"
  PROVE  /\ dispatcher
         /\ request[t][1] = "make" => \E f \in Functions : Makes(t, f) /\ request[t][2] = f
         /\ request[t][1] = "await" => \E p \in Promises : Asks(t, p) /\ request[t][2] = p
<1>1. dispatcher /\ request[t] # None
  BY DEF PollerInv, Polls, Awaits
<1>2. \/ \E f \in Functions : request[t] = <<"make", f>>
      \/ \E p \in Promises : request[t] = <<"await", p>>
  BY <1>1 DEF TypeOK
<1> QED BY <1>1, <1>2, RequestFields DEF Makes, Asks

LEMMA ServeMakeInv ==
  ASSUME TypeOK, PollerInv, NEW t \in Threads, ServeMake(t)
  PROVE  TypeOK' /\ PollerInv'
<1> PICK f \in Functions : Makes(t, f) /\ request[t][2] = f
  BY PostedFacts DEF ServeMake
<1>1. /\ pc' \in [Threads -> PCs] /\ pc[t] = "posted" /\ pc'[t] = "replied"
      /\ \A u \in Threads : u # t => pc'[u] = pc[u]
      /\ Pushed' = Pushed /\ History' = History /\ live' = live \cup {f} /\ dispatcher
      /\ UNCHANGED <<request, fresh, registry, watched, js, resolved, refs, delivered, refused>>
  BY PostedFacts DEF TypeOK, ServeMake, Pushed, History, PCs
<1>2. TypeOK'
  BY <1>1 DEF TypeOK, ServeMake
<1>3. Polls'
  BY <1>1, ThreadFacts DEF PollerInv, Polls, ServeMake, Poller, Polling, OnePoller, EventsAreWatched
<1>4. /\ \A u \in Threads, q \in Promises : Asks(u, q)' <=> Asks(u, q)
      /\ \A u \in Threads, g \in Functions : Makes(u, g)' <=> Makes(u, g) /\ u # t
      /\ \A q \in Promises : ~Asks(t, q)
  BY <1>1, RequestFields DEF Asks, Makes
<1>5. Awaits'
  <2>1. ASSUME NEW u \in Threads
        PROVE  /\ pc'[u] \in {"hold", "failed"} => \E q \in Promises : Asks(u, q)'
               /\ pc'[u] = "posted" => request'[u] # None
    BY <1>1, <1>4 DEF PollerInv, Awaits
  <2>2. ASSUME NEW u \in Threads, NEW q \in Promises, Asks(u, q)'
        PROVE  /\ q \notin fresh' \cup watched' /\ Unsettled(q)'
               /\ refs'[q] = IF pc'[u] = "hold" THEN 0 ELSE 1
               /\ \A v \in Threads : Asks(v, q)' => v = u
    BY <1>1, <1>4, <2>2 DEF PollerInv, Awaits, Unsettled
  <2>3. \A q \in Promises : /\ q \in fresh' => Unsettled(q)' /\ q \notin watched' /\ refs'[q] = 0
                            /\ q \in watched' => Unsettled(q)' /\ refs'[q] = 1
                            /\ Settled(q) \in ToSet(Pushed') => q \notin resolved' /\ refs'[q] = 1
    BY <1>1 DEF PollerInv, Awaits, Unsettled
  <2> QED BY <2>1, <2>2, <2>3 DEF Awaits
<1>6. Exposed'
  BY <1>1, <1>4 DEF PollerInv, Exposed, NoCallRefused
<1>7. Once'
  BY <1>1 DEF PollerInv, Once
<1> QED BY <1>2, <1>3, <1>5, <1>6, <1>7 DEF PollerInv

LEMMA ServeAwaitInv ==
  ASSUME TypeOK, PollerInv, NEW t \in Threads, NEW ok \in BOOLEAN, ServeAwait(t, ok)
  PROVE  TypeOK' /\ PollerInv'
<1> PICK p \in Promises : Asks(t, p) /\ request[t][2] = p
  BY PostedFacts DEF ServeAwait
<1>1. /\ pc' \in [Threads -> PCs] /\ pc[t] = "posted"
      /\ pc'[t] = IF ok THEN "replied" ELSE "failed"
      /\ \A u \in Threads : u # t => pc'[u] = pc[u]
      /\ Pushed' = Pushed /\ History' = History /\ dispatcher
      /\ watched' = IF ok THEN watched \cup {p} ELSE watched
      /\ UNCHANGED <<request, fresh, registry, live, js, resolved, refs, delivered, refused>>
  BY PostedFacts DEF TypeOK, ServeAwait, Pushed, History, PCs
<1>2. TypeOK'
  BY <1>1 DEF TypeOK, ServeAwait
<1>3. Polls'
  BY <1>1, ThreadFacts DEF PollerInv, Polls, ServeAwait, Poller, Polling, OnePoller, EventsAreWatched
<1>4. /\ \A u \in Threads, q \in Promises : Asks(u, q)' <=> Asks(u, q) /\ (u = t => ~ok)
      /\ \A u \in Threads, g \in Functions : Makes(u, g)' <=> Makes(u, g)
      /\ \A q \in Promises : Asks(t, q) => q = p
  BY <1>1, RequestFields DEF Asks, Makes
<1>5. Awaits'
  <2>1. /\ Unsettled(p) /\ p \notin fresh \cup watched /\ refs[p] = 1
        /\ \A u \in Threads : Asks(u, p) => u = t
    BY <1>1 DEF PollerInv, Awaits
  <2>2. ASSUME NEW u \in Threads
        PROVE  /\ pc'[u] \in {"hold", "failed"} => \E q \in Promises : Asks(u, q)'
               /\ pc'[u] = "posted" => request'[u] # None
    <3>1. CASE u = t
      BY <1>1, <1>4, <3>1
    <3>2. CASE u # t
      BY <1>1, <1>4, <3>2 DEF PollerInv, Awaits
    <3> QED BY <3>1, <3>2
  <2>3. ASSUME NEW u \in Threads, NEW q \in Promises, Asks(u, q)'
        PROVE  /\ q \notin fresh' \cup watched' /\ Unsettled(q)'
               /\ refs'[q] = IF pc'[u] = "hold" THEN 0 ELSE 1
               /\ \A v \in Threads : Asks(v, q)' => v = u
    <3>1. CASE u = t
      BY <1>1, <1>4, <2>1, <2>3, <3>1 DEF Unsettled
    <3>2. CASE u # t
      <4>1. Asks(u, q) /\ pc'[u] = pc[u] /\ q # p
        BY <1>1, <1>4, <2>1, <2>3, <3>2
      <4> QED BY <1>1, <1>4, <4>1 DEF PollerInv, Awaits, Unsettled
    <3> QED BY <3>1, <3>2
  <2>4. \A q \in Promises : /\ q \in fresh' => Unsettled(q)' /\ q \notin watched' /\ refs'[q] = 0
                            /\ q \in watched' => Unsettled(q)' /\ refs'[q] = 1
                            /\ Settled(q) \in ToSet(Pushed') => q \notin resolved' /\ refs'[q] = 1
    BY <1>1, <2>1 DEF PollerInv, Awaits, Unsettled
  <2> QED BY <2>2, <2>3, <2>4 DEF Awaits
<1>6. Exposed'
  BY <1>1, <1>4 DEF PollerInv, Exposed, NoCallRefused
<1>7. Once'
  BY <1>1 DEF PollerInv, Once
<1> QED BY <1>2, <1>3, <1>5, <1>6, <1>7 DEF PollerInv

-----------------------------------------------------------------------------
(* Steps of the queue.                                                     *)

\* What every push does to the threads.
LEMMA PushPolls ==
  ASSUME TypeOK, Polls, NEW e \in Events, PushEvent(e), dispatcher, UNCHANGED <<dispatcher, claimed>>
  PROVE  /\ Polls'
         /\ pc' \in [Threads -> PCs] /\ waiter' \in Threads \cup {None}
         /\ polled' \in BOOLEAN /\ timer' \in BOOLEAN /\ rearms' \in 0..MaxRearms
         /\ \A t \in Threads : pc'[t] = pc[t] \/ Elsewhere(t)
<1>1. CASE waiter = None
  <2>1. /\ UNCHANGED <<batch, waiter, polled, pc>>
        /\ timer' = (timer \/ ~polled)
        /\ rearms' = rearms \/ rearms' = 0
    BY <1>1 DEF PushEvent, WantPoller
  <2>2. Polls'
    BY <1>1, <2>1 DEF Polls, Poller, OnePoller, EventsAreWatched
  <2> QED BY <2>1, <2>2, LimitsAssumption DEF TypeOK
<1>2. CASE waiter # None
  <2>1. /\ waiter \in Threads /\ pc[waiter] = "long" /\ batch' # <<>>
        /\ \A t \in Threads : t # waiter => pc'[t] = pc[t] /\ ~Poller(t)
        /\ pc'[waiter] = "handle" /\ pc' \in [Threads -> PCs] /\ waiter' = None
        /\ UNCHANGED <<polled, timer, rearms>>
    BY ZenonT(30), <1>2, PushFacts DEF TypeOK, PushEvent, Polls, OnePoller, Poller, Polling, PCs
  <2>2. Polls'
    BY <1>2, <2>1, ThreadFacts DEF Polls, Poller, Polling, OnePoller, EventsAreWatched
  <2> QED BY <2>1, <2>2 DEF TypeOK, Elsewhere
<1> QED BY <1>1, <1>2

\* The events after a push.
LEMMA PushHistory ==
  ASSUME TypeOK, PollerInv, NEW e \in Events, PushEvent(e), UNCHANGED delivered, e \notin History
  PROVE  /\ Pushed' = Append(Pushed, e)
         /\ ToSet(Pushed') = ToSet(Pushed) \cup {e}
         /\ History' = History \cup {e}
         /\ Once'
<1>1. Pushed \in Seq(Events)
  BY PushedFacts
<1>2. Pushed' = Append(Pushed, e)
  BY PushFacts DEF PollerInv
<1>3. /\ ToSet(Pushed') = ToSet(Pushed) \cup {e}
      /\ IsInjective(Pushed') <=> IsInjective(Pushed) /\ e \notin ToSet(Pushed)
  BY <1>1, <1>2, AppendedQueue
<1> QED BY <1>2, <1>3 DEF History, PollerInv, Once

LEMMA SettlePromiseInv ==
  ASSUME TypeOK, PollerInv, NEW p \in Promises, SettlePromise(p)
  PROVE  TypeOK' /\ PollerInv'
<1>1. Settled(p) \in Events /\ PushEvent(Settled(p)) /\ p \in watched /\ dispatcher
  BY EventKinds DEF SettlePromise, PollerInv, Polls
<1>2. Unsettled(p) /\ refs[p] = 1 /\ p \notin fresh /\ \A t \in Threads : ~Asks(t, p)
  BY <1>1 DEF PollerInv, Awaits
<1>3. /\ watched' = watched \ {p}
      /\ UNCHANGED <<dispatcher, claimed, request, registry, refs, resolved, live, js, fresh,
                     delivered, refused>>
  BY DEF SettlePromise
<1>4. /\ Pushed' = Append(Pushed, Settled(p))
      /\ ToSet(Pushed') = ToSet(Pushed) \cup {Settled(p)}
      /\ History' = History \cup {Settled(p)}
      /\ Once'
  BY <1>1, <1>2, <1>3, PushHistory DEF Unsettled
<1>5. /\ Polls'
      /\ pc' \in [Threads -> PCs] /\ waiter' \in Threads \cup {None}
      /\ polled' \in BOOLEAN /\ timer' \in BOOLEAN /\ rearms' \in 0..MaxRearms
      /\ \A t \in Threads : pc'[t] = pc[t] \/ Elsewhere(t)
  BY <1>1, <1>3, PushPolls DEF PollerInv
<1>6. batch' \in Seq(Events) /\ events' \in Seq(Events)
  BY <1>1, PushFacts DEF PollerInv
<1>7. TypeOK'
  BY <1>3, <1>5, <1>6 DEF TypeOK, SettlePromise
<1>8. /\ \A q \in Promises : q # p => Settled(q) # Settled(p)
      /\ \A f \in Functions : Collected(f) # Settled(p)
      /\ \A c \in Calls, f \in Functions : Called(c, f) # Settled(p)
      /\ \A c \in Calls, f \in Functions : Called(c, f) # Collected(f)
  BY EventFields
<1>9. Awaits'
  <2> USE <1>3, <1>5, SameRequests
  <2>1. \A t \in Threads : /\ pc'[t] \in {"hold", "failed"} => \E q \in Promises : Asks(t, q)'
                           /\ pc'[t] = "posted" => request'[t] # None
    BY DEF PollerInv, Awaits
  <2>2. ASSUME NEW t \in Threads, NEW q \in Promises, Asks(t, q)'
        PROVE  /\ q \notin fresh' \cup watched' /\ Unsettled(q)'
               /\ refs'[q] = IF pc'[t] = "hold" THEN 0 ELSE 1
               /\ \A u \in Threads : Asks(u, q)' => u = t
    <3>1. Asks(t, q) /\ pc'[t] = pc[t] /\ q # p
      BY <1>2, <2>2
    <3> QED BY <1>4, <1>8, <3>1 DEF PollerInv, Awaits, Unsettled
  <2>3. \A q \in Promises : /\ q \in fresh' => Unsettled(q)' /\ q \notin watched' /\ refs'[q] = 0
                            /\ q \in watched' => Unsettled(q)' /\ refs'[q] = 1
                            /\ Settled(q) \in ToSet(Pushed') => q \notin resolved' /\ refs'[q] = 1
    BY <1>2, <1>4, <1>8 DEF PollerInv, Awaits, Unsettled
  <2> QED BY <2>1, <2>2, <2>3 DEF Awaits
<1>10. \A c \in Calls, f \in Functions : Precedes(Pushed', Called(c, f), Collected(f))
  BY <1>1, <1>4, <1>8, PushedFacts, PrecedesKept DEF PollerInv, Exposed
<1>11. Exposed'
  BY <1>3, <1>4, <1>5, <1>8, <1>10, SameRequests DEF PollerInv, Exposed, NoCallRefused
<1> QED BY <1>4, <1>5, <1>7, <1>9, <1>11 DEF PollerInv

LEMMA CallFunctionInv ==
  ASSUME TypeOK, PollerInv, NEW c \in Calls, NEW f \in Functions, CallFunction(c, f)
  PROVE  TypeOK' /\ PollerInv'
<1>1. /\ Called(c, f) \in Events /\ PushEvent(Called(c, f)) /\ f \in live /\ js[c] = "unused"
      /\ dispatcher
  BY EventKinds DEF CallFunction, PollerInv, Polls
<1>2. /\ f \in registry /\ Called(c, f) \notin History /\ Collected(f) \notin History
      /\ Collected(f) \notin ToSet(Pushed)
  BY <1>1 DEF PollerInv, Exposed, History
<1>3. /\ js' \in [Calls -> {"unused", "pending", "settled"}]
      /\ js'[c] = "pending" /\ \A d \in Calls : d # c => js'[d] = js[d]
      /\ UNCHANGED <<dispatcher, claimed, request, registry, refs, resolved, live, watched, fresh,
                     delivered, refused>>
  BY DEF CallFunction, TypeOK
<1>4. /\ Pushed' = Append(Pushed, Called(c, f))
      /\ ToSet(Pushed') = ToSet(Pushed) \cup {Called(c, f)}
      /\ History' = History \cup {Called(c, f)}
      /\ Once'
  BY <1>1, <1>2, <1>3, PushHistory
<1>5. /\ Polls'
      /\ pc' \in [Threads -> PCs] /\ waiter' \in Threads \cup {None}
      /\ polled' \in BOOLEAN /\ timer' \in BOOLEAN /\ rearms' \in 0..MaxRearms
      /\ \A t \in Threads : pc'[t] = pc[t] \/ Elsewhere(t)
  BY <1>1, <1>3, PushPolls DEF PollerInv
<1>6. batch' \in Seq(Events) /\ events' \in Seq(Events)
  BY <1>1, PushFacts DEF PollerInv
<1>7. TypeOK'
  BY <1>3, <1>5, <1>6 DEF TypeOK, CallFunction
<1>8. /\ \A q \in Promises : Settled(q) # Called(c, f)
      /\ \A g \in Functions : Collected(g) # Called(c, f)
      /\ \A d \in Calls, g \in Functions : Called(d, g) = Called(c, f) => d = c /\ g = f
      /\ \A d \in Calls, g \in Functions : Called(d, g) # Collected(g)
  BY EventFields
<1>9. Awaits'
  <2> USE <1>3, <1>5, SameRequests
  <2>1. \A t \in Threads : /\ pc'[t] \in {"hold", "failed"} => \E q \in Promises : Asks(t, q)'
                           /\ pc'[t] = "posted" => request'[t] # None
    BY DEF PollerInv, Awaits
  <2>2. ASSUME NEW t \in Threads, NEW q \in Promises, Asks(t, q)'
        PROVE  /\ q \notin fresh' \cup watched' /\ Unsettled(q)'
               /\ refs'[q] = IF pc'[t] = "hold" THEN 0 ELSE 1
               /\ \A u \in Threads : Asks(u, q)' => u = t
    BY <1>4, <1>8, <2>2 DEF PollerInv, Awaits, Unsettled
  <2>3. \A q \in Promises : /\ q \in fresh' => Unsettled(q)' /\ q \notin watched' /\ refs'[q] = 0
                            /\ q \in watched' => Unsettled(q)' /\ refs'[q] = 1
                            /\ Settled(q) \in ToSet(Pushed') => q \notin resolved' /\ refs'[q] = 1
    BY <1>4, <1>8 DEF PollerInv, Awaits, Unsettled
  <2> QED BY <2>1, <2>2, <2>3 DEF Awaits
<1>10. \A d \in Calls, g \in Functions : Precedes(Pushed', Called(d, g), Collected(g))
  BY <1>1, <1>2, <1>4, <1>8, PushedFacts, PrecedesKept DEF PollerInv, Exposed
<1>11. Exposed'
  BY <1>2, <1>3, <1>4, <1>5, <1>8, <1>10, SameRequests DEF PollerInv, Exposed, NoCallRefused
<1> QED BY <1>4, <1>5, <1>7, <1>9, <1>11 DEF PollerInv

LEMMA CollectFunctionInv ==
  ASSUME TypeOK, PollerInv, NEW f \in Functions, CollectFunction(f)
  PROVE  TypeOK' /\ PollerInv'
<1>1. Collected(f) \in Events /\ PushEvent(Collected(f)) /\ f \in live /\ dispatcher
  BY EventKinds DEF CollectFunction, PollerInv, Polls
<1>2. /\ f \in registry /\ Collected(f) \notin History /\ f \notin fresh
      /\ \A t \in Threads : ~Makes(t, f)
  BY <1>1 DEF PollerInv, Exposed
<1>3. /\ live' = live \ {f}
      /\ UNCHANGED <<dispatcher, claimed, request, registry, refs, resolved, watched, js, fresh,
                     delivered, refused>>
  BY DEF CollectFunction
<1>4. /\ Pushed' = Append(Pushed, Collected(f))
      /\ ToSet(Pushed') = ToSet(Pushed) \cup {Collected(f)}
      /\ History' = History \cup {Collected(f)}
      /\ Once'
  BY <1>1, <1>2, <1>3, PushHistory
<1>5. /\ Polls'
      /\ pc' \in [Threads -> PCs] /\ waiter' \in Threads \cup {None}
      /\ polled' \in BOOLEAN /\ timer' \in BOOLEAN /\ rearms' \in 0..MaxRearms
      /\ \A t \in Threads : pc'[t] = pc[t] \/ Elsewhere(t)
  BY <1>1, <1>3, PushPolls DEF PollerInv
<1>6. batch' \in Seq(Events) /\ events' \in Seq(Events)
  BY <1>1, PushFacts DEF PollerInv
<1>7. TypeOK'
  BY <1>3, <1>5, <1>6 DEF TypeOK, CollectFunction
<1>8. /\ \A q \in Promises : Settled(q) # Collected(f)
      /\ \A g \in Functions : Collected(g) = Collected(f) => g = f
      /\ \A d \in Calls, g \in Functions : Called(d, g) # Collected(f) /\ Called(d, g) # Collected(g)
  BY EventFields
<1>9. Awaits'
  <2> USE <1>3, <1>5, SameRequests
  <2>1. \A t \in Threads : /\ pc'[t] \in {"hold", "failed"} => \E q \in Promises : Asks(t, q)'
                           /\ pc'[t] = "posted" => request'[t] # None
    BY DEF PollerInv, Awaits
  <2>2. ASSUME NEW t \in Threads, NEW q \in Promises, Asks(t, q)'
        PROVE  /\ q \notin fresh' \cup watched' /\ Unsettled(q)'
               /\ refs'[q] = IF pc'[t] = "hold" THEN 0 ELSE 1
               /\ \A u \in Threads : Asks(u, q)' => u = t
    BY <1>4, <1>8, <2>2 DEF PollerInv, Awaits, Unsettled
  <2>3. \A q \in Promises : /\ q \in fresh' => Unsettled(q)' /\ q \notin watched' /\ refs'[q] = 0
                            /\ q \in watched' => Unsettled(q)' /\ refs'[q] = 1
                            /\ Settled(q) \in ToSet(Pushed') => q \notin resolved' /\ refs'[q] = 1
    BY <1>4, <1>8 DEF PollerInv, Awaits, Unsettled
  <2> QED BY <2>1, <2>2, <2>3 DEF Awaits
<1>10. \A d \in Calls, g \in Functions : Precedes(Pushed', Called(d, g), Collected(g))
  BY <1>1, <1>4, <1>8, PushedFacts, PrecedesKept DEF PollerInv, Exposed
<1>11. Exposed'
  BY <1>2, <1>3, <1>4, <1>5, <1>8, <1>10, SameRequests DEF PollerInv, Exposed, NoCallRefused
<1> QED BY <1>4, <1>5, <1>7, <1>9, <1>11 DEF PollerInv

LEMMA HandleInv ==
  ASSUME TypeOK, PollerInv, NEW t \in Threads, Handle(t)
  PROVE  TypeOK' /\ PollerInv'
<1> DEFINE e == Head(Pushed)
<1>1. /\ batch # <<>> /\ Pushed # <<>> /\ Pushed' = Tail(Pushed)
      /\ Head(batch) = e /\ e \in Events /\ Pushed \in Seq(Events) /\ Pushed' \in Seq(Events)
      /\ batch' \in Seq(Events) /\ delivered' \in Seq(Events)
      /\ Len(batch) = 1 <=> batch' = <<>>
      /\ ToSet(Pushed) = {e} \cup ToSet(Pushed')
      /\ ToSet(delivered') = ToSet(delivered) \cup {e}
  <2>1. Pushed # <<>> /\ Pushed' = Tail(Pushed) /\ Pushed \in Seq(Events)
    BY HandleFacts, PushedFacts DEF PollerInv
  <2>2. Pushed' \in Seq(Events)
    BY <2>1, TakenQueue
  <2> QED BY <2>1, <2>2, HandleFacts DEF PollerInv
<1>2. History' = History
  BY <1>1 DEF History
<1>3. e \notin ToSet(Pushed') /\ IsInjective(Pushed')
  BY <1>1, TakenQueue DEF PollerInv, Once
<1>4. Once'
  BY <1>1, <1>3 DEF PollerInv, Once
<1>5. /\ pc' \in [Threads -> PCs] /\ pc[t] = "handle"
      /\ pc'[t] = IF batch' = <<>> THEN "poll" ELSE "handle"
      /\ \A u \in Threads : u # t => pc'[u] = pc[u]
      /\ \A u \in Threads : pc'[u] = pc[u] \/ Elsewhere(u)
      /\ UNCHANGED <<dispatcher, claimed, request, hostVars, fresh>>
  BY <1>1 DEF Handle, TypeOK, PCs, Elsewhere
<1>6. Polls'
  <2>1. \A u \in Threads : u # t => pc[u] # "handle"
    BY <1>5 DEF PollerInv, Polls, OnePoller, Polling
  <2>2. /\ \A u \in Threads : Poller(u)' <=> Poller(u)
        /\ \A u \in Threads : pc'[u] \in {"none", "creating", "run", "long"} <=>
                              pc[u] \in {"none", "creating", "run", "long"}
    BY <1>5 DEF Poller, Polling
  <2>3. batch' # <<>> <=> \E u \in Threads : pc'[u] = "handle"
    BY <1>5, <2>1
  <2>4. OnePoller'
    <3>1. \A u, v \in Threads : Poller(u)' /\ Poller(v)' => u = v
      BY <2>2 DEF PollerInv, Polls, OnePoller, Poller
    <3>2. waiter' # None => pc'[waiter'] = "long" /\ events' = <<>>
      BY <1>5 DEF PollerInv, Polls, OnePoller, hostVars, TypeOK
    <3> QED BY <3>1, <3>2 DEF OnePoller, Poller
  <2>5. EventsAreWatched'
    BY <1>5, <2>2 DEF PollerInv, Polls, EventsAreWatched, Poller, hostVars
  <2>6. pc'[Thread] \in {"none", "creating"} \cup Polling
    BY <1>5, ThreadFacts DEF PollerInv, Polls, Polling
  <2>7. \A u \in Callers : pc'[u] \notin {"none", "creating"} /\ (u # Main => ~Poller(u)')
    BY <1>5, <2>2, ThreadFacts DEF PollerInv, Polls
  <2>8. claimed' /\ dispatcher' /\ (polled' => claimed') /\ \E u \in Threads : Poller(u)'
    BY <1>5, <2>2 DEF PollerInv, Polls, Poller, Polling
  <2> QED BY <2>3, <2>4, <2>5, <2>6, <2>7, <2>8 DEF Polls
<1> HIDE DEF e
<1>7. CASE \E p \in Promises : e = Settled(p)
  <2> PICK p \in Promises : e = Settled(p)
    BY <1>7
  <2>1. e[1] = "settled" /\ e[2] = p
    BY EventFields
  <2>2. p \notin resolved /\ refs[p] = 1 /\ Settled(p) \in History
    BY <1>1 DEF PollerInv, Awaits, History
  <2>3. /\ resolved' = resolved \cup {p} /\ refs' = [refs EXCEPT ![p] = 0]
        /\ UNCHANGED <<registry, tasks, refused>>
    BY <1>1, <2>1, <2>2 DEF Handle
  <2>4. /\ refs' \in [Promises -> {0, 1}]
        /\ \A q \in Promises : q # p => refs'[q] = refs[q]
    BY <2>3 DEF TypeOK
  <2>5. TypeOK'
    BY <1>1, <1>5, <2>3, <2>4 DEF TypeOK, hostVars
  <2>6. Awaits'
    <3>1. \A u \in Threads : /\ pc'[u] \in {"hold", "failed"} => \E q \in Promises : Asks(u, q)'
                             /\ pc'[u] = "posted" => request'[u] # None
      BY <1>5, SameRequests DEF PollerInv, Awaits
    <3>2. ASSUME NEW u \in Threads, NEW q \in Promises, Asks(u, q)'
          PROVE  /\ q \notin fresh' \cup watched' /\ Unsettled(q)'
                 /\ refs'[q] = IF pc'[u] = "hold" THEN 0 ELSE 1
                 /\ \A v \in Threads : Asks(v, q)' => v = u
      <4>1. Asks(u, q) /\ pc'[u] = pc[u]
        BY <1>5, <3>2, SameRequests
      <4>2. q # p
        BY <2>2, <4>1 DEF PollerInv, Awaits, Unsettled
      <4> QED BY <1>2, <1>5, <2>3, <2>4, <4>1, <4>2, SameRequests
              DEF PollerInv, Awaits, Unsettled, hostVars
    <3>3. ASSUME NEW q \in Promises
          PROVE  /\ q \in fresh' => Unsettled(q)' /\ q \notin watched' /\ refs'[q] = 0
                 /\ q \in watched' => Unsettled(q)' /\ refs'[q] = 1
                 /\ Settled(q) \in ToSet(Pushed') => q \notin resolved' /\ refs'[q] = 1
      <4>1. CASE q = p
        BY <1>3, <1>5, <2>2, <4>1 DEF PollerInv, Awaits, Unsettled, hostVars
      <4>2. CASE q # p
        BY <1>1, <1>2, <1>5, <2>3, <2>4, <4>2 DEF PollerInv, Awaits, Unsettled, hostVars
      <4> QED BY <4>1, <4>2
    <3> QED BY <3>1, <3>2, <3>3 DEF Awaits
  <2>7. Exposed'
    <3>1. \A c \in Calls, f \in Functions : Precedes(Pushed', Called(c, f), Collected(f))
      BY <1>1, EventFields, PrecedesKept DEF PollerInv, Exposed
    <3> QED BY <1>1, <1>2, <1>5, <2>3, <3>1, SameRequests DEF PollerInv, Exposed, NoCallRefused, hostVars
  <2> QED BY <1>4, <1>6, <2>5, <2>6, <2>7 DEF PollerInv
<1>8. CASE ~\E p \in Promises : e = Settled(p)
  <2>1. UNCHANGED <<resolved, refs>>
    <3>1. e[1] # "settled"
      BY <1>1, <1>8, EventKinds, EventFields
    <3> QED BY <1>1, <3>1 DEF Handle
  <2>2. Awaits'
    <3>1. \A u \in Threads : /\ pc'[u] \in {"hold", "failed"} => \E q \in Promises : Asks(u, q)'
                             /\ pc'[u] = "posted" => request'[u] # None
      BY <1>5, SameRequests DEF PollerInv, Awaits
    <3>2. ASSUME NEW u \in Threads, NEW q \in Promises, Asks(u, q)'
          PROVE  /\ q \notin fresh' \cup watched' /\ Unsettled(q)'
                 /\ refs'[q] = IF pc'[u] = "hold" THEN 0 ELSE 1
                 /\ \A v \in Threads : Asks(v, q)' => v = u
      BY <1>2, <1>5, <2>1, <3>2, SameRequests DEF PollerInv, Awaits, Unsettled, hostVars
    <3>3. \A q \in Promises : /\ q \in fresh' => Unsettled(q)' /\ q \notin watched' /\ refs'[q] = 0
                              /\ q \in watched' => Unsettled(q)' /\ refs'[q] = 1
                              /\ Settled(q) \in ToSet(Pushed') => q \notin resolved' /\ refs'[q] = 1
      BY <1>1, <1>2, <1>5, <2>1 DEF PollerInv, Awaits, Unsettled, hostVars
    <3> QED BY <3>1, <3>2, <3>3 DEF Awaits
  <2>3. \A c \in Calls, f \in Functions : Precedes(Pushed', Called(c, f), Collected(f))
    BY <1>1, EventFields, PrecedesKept DEF PollerInv, Exposed
  <2>4. CASE \E f \in Functions : e = Collected(f)
    <3> PICK f \in Functions : e = Collected(f)
      BY <2>4
    <3>1. e[1] = "collected" /\ e[2] = f
      BY EventFields
    <3>2. registry' = registry \ {f} /\ UNCHANGED <<tasks, refused>>
      BY <1>1, <3>1 DEF Handle
    <3>3. \A c \in Calls : Called(c, f) \notin ToSet(Pushed')
      BY <1>1, EventFields, PrecedesKept DEF PollerInv, Exposed, e
    <3>4. f \notin fresh /\ f \notin live /\ \A u \in Threads : ~Makes(u, f)
      BY <1>1 DEF PollerInv, Exposed, History
    <3>5. TypeOK'
      BY <1>1, <1>5, <2>1, <3>2 DEF TypeOK, hostVars
    <3>6. Exposed'
      BY <1>1, <1>2, <1>5, <2>3, <3>2, <3>3, <3>4, SameRequests
         DEF PollerInv, Exposed, NoCallRefused, hostVars
    <3> QED BY <1>4, <1>6, <2>2, <3>5, <3>6 DEF PollerInv
  <2>5. CASE \E c \in Calls, f \in Functions : e = Called(c, f)
    <3> PICK c \in Calls, f \in Functions : e = Called(c, f)
      BY <2>5
    <3>1. e[1] = "called" /\ e[2] = c /\ e[3] = f /\ f \in registry
      BY <1>1, EventFields DEF PollerInv, Exposed
    <3>2. tasks' = tasks \cup {c} /\ UNCHANGED <<registry, refused>>
      BY <1>1, <3>1 DEF Handle
    <3>3. TypeOK'
      BY <1>1, <1>5, <2>1, <3>2 DEF TypeOK, hostVars
    <3>4. Exposed'
      BY <1>1, <1>2, <1>5, <2>3, <3>2, SameRequests DEF PollerInv, Exposed, NoCallRefused, hostVars
    <3> QED BY <1>4, <1>6, <2>2, <3>3, <3>4 DEF PollerInv
  <2> QED BY <1>1, <1>8, <2>4, <2>5, EventKinds
<1> QED BY <1>7, <1>8

-----------------------------------------------------------------------------
LEMMA StepInv == TypeOK /\ PollerInv /\ [Next]_vars => TypeOK' /\ PollerInv'
<1> SUFFICES ASSUME TypeOK, PollerInv, [Next]_vars
             PROVE  TypeOK' /\ PollerInv'
  OBVIOUS
<1>1. ASSUME NEW t \in Callers, Program(t)
      PROVE  TypeOK' /\ PollerInv'
  BY <1>1, StartInv, ExposeFunctionInv, AwaitStartsInv DEF Program
<1>2. ASSUME NEW t \in Threads, LeanStep(t)
      PROVE  TypeOK' /\ PollerInv'
  BY <1>2, TakeReplyInv, HoldPromiseInv, PollInv, HandleInv DEF LeanStep
<1>3. ASSUME NEW t \in Threads, ServeStep(t)
      PROVE  TypeOK' /\ PollerInv'
  BY <1>3, ServePollInv, ServeMakeInv, ServeAwaitInv DEF ServeStep
<1>4. ASSUME JavaScript
      PROVE  TypeOK' /\ PollerInv'
  BY <1>4, SettlePromiseInv, CallFailsInv, CallFunctionInv, CollectFunctionInv DEF JavaScript
<1>5. CASE UNCHANGED vars
  <2>1. UNCHANGED Pushed /\ UNCHANGED <<leanVars, hostVars, fresh, delivered, refused>>
    BY <1>5 DEF vars, Pushed, leanVars, hostVars
  <2>2. TypeOK'
    BY <2>1 DEF TypeOK, leanVars, hostVars
  <2>3. Polls'
    BY <2>1 DEF PollerInv, Polls, Poller, OnePoller, EventsAreWatched, leanVars, hostVars
  <2>4. Awaits' /\ Exposed' /\ Once'
    BY <2>1, Quiet DEF leanVars, hostVars
  <2> QED BY <2>2, <2>3, <2>4 DEF PollerInv
<1> QED BY <1>1, <1>2, <1>3, <1>4, <1>5, ParkInv, ThreadStartsInv, TimerRearmsInv, TimerSpawnsInv,
           ServeReplyInv DEF Next

LEMMA Invariance == Spec => [](TypeOK /\ PollerInv)
BY InitInv, StepInv, PTL DEF Spec

\* The threads, the events, the references and the histories always have their types.
THEOREM Typed == Spec => []TypeOK
BY Invariance, PTL

\* However `main`, the awaits and the host's timer race to start a poller, there is one.
THEOREM PollerIsOne == Spec => []OnePoller
<1>1. TypeOK /\ PollerInv => OnePoller
  BY DEF PollerInv, Polls
<1> QED BY <1>1, Invariance, PTL

\* Events never wait without a poller or a timer that will ask for one.
THEOREM EventsKeepAPoller == Spec => []EventsAreWatched
<1>1. TypeOK /\ PollerInv => EventsAreWatched
  BY DEF PollerInv, Polls
<1> QED BY <1>1, Invariance, PTL

\* A promise the host may resolve has one reference, whatever failed before.
THEOREM PromisesAreHeld == Spec => []PromiseHeld
<1>1. TypeOK /\ PollerInv => PromiseHeld
  <2>1. ASSUME TypeOK, PollerInv
        PROVE  PromiseHeld
    BY <2>1, PushedFacts DEF PollerInv, Awaits, Unsettled, PromiseHeld
  <2> QED BY <2>1
<1> QED BY <1>1, Invariance, PTL

\* No call of a function reaches Lean after the function was released.
THEOREM CallsAreAccepted == Spec => []NoCallRefused
<1>1. TypeOK /\ PollerInv => NoCallRefused
  BY DEF PollerInv, Exposed
<1> QED BY <1>1, Invariance, PTL

-----------------------------------------------------------------------------
(* The refinement.                                                         *)

\* A step of the poller or the host is a push, a delivery, or neither.
LEMMA StepRefines ==
  ASSUME TypeOK, PollerInv, [Next]_vars
  PROVE  [Queue!Next]_<<Pushed, delivered>>
<1>1. ASSUME NEW e \in Events, PushEvent(e), UNCHANGED delivered, e \notin History
      PROVE  Queue!Next
  <2>1. Pushed' = Append(Pushed, e)
    BY <1>1, PushHistory
  <2> QED BY <1>1, <2>1
            DEF Queue!Next, Queue!Push, Queue!ToSet, ToSet, History, Pushed
<1>2. ASSUME NEW t \in Threads, Handle(t)
      PROVE  Queue!Next
  BY <1>2, HandleFacts DEF PollerInv, Queue!Next, Queue!Deliver, Pushed
<1>3. ASSUME NEW t \in Threads, ServePoll(t)
      PROVE  UNCHANGED <<Pushed, delivered>>
  BY <1>3, ServePollFacts DEF PollerInv, ServePoll
<1>4. CASE JavaScript
  <2>1. ASSUME NEW p \in Promises, SettlePromise(p)
        PROVE  Queue!Next
    BY <2>1, <1>1, EventKinds DEF SettlePromise, PollerInv, Awaits, Unsettled
  <2>2. ASSUME NEW c \in Calls, NEW f \in Functions, CallFunction(c, f)
        PROVE  Queue!Next
    BY <2>2, <1>1, EventKinds DEF CallFunction, PollerInv, Exposed
  <2>3. ASSUME NEW f \in Functions, CollectFunction(f)
        PROVE  Queue!Next
    BY <2>3, <1>1, EventKinds DEF CollectFunction, PollerInv, Exposed
  <2>4. ASSUME NEW c \in Calls, CallFails(c)
        PROVE  UNCHANGED <<Pushed, delivered>>
    BY <2>4 DEF CallFails, leanVars, Pushed
  <2> QED BY <1>4, <2>1, <2>2, <2>3, <2>4 DEF JavaScript
<1>5. CASE \E t \in Callers : Program(t)
  BY <1>5 DEF Program, Start, ExposeFunction, AwaitStarts, hostVars, Pushed
<1>6. ASSUME NEW t \in Threads, TakeReply(t) \/ HoldPromise(t) \/ Poll(t)
      PROVE  UNCHANGED <<Pushed, delivered>>
  BY <1>6 DEF TakeReply, HoldPromise, Poll, hostVars, Pushed
<1>7. ASSUME NEW t \in Threads, ServeMake(t) \/ \E ok \in BOOLEAN : ServeAwait(t, ok)
      PROVE  UNCHANGED <<Pushed, delivered>>
  BY <1>7 DEF ServeMake, ServeAwait, Pushed
<1>8. CASE Park \/ ThreadStarts \/ TimerRearms \/ TimerSpawns \/ \E c \in Calls : ServeReply(c)
  BY <1>8 DEF Park, ThreadStarts, TimerRearms, TimerSpawns, ServeReply, leanVars, hostVars, Pushed
<1>9. CASE UNCHANGED vars
  BY <1>9 DEF vars, leanVars, hostVars, Pushed
<1> QED BY <1>2, <1>3, <1>4, <1>5, <1>6, <1>7, <1>8, <1>9 DEF Next, LeanStep, ServeStep

\* The events reach Lean once each, in the order JavaScript produced them, whoever
\* polls and however they are cut into batches.
THEOREM EventsAreQueued == Spec => Implements
<1>1. Init => Queue!Init
  <2>1. <<>> \o <<>> = <<>>
    BY EmptySeq, ConcatEmptySeq
  <2> QED BY <2>1 DEF Init, Queue!Init
<1>2. TypeOK /\ PollerInv /\ [Next]_vars => [Queue!Next]_<<batch \o events, delivered>>
  BY StepRefines DEF Pushed
<1> QED BY <1>1, <1>2, Invariance, PTL DEF Spec, Implements, Queue!Spec
=============================================================================
