-------------------------- MODULE CompletionsProofs --------------------------
(***************************************************************************)
(* Theorems about Completions, for any threads, handles and operations and *)
(* any limit on a batch: its types, one owner for the pointers of every    *)
(* operation, no cancelled operation on the completion thread, and that    *)
(* the packets implement EventQueue.                                       *)
(*                                                                         *)
(* The invariant is TypeOK /\ CompletionsInv.  OneOwner is inductive only  *)
(* as Owned: the places are disjoint sets whose union is what was started, *)
(* a thread gets packets only when it holds none (Callers have a protocol, *)
(* Asked), and a packet is queued once.  CancelledByCaller needs Diverting:*)
(* while a cancelled operation settles, its handle has a list to divert it *)
(* to; which holds because op 96 waits until waiting[h] is zero, and that  *)
(* counter counts what is still to settle (Counted).                       *)
(***************************************************************************)
EXTENDS Completions, QueueLemmas

\* Packets pushed to the completion thread, and those it has or had.
Pushed  == batch \o queue
Packets == ToSet(delivered) \cup ToSet(Pushed)

Diverts == UNION {Dropped(h) : h \in Handles}
Helds   == UNION {held[t] : t \in Callers}

Apart ==
  /\ pending \cap (settling \cup Diverts \cup Packets \cup Helds \cup released \cup forgotten) = {}
  /\ settling \cap (Diverts \cup Packets \cup Helds \cup released \cup forgotten) = {}
  /\ Diverts \cap (Packets \cup Helds \cup released \cup forgotten) = {}
  /\ Packets \cap (Helds \cup released \cup forgotten) = {}
  /\ Helds \cap (released \cup forgotten) = {}
  /\ released \cap forgotten = {}

Owned ==
  /\ Apart
  /\ Started = pending \cup settling \cup Diverts \cup Packets \cup Helds \cup released \cup forgotten
  /\ \A h \in Handles : \A p \in Dropped(h) : of[p] = h
  /\ \A t, u \in Callers : t # u => held[t] \cap held[u] = {}
  /\ IsInjective(Pushed) /\ IsInjective(delivered) /\ ToSet(delivered) \cap ToSet(Pushed) = {}

\* What a caller holds and asks for.
Asked ==
  \A t \in Callers : /\ tpc[t] # "releasing" => held[t] = {}
                     /\ tpc[t] \in {"cancelled", "awaiting"} => target[t] \in Handles

\* The operations of h that are counted and have not settled.
Unsettled(h) == {p \in counted : p \in pending \cup settling /\ of[p] = h}

Counted ==
  /\ IsFiniteSet(pending \cup settling)
  /\ pending \subseteq counted /\ counted \subseteq Started
  /\ \A h \in Handles : waiting[h] = Cardinality(Unsettled(h))

Diverting ==
  /\ \A p \in settling : result[p] = "cancelled" => p \in counted /\ cancelling[of[p]] # None
  /\ \A p \in Packets : result[p] # "cancelled"

\* The completion thread: it waits only when nothing is queued, and handles what it took.
Completer ==
  /\ cpc \in {"none", "poll", "parked"} => batch = <<>>
  /\ cpc = "handle" => batch # <<>>
  /\ cpc = "parked" => queue = <<>>

CompletionsInv == Owned /\ Asked /\ Counted /\ Diverting /\ Completer

-----------------------------------------------------------------------------
(* Batches and packets.                                                    *)

\* A batch is not empty and not longer than the queue.
LEMMA BatchSizeFacts ==
  ASSUME NEW q \in Seq(Promises), q # <<>>
  PROVE  BatchSize(q) \in 1..Len(q)
<1>1. Len(q) \in Nat /\ Len(q) >= 1 /\ DOMAIN q = 1..Len(q)
  BY LenProperties, EmptySeq
<1>2. CASE 1 \in Failures(q)
  BY <1>1, <1>2 DEF BatchSize
<1>3. CASE 1 \notin Failures(q)
  <2> DEFINE S == {n \in 1..Len(q) : n <= BatchLimit /\ \A i \in Failures(q) : n < i}
             Fits(n) == /\ n <= BatchLimit /\ \A i \in Failures(q) : n < i
                        /\ \/ n = Len(q) \/ n = BatchLimit \/ n + 1 \in Failures(q)
  <2>1. Failures(q) \subseteq 1..Len(q)
    BY <1>1 DEF Failures
  <2>2. S \subseteq 1..Len(q) /\ 1 \in S
    BY <1>1, <1>3, <2>1, CompletionsAssumption
  <2>3. PICK m \in S : \A k \in S : k <= m
    <3> HIDE DEF S
    <3> QED BY <1>1, <2>2, Greatest
  <2>4. Fits(m)
    <3>1. SUFFICES ASSUME m # Len(q), m # BatchLimit, m + 1 \notin Failures(q)
                   PROVE  FALSE
      BY <2>3
    <3>2. m \in 1..Len(q) /\ m <= BatchLimit /\ m \in Nat
      BY <1>1, <2>3
    <3>3. \A i \in Failures(q) : m < i
      BY <2>3
    <3>4. m + 1 \in 1..Len(q) /\ m + 1 <= BatchLimit
      <4> HIDE DEF S
      <4>1. BatchLimit \in Nat
        BY CompletionsAssumption
      <4>2. m + 1 <= BatchLimit
        BY <3>1, <3>2, <4>1
      <4>3. m + 1 <= Len(q)
        <5>1. m # Len(q)
          BY <3>1
        <5>2. m <= Len(q)
          BY <1>1, <3>2
        <5>3. Len(q) \in Nat
          BY <1>1
        <5> QED BY <3>2, <5>1, <5>2, <5>3
      <4> QED BY <1>1, <3>2, <4>2, <4>3
    <3>5. ASSUME NEW i \in Failures(q)
          PROVE  m + 1 < i
      <4> HIDE DEF S
      <4>1. i \in Nat /\ m < i /\ i # m + 1
        BY <1>1, <2>1, <3>1, <3>3
      <4> QED BY <3>2, <4>1
    <3>6. m + 1 \in S
      BY <3>4, <3>5
    <3>7. m + 1 <= m
      BY <2>3, <3>6
    <3> QED BY <3>2, <3>7
  <2>5. \E n \in 1..Len(q) : Fits(n)
    BY <2>3, <2>4
  <2>6. (CHOOSE n \in 1..Len(q) : Fits(n)) \in 1..Len(q)
    <3> HIDE DEF Fits
    <3> QED BY <2>5
  <2> QED BY <1>3, <2>6 DEF BatchSize
<1> QED BY <1>2, <1>3

LEMMA ReplyFacts ==
  ASSUME NEW q \in Seq(Promises), q # <<>>, Reply(q)
  PROVE  /\ batch' \in Seq(Promises) /\ queue' \in Seq(Promises) /\ batch' # <<>>
         /\ Pushed' = q /\ cpc' = "handle"
<1>1. Len(q) \in Nat /\ BatchSize(q) \in 0..Len(q) /\ BatchSize(q) > 0
  BY BatchSizeFacts, LenProperties
<1>2. /\ batch' = SubSeq(q, 1, BatchSize(q)) /\ queue' = SubSeq(q, BatchSize(q) + 1, Len(q))
      /\ cpc' = "handle"
  BY DEF Reply
<1> QED BY <1>1, <1>2, CutQueue DEF Pushed

LEMMA PacketFacts ==
  ASSUME TypeOK
  PROVE  /\ Pushed \in Seq(Promises) /\ Packets \subseteq Promises
         /\ delivered \o batch \o queue \in Seq(Promises)
         /\ ToSet(delivered \o batch \o queue) = Packets
         /\ IsInjective(delivered \o batch \o queue)
              <=> /\ IsInjective(Pushed) /\ IsInjective(delivered)
                  /\ ToSet(delivered) \cap ToSet(Pushed) = {}
<1>1. batch \in Seq(Promises) /\ queue \in Seq(Promises) /\ delivered \in Seq(Promises)
  BY DEF TypeOK
<1>2. Pushed \in Seq(Promises)
  BY <1>1, JoinedQueue DEF Pushed
<1>3. delivered \o batch \o queue = delivered \o Pushed
  BY <1>1, ConcatAssociative DEF Pushed
<1>4. /\ delivered \o Pushed \in Seq(Promises)
      /\ ToSet(delivered \o Pushed) = ToSet(delivered) \cup ToSet(Pushed)
      /\ IsInjective(delivered \o Pushed) <=> /\ IsInjective(delivered) /\ IsInjective(Pushed)
                                              /\ ToSet(delivered) \cap ToSet(Pushed) = {}
  BY <1>1, <1>2, JoinedQueue
<1>5. ToSet(delivered) \subseteq Promises /\ ToSet(Pushed) \subseteq Promises
  BY <1>1, <1>2, ToSetDef
<1> QED BY <1>2, <1>3, <1>4, <1>5 DEF Packets

LEMMA SetsTyped ==
  ASSUME TypeOK
  PROVE  /\ \A h \in Handles : Dropped(h) \subseteq Promises
         /\ \A t \in Callers : held[t] \subseteq Promises
<1>1. ASSUME NEW h \in Handles
      PROVE  Dropped(h) \subseteq Promises
  <2>1. cancelling[h] \in SUBSET Promises \/ cancelling[h] = None
    BY DEF TypeOK
  <2> QED BY <2>1 DEF Dropped
<1>2. ASSUME NEW t \in Callers
      PROVE  held[t] \subseteq Promises
  <2>1. held[t] \in SUBSET Promises
    BY DEF TypeOK
  <2> QED BY <2>1
<1> QED BY <1>1, <1>2

\* A completed operation is the last packet.
LEMMA CompleteFacts ==
  ASSUME TypeOK, Completer, NEW p \in Promises, Complete(p)
  PROVE  /\ Pushed' = Append(Pushed, p) /\ Completer'
         /\ batch' \in Seq(Promises) /\ queue' \in Seq(Promises)
         /\ cpc' \in {"none", "poll", "parked", "handle", "panicked"}
<1>1. batch \in Seq(Promises) /\ queue \in Seq(Promises)
  BY DEF TypeOK
<1>2. CASE cpc = "parked"
  <2>1. batch = <<>> /\ queue = <<>> /\ Pushed = <<>>
    BY <1>1, <1>2, ConcatEmptySeq DEF Completer, Pushed
  <2>2. <<p>> \in Seq(Promises) /\ <<p>> # <<>> /\ <<p>> \o <<>> = <<p>> /\ Append(<<>>, p) = <<p>>
    BY <1>1, ConcatEmptySeq, AppendIsConcat, AppendProperties
  <2>3. Reply(<<p>>)
    BY <1>2, <2>1, <2>2 DEF Complete
  <2> QED BY <2>1, <2>2, <2>3, ReplyFacts DEF Completer
<1>3. CASE cpc # "parked"
  <2>1. queue' = Append(queue, p) /\ UNCHANGED <<cpc, batch>>
    BY <1>3 DEF Complete
  <2>2. Append(queue, p) \in Seq(Promises) /\ batch \o Append(queue, p) = Append(Pushed, p)
    BY <1>1, AppendProperties, JoinedEnds DEF Pushed
  <2> QED BY <1>1, <1>3, <2>1, <2>2 DEF Completer, Pushed, TypeOK
<1> QED BY <1>2, <1>3

LEMMA PollFacts ==
  ASSUME TypeOK, Completer, Poll
  PROVE  /\ Pushed' = Pushed /\ Completer'
         /\ batch' \in Seq(Promises) /\ queue' \in Seq(Promises)
         /\ cpc' \in {"parked", "handle"}
<1>1. batch = <<>> /\ queue \in Seq(Promises) /\ Pushed = queue
  BY ConcatEmptySeq DEF TypeOK, Completer, Poll, Pushed
<1>2. CASE queue = <<>>
  BY <1>1, <1>2 DEF Poll, Completer, Pushed
<1>3. CASE queue # <<>>
  <2>1. Reply(queue)
    BY <1>3 DEF Poll
  <2> QED BY <1>1, <1>3, <2>1, ReplyFacts DEF Completer
<1> QED BY <1>2, <1>3

LEMMA HandleFacts ==
  ASSUME TypeOK, Completer, Owned, Handle
  PROVE  /\ Pushed # <<>> /\ Pushed' = Tail(Pushed)
         /\ delivered' = Append(delivered, Head(Pushed))
         /\ batch' \in Seq(Promises) /\ delivered' \in Seq(Promises)
         /\ Completer' /\ Packets' = Packets
         /\ IsInjective(Pushed)' /\ IsInjective(delivered)'
         /\ ToSet(delivered)' \cap ToSet(Pushed)' = {}
         /\ cpc' \in {"panicked", "poll", "handle"}
<1>1. batch \in Seq(Promises) /\ queue \in Seq(Promises) /\ delivered \in Seq(Promises)
  BY DEF TypeOK
<1>2. batch # <<>> /\ batch' = Tail(batch) /\ queue' = queue
  BY DEF Handle, Completer, hostState
<1>3. /\ Head(batch) \in Promises /\ Tail(batch) \in Seq(Promises)
      /\ Len(batch) = 1 <=> Tail(batch) = <<>>
  BY <1>1, <1>2, TakenQueue
<1>4. Pushed # <<>> /\ Head(Pushed) = Head(batch) /\ Tail(Pushed) = Tail(batch) \o queue
  <2>1. /\ batch \o queue = <<>> <=> batch = <<>> /\ queue = <<>>
        /\ batch # <<>> => /\ Head(batch \o queue) = Head(batch)
                          /\ Tail(batch \o queue) = Tail(batch) \o queue
    BY <1>1, <1>3, JoinedEnds
  <2> QED BY <1>2, <2>1 DEF Pushed
<1>5. Pushed' = Tail(Pushed) /\ delivered' = Append(delivered, Head(Pushed))
  BY <1>2, <1>4 DEF Pushed, Handle
<1>6. Pushed \in Seq(Promises)
  BY PacketFacts
<1>7. /\ Head(Pushed) \in Promises
      /\ ToSet(Pushed) = {Head(Pushed)} \cup ToSet(Tail(Pushed))
      /\ IsInjective(Pushed) <=> IsInjective(Tail(Pushed)) /\ Head(Pushed) \notin ToSet(Tail(Pushed))
  BY <1>4, <1>6, TakenQueue
<1>8. /\ Append(delivered, Head(Pushed)) \in Seq(Promises)
      /\ ToSet(Append(delivered, Head(Pushed))) = ToSet(delivered) \cup {Head(Pushed)}
      /\ IsInjective(Append(delivered, Head(Pushed)))
           <=> IsInjective(delivered) /\ Head(Pushed) \notin ToSet(delivered)
  BY <1>1, <1>7, AppendedQueue
<1>9. /\ IsInjective(Pushed) /\ IsInjective(delivered)
      /\ ToSet(delivered) \cap ToSet(Pushed) = {}
  BY DEF Owned
<1>10. /\ IsInjective(Tail(Pushed)) /\ IsInjective(Append(delivered, Head(Pushed)))
       /\ ToSet(Append(delivered, Head(Pushed))) \cap ToSet(Tail(Pushed)) = {}
       /\ ToSet(Append(delivered, Head(Pushed))) \cup ToSet(Tail(Pushed)) = Packets
  BY <1>7, <1>8, <1>9 DEF Packets
<1>11. Completer' /\ cpc' \in {"panicked", "poll", "handle"}
  BY <1>2, <1>3 DEF Completer, Handle
<1> QED BY <1>2, <1>3, <1>4, <1>5, <1>8, <1>10, <1>11 DEF Packets

-----------------------------------------------------------------------------
(* Steps that move no operation.                                           *)

LEMMA SamePlaces ==
  ASSUME CompletionsInv,
         UNCHANGED <<pending, settling, waiting, cancelling, of, counted, result, delivered, held,
                     released, forgotten>>,
         Pushed' = Pushed
  PROVE  Owned' /\ Counted' /\ Diverting'
<1>1. /\ Diverts' = Diverts /\ Helds' = Helds /\ Packets' = Packets /\ Started' = Started
      /\ \A h \in Handles : Dropped(h)' = Dropped(h) /\ Unsettled(h)' = Unsettled(h)
  BY DEF Diverts, Dropped, Helds, Packets, Started, Unsettled
<1>2. Owned'
  BY <1>1 DEF CompletionsInv, Owned, Apart
<1>3. Counted' /\ Diverting'
  BY <1>1 DEF CompletionsInv, Counted, Diverting
<1> QED BY <1>2, <1>3

LEMMA InitInv == Init => TypeOK /\ CompletionsInv
<1> SUFFICES ASSUME Init
             PROVE  TypeOK /\ CompletionsInv
  OBVIOUS
<1>1. <<>> \in Seq(Promises) /\ <<>> \o <<>> = <<>> /\ ToSet(<<>>) = {} /\ IsInjective(<<>>)
  BY EmptySeq, EmptyQueue, ConcatEmptySeq
<1>2. Pushed = <<>> /\ Packets = {} /\ Started = {} /\ Helds = {} /\ pending \cup settling = {}
  BY <1>1 DEF Init, Pushed, Packets, Started, Helds
<1>3. \A h \in Handles : Dropped(h) = {} /\ Unsettled(h) = {}
  BY DEF Init, Dropped, Unsettled
<1>4. Diverts = {}
  BY <1>3 DEF Diverts
<1>5. TypeOK
  <2>1. waiting \in [Handles -> Nat] /\ of \in [Promises -> Handles \cup {None}]
    BY DEF Init
  <2>2. cancelling \in [Handles -> (SUBSET Promises) \cup {None}]
    BY DEF Init
  <2>3. /\ result \in [Promises -> {None, "done", "cancelled", "failure"}]
        /\ tpc \in [Callers -> {"idle", "cancelled", "awaiting", "releasing"}]
    BY DEF Init
  <2>4. target \in [Callers -> Handles \cup {None}] /\ held \in [Callers -> SUBSET Promises]
    BY DEF Init
  <2> QED BY <1>1, <2>1, <2>2, <2>3, <2>4 DEF Init, TypeOK
<1>6. Owned
  BY <1>1, <1>2, <1>3, <1>4 DEF Init, Owned, Apart
<1>7. Counted
  BY <1>2, <1>3, FS_EmptySet DEF Init, Counted
<1>8. Asked /\ Diverting /\ Completer
  BY <1>2 DEF Init, Asked, Diverting, Completer
<1> QED BY <1>5, <1>6, <1>7, <1>8 DEF CompletionsInv

LEMMA StartRefusedInv ==
  ASSUME TypeOK, CompletionsInv, NEW t \in Callers, NEW p \in Promises, NEW h \in Handles,
         StartRefused(t, p, h)
  PROVE  TypeOK' /\ CompletionsInv'
<1> USE DEF StartRefused, Starts, EnsureThread, threadState, promiseInfo
<1>1. TypeOK'
  BY DEF TypeOK
<1>2. Owned' /\ Counted' /\ Diverting'
  BY SamePlaces DEF Pushed
<1>3. Asked' /\ Completer'
  BY DEF CompletionsInv, Asked, Completer
<1> QED BY <1>1, <1>2, <1>3 DEF CompletionsInv

LEMMA TakeLaterInv ==
  ASSUME TypeOK, CompletionsInv, NEW t \in Callers, TakeLater(t)
  PROVE  TypeOK' /\ CompletionsInv'
<1> USE DEF TakeLater, completer, promiseInfo
<1>1. target[t] \in Handles
  BY DEF CompletionsInv, Asked
<1>2. TypeOK'
  BY <1>1 DEF TypeOK
<1>3. Owned' /\ Counted' /\ Diverting'
  BY SamePlaces DEF Pushed
<1>4. Asked'
  BY DEF TypeOK, CompletionsInv, Asked
<1>5. Completer'
  BY DEF CompletionsInv, Completer
<1> QED BY <1>2, <1>3, <1>4, <1>5 DEF CompletionsInv

LEMMA CallbackInv ==
  ASSUME TypeOK, CompletionsInv, EnterCallback \/ LeaveCallback
  PROVE  TypeOK' /\ CompletionsInv'
<1> USE DEF EnterCallback, LeaveCallback, completer, promiseInfo, threadState
<1>1. TypeOK'
  BY DEF TypeOK
<1>2. Owned' /\ Counted' /\ Diverting'
  BY SamePlaces DEF Pushed
<1>3. Asked' /\ Completer'
  BY DEF CompletionsInv, Asked, Completer
<1> QED BY <1>1, <1>2, <1>3 DEF CompletionsInv

LEMMA PollInv ==
  ASSUME TypeOK, CompletionsInv, Poll
  PROVE  TypeOK' /\ CompletionsInv'
<1>1. /\ Pushed' = Pushed /\ Completer'
      /\ batch' \in Seq(Promises) /\ queue' \in Seq(Promises)
      /\ cpc' \in {"parked", "handle"}
  BY PollFacts DEF CompletionsInv
<1>2. UNCHANGED <<mode, pending, settling, waiting, cancelling, orphans, of, stoppable, counted,
                  result, delivered, tpc, target, held, released, forgotten>>
  BY DEF Poll, promiseInfo, threadState
<1>3. TypeOK'
  BY <1>1, <1>2 DEF TypeOK
<1>4. Owned' /\ Counted' /\ Diverting'
  BY <1>1, <1>2, SamePlaces
<1>5. Asked'
  BY <1>2 DEF CompletionsInv, Asked
<1> QED BY <1>1, <1>3, <1>4, <1>5 DEF CompletionsInv

LEMMA HandleInv ==
  ASSUME TypeOK, CompletionsInv, Handle
  PROVE  TypeOK' /\ CompletionsInv'
<1>1. /\ batch' \in Seq(Promises) /\ delivered' \in Seq(Promises)
      /\ Completer' /\ Packets' = Packets
      /\ IsInjective(Pushed)' /\ IsInjective(delivered)'
      /\ ToSet(delivered)' \cap ToSet(Pushed)' = {}
      /\ cpc' \in {"panicked", "poll", "handle"}
  BY HandleFacts DEF CompletionsInv
<1>2. UNCHANGED <<mode, pending, settling, waiting, cancelling, orphans, queue, of, stoppable,
                  counted, result, tpc, target, held, released, forgotten>>
  BY DEF Handle, hostState, promiseInfo, threadState
<1>3. TypeOK'
  BY <1>1, <1>2 DEF TypeOK
<1>4. /\ Diverts' = Diverts /\ Helds' = Helds /\ Started' = Started
      /\ \A h \in Handles : Dropped(h)' = Dropped(h) /\ Unsettled(h)' = Unsettled(h)
  BY <1>2 DEF Diverts, Dropped, Helds, Started, Unsettled
<1>5. Owned'
  BY <1>1, <1>2, <1>4 DEF CompletionsInv, Owned, Apart
<1>6. Counted' /\ Diverting' /\ Asked'
  BY <1>1, <1>2, <1>4 DEF CompletionsInv, Counted, Diverting, Asked
<1> QED BY <1>1, <1>3, <1>5, <1>6 DEF CompletionsInv

-----------------------------------------------------------------------------
(* Operations start and settle.                                            *)

LEMMA StartAnsweredInv ==
  ASSUME TypeOK, CompletionsInv, NEW t \in Callers, NEW p \in Promises, NEW h \in Handles,
         StartAnswered(t, p, h)
  PROVE  TypeOK' /\ CompletionsInv'
<1>1. /\ of[p] = None /\ of' = [of EXCEPT ![p] = h] /\ result' = [result EXCEPT ![p] = "done"]
      /\ settling' = settling \cup {p} /\ cpc' = IF cpc = "none" THEN "poll" ELSE cpc
      /\ UNCHANGED <<pending, waiting, stoppable, counted, mode, cancelling, orphans, queue, batch,
                     delivered, tpc, target, held, released, forgotten>>
  BY DEF StartAnswered, Starts, EnsureThread, threadState
<1>2. TypeOK'
  BY <1>1 DEF TypeOK
<1>3. p \notin Started /\ p \notin counted
  BY <1>1 DEF Started, CompletionsInv, Counted
<1>4. /\ of'[p] = h /\ \A q \in Promises : q # p => of'[q] = of[q] /\ result'[q] = result[q]
      /\ result'[p] = "done"
  BY <1>1 DEF TypeOK
<1>5. /\ Diverts' = Diverts /\ Helds' = Helds /\ Packets' = Packets /\ Pushed' = Pushed
      /\ Started' = Started \cup {p}
      /\ \A k \in Handles : Dropped(k)' = Dropped(k)
  BY <1>1, <1>4, CompletionsAssumption
     DEF Diverts, Dropped, Helds, Packets, Pushed, Started, TypeOK
<1>6. /\ p \notin pending \cup settling \cup Diverts \cup Packets \cup Helds \cup released \cup forgotten
      /\ \A k \in Handles : p \notin Dropped(k)
  BY <1>3 DEF CompletionsInv, Owned, Diverts
<1>7. Owned'
  <2>1. Apart' /\ Started' = (pending \cup settling \cup Diverts \cup Packets \cup Helds
                                \cup released \cup forgotten)'
    BY <1>1, <1>5, <1>6 DEF CompletionsInv, Owned, Apart
  <2>2. \A k \in Handles : \A q \in Dropped(k)' : of'[q] = k
    BY <1>4, <1>5, <1>6, SetsTyped DEF CompletionsInv, Owned
  <2> QED BY <1>1, <1>5, <2>1, <2>2 DEF CompletionsInv, Owned
<1>8. Counted'
  <2>1. IsFiniteSet(pending' \cup settling')
    <3>1. pending' \cup settling' = (pending \cup settling) \cup {p}
      BY <1>1
    <3> QED BY <3>1, FS_AddElement DEF CompletionsInv, Counted
  <2>2. \A k \in Handles : Unsettled(k)' = Unsettled(k)
    BY <1>1, <1>3, <1>4 DEF Unsettled, TypeOK
  <2> QED BY <1>1, <1>5, <2>1, <2>2 DEF CompletionsInv, Counted
<1>9. Diverting'
  BY <1>1, <1>4, <1>5, <1>6, PacketFacts DEF CompletionsInv, Diverting, TypeOK
<1>10. Asked' /\ Completer'
  BY <1>1 DEF CompletionsInv, Asked, Completer
<1> QED BY <1>2, <1>7, <1>8, <1>9, <1>10 DEF CompletionsInv

LEMMA StartPendingInv ==
  ASSUME TypeOK, CompletionsInv, NEW t \in Callers, NEW p \in Promises, NEW h \in Handles,
         NEW stop \in BOOLEAN, StartPending(t, p, h, stop)
  PROVE  TypeOK' /\ CompletionsInv'
<1>1. /\ of[p] = None /\ of' = [of EXCEPT ![p] = h]
      /\ stoppable' \in {stoppable, stoppable \cup {p}}
      /\ counted' = counted \cup {p} /\ pending' = pending \cup {p}
      /\ waiting' = [waiting EXCEPT ![h] = @ + 1]
      /\ cpc' = IF cpc = "none" THEN "poll" ELSE cpc
      /\ UNCHANGED <<settling, result, mode, cancelling, orphans, queue, batch, delivered, tpc,
                     target, held, released, forgotten>>
  BY DEF StartPending, Starts, EnsureThread, threadState
<1>2. TypeOK'
  BY <1>1 DEF TypeOK
<1>3. p \notin Started /\ p \notin counted
  BY <1>1 DEF Started, CompletionsInv, Counted
<1>4. of'[p] = h /\ \A q \in Promises : q # p => of'[q] = of[q]
  BY <1>1 DEF TypeOK
<1>5. /\ Diverts' = Diverts /\ Helds' = Helds /\ Packets' = Packets /\ Pushed' = Pushed
      /\ Started' = Started \cup {p}
      /\ \A k \in Handles : Dropped(k)' = Dropped(k)
  BY <1>1, <1>4, CompletionsAssumption
     DEF Diverts, Dropped, Helds, Packets, Pushed, Started, TypeOK
<1>6. /\ p \notin pending \cup settling \cup Diverts \cup Packets \cup Helds \cup released \cup forgotten
      /\ \A k \in Handles : p \notin Dropped(k)
  BY <1>3 DEF CompletionsInv, Owned, Diverts
<1>7. Owned'
  <2>1. Apart' /\ Started' = (pending \cup settling \cup Diverts \cup Packets \cup Helds
                                \cup released \cup forgotten)'
    BY <1>1, <1>5, <1>6 DEF CompletionsInv, Owned, Apart
  <2>2. \A k \in Handles : \A q \in Dropped(k)' : of'[q] = k
    BY <1>4, <1>5, <1>6, SetsTyped DEF CompletionsInv, Owned
  <2> QED BY <1>1, <1>5, <2>1, <2>2 DEF CompletionsInv, Owned
<1>8. Counted'
  <2>1. IsFiniteSet(pending' \cup settling')
    <3>1. pending' \cup settling' = (pending \cup settling) \cup {p}
      BY <1>1
    <3> QED BY <3>1, FS_AddElement DEF CompletionsInv, Counted
  <2>2. /\ Unsettled(h)' = Unsettled(h) \cup {p} /\ p \notin Unsettled(h)
        /\ \A k \in Handles : k # h => Unsettled(k)' = Unsettled(k)
    BY <1>1, <1>3, <1>4 DEF Unsettled, TypeOK
  <2>3. IsFiniteSet(Unsettled(h))
    <3>1. Unsettled(h) \subseteq pending \cup settling
      BY DEF Unsettled
    <3> QED BY <3>1, FS_Subset DEF CompletionsInv, Counted
  <2>4. Cardinality(Unsettled(h)') = Cardinality(Unsettled(h)) + 1
    BY <2>2, <2>3, FS_AddElement
  <2>5. \A k \in Handles : waiting'[k] = Cardinality(Unsettled(k)')
    BY <1>1, <2>2, <2>4 DEF CompletionsInv, Counted, TypeOK
  <2> QED BY <1>1, <1>5, <2>1, <2>5 DEF CompletionsInv, Counted
<1>9. Diverting'
  BY <1>1, <1>4, <1>5, <1>6, PacketFacts DEF CompletionsInv, Diverting, TypeOK
<1>10. Asked' /\ Completer'
  BY <1>1 DEF CompletionsInv, Asked, Completer
<1> QED BY <1>2, <1>7, <1>8, <1>9, <1>10 DEF CompletionsInv

LEMMA OperationEndsInv ==
  ASSUME TypeOK, CompletionsInv, NEW p \in Promises, NEW r \in {"done", "failure"},
         OperationEnds(p, r)
  PROVE  TypeOK' /\ CompletionsInv'
<1>1. /\ p \in pending /\ pending' = pending \ {p} /\ settling' = settling \cup {p}
      /\ result' = [result EXCEPT ![p] = r]
      /\ UNCHANGED <<mode, waiting, cancelling, orphans, queue, of, stoppable, counted, cpc, batch,
                     delivered, tpc, target, held, released, forgotten>>
  BY DEF OperationEnds, completer, threadState
<1>2. TypeOK'
  BY <1>1 DEF TypeOK
<1>3. /\ Diverts' = Diverts /\ Helds' = Helds /\ Packets' = Packets /\ Pushed' = Pushed
      /\ Started' = Started /\ pending' \cup settling' = pending \cup settling
      /\ \A k \in Handles : Dropped(k)' = Dropped(k) /\ Unsettled(k)' = Unsettled(k)
  BY <1>1 DEF Diverts, Dropped, Helds, Packets, Pushed, Started, Unsettled
<1>4. /\ p \notin settling \cup Diverts \cup Packets \cup Helds \cup released \cup forgotten
      /\ result'[p] = r /\ \A q \in Promises : q # p => result'[q] = result[q]
  BY <1>1 DEF CompletionsInv, Owned, Apart, TypeOK
<1>5. Owned'
  <2>1. Apart' /\ Started' = (pending \cup settling \cup Diverts \cup Packets \cup Helds
                                \cup released \cup forgotten)'
    BY <1>1, <1>3, <1>4 DEF CompletionsInv, Owned, Apart
  <2> QED BY <1>1, <1>3, <2>1 DEF CompletionsInv, Owned
<1>6. Counted'
  BY <1>1, <1>3 DEF CompletionsInv, Counted
<1>7. Diverting'
  BY <1>1, <1>3, <1>4, PacketFacts DEF CompletionsInv, Diverting, TypeOK
<1>8. Asked' /\ Completer'
  BY <1>1 DEF CompletionsInv, Asked, Completer
<1> QED BY <1>2, <1>5, <1>6, <1>7, <1>8 DEF CompletionsInv

\* One operation fewer is to settle for its handle.
LEMMA CountedDown ==
  ASSUME TypeOK, Counted, NEW p \in settling, p \notin pending, Uncount(p),
         settling' = settling \ {p}, UNCHANGED <<pending, counted, of>>
  PROVE  Counted' /\ waiting' \in [Handles -> Nat]
<1>1. p \in Promises /\ Started' = Started
  BY DEF TypeOK, Started
<1>2. pending' \cup settling' = (pending \cup settling) \ {p}
  OBVIOUS
<1>3. IsFiniteSet(pending' \cup settling')
  BY <1>2, FS_RemoveElement DEF Counted
<1>4. CASE p \notin counted
  <2>1. \A h \in Handles : Unsettled(h)' = Unsettled(h)
    BY <1>4 DEF Unsettled
  <2>2. waiting' = waiting
    BY <1>4 DEF Uncount
  <2> QED BY <1>1, <1>3, <2>1, <2>2 DEF Counted, TypeOK
<1>5. CASE p \in counted
  <2>1. PICK h \in Handles : h = of[p]
    BY <1>1, <1>5 DEF Counted, Started, TypeOK
  <2>2. waiting' = [waiting EXCEPT ![h] = @ - 1]
    BY <1>5, <2>1 DEF Uncount
  <2>3. /\ p \in Unsettled(h) /\ Unsettled(h)' = Unsettled(h) \ {p}
        /\ \A k \in Handles : k # h => Unsettled(k)' = Unsettled(k)
    BY <1>5, <2>1 DEF Unsettled
  <2>4. IsFiniteSet(Unsettled(h))
    <3>1. Unsettled(h) \subseteq pending \cup settling
      BY DEF Unsettled
    <3> QED BY <3>1, FS_Subset DEF Counted
  <2>5. Cardinality(Unsettled(h)') = Cardinality(Unsettled(h)) - 1
    BY <2>3, <2>4, FS_RemoveElement
  <2>6. waiting[h] = Cardinality(Unsettled(h)) /\ waiting[h] \in Nat /\ waiting[h] # 0
    BY <2>1, <2>3, <2>4, FS_EmptySet DEF Counted, TypeOK
  <2>7. waiting' \in [Handles -> Nat] /\ waiting'[h] = waiting[h] - 1
        /\ \A k \in Handles : k # h => waiting'[k] = waiting[k]
    BY <2>1, <2>2, <2>6 DEF TypeOK
  <2>8. \A k \in Handles : waiting'[k] = Cardinality(Unsettled(k)')
    BY <2>3, <2>5, <2>6, <2>7 DEF Counted
  <2> QED BY <1>1, <1>3, <2>7, <2>8 DEF Counted
<1> QED BY <1>4, <1>5

LEMMA SettledInv ==
  ASSUME TypeOK, CompletionsInv, NEW p \in Promises, Settled(p)
  PROVE  TypeOK' /\ CompletionsInv'
<1>1. /\ p \in settling /\ settling' = settling \ {p} /\ Uncount(p)
      /\ UNCHANGED <<mode, pending, orphans, of, stoppable, counted, result, delivered, tpc, target,
                     held, released, forgotten>>
  BY DEF Settled, promiseInfo, threadState
<1>2. /\ p \notin pending \cup Diverts \cup Packets \cup Helds \cup released \cup forgotten
      /\ p \in Started
  BY <1>1 DEF CompletionsInv, Owned, Apart
<1>3. Counted' /\ waiting' \in [Handles -> Nat]
  BY <1>1, <1>2, CountedDown DEF CompletionsInv
<1>4. Helds' = Helds /\ Started' = Started /\ Asked'
  BY <1>1 DEF Helds, Started, Asked, CompletionsInv
<1>5. CASE Diverted(p)
  <2>1. PICK h \in Handles : h = of[p] /\ cancelling[h] # None /\ result[p] = "cancelled"
    BY <1>2, <1>5 DEF Started, TypeOK, Diverted
  <2>2. /\ cancelling' = [cancelling EXCEPT ![h] = @ \cup {p}]
        /\ UNCHANGED <<queue, cpc, batch>>
    BY <1>5, <2>1 DEF Settled
  <2>3. cancelling[h] \in SUBSET Promises
    BY <2>1 DEF TypeOK
  <2>4. cancelling[h] \cup {p} \in SUBSET Promises /\ cancelling[h] \cup {p} # None
    BY <2>3, CompletionsAssumption
  <2>5. /\ cancelling' \in [Handles -> (SUBSET Promises) \cup {None}]
        /\ cancelling'[h] = cancelling[h] \cup {p}
        /\ \A k \in Handles : k # h => cancelling'[k] = cancelling[k]
    BY <2>1, <2>2, <2>4 DEF TypeOK
  <2>6. TypeOK'
    BY <1>1, <1>3, <2>2, <2>5 DEF TypeOK
  <2>7. /\ Dropped(h)' = Dropped(h) \cup {p}
        /\ \A k \in Handles : k # h => Dropped(k)' = Dropped(k)
    BY <2>1, <2>4, <2>5 DEF Dropped
  <2>8. Diverts' = Diverts \cup {p}
    BY <2>1, <2>7 DEF Diverts
  <2>9. Pushed' = Pushed /\ Packets' = Packets /\ Completer'
    BY <1>1, <2>2 DEF Pushed, Packets, CompletionsInv, Completer
  <2>10. Owned'
    <3>1. Apart' /\ Started' = (pending \cup settling \cup Diverts \cup Packets \cup Helds
                                  \cup released \cup forgotten)'
      BY <1>1, <1>2, <1>4, <2>8, <2>9 DEF CompletionsInv, Owned, Apart
    <3>2. \A k \in Handles : \A q \in Dropped(k)' : of'[q] = k
      BY <1>1, <2>1, <2>7 DEF CompletionsInv, Owned
    <3> QED BY <1>1, <2>9, <3>1, <3>2 DEF CompletionsInv, Owned
  <2>11. Diverting'
    <3>1. ASSUME NEW q \in settling', result'[q] = "cancelled"
          PROVE  q \in counted' /\ cancelling'[of'[q]] # None
      <4>1. q \in counted /\ cancelling[of[q]] # None /\ of[q] \in Handles
        BY <1>1, <3>1 DEF CompletionsInv, Diverting, Counted, Started, TypeOK
      <4> QED BY <1>1, <2>4, <2>5, <4>1
    <3> QED BY <1>1, <2>9, <3>1 DEF CompletionsInv, Diverting
  <2> QED BY <1>3, <1>4, <2>6, <2>9, <2>10, <2>11 DEF CompletionsInv
<1>6. CASE ~Diverted(p)
  <2>1. Complete(p) /\ cancelling' = cancelling
    BY <1>6 DEF Settled
  <2>2. /\ Pushed' = Append(Pushed, p) /\ Completer'
        /\ batch' \in Seq(Promises) /\ queue' \in Seq(Promises)
        /\ cpc' \in {"none", "poll", "parked", "handle", "panicked"}
    BY <2>1, CompleteFacts DEF CompletionsInv
  <2>3. TypeOK'
    BY <1>1, <1>3, <2>1, <2>2 DEF TypeOK
  <2>4. /\ ToSet(Pushed') = ToSet(Pushed) \cup {p} /\ Packets' = Packets \cup {p}
        /\ IsInjective(Pushed') <=> IsInjective(Pushed) /\ p \notin ToSet(Pushed)
    BY <1>1, <2>2, AppendedQueue, PacketFacts DEF Packets
  <2>5. /\ \A k \in Handles : Dropped(k)' = Dropped(k)
        /\ Diverts' = Diverts
    BY <2>1 DEF Dropped, Diverts
  <2>6. result[p] # "cancelled"
    BY <1>1, <1>6 DEF CompletionsInv, Diverting, Diverted
  <2>7. Owned'
    <3>1. Apart' /\ Started' = (pending \cup settling \cup Diverts \cup Packets \cup Helds
                                  \cup released \cup forgotten)'
      BY <1>1, <1>2, <1>4, <2>4, <2>5 DEF CompletionsInv, Owned, Apart
    <3>2. /\ IsInjective(Pushed') /\ IsInjective(delivered')
          /\ ToSet(delivered') \cap ToSet(Pushed') = {}
      BY <1>1, <1>2, <2>4 DEF CompletionsInv, Owned, Packets
    <3> QED BY <1>1, <2>5, <3>1, <3>2 DEF CompletionsInv, Owned
  <2>8. Diverting'
    BY <1>1, <2>1, <2>4, <2>6 DEF CompletionsInv, Diverting
  <2> QED BY <1>3, <1>4, <2>2, <2>3, <2>7, <2>8 DEF CompletionsInv
<1> QED BY <1>5, <1>6

-----------------------------------------------------------------------------
(* Operations are cancelled.                                               *)

LEMMA CancelInv ==
  ASSUME TypeOK, CompletionsInv, NEW t \in Callers, NEW h \in Handles, Cancel(t, h)
  PROVE  TypeOK' /\ CompletionsInv'
<1> DEFINE stops == {p \in pending \cap stoppable : of[p] = h}
<1>1. /\ tpc[t] = "idle"
      /\ cancelling' = [cancelling EXCEPT ![h] = IF @ = None THEN {} ELSE @]
      /\ pending' = pending \ stops /\ settling' = settling \cup stops
      /\ result' = [p \in Promises |-> IF p \in stops THEN "cancelled" ELSE result[p]]
      /\ tpc' = [tpc EXCEPT ![t] = "cancelled"] /\ target' = [target EXCEPT ![t] = h]
      /\ UNCHANGED <<mode, waiting, orphans, queue, of, stoppable, counted, cpc, batch, delivered,
                     held, released, forgotten>>
  BY DEF Cancel, completer
<1>2. stops \subseteq pending /\ \A p \in stops : of[p] = h
  OBVIOUS
<1> HIDE DEF stops
<1>3. /\ cancelling' \in [Handles -> (SUBSET Promises) \cup {None}]
      /\ cancelling'[h] = IF cancelling[h] = None THEN {} ELSE cancelling[h]
      /\ \A k \in Handles : k # h => cancelling'[k] = cancelling[k]
  <2>1. cancelling[h] \in (SUBSET Promises) \cup {None}
    BY DEF TypeOK
  <2>2. (IF cancelling[h] = None THEN {} ELSE cancelling[h]) \in (SUBSET Promises) \cup {None}
    BY <2>1
  <2> QED BY <1>1, <2>2 DEF TypeOK
<1>4. {} # None
  BY CompletionsAssumption
<1>5. TypeOK'
  <2>1. /\ result' \in [Promises -> {None, "done", "cancelled", "failure"}]
        /\ tpc' \in [Callers -> {"idle", "cancelled", "awaiting", "releasing"}]
        /\ target' \in [Callers -> Handles \cup {None}]
    BY <1>1 DEF TypeOK
  <2> QED BY <1>1, <1>2, <1>3, <2>1 DEF TypeOK
<1>6. \A k \in Handles : Dropped(k)' = Dropped(k)
  BY <1>3, <1>4 DEF Dropped
<1>7. /\ Diverts' = Diverts /\ Helds' = Helds /\ Packets' = Packets /\ Pushed' = Pushed
      /\ Started' = Started /\ pending' \cup settling' = pending \cup settling
      /\ \A k \in Handles : Unsettled(k)' = Unsettled(k)
  BY <1>1, <1>2, <1>6 DEF Diverts, Helds, Packets, Pushed, Started, Unsettled
<1>8. Owned'
  <2>1. Apart' /\ Started' = (pending \cup settling \cup Diverts \cup Packets \cup Helds
                                \cup released \cup forgotten)'
    BY <1>1, <1>2, <1>7 DEF CompletionsInv, Owned, Apart
  <2> QED BY <1>1, <1>6, <1>7, <2>1 DEF CompletionsInv, Owned
<1>9. Counted'
  BY <1>1, <1>7 DEF CompletionsInv, Counted
<1>10. Diverting'
  <2>1. ASSUME NEW p \in settling', result'[p] = "cancelled"
        PROVE  p \in counted' /\ cancelling'[of'[p]] # None
    <3>1. CASE p \in stops
      BY <1>1, <1>2, <1>3, <1>4, <3>1 DEF CompletionsInv, Counted
    <3>2. CASE p \notin stops
      <4>1. p \in settling /\ p \in Promises /\ result[p] = "cancelled"
        BY <1>1, <2>1, <3>2 DEF TypeOK
      <4>2. p \in counted /\ cancelling[of[p]] # None /\ of[p] \in Handles
        BY <4>1 DEF CompletionsInv, Diverting, Counted, Started, TypeOK
      <4> QED BY <1>1, <1>3, <1>4, <4>2
    <3> QED BY <3>1, <3>2
  <2>2. \A p \in Packets' : result'[p] # "cancelled"
    BY <1>1, <1>2, <1>7, PacketFacts DEF CompletionsInv, Diverting, Owned, Apart
  <2> QED BY <2>1, <2>2 DEF Diverting
<1>11. Asked'
  BY <1>1 DEF TypeOK, CompletionsInv, Asked
<1>12. Completer'
  BY <1>1 DEF CompletionsInv, Completer
<1> QED BY <1>5, <1>8, <1>9, <1>10, <1>11, <1>12 DEF CompletionsInv

\* The list of a handle is taken while nothing of it that was cancelled still settles.
LEMMA TakenList ==
  ASSUME TypeOK, CompletionsInv, NEW h \in Handles, cancelling' = [cancelling EXCEPT ![h] = None],
         \A p \in settling : result[p] = "cancelled" => of[p] # h,
         UNCHANGED <<pending, settling, waiting, of, counted, result, delivered, batch, queue>>
  PROVE  /\ cancelling' \in [Handles -> (SUBSET Promises) \cup {None}]
         /\ Dropped(h)' = {} /\ \A k \in Handles : k # h => Dropped(k)' = Dropped(k)
         /\ Dropped(h) \subseteq Diverts /\ Diverts' = Diverts \ Dropped(h)
         /\ Pushed' = Pushed /\ Packets' = Packets /\ Started' = Started
         /\ Counted' /\ Diverting'
<1>1. /\ cancelling' \in [Handles -> (SUBSET Promises) \cup {None}]
      /\ cancelling'[h] = None
      /\ \A k \in Handles : k # h => cancelling'[k] = cancelling[k]
  BY DEF TypeOK
<1>2. Dropped(h)' = {} /\ \A k \in Handles : k # h => Dropped(k)' = Dropped(k)
  BY <1>1 DEF Dropped
<1>3. \A k \in Handles : k # h => Dropped(k) \cap Dropped(h) = {}
  BY DEF CompletionsInv, Owned
<1>4. Dropped(h) \subseteq Diverts /\ Diverts' = Diverts \ Dropped(h)
  BY <1>2, <1>3 DEF Diverts
<1>5. /\ Pushed' = Pushed /\ Packets' = Packets /\ Started' = Started
      /\ \A k \in Handles : Unsettled(k)' = Unsettled(k)
  BY DEF Pushed, Packets, Started, Unsettled
<1>6. Counted'
  BY <1>5 DEF CompletionsInv, Counted
<1>7. Diverting'
  <2>1. ASSUME NEW p \in settling', result'[p] = "cancelled"
        PROVE  p \in counted' /\ cancelling'[of'[p]] # None
    <3>1. p \in counted /\ cancelling[of[p]] # None /\ of[p] \in Handles /\ of[p] # h
      BY <2>1 DEF CompletionsInv, Diverting, Counted, Started, TypeOK
    <3> QED BY <1>1, <3>1
  <2> QED BY <1>5, <2>1 DEF CompletionsInv, Diverting
<1> QED BY <1>1, <1>2, <1>4, <1>5, <1>6, <1>7

LEMMA GiveInv ==
  ASSUME TypeOK, CompletionsInv, NEW t \in Callers, tpc[t] \in {"cancelled", "awaiting"},
         \A p \in settling : result[p] = "cancelled" => of[p] # target[t],
         Give(t, target[t]),
         UNCHANGED <<mode, pending, settling, waiting, orphans, queue, promiseInfo, completer, target,
                     released, forgotten>>
  PROVE  TypeOK' /\ CompletionsInv'
<1>1. PICK h \in Handles : h = target[t] /\ held[t] = {}
  BY DEF CompletionsInv, Asked
<1>2. /\ held' = [held EXCEPT ![t] = Dropped(h)] /\ cancelling' = [cancelling EXCEPT ![h] = None]
      /\ tpc' = [tpc EXCEPT ![t] = "releasing"]
      /\ UNCHANGED <<of, stoppable, counted, result, cpc, batch, delivered>>
      /\ \A p \in settling : result[p] = "cancelled" => of[p] # h
  BY <1>1 DEF Give, promiseInfo, completer
<1>3. /\ cancelling' \in [Handles -> (SUBSET Promises) \cup {None}]
      /\ Dropped(h)' = {} /\ \A k \in Handles : k # h => Dropped(k)' = Dropped(k)
      /\ Dropped(h) \subseteq Diverts /\ Diverts' = Diverts \ Dropped(h)
      /\ Pushed' = Pushed /\ Packets' = Packets /\ Started' = Started
      /\ Counted' /\ Diverting'
  BY <1>1, <1>2, TakenList
<1>4. /\ held' \in [Callers -> SUBSET Promises] /\ held'[t] = Dropped(h)
      /\ \A u \in Callers : u # t => held'[u] = held[u]
  <2>1. Dropped(h) \in SUBSET Promises
    BY <1>1, SetsTyped
  <2> QED BY <1>2, <2>1 DEF TypeOK
<1>5. TypeOK'
  BY <1>2, <1>3, <1>4 DEF TypeOK
<1>6. Helds' = Helds \cup Dropped(h)
  BY <1>1, <1>4 DEF Helds
<1>7. Owned'
  <2>1. Apart' /\ Started' = (pending \cup settling \cup Diverts \cup Packets \cup Helds
                                \cup released \cup forgotten)'
    BY <1>2, <1>3, <1>6 DEF CompletionsInv, Owned, Apart
  <2>2. \A k \in Handles : \A q \in Dropped(k)' : of'[q] = k
    BY <1>2, <1>3 DEF CompletionsInv, Owned
  <2>3. ASSUME NEW u \in Callers, NEW v \in Callers, u # v
        PROVE  held'[u] \cap held'[v] = {}
    <3>1. \A w \in Callers : held[w] \cap Dropped(h) = {}
      BY <1>3 DEF CompletionsInv, Owned, Apart, Helds
    <3> QED BY <1>4, <2>3, <3>1 DEF CompletionsInv, Owned
  <2> QED BY <1>2, <1>3, <2>1, <2>2, <2>3 DEF CompletionsInv, Owned
<1>8. Asked'
  BY <1>2, <1>4 DEF TypeOK, CompletionsInv, Asked
<1>9. Completer'
  BY <1>2 DEF CompletionsInv, Completer
<1> QED BY <1>3, <1>5, <1>7, <1>8, <1>9 DEF CompletionsInv

\* When the counter of a handle is zero, nothing of it that was cancelled still settles.
LEMMA NothingSettles ==
  ASSUME TypeOK, CompletionsInv, NEW h \in Handles, waiting[h] = 0
  PROVE  \A p \in settling : result[p] = "cancelled" => of[p] # h
<1>1. IsFiniteSet(Unsettled(h))
  <2>1. Unsettled(h) \subseteq pending \cup settling
    BY DEF Unsettled
  <2> QED BY <2>1, FS_Subset DEF CompletionsInv, Counted
<1>2. Unsettled(h) = {}
  BY <1>1, FS_EmptySet DEF CompletionsInv, Counted
<1> QED BY <1>2 DEF Unsettled, CompletionsInv, Diverting

LEMMA TakeNowInv ==
  ASSUME TypeOK, CompletionsInv, NEW t \in Callers, TakeNow(t)
  PROVE  TypeOK' /\ CompletionsInv'
<1>1. target[t] \in Handles /\ waiting[target[t]] = 0 /\ tpc[t] = "cancelled"
  BY DEF TakeNow, CompletionsInv, Asked
<1>2. \A p \in settling : result[p] = "cancelled" => of[p] # target[t]
  BY <1>1, NothingSettles
<1> QED BY <1>1, <1>2, GiveInv DEF TakeNow

LEMMA TakeImmediateInv ==
  ASSUME TypeOK, CompletionsInv, NEW t \in Callers, TakeImmediate(t)
  PROVE  TypeOK' /\ CompletionsInv'
BY GiveInv DEF TakeImmediate, Macrotask

LEMMA TakeOrphanInv ==
  ASSUME TypeOK, CompletionsInv, NEW h \in Handles, TakeOrphan(h)
  PROVE  TypeOK' /\ CompletionsInv'
<1>1. /\ settling = {} /\ orphans' = orphans \ {h} /\ forgotten' = forgotten \cup Dropped(h)
      /\ cancelling' = [cancelling EXCEPT ![h] = None]
      /\ UNCHANGED <<mode, pending, settling, waiting, queue, of, stoppable, counted, result, cpc,
                     batch, delivered, tpc, target, held, released>>
  BY DEF TakeOrphan, Macrotask, promiseInfo, completer, threadState
<1>2. /\ cancelling' \in [Handles -> (SUBSET Promises) \cup {None}]
      /\ Dropped(h)' = {} /\ \A k \in Handles : k # h => Dropped(k)' = Dropped(k)
      /\ Dropped(h) \subseteq Diverts /\ Diverts' = Diverts \ Dropped(h)
      /\ Pushed' = Pushed /\ Packets' = Packets /\ Started' = Started
      /\ Counted' /\ Diverting'
  BY <1>1, TakenList
<1>3. Dropped(h) \subseteq Promises
  BY SetsTyped
<1>4. TypeOK'
  BY <1>1, <1>2, <1>3 DEF TypeOK
<1>5. Helds' = Helds /\ Asked' /\ Completer'
  BY <1>1 DEF Helds, CompletionsInv, Asked, Completer
<1>6. Owned'
  <2>1. Apart' /\ Started' = (pending \cup settling \cup Diverts \cup Packets \cup Helds
                                \cup released \cup forgotten)'
    BY <1>1, <1>2, <1>5 DEF CompletionsInv, Owned, Apart
  <2>2. \A k \in Handles : \A q \in Dropped(k)' : of'[q] = k
    BY <1>1, <1>2 DEF CompletionsInv, Owned
  <2> QED BY <1>1, <1>2, <2>1, <2>2 DEF CompletionsInv, Owned
<1> QED BY <1>2, <1>4, <1>5, <1>6 DEF CompletionsInv

LEMMA ReleaseDroppedInv ==
  ASSUME TypeOK, CompletionsInv, NEW t \in Callers, ReleaseDropped(t)
  PROVE  TypeOK' /\ CompletionsInv'
<1>1. /\ released' = released \cup held[t] /\ held' = [held EXCEPT ![t] = {}]
      /\ tpc' = [tpc EXCEPT ![t] = "idle"] /\ target' = [target EXCEPT ![t] = None]
      /\ UNCHANGED <<mode, pending, settling, waiting, cancelling, orphans, queue, of, stoppable,
                     counted, result, cpc, batch, delivered, forgotten>>
  BY DEF ReleaseDropped, hostState, promiseInfo, completer
<1>2. /\ held' \in [Callers -> SUBSET Promises] /\ held'[t] = {}
      /\ \A u \in Callers : u # t => held'[u] = held[u]
  BY <1>1 DEF TypeOK
<1>3. held[t] \subseteq Promises /\ held[t] \subseteq Helds
  BY SetsTyped DEF Helds
<1>4. TypeOK'
  BY <1>1, <1>2, <1>3 DEF TypeOK
<1>5. Helds' = Helds \ held[t]
  BY <1>2 DEF Helds, CompletionsInv, Owned
<1>6. /\ Diverts' = Diverts /\ Packets' = Packets /\ Pushed' = Pushed /\ Started' = Started
      /\ \A k \in Handles : Dropped(k)' = Dropped(k) /\ Unsettled(k)' = Unsettled(k)
  BY <1>1 DEF Diverts, Dropped, Packets, Pushed, Started, Unsettled
<1>7. Owned'
  <2>1. Apart' /\ Started' = (pending \cup settling \cup Diverts \cup Packets \cup Helds
                                \cup released \cup forgotten)'
    BY <1>1, <1>3, <1>5, <1>6 DEF CompletionsInv, Owned, Apart
  <2>2. \A u, v \in Callers : u # v => held'[u] \cap held'[v] = {}
    BY <1>2 DEF CompletionsInv, Owned
  <2> QED BY <1>1, <1>6, <2>1, <2>2 DEF CompletionsInv, Owned
<1>8. Counted' /\ Diverting' /\ Completer'
  BY <1>1, <1>6 DEF CompletionsInv, Counted, Diverting, Completer
<1>9. Asked'
  BY <1>1, <1>2 DEF TypeOK, CompletionsInv, Asked
<1> QED BY <1>4, <1>7, <1>8, <1>9 DEF CompletionsInv

-----------------------------------------------------------------------------
LEMMA StepInv == TypeOK /\ CompletionsInv /\ [Next]_vars => TypeOK' /\ CompletionsInv'
<1> SUFFICES ASSUME TypeOK, CompletionsInv, [Next]_vars
             PROVE  TypeOK' /\ CompletionsInv'
  OBVIOUS
<1>1. ASSUME NEW t \in Callers, NEW p \in Promises, NEW h \in Handles,
             \/ StartRefused(t, p, h) \/ StartAnswered(t, p, h)
             \/ \E stop \in BOOLEAN : StartPending(t, p, h, stop)
      PROVE  TypeOK' /\ CompletionsInv'
  BY <1>1, StartRefusedInv, StartAnsweredInv, StartPendingInv
<1>2. ASSUME NEW t \in Callers,
             \/ \E h \in Handles : Cancel(t, h)
             \/ TakeNow(t) \/ TakeLater(t) \/ TakeImmediate(t) \/ ReleaseDropped(t)
      PROVE  TypeOK' /\ CompletionsInv'
  BY <1>2, CancelInv, TakeNowInv, TakeLaterInv, TakeImmediateInv, ReleaseDroppedInv
<1>3. ASSUME NEW p \in Promises, Settled(p) \/ \E r \in {"done", "failure"} : OperationEnds(p, r)
      PROVE  TypeOK' /\ CompletionsInv'
  BY <1>3, SettledInv, OperationEndsInv
<1>4. CASE (\E h \in Handles : TakeOrphan(h)) \/ Poll \/ Handle \/ EnterCallback \/ LeaveCallback
  BY <1>4, TakeOrphanInv, PollInv, HandleInv, CallbackInv
<1>5. CASE UNCHANGED vars
  <2> USE <1>5 DEF vars, hostState, promiseInfo, completer, threadState
  <2>1. TypeOK'
    BY DEF TypeOK
  <2>2. Owned' /\ Counted' /\ Diverting'
    BY SamePlaces DEF Pushed
  <2>3. Asked' /\ Completer'
    BY DEF CompletionsInv, Asked, Completer
  <2> QED BY <2>1, <2>2, <2>3 DEF CompletionsInv
<1> QED BY <1>1, <1>2, <1>3, <1>4, <1>5 DEF Next

LEMMA Invariance == Spec => [](TypeOK /\ CompletionsInv)
BY InitInv, StepInv, PTL DEF Spec

\* The parts of Owners that may name several owners of one kind.
LEMMA OwnerKinds ==
  ASSUME TypeOK, CompletionsInv, NEW p \in Promises
  PROVE  LET flow == delivered \o batch \o queue
             D == {<<"diverted", h>> : h \in {k \in Handles : p \in Dropped(k)}}
             P == {<<"packet", i>> : i \in {j \in DOMAIN flow : flow[j] = p}}
             H == {<<"held", t>> : t \in {u \in Callers : p \in held[u]}}
         IN /\ IF p \in Diverts THEN \E x : D = {x} ELSE D = {}
            /\ IF p \in Packets THEN \E x : P = {x} ELSE P = {}
            /\ IF p \in Helds THEN \E x : H = {x} ELSE H = {}
<1> DEFINE flow == delivered \o batch \o queue
           D == {<<"diverted", h>> : h \in {k \in Handles : p \in Dropped(k)}}
           P == {<<"packet", i>> : i \in {j \in DOMAIN flow : flow[j] = p}}
           H == {<<"held", t>> : t \in {u \in Callers : p \in held[u]}}
<1>1. IF p \in Diverts THEN \E x : D = {x} ELSE D = {}
  <2>1. CASE p \in Diverts
    <3>1. PICK h \in Handles : p \in Dropped(h)
      BY <2>1 DEF Diverts
    <3>2. \A k \in Handles : p \in Dropped(k) => k = h
      BY <3>1 DEF CompletionsInv, Owned
    <3>3. {k \in Handles : p \in Dropped(k)} = {h}
      BY <3>1, <3>2
    <3>4. D = {<<"diverted", h>>}
      BY <3>3
    <3> QED BY <2>1, <3>4
  <2>2. CASE p \notin Diverts
    <3>1. {k \in Handles : p \in Dropped(k)} = {}
      BY <2>2 DEF Diverts
    <3> QED BY <2>2, <3>1
  <2> QED BY <2>1, <2>2
<1>2. IF p \in Packets THEN \E x : P = {x} ELSE P = {}
  <2>1. /\ flow \in Seq(Promises) /\ ToSet(flow) = Packets /\ IsInjective(flow)
    BY PacketFacts DEF CompletionsInv, Owned
  <2> HIDE DEF flow
  <2>2. /\ DOMAIN flow = 1..Len(flow) /\ Packets = {flow[i] : i \in 1..Len(flow)}
        /\ \A i, j \in 1..Len(flow) : flow[i] = flow[j] => i = j
    BY <2>1, ToSetDef, LenProperties
  <2>3. CASE p \in Packets
    <3>1. PICK i \in 1..Len(flow) : flow[i] = p
      BY <2>2, <2>3
    <3>2. {j \in DOMAIN flow : flow[j] = p} = {i}
      BY <2>2, <3>1
    <3>3. P = {<<"packet", i>>}
      BY <3>2
    <3> QED BY <2>3, <3>3
  <2>4. CASE p \notin Packets
    <3>1. {j \in DOMAIN flow : flow[j] = p} = {}
      BY <2>2, <2>4
    <3> QED BY <2>4, <3>1
  <2> QED BY <2>3, <2>4
<1>3. IF p \in Helds THEN \E x : H = {x} ELSE H = {}
  <2>1. CASE p \in Helds
    <3>1. PICK t \in Callers : p \in held[t]
      BY <2>1 DEF Helds
    <3>2. \A u \in Callers : p \in held[u] => u = t
      BY <3>1 DEF CompletionsInv, Owned
    <3>3. {u \in Callers : p \in held[u]} = {t}
      BY <3>1, <3>2
    <3>4. H = {<<"held", t>>}
      BY <3>3
    <3> QED BY <2>1, <3>4
  <2>2. CASE p \notin Helds
    <3>1. {u \in Callers : p \in held[u]} = {}
      BY <2>2 DEF Helds
    <3> QED BY <2>2, <3>1
  <2> QED BY <2>1, <2>2
<1> QED BY <1>1, <1>2, <1>3

LEMMA OwnedOnce == ASSUME TypeOK, CompletionsInv PROVE OneOwner
<1> SUFFICES ASSUME NEW p \in Promises
             PROVE  Cardinality(Owners(p)) = IF p \in Started THEN 1 ELSE 0
  BY DEF OneOwner
<1> DEFINE flow == delivered \o batch \o queue
           D == {<<"diverted", h>> : h \in {k \in Handles : p \in Dropped(k)}}
           P == {<<"packet", i>> : i \in {j \in DOMAIN flow : flow[j] = p}}
           H == {<<"held", t>> : t \in {u \in Callers : p \in held[u]}}
<1>1. /\ IF p \in Diverts THEN \E x : D = {x} ELSE D = {}
      /\ IF p \in Packets THEN \E x : P = {x} ELSE P = {}
      /\ IF p \in Helds THEN \E x : H = {x} ELSE H = {}
  BY OwnerKinds
<1>2. Owners(p) = (IF p \in pending THEN {"operation"} ELSE {})
                    \cup (IF p \in settling THEN {"reaction"} ELSE {}) \cup D \cup P \cup H
                    \cup (IF p \in released THEN {"released"} ELSE {})
                    \cup (IF p \in forgotten THEN {"forgotten"} ELSE {})
  BY DEF Owners
<1> HIDE DEF D, P, H
<1>3. CASE p \in Started
  <2>1. \/ p \in pending \/ p \in settling \/ p \in Diverts \/ p \in Packets \/ p \in Helds
        \/ p \in released \/ p \in forgotten
    BY <1>3 DEF CompletionsInv, Owned
  <2>2. Apart
    BY DEF CompletionsInv, Owned
  <2>3. ASSUME p \in pending \cup settling
        PROVE  \E x : Owners(p) = {x}
    <3>1. D = {} /\ P = {} /\ H = {}
      BY <1>1, <2>2, <2>3 DEF Apart
    <3> QED BY <1>2, <2>2, <2>3, <3>1 DEF Apart
  <2>4. ASSUME p \in released \cup forgotten
        PROVE  \E x : Owners(p) = {x}
    <3>1. D = {} /\ P = {} /\ H = {}
      BY <1>1, <2>2, <2>4 DEF Apart
    <3> QED BY <1>2, <2>2, <2>4, <3>1 DEF Apart
  <2>5. ASSUME p \in Diverts \cup Packets \cup Helds
        PROVE  \E x : Owners(p) = {x}
    <3>1. Owners(p) = D \cup P \cup H
      BY <1>2, <2>2, <2>5 DEF Apart
    <3>2. \E x : D \cup P \cup H = {x}
      BY <1>1, <2>2, <2>5 DEF Apart
    <3> QED BY <3>1, <3>2
  <2>6. \E x : Owners(p) = {x}
    BY <2>1, <2>3, <2>4, <2>5
  <2> QED BY <1>3, <2>6, FS_Singleton
<1>4. CASE p \notin Started
  <2>1. Owners(p) = {}
    BY <1>1, <1>2, <1>4 DEF CompletionsInv, Owned
  <2> QED BY <1>4, <2>1, FS_EmptySet
<1> QED BY <1>3, <1>4

\* The types always hold; in particular no handle's waiting count goes below zero.
THEOREM Typed == Spec => []TypeOK
BY Invariance, PTL

\* The pointers of an operation have one owner from op 94 on: they are not handled
\* twice, and not lost, however completions, cancel calls and callbacks interleave.
THEOREM PointersHaveOneOwner == Spec => []OneOwner
BY Invariance, OwnedOnce, PTL

\* What a cancel call stopped never reaches the completion thread.
THEOREM CancelledAreDiverted == Spec => []CancelledByCaller
<1>1. TypeOK /\ CompletionsInv => CancelledByCaller
  <2>1. ASSUME TypeOK, CompletionsInv
        PROVE  CancelledByCaller
    BY <2>1, PacketFacts DEF CompletionsInv, Diverting, CancelledByCaller
  <2> QED BY <2>1
<1> QED BY <1>1, Invariance, PTL

-----------------------------------------------------------------------------
(* The refinement.                                                         *)

\* A step queues one packet, delivers the oldest, or leaves the packets alone.
LEMMA StepRefines ==
  ASSUME TypeOK, CompletionsInv, [Next]_vars
  PROVE  [Events!Next]_<<Pushed, delivered>>
<1>1. ASSUME NEW p \in Promises, Settled(p)
      PROVE  [Events!Next]_<<Pushed, delivered>>
  <2>1. CASE Diverted(p)
    BY <1>1, <2>1 DEF Settled, Pushed
  <2>2. CASE ~Diverted(p)
    <3>1. Pushed' = Append(Pushed, p) /\ UNCHANGED delivered
      BY <1>1, <2>2, CompleteFacts DEF Settled, CompletionsInv
    <3>2. p \notin Packets
      BY <1>1 DEF Settled, CompletionsInv, Owned, Apart
    <3> QED BY <3>1, <3>2
            DEF Events!Next, Events!Push, Events!ToSet, ToSet, Packets, Pushed
  <2> QED BY <2>1, <2>2
<1>2. CASE Handle
  BY <1>2, HandleFacts DEF CompletionsInv, Events!Next, Events!Deliver, Pushed
<1>3. CASE Poll
  BY <1>3, PollFacts DEF CompletionsInv, Poll
<1>4. ASSUME NEW t \in Callers, NEW p \in Promises, NEW h \in Handles,
             \/ StartRefused(t, p, h) \/ StartAnswered(t, p, h)
             \/ \E stop \in BOOLEAN : StartPending(t, p, h, stop)
      PROVE  UNCHANGED <<Pushed, delivered>>
  BY <1>4 DEF StartRefused, StartAnswered, StartPending, Starts, Pushed
<1>5. ASSUME NEW t \in Callers,
             \/ \E h \in Handles : Cancel(t, h)
             \/ TakeNow(t) \/ TakeLater(t) \/ TakeImmediate(t) \/ ReleaseDropped(t)
      PROVE  UNCHANGED <<Pushed, delivered>>
  BY <1>5 DEF Cancel, TakeNow, TakeLater, TakeImmediate, ReleaseDropped, completer, hostState, Pushed
<1>6. ASSUME NEW p \in Promises, NEW r \in {"done", "failure"}, OperationEnds(p, r)
      PROVE  UNCHANGED <<Pushed, delivered>>
  BY <1>6 DEF OperationEnds, completer, Pushed
<1>7. CASE (\E h \in Handles : TakeOrphan(h)) \/ EnterCallback \/ LeaveCallback
  BY <1>7 DEF TakeOrphan, EnterCallback, LeaveCallback, completer, Pushed
<1>8. CASE UNCHANGED vars
  BY <1>8 DEF vars, hostState, completer, Pushed
<1> QED BY <1>1, <1>2, <1>3, <1>4, <1>5, <1>6, <1>7, <1>8 DEF Next

\* Packets reach the completion thread once each and in the order of completion,
\* whether they were queued or went to a waiting poll, in batches of any size.
THEOREM PacketsAreQueued == Spec => Implements
<1>1. Init => Events!Init
  <2>1. <<>> \o <<>> = <<>>
    BY EmptySeq, ConcatEmptySeq
  <2> QED BY <2>1 DEF Init, Events!Init
<1>2. TypeOK /\ CompletionsInv /\ [Next]_vars => [Events!Next]_<<batch \o queue, delivered>>
  BY StepRefines DEF Pushed
<1> QED BY <1>1, <1>2, Invariance, PTL DEF Spec, Implements, Events!Spec
=============================================================================
