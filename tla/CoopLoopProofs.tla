---------------------------- MODULE CoopLoopProofs ----------------------------
(***************************************************************************)
(* Theorems about the cooperative runtime, for any tasks, timers, requests *)
(* and bounds: its types, one reference of the host to every pending       *)
(* promise, waiters whose timer will fire, promises settled by their own   *)
(* generation, blocking calls nested as the stack is, and no false report  *)
(* of a deadlock.                                                          *)
(*                                                                         *)
(* The invariant has two halves.  HostTypeOK /\ HostInv is about the       *)
(* host's tables: OneReference is inductive only as Referenced (what is    *)
(* queued, waited for, lost and outbound are disjoint, and together the    *)
(* pending promises), which needs Generations (no generation to come has a *)
(* promise yet), which needs Records (the record of a timer and the        *)
(* generation its object keeps agree).  Histories follows each generation  *)
(* to its one end.  LeanTypeOK /\ LeanInv is about the stack: a wait is    *)
(* always on top of a frame that runs, so what the runtime pops is a wait  *)
(* and what the program pops is not; and whoever goes to wait found        *)
(* nothing to run and has seen no promise end since.  The second half uses *)
(* the first for WaitFails; the first half does not use the second.        *)
(***************************************************************************)
EXTENDS CoopLoop, QueueLemmas

Entry == [of : Promise, ok : BOOLEAN]
TimerRecord == [phase : 0..2, gen : 0..Budget, has : BOOLEAN,
                done : BOOLEAN, armed : BOOLEAN, left : Nat]
TimerPromise == Timers \X (1..Budget)

\* The types of the host's tables and of what the program holds of them.
HostTypeOK ==
    /\ budget \in 0..Budget
    /\ promise \in [Promise -> {"unused", "pending", "value", "none"}]
    /\ held \subseteq Timers /\ alive \subseteq Timers
    /\ wrap \in [Timers -> 0..Budget]
    /\ timer \in [Timers -> TimerRecord]
    /\ waiters \subseteq Promise /\ lost \subseteq Promise
    /\ outbound \subseteq Requests /\ arrived \subseteq Requests
    /\ completions \in Seq(Entry)
    /\ fired \subseteq Promise /\ cancelled \subseteq Promise

\* The types of the stack, the task manager and the blocking calls.
LeanTypeOK ==
    /\ pc \in {"lean", "loop", "wait", "repoll", "failed", "exited"}
    /\ stack \in Seq(Frame)
    /\ queue \in Seq(Tasks)
    /\ job \in [Tasks -> {"new", "bound", "queued", "running", "done"}]
    /\ dep \in [Tasks -> Promise \cup {NoPromise}]
    /\ blocking \in Seq(0..MaxSleep)

-----------------------------------------------------------------------------
(* The invariant of the host's tables.                                     *)

\* A timer's record r, while its object keeps generation w of it and the program
\* may make b more calls.
Good(r, w, b) ==
    /\ r.gen + b <= Budget
    /\ r.phase = 0 => ~r.has
    /\ r.phase = 1 => r.armed
    /\ r.has /\ ~r.done => r.phase = 1
    /\ r.has => r.gen # 0
    /\ w \in {0, r.gen}

Records ==
    /\ held \subseteq alive
    /\ \A t \in Timers : /\ Good(timer[t], wrap[t], budget)
                         /\ t \in held /\ timer[t].has => wrap[t] = timer[t].gen

\* The generations of a timer that have promises.
Generations == \A t \in Timers : \A g \in 1..Budget :
    promise[<<t, g>>] # "unused" =>
        /\ g <= timer[t].gen
        /\ t \in held /\ g = timer[t].gen => wrap[t] = g

\* How the generations that ended have ended.
Histories == \A t \in Timers : \A g \in 1..Budget :
    /\ <<t, g>> \in fired => g < timer[t].gen \/ (g = timer[t].gen /\ timer[t].done)
    /\ <<t, g>> \in cancelled => g < timer[t].gen
    /\ <<t, g>> \notin fired \cap cancelled
    /\ promise[<<t, g>>] = "value" => <<t, g>> \in fired
    /\ promise[<<t, g>>] = "none" => <<t, g>> \in cancelled

\* The completions c of timers tell the truth about the histories f and k.
Entries(c, f, k) == \A i \in DOMAIN c :
    c[i].of \notin Requests => c[i].of \in IF c[i].ok THEN f ELSE k

Of(c) == {c[i].of : i \in DOMAIN c}
Unique(c) == \A i, j \in DOMAIN c : c[i].of = c[j].of => i = j

\* Every pending promise is in one table of the host, once.
Referenced ==
    /\ Unique(completions)
    /\ Of(completions) \cap (waiters \cup lost \cup outbound) = {}
    /\ waiters \cap lost = {} /\ (waiters \cup lost) \cap outbound = {}
    /\ \A p \in Promise : promise[p] = "pending"
                          <=> p \in Of(completions) \cup waiters \cup lost \cup outbound

Waiting == /\ waiters \subseteq TimerPromise /\ lost \subseteq TimerPromise
           /\ WaitersWillBeSettled

HostInv ==
    /\ Records /\ Generations /\ Histories /\ Entries(completions, fired, cancelled)
    /\ Referenced /\ Waiting

-----------------------------------------------------------------------------
(* The invariant of the Lean stack.                                        *)

IsWait(f) == f.kind \in {"get", "sleep"}

\* main is at the bottom; a wait is on top of main or a task, a task on top of a wait.
Stacked(s) ==
    /\ s # <<>>
    /\ \A i \in 1..Len(s) : /\ s[i].kind = "main" <=> i = 1
                            /\ i # 1 => (IsWait(s[i]) <=> ~IsWait(s[i - 1]))

\* The program runs on top of main or a task, the runtime on top of a wait.
Frames == Stacked(stack) /\ (pc \in {"lean", "exited"} <=> ~IsWait(Top))

\* Nothing to run, and no task or promise the innermost frame waits for has ended.
Idle == queue = <<>> /\ (Top.kind = "get" => ~WaitOver)

LeanInv ==
    /\ Frames
    /\ BlockingIsStack
    /\ pc \in {"wait", "failed"} => Idle
    /\ NoFalseDeadlock

-----------------------------------------------------------------------------
(* Listings and completions.                                               *)

\* A listing of a finite set has every element of it once.
LEMMA Listed ==
  ASSUME NEW T, NEW S \in SUBSET T, IsFiniteSet(S), NEW s \in Listings(S)
  PROVE  s \in Seq(T) /\ ToSet(s) = S /\ IsInjective(s) /\ (S = {} => s = <<>>)
<1> DEFINE n == Cardinality(S)
<1>1. n \in Nat /\ (S = {} <=> n = 0)
  BY FS_CardinalityType, FS_EmptySet
<1>2. s \in [1..n -> S] /\ \A x \in S : \E i \in 1..n : s[i] = x
  BY DEF Listings
<1>3. s \in Seq(T) /\ Len(s) = n
  BY <1>1, <1>2
<1>4. ToSet(s) = S
  BY <1>2 DEF ToSet
<1>5. IsFiniteSet(1..n) /\ Cardinality(1..n) = n
  BY <1>1, FS_Interval
<1>6. s \in Surjection(1..n, S)
  BY <1>2 DEF Surjection
<1>7. s \in Injection(1..n, S)
  BY <1>5, <1>6, FS_SurjSameCardinalityImpliesInj
<1>8. IsInjective(s)
  BY <1>7 DEF Injection
<1>9. S = {} => s = <<>>
  BY <1>1, <1>3, EmptySeq
<1> QED BY <1>3, <1>4, <1>8, <1>9

\* There are finitely many promises.
LEMMA FinitePromises == IsFiniteSet(Promise)
<1>1. IsFiniteSet(1..Budget)
  BY CoopAssumption, FS_Interval
<1>2. IsFiniteSet(Timers \X (1..Budget))
  BY <1>1, CoopAssumption, FS_Product
<1> QED BY <1>2, CoopAssumption, FS_Union DEF Promise

\* Completions with those of the promises s added.
LEMMA Recorded ==
  ASSUME NEW c \in Seq(Entry), NEW s \in Seq(Promise), NEW ok \in BOOLEAN
  PROVE  LET d == c \o Record(s, ok)
         IN  /\ d \in Seq(Entry)
             /\ Of(d) = Of(c) \cup ToSet(s)
             /\ Unique(c) /\ IsInjective(s) /\ Of(c) \cap ToSet(s) = {} => Unique(d)
             /\ \A f, k : /\ Entries(c, f, k)
                          /\ \A p \in ToSet(s) : p \notin Requests => p \in IF ok THEN f ELSE k
                          => Entries(d, f, k)
<1> DEFINE r == Record(s, ok)
           d == c \o r
<1>1. /\ Len(s) \in Nat /\ DOMAIN s = 1..Len(s) /\ \A i \in 1..Len(s) : s[i] \in Promise
      /\ Len(c) \in Nat /\ DOMAIN c = 1..Len(c) /\ \A i \in 1..Len(c) : c[i] \in Entry
  BY LenProperties, ElementOfSeq
<1>2. /\ r \in Seq(Entry) /\ Len(r) = Len(s)
      /\ \A i \in 1..Len(s) : r[i].of = s[i] /\ r[i].ok = ok
  BY <1>1 DEF Record, Entry
<1>3. /\ d \in Seq(Entry) /\ Len(d) = Len(c) + Len(s)
      /\ DOMAIN d = 1..(Len(c) + Len(s))
      /\ \A i \in 1..Len(c) : d[i] = c[i] /\ i \in DOMAIN d
      /\ \A i \in 1..Len(s) : d[i + Len(c)] = r[i] /\ i + Len(c) \in DOMAIN d
  <2> HIDE DEF r
  <2>3. r \in Seq(Entry) /\ Len(r) = Len(s)
    BY <1>2
  <2>4. /\ d \in Seq(Entry) /\ Len(d) = Len(c) + Len(r)
        /\ \A i \in 1..Len(c) + Len(r) : d[i] = IF i <= Len(c) THEN c[i] ELSE r[i - Len(c)]
    BY <2>3, ConcatProperties
  <2>1. /\ d \in Seq(Entry) /\ Len(d) = Len(c) + Len(s)
        /\ \A i \in 1..Len(c) + Len(s) : d[i] = IF i <= Len(c) THEN c[i] ELSE r[i - Len(c)]
    BY <2>3, <2>4
  <2>2. DOMAIN d = 1..(Len(c) + Len(s))
    BY <2>1, LenProperties
  <2> HIDE DEF d
  <2> QED BY SMTT(20), <1>1, <2>1, <2>2
<1> HIDE DEF r, d
<1>4. \A i \in DOMAIN d : \/ i \in 1..Len(c) /\ d[i] = c[i]
                          \/ i - Len(c) \in 1..Len(s) /\ d[i] = r[i - Len(c)]
  <2> SUFFICES ASSUME NEW i \in DOMAIN d
               PROVE  \/ i \in 1..Len(c) /\ d[i] = c[i]
                      \/ i - Len(c) \in 1..Len(s) /\ d[i] = r[i - Len(c)]
    OBVIOUS
  <2>1. CASE i <= Len(c)
    BY <1>1, <1>3, <2>1
  <2>2. CASE ~(i <= Len(c))
    <3>1. i - Len(c) \in 1..Len(s) /\ (i - Len(c)) + Len(c) = i
      BY <1>1, <1>3, <2>2
    <3> QED BY <1>3, <3>1
  <2> QED BY <2>1, <2>2
<1>5. ToSet(s) = {s[i] : i \in 1..Len(s)}
  BY <1>1 DEF ToSet
<1>6. Of(d) = Of(c) \cup ToSet(s)
  <2>1. Of(d) \subseteq Of(c) \cup ToSet(s)
    BY <1>1, <1>2, <1>4, <1>5 DEF Of
  <2>2. Of(c) \subseteq Of(d)
    BY <1>1, <1>3 DEF Of
  <2>3. ToSet(s) \subseteq Of(d)
    <3>1. ASSUME NEW i \in 1..Len(s)
          PROVE  s[i] \in Of(d)
      <4>1. i + Len(c) \in DOMAIN d /\ d[i + Len(c)].of = s[i]
        BY <1>2, <1>3
      <4> QED BY <4>1 DEF Of
    <3> QED BY <1>5, <3>1
  <2> QED BY <2>1, <2>2, <2>3
<1>7. ASSUME Unique(c), IsInjective(s), Of(c) \cap ToSet(s) = {}
      PROVE  Unique(d)
  <2> SUFFICES ASSUME NEW i \in DOMAIN d, NEW j \in DOMAIN d, d[i].of = d[j].of
               PROVE  i = j
    BY DEF Unique
  <2>1. CASE i \in 1..Len(c) /\ d[i] = c[i] /\ j \in 1..Len(c) /\ d[j] = c[j]
    BY <1>1, <1>7, <2>1 DEF Unique
  <2>2. CASE /\ i - Len(c) \in 1..Len(s) /\ d[i] = r[i - Len(c)]
             /\ j - Len(c) \in 1..Len(s) /\ d[j] = r[j - Len(c)]
    <3>1. s[i - Len(c)] = s[j - Len(c)]
      BY <1>2, <2>2
    <3>2. i - Len(c) = j - Len(c)
      BY <1>1, <1>7, <2>2, <3>1 DEF IsInjective
    <3>3. i \in Int /\ j \in Int
      BY <1>1, <1>3
    <3> QED BY <1>1, <3>2, <3>3
  <2>3. \A x \in 1..Len(c) : c[x].of \in Of(c)
    BY <1>1 DEF Of
  <2>4. \A x \in 1..Len(s) : r[x].of \in ToSet(s)
    BY <1>2, <1>5
  <2>5. CASE i \in 1..Len(c) /\ d[i] = c[i] /\ j - Len(c) \in 1..Len(s) /\ d[j] = r[j - Len(c)]
    BY <1>7, <2>3, <2>4, <2>5
  <2>6. CASE j \in 1..Len(c) /\ d[j] = c[j] /\ i - Len(c) \in 1..Len(s) /\ d[i] = r[i - Len(c)]
    BY <1>7, <2>3, <2>4, <2>6
  <2> QED BY <1>4, <2>1, <2>2, <2>5, <2>6
<1>8. ASSUME NEW f, NEW k, Entries(c, f, k),
             \A p \in ToSet(s) : p \notin Requests => p \in IF ok THEN f ELSE k
      PROVE  Entries(d, f, k)
  <2> SUFFICES ASSUME NEW i \in DOMAIN d, d[i].of \notin Requests
               PROVE  d[i].of \in IF d[i].ok THEN f ELSE k
    BY DEF Entries
  <2>1. CASE i \in 1..Len(c) /\ d[i] = c[i]
    BY <1>1, <1>8, <2>1 DEF Entries
  <2>2. CASE i - Len(c) \in 1..Len(s) /\ d[i] = r[i - Len(c)]
    <3>1. d[i].of \in ToSet(s) /\ d[i].ok = ok
      BY <1>2, <1>5, <2>2
    <3> QED BY <1>8, <3>1
  <2> QED BY <1>4, <2>1, <2>2
<1> QED BY <1>3, <1>6, <1>7, <1>8 DEF r, d

\* No completions.
LEMMA NoneRecorded ==
  /\ <<>> \in Seq(Entry) /\ Of(<<>>) = {} /\ Unique(<<>>)
  /\ \A f, k : Entries(<<>>, f, k)
BY EmptySeq DEF Of, Unique, Entries

-----------------------------------------------------------------------------
(* The host's records of the timers.                                       *)

\* What Arm, Fresh and Forget make of a record.
LEMMA ArmFacts ==
  ASSUME NEW r \in TimerRecord, NEW n \in Nat
  PROVE  /\ Arm(r, n) \in TimerRecord
         /\ Arm(r, n).phase = r.phase /\ Arm(r, n).gen = r.gen /\ Arm(r, n).has = r.has
         /\ Arm(r, n).done = r.done /\ Arm(r, n).armed = TRUE
BY Zenon DEF TimerRecord, Arm

LEMMA FreshFacts ==
  ASSUME NEW r \in TimerRecord, r.gen + 1 \in 0..Budget
  PROVE  /\ Fresh(r) \in TimerRecord
         /\ Fresh(r).phase = r.phase /\ Fresh(r).gen = r.gen + 1 /\ Fresh(r).has = TRUE
         /\ Fresh(r).done = FALSE /\ Fresh(r).armed = r.armed
BY Zenon DEF TimerRecord, Fresh

\* The record NextTimer leaves: the same, or a new generation that waits.
LEMMA NextRecordFacts ==
  ASSUME NEW t \in Timers, timer[t] \in TimerRecord, timer[t].gen + 1 \in 0..Budget,
         timer[t].phase = 1 => timer[t].armed
  PROVE  \/ /\ NextRecord(t) = timer[t] /\ timer[t].phase # 0
            /\ ~(t \in Repeating /\ timer[t].phase = 1 /\ (timer[t].done \/ ~timer[t].has))
         \/ /\ NextRecord(t) \in TimerRecord /\ NextRecord(t).phase = 1
            /\ NextRecord(t).gen = timer[t].gen + 1 /\ NextRecord(t).has
            /\ ~NextRecord(t).done /\ NextRecord(t).armed
            /\ timer[t].phase = 0 \/ timer[t].done \/ ~timer[t].has
<1> DEFINE r == timer[t]
           f == [Fresh(r) EXCEPT !.phase = 1]
           n == IF t \in Repeating THEN 0 ELSE Timeout[t]
<1>1. CASE r.phase = 0
  <2>1. f \in TimerRecord /\ f.phase = 1 /\ f.gen = r.gen + 1 /\ f.has = TRUE /\ f.done = FALSE
    <3>1. 1 \in 0..2
      OBVIOUS
    <3> QED BY <3>1, FreshFacts, Zenon DEF TimerRecord
  <2>2. n \in Nat
    BY CoopAssumption
  <2>3. NextRecord(t) = Arm(f, n)
    BY <1>1 DEF NextRecord
  <2> HIDE DEF f, n
  <2>4. /\ Arm(f, n) \in TimerRecord /\ Arm(f, n).phase = 1 /\ Arm(f, n).gen = r.gen + 1
        /\ Arm(f, n).has = TRUE /\ Arm(f, n).done = FALSE /\ Arm(f, n).armed = TRUE
    BY <2>1, <2>2, ArmFacts
  <2> QED BY <1>1, <2>3, <2>4
<1>2. CASE r.phase # 0 /\ t \in Repeating /\ r.phase = 1 /\ (r.done \/ ~r.has)
  <2>1. NextRecord(t) = Fresh(r)
    BY <1>2 DEF NextRecord
  <2> QED BY <1>2, <2>1, FreshFacts
<1>3. CASE r.phase # 0 /\ ~(t \in Repeating /\ r.phase = 1 /\ (r.done \/ ~r.has))
  BY <1>3 DEF NextRecord
<1> QED BY <1>1, <1>2, <1>3

\* The record fire_timers leaves.
LEMMA FireFacts ==
  ASSUME NEW t \in Timers, timer[t] \in TimerRecord, NEW w, NEW b, Good(timer[t], w, b)
  PROVE  /\ Fire(t) \in TimerRecord /\ Good(Fire(t), w, b)
         /\ Fire(t).gen = timer[t].gen /\ Fire(t).has = timer[t].has
         /\ Fires(t) => Fire(t).done
         /\ timer[t].done => Fire(t).done
         /\ ~Due(t) => Fire(t) = timer[t]
<1> DEFINE f == [timer[t] EXCEPT !.done = @ \/ Fires(t)]
<1>1. CASE ~Due(t)
  BY <1>1 DEF Fire, Fires
<1>2. CASE Due(t)
  <2>1. /\ f \in TimerRecord /\ f.phase = timer[t].phase /\ f.gen = timer[t].gen
        /\ f.has = timer[t].has /\ (f.done <=> timer[t].done \/ Fires(t))
    BY Zenon DEF TimerRecord
  <2>2. f.has => f.done
    BY <1>2, <2>1 DEF Fires
  <2> HIDE DEF f
  <2>3. CASE t \in Repeating /\ Timeout[t] > 0
    <3>1. Fire(t) = Arm(f, Timeout[t])
      BY <1>2, <2>3 DEF Fire, f
    <3>2. Timeout[t] \in Nat
      BY CoopAssumption
    <3>3. /\ Fire(t) \in TimerRecord /\ Fire(t).phase = f.phase /\ Fire(t).gen = f.gen
          /\ Fire(t).has = f.has /\ Fire(t).done = f.done /\ Fire(t).armed
      <4>1. /\ Arm(f, Timeout[t]) \in TimerRecord /\ Arm(f, Timeout[t]).phase = f.phase
            /\ Arm(f, Timeout[t]).gen = f.gen /\ Arm(f, Timeout[t]).has = f.has
            /\ Arm(f, Timeout[t]).done = f.done /\ Arm(f, Timeout[t]).armed = TRUE
        BY <2>1, <3>2, ArmFacts
      <4> QED BY <3>1, <4>1, Zenon
    <3> QED BY <1>2, <2>1, <2>2, <3>3 DEF Good
  <2>4. CASE ~(t \in Repeating /\ Timeout[t] > 0)
    <3>1. Fire(t) = [f EXCEPT !.armed = FALSE, !.phase = 2]
      BY <1>2, <2>4 DEF Fire, f
    <3>2. 2 \in 0..2
      OBVIOUS
    <3>3. /\ Fire(t) \in TimerRecord /\ Fire(t).phase = 2 /\ Fire(t).gen = f.gen
          /\ Fire(t).has = f.has /\ Fire(t).done = f.done
      BY <2>1, <3>1, <3>2, Zenon DEF TimerRecord
    <3> QED BY <1>2, <2>1, <2>2, <3>3 DEF Good
  <2> QED BY <2>3, <2>4
<1> QED BY <1>1, <1>2

-----------------------------------------------------------------------------
(* The tables of the host: calls of the program.                           *)

\* Steps that change none of the host's tables, but for the answers that arrived.
LEMMA HostQuiet ==
  ASSUME HostTypeOK, HostInv, budget' \in 0..budget, arrived' \subseteq Requests,
         UNCHANGED <<promise, held, wrap, alive, timer, waiters, outbound, completions, lost,
                     fired, cancelled>>
  PROVE  HostTypeOK' /\ HostInv'
<1>1. budget \in Nat /\ budget' \in Nat /\ budget' <= budget /\ budget' \in 0..Budget
  BY CoopAssumption DEF HostTypeOK
<1>2. HostTypeOK'
  BY <1>1, Zenon DEF HostTypeOK
<1>3. Records'
  <2> SUFFICES ASSUME NEW t \in Timers
               PROVE  Good(timer[t], wrap[t], budget')
    BY DEF HostInv, Records
  <2>1. timer[t].gen \in Nat /\ Good(timer[t], wrap[t], budget)
    BY DEF HostTypeOK, HostInv, Records, TimerRecord
  <2> QED BY <1>1, <2>1, CoopAssumption DEF Good
<1>4. Generations' /\ Histories' /\ Entries(completions, fired, cancelled)' /\ Referenced' /\ Waiting'
  BY DEF HostInv, Generations, Histories, Entries, Of, Unique, Referenced, Waiting,
         WaitersWillBeSettled
<1> QED BY <1>2, <1>3, <1>4 DEF HostInv

\* What holds of one timer and its generations.
LEMMA OfTimer ==
  ASSUME HostTypeOK, HostInv, NEW t \in Timers
  PROVE  /\ timer[t] \in TimerRecord /\ timer[t].gen \in 0..Budget /\ wrap[t] \in 0..Budget
         /\ Good(timer[t], wrap[t], budget)
         /\ t \in held /\ timer[t].has => wrap[t] = timer[t].gen
         /\ budget > 0 => timer[t].gen + 1 \in 1..Budget /\ timer[t].gen + 1 + (budget - 1) <= Budget
<1>1. budget \in Nat /\ timer[t].gen \in 0..Budget /\ Good(timer[t], wrap[t], budget)
  BY CoopAssumption DEF HostTypeOK, HostInv, Records, TimerRecord
<1>2. budget > 0 => timer[t].gen + 1 \in 1..Budget /\ timer[t].gen + 1 + (budget - 1) <= Budget
  BY <1>1, CoopAssumption DEF Good
<1> QED BY <1>1, <1>2 DEF HostTypeOK, HostInv, Records

\* A timer that was just made has the record of Init.
LEMMA MakeTimerInv ==
  ASSUME HostTypeOK, HostInv, NEW t \in Timers, MakeTimer(t)
  PROVE  HostTypeOK' /\ HostInv'
<1> USE DEF MakeTimer, Call
<1>1. budget' \in 0..Budget
  BY CoopAssumption DEF HostTypeOK
<1>2. HostTypeOK'
  BY <1>1, Zenon DEF HostTypeOK
<1>3. Records'
  <2>1. held' \subseteq alive'
    BY DEF HostInv, Records
  <2> SUFFICES ASSUME NEW u \in Timers
               PROVE  /\ Good(timer[u], wrap[u], budget - 1)
                      /\ u \in held \cup {t} /\ timer[u].has => wrap[u] = timer[u].gen
    BY <2>1 DEF Records
  <2>2. timer[u].gen \in Nat /\ Good(timer[u], wrap[u], budget) /\ budget \in Nat
        /\ (u \in held /\ timer[u].has => wrap[u] = timer[u].gen)
    BY DEF HostTypeOK, HostInv, Records, TimerRecord
  <2> QED BY <2>2, CoopAssumption DEF Good
<1>4. Generations'
  BY DEF HostInv, Generations
<1>5. Histories' /\ Entries(completions, fired, cancelled)' /\ Referenced' /\ Waiting'
  BY DEF HostInv, Histories, Entries, Of, Unique, Referenced, Waiting, WaitersWillBeSettled
<1> QED BY <1>2, <1>3, <1>4, <1>5 DEF HostInv

\* Fewer calls are left.
LEMMA GoodLess ==
  ASSUME NEW r \in TimerRecord, NEW w, NEW b \in Nat, NEW c \in 0..b, Good(r, w, b)
  PROVE  Good(r, w, c)
<1>1. r.gen \in Nat
  BY DEF TimerRecord
<1> QED BY <1>1, CoopAssumption DEF Good

\* A promise that was never used is nowhere.
LEMMA Unreferenced ==
  ASSUME HostInv, NEW p \in Promise, promise[p] = "unused"
  PROVE  p \notin Of(completions) \cup waiters \cup lost \cup outbound
BY DEF HostInv, Referenced

\* A timer's promise is no request.
LEMMA TimerPromises ==
  ASSUME NEW t \in Timers, NEW g \in 1..Budget
  PROVE  /\ <<t, g>> \in Promise /\ <<t, g>> \in TimerPromise /\ <<t, g>> \notin Requests
BY CoopAssumption DEF Promise, TimerPromise

\* The promise of a new generation waits, and is the only one of its timer that does.
LEMMA NewGenerationInv ==
  ASSUME HostTypeOK, HostInv, NEW t \in Timers, NextTimer(t),
         NextRecord(t) # timer[t], wrap[t] # NextRecord(t).gen
  PROVE  HostTypeOK' /\ HostInv'
<1> DEFINE r == timer[t]
           n == NextRecord(t)
           p == <<t, n.gen>>
<1>1. /\ r \in TimerRecord /\ r.gen \in 0..Budget /\ wrap[t] \in {0, r.gen}
      /\ r.gen + 1 \in 1..Budget /\ r.gen + 1 + (budget - 1) <= Budget
      /\ r.phase = 1 => r.armed
      /\ r.has /\ ~r.done => r.phase = 1
      /\ budget \in Nat /\ budget - 1 \in 0..budget /\ t \in held /\ t \in alive
  <2>1. budget \in Nat /\ budget > 0 /\ t \in held /\ t \in alive
    BY DEF HostTypeOK, HostInv, Records, NextTimer, Call
  <2> QED BY <2>1, OfTimer DEF Good
<1>2. /\ n \in TimerRecord /\ n.phase = 1 /\ n.gen = r.gen + 1 /\ n.has /\ ~n.done /\ n.armed
      /\ ~(r.has /\ ~r.done)
  <2>1. r.gen + 1 \in 0..Budget
    BY <1>1
  <2>2. \/ /\ n \in TimerRecord /\ n.phase = 1 /\ n.gen = r.gen + 1 /\ n.has /\ ~n.done /\ n.armed
           /\ r.phase = 0 \/ r.done \/ ~r.has
        \/ n = timer[t]
    BY <1>1, <2>1, NextRecordFacts
  <2> QED BY <1>1, <2>2
<1>3. /\ timer' = [timer EXCEPT ![t] = n] /\ wrap' = [wrap EXCEPT ![t] = n.gen]
      /\ promise' = [promise EXCEPT ![p] = "pending"] /\ waiters' = waiters \cup {p}
      /\ budget' = budget - 1
      /\ UNCHANGED <<held, alive, outbound, arrived, completions, lost, fired, cancelled>>
  <2> HIDE DEF n
  <2>1. budget' = budget - 1 /\ UNCHANGED <<held, alive, outbound, arrived, fired, cancelled>>
        /\ timer' = [timer EXCEPT ![t] = n]
    BY DEF NextTimer, Call, n
  <2>2. /\ wrap' = [wrap EXCEPT ![t] = n.gen]
        /\ promise' = [promise EXCEPT ![p] = "pending"]
        /\ waiters' = IF n.has /\ ~n.done THEN waiters \cup {p} ELSE waiters
        /\ completions' = IF n.has /\ n.done
                          THEN completions \o Record(<<p>>, TRUE) ELSE completions
        /\ lost' = IF n.has THEN lost ELSE lost \cup {p}
    BY DEF NextTimer, n
  <2> QED BY <1>2, <2>1, <2>2
<1> HIDE DEF n
<1>4. n.gen \in 1..Budget /\ n.gen \in Nat /\ r.gen \in Nat /\ budget' \in 0..Budget
  BY <1>1, <1>2, <1>3, CoopAssumption DEF HostTypeOK
<1>5. p \in Promise /\ p \in TimerPromise /\ p \notin Requests
  BY <1>4, TimerPromises
<1>6. promise[p] = "unused"
  BY <1>1, <1>2, <1>4 DEF HostInv, Generations
<1>7. HostTypeOK'
  <2>1. wrap' \in [Timers -> 0..Budget]
    <3>1. n.gen \in 0..Budget
      BY <1>4
    <3> QED BY <1>3, <3>1 DEF HostTypeOK
  <2>2. promise' \in [Promise -> {"unused", "pending", "value", "none"}]
    BY <1>3 DEF HostTypeOK
  <2>3. timer' \in [Timers -> TimerRecord]
    BY <1>2, <1>3 DEF HostTypeOK
  <2>4. waiters' \subseteq Promise
    BY <1>3, <1>5 DEF HostTypeOK
  <2> QED BY <1>3, <1>4, <2>1, <2>2, <2>3, <2>4, Zenon DEF HostTypeOK
<1>8. Records'
  <2> SUFFICES ASSUME NEW u \in Timers
               PROVE  /\ Good(timer'[u], wrap'[u], budget - 1)
                      /\ u \in held /\ timer'[u].has => wrap'[u] = timer'[u].gen
    BY <1>3 DEF HostInv, Records
  <2>1. CASE u = t
    <3>1. timer'[u] = n /\ wrap'[u] = n.gen
      BY <1>3, <2>1 DEF HostTypeOK
    <3>2. Good(n, n.gen, budget - 1)
      BY <1>1, <1>2 DEF Good
    <3> QED BY <3>1, <3>2
  <2>2. CASE u # t
    <3>1. timer'[u] = timer[u] /\ wrap'[u] = wrap[u]
      BY <1>3, <2>2 DEF HostTypeOK
    <3> QED BY <1>1, <3>1, OfTimer, GoodLess
  <2> QED BY <2>1, <2>2
<1>9. ASSUME NEW u \in Timers, NEW g \in 1..Budget
      PROVE  /\ timer'[u].gen = IF u = t THEN r.gen + 1 ELSE timer[u].gen
             /\ u # t => timer'[u] = timer[u] /\ wrap'[u] = wrap[u]
             /\ u = t => timer'[u] = n /\ wrap'[u] = n.gen
             /\ promise'[<<u, g>>] = IF u = t /\ g = n.gen THEN "pending" ELSE promise[<<u, g>>]
  BY <1>2, <1>3, <1>5, TimerPromises DEF HostTypeOK
<1>10. Generations'
  <2> SUFFICES ASSUME NEW u \in Timers, NEW g \in 1..Budget, promise'[<<u, g>>] # "unused"
               PROVE  /\ g <= timer'[u].gen
                      /\ u \in held /\ g = timer'[u].gen => wrap'[u] = g
    BY <1>3 DEF Generations
  <2>1. CASE u = t
    BY <1>1, <1>2, <1>4, <1>9, <2>1 DEF HostInv, Generations
  <2>2. CASE u # t
    BY <1>9, <2>2 DEF HostInv, Generations
  <2> QED BY <2>1, <2>2
<1>11. Histories'
  <2> SUFFICES ASSUME NEW u \in Timers, NEW g \in 1..Budget
               PROVE  /\ <<u, g>> \in fired => g < timer'[u].gen \/ (g = timer'[u].gen /\ timer'[u].done)
                      /\ <<u, g>> \in cancelled => g < timer'[u].gen
                      /\ <<u, g>> \notin fired \cap cancelled
                      /\ promise'[<<u, g>>] = "value" => <<u, g>> \in fired
                      /\ promise'[<<u, g>>] = "none" => <<u, g>> \in cancelled
    BY <1>3 DEF Histories
  <2>1. CASE u = t
    BY <1>1, <1>2, <1>4, <1>9, <2>1 DEF HostInv, Histories
  <2>2. CASE u # t
    BY <1>9, <2>2 DEF HostInv, Histories
  <2> QED BY <2>1, <2>2
<1>12. Entries(completions, fired, cancelled)'
  BY <1>3 DEF HostInv, Entries
<1>13. Referenced'
  <2>1. p \notin Of(completions) \cup waiters \cup lost \cup outbound
    BY <1>5, <1>6, Unreferenced
  <2>2. \A q \in Promise : promise'[q] = IF q = p THEN "pending" ELSE promise[q]
    BY <1>3 DEF HostTypeOK
  <2>3. Of(completions)' = Of(completions) /\ Unique(completions)' = Unique(completions)
    BY <1>3 DEF Of, Unique
  <2> HIDE DEF p
  <2> QED BY <1>3, <2>1, <2>2, <2>3 DEF HostInv, Referenced
<1>14. Waiting'
  <2>1. waiters' \subseteq TimerPromise /\ lost' \subseteq TimerPromise
    BY <1>3, <1>5 DEF HostInv, Waiting
  <2>2. ASSUME NEW w \in waiters'
        PROVE  /\ w[1] \in alive' /\ timer'[w[1]].gen = w[2] /\ timer'[w[1]].has
               /\ ~timer'[w[1]].done /\ timer'[w[1]].armed
    <3>1. CASE w = p
      <4>1. timer'[t] = n
        BY <1>3 DEF HostTypeOK
      <4> QED BY <1>1, <1>2, <1>3, <3>1, <4>1
    <3>2. CASE w \in waiters
      <4>1. /\ w[1] \in alive /\ timer[w[1]].gen = w[2] /\ timer[w[1]].has
            /\ ~timer[w[1]].done /\ timer[w[1]].armed
        BY <3>2 DEF HostInv, Waiting, WaitersWillBeSettled
      <4>2. w[1] # t /\ w[1] \in Timers
        BY <1>2, <4>1 DEF HostTypeOK
      <4>3. timer'[w[1]] = timer[w[1]]
        BY <1>3, <4>2 DEF HostTypeOK
      <4> QED BY <1>3, <4>1, <4>3
    <3> QED BY <1>3, <2>2, <3>1, <3>2
  <2> QED BY <2>1, <2>2 DEF Waiting, WaitersWillBeSettled
<1> QED BY <1>7, <1>8, <1>10, <1>11, <1>12, <1>13, <1>14 DEF HostInv

\* A timer that was stopped gives its next promise to nobody: the promise is lost.
LEMMA LostPromiseInv ==
  ASSUME HostTypeOK, HostInv, NEW t \in Timers, NextTimer(t),
         NextRecord(t) = timer[t], wrap[t] # timer[t].gen
  PROVE  HostTypeOK' /\ HostInv'
<1> DEFINE r == timer[t]
           p == <<t, r.gen>>
<1>1. /\ r \in TimerRecord /\ r.gen \in 1..Budget /\ wrap[t] = 0 /\ ~r.has
      /\ budget \in Nat /\ budget - 1 \in 0..budget /\ t \in held
  <2>1. budget \in Nat /\ budget > 0 /\ t \in held
    BY DEF HostTypeOK, HostInv, Records, NextTimer, Call
  <2> QED BY <2>1, OfTimer DEF Good
<1>2. /\ timer' = timer /\ wrap' = [wrap EXCEPT ![t] = r.gen]
      /\ promise' = [promise EXCEPT ![p] = "pending"] /\ lost' = lost \cup {p}
      /\ budget' = budget - 1
      /\ UNCHANGED <<held, alive, waiters, outbound, arrived, completions, fired, cancelled>>
  <2> HIDE DEF r
  <2>1. budget' = budget - 1 /\ UNCHANGED <<held, alive, outbound, arrived, fired, cancelled>>
        /\ timer' = [timer EXCEPT ![t] = r]
    BY DEF NextTimer, Call, r
  <2>2. /\ wrap' = [wrap EXCEPT ![t] = r.gen]
        /\ promise' = [promise EXCEPT ![p] = "pending"]
        /\ waiters' = IF r.has /\ ~r.done THEN waiters \cup {p} ELSE waiters
        /\ completions' = IF r.has /\ r.done
                          THEN completions \o Record(<<p>>, TRUE) ELSE completions
        /\ lost' = IF r.has THEN lost ELSE lost \cup {p}
    BY DEF NextTimer, r
  <2>3. timer' = timer
    BY <2>1 DEF HostTypeOK, r
  <2> QED BY <1>1, <2>1, <2>2, <2>3
<1> HIDE DEF r
<1>3. p \in Promise /\ p \in TimerPromise /\ p \notin Requests
  BY <1>1, TimerPromises
<1>4. promise[p] = "unused"
  BY <1>1 DEF HostInv, Generations, r
<1>5. budget' \in 0..Budget
  BY <1>1, <1>2, CoopAssumption DEF HostTypeOK
<1>6. HostTypeOK'
  <2>1. wrap' \in [Timers -> 0..Budget]
    <3>1. r.gen \in 0..Budget
      BY <1>1, CoopAssumption
    <3> QED BY <1>2, <3>1 DEF HostTypeOK
  <2>2. promise' \in [Promise -> {"unused", "pending", "value", "none"}]
    BY <1>2 DEF HostTypeOK
  <2>3. lost' \subseteq Promise
    BY <1>2, <1>3 DEF HostTypeOK
  <2> QED BY <1>2, <1>5, <2>1, <2>2, <2>3, Zenon DEF HostTypeOK
<1>7. Records'
  <2> SUFFICES ASSUME NEW u \in Timers
               PROVE  /\ Good(timer[u], wrap'[u], budget - 1)
                      /\ u \in held /\ timer[u].has => wrap'[u] = timer[u].gen
    BY <1>2 DEF HostInv, Records
  <2>1. Good(timer[u], wrap[u], budget - 1)
    BY <1>1, OfTimer, GoodLess
  <2>2. CASE u = t
    <3>1. wrap'[u] = timer[u].gen
      BY <1>2, <2>2 DEF HostTypeOK, r
    <3> QED BY <2>1, <3>1 DEF Good
  <2>3. CASE u # t
    <3>1. wrap'[u] = wrap[u]
      BY <1>2, <2>3 DEF HostTypeOK
    <3> QED BY <2>1, <3>1, OfTimer
  <2> QED BY <2>2, <2>3
<1>8. ASSUME NEW u \in Timers, NEW g \in 1..Budget
      PROVE  /\ wrap'[u] = IF u = t THEN r.gen ELSE wrap[u]
             /\ promise'[<<u, g>>] = IF u = t /\ g = r.gen THEN "pending" ELSE promise[<<u, g>>]
  BY <1>2, <1>3, TimerPromises DEF HostTypeOK
<1>9. Generations'
  <2> SUFFICES ASSUME NEW u \in Timers, NEW g \in 1..Budget, promise'[<<u, g>>] # "unused"
               PROVE  /\ g <= timer[u].gen
                      /\ u \in held /\ g = timer[u].gen => wrap'[u] = g
    BY <1>2 DEF Generations
  <2>1. CASE u = t
    BY <1>1, <1>8, <2>1 DEF HostInv, Generations, r
  <2>2. CASE u # t
    BY <1>8, <2>2 DEF HostInv, Generations
  <2> QED BY <2>1, <2>2
<1>10. Histories'
  <2> SUFFICES ASSUME NEW u \in Timers, NEW g \in 1..Budget
               PROVE  /\ <<u, g>> \in fired => g < timer[u].gen \/ (g = timer[u].gen /\ timer[u].done)
                      /\ <<u, g>> \in cancelled => g < timer[u].gen
                      /\ <<u, g>> \notin fired \cap cancelled
                      /\ promise'[<<u, g>>] = "value" => <<u, g>> \in fired
                      /\ promise'[<<u, g>>] = "none" => <<u, g>> \in cancelled
    BY <1>2 DEF Histories
  <2>1. promise'[<<u, g>>] \in {"value", "none"} => promise[<<u, g>>] = promise'[<<u, g>>]
    BY <1>8
  <2> QED BY <2>1 DEF HostInv, Histories
<1>11. Entries(completions, fired, cancelled)'
  BY <1>2 DEF HostInv, Entries
<1>12. Referenced'
  <2>1. p \notin Of(completions) \cup waiters \cup lost \cup outbound
    BY <1>3, <1>4, Unreferenced
  <2>2. \A q \in Promise : promise'[q] = IF q = p THEN "pending" ELSE promise[q]
    BY <1>2 DEF HostTypeOK
  <2>3. Of(completions)' = Of(completions) /\ Unique(completions)' = Unique(completions)
    BY <1>2 DEF Of, Unique
  <2> HIDE DEF p
  <2> QED BY <1>2, <2>1, <2>2, <2>3 DEF HostInv, Referenced
<1>13. Waiting'
  BY <1>2, <1>3 DEF HostInv, Waiting, WaitersWillBeSettled
<1> QED BY <1>6, <1>7, <1>9, <1>10, <1>11, <1>12, <1>13 DEF HostInv

\* Asking for a timer's promise.
LEMMA NextTimerInv ==
  ASSUME HostTypeOK, HostInv, NEW t \in Timers, NextTimer(t)
  PROVE  HostTypeOK' /\ HostInv'
<1>1. budget \in Nat /\ budget > 0 /\ budget' = budget - 1 /\ t \in held
  BY DEF HostTypeOK, NextTimer, Call
<1>2. /\ timer[t] \in TimerRecord /\ timer[t].gen + 1 \in 0..Budget /\ timer[t].gen \in Nat
      /\ timer[t].phase = 1 => timer[t].armed
      /\ wrap[t] \in {0, timer[t].gen}
  BY <1>1, OfTimer DEF Good
<1>3. \/ NextRecord(t) = timer[t]
      \/ NextRecord(t).gen = timer[t].gen + 1
  BY <1>2, NextRecordFacts
<1>4. CASE NextRecord(t) = timer[t] /\ wrap[t] = timer[t].gen
  <2>1. /\ timer' = [timer EXCEPT ![t] = timer[t]]
        /\ UNCHANGED <<promise, wrap, waiters, completions, lost>>
    BY <1>4 DEF NextTimer
  <2>2. /\ arrived' \subseteq Requests
        /\ UNCHANGED <<promise, held, wrap, alive, timer, waiters, outbound, completions, lost,
                       fired, cancelled>>
    BY <2>1 DEF NextTimer, HostTypeOK
  <2>3. budget' \in 0..budget
    BY <1>1
  <2> QED BY <2>2, <2>3, HostQuiet
<1>5. CASE NextRecord(t) = timer[t] /\ wrap[t] # timer[t].gen
  BY <1>5, LostPromiseInv
<1>6. CASE NextRecord(t).gen = timer[t].gen + 1
  <2>1. NextRecord(t).gen # timer[t].gen /\ NextRecord(t).gen # wrap[t]
    BY <1>2, <1>6
  <2> QED BY <2>1, NewGenerationInv
<1> QED BY <1>3, <1>4, <1>5, <1>6

\* A step that replaces only timer t's record by one that differs in its deadline.
LEMMA ResetTimerInv ==
  ASSUME HostTypeOK, HostInv, NEW t \in Timers, ResetTimer(t)
  PROVE  HostTypeOK' /\ HostInv'
<1> DEFINE r == timer[t]
           n == Arm(timer[t], Timeout[t])
<1>1. /\ budget \in Nat /\ budget' = budget - 1 /\ budget - 1 \in 0..budget /\ r.phase = 1
      /\ timer' = [timer EXCEPT ![t] = n]
      /\ UNCHANGED <<promise, held, wrap, alive, waiters, outbound, arrived, completions,
                     lost, fired, cancelled>>
  BY DEF ResetTimer, Call, HostTypeOK, leanVars
<1>2. /\ n \in TimerRecord /\ n.phase = r.phase /\ n.gen = r.gen /\ n.has = r.has
      /\ n.done = r.done /\ n.armed = TRUE
  <2>1. Timeout[t] \in Nat /\ r \in TimerRecord
    BY CoopAssumption DEF HostTypeOK
  <2> QED BY <2>1, ArmFacts
<1> HIDE DEF n
<1>3. ASSUME NEW u \in Timers
      PROVE  /\ u = t => timer'[u] = n
             /\ u # t => timer'[u] = timer[u]
             /\ timer'[u].gen = timer[u].gen /\ timer'[u].has = timer[u].has
             /\ timer'[u].done = timer[u].done
             /\ timer[u].armed => timer'[u].armed
             /\ timer'[u].phase = timer[u].phase
  BY <1>1, <1>2 DEF HostTypeOK
<1>4. HostTypeOK'
  <2>1. timer' \in [Timers -> TimerRecord]
    BY <1>1, <1>2 DEF HostTypeOK
  <2>2. budget' \in 0..Budget
    BY <1>1, CoopAssumption DEF HostTypeOK
  <2> QED BY <1>1, <2>1, <2>2, Zenon DEF HostTypeOK
<1>5. Records'
  <2> SUFFICES ASSUME NEW u \in Timers
               PROVE  /\ Good(timer'[u], wrap[u], budget - 1)
                      /\ u \in held /\ timer'[u].has => wrap[u] = timer'[u].gen
    BY <1>1 DEF HostInv, Records
  <2>1. Good(timer[u], wrap[u], budget - 1)
    BY <1>1, OfTimer, GoodLess
  <2>2. Good(timer'[u], wrap[u], budget - 1)
    BY <1>3, <2>1 DEF Good
  <2> QED BY <1>3, <2>2, OfTimer
<1>6. Generations' /\ Histories' /\ Entries(completions, fired, cancelled)'
  BY <1>1, <1>3 DEF HostInv, Generations, Histories, Entries
<1>7. Referenced'
  BY <1>1 DEF HostInv, Referenced, Of, Unique
<1>8. Waiting'
  <2>1. \A w \in waiters : w[1] \in Timers
    BY DEF HostInv, Waiting, TimerPromise
  <2> QED BY <1>1, <1>3, <2>1 DEF HostInv, Waiting, WaitersWillBeSettled
<1> QED BY <1>4, <1>5, <1>6, <1>7, <1>8 DEF HostInv

\* The record timer_drop leaves.
LEMMA ForgetFacts ==
  ASSUME NEW r \in TimerRecord, r.gen + 1 \in 0..Budget
  PROVE  LET n == [r EXCEPT !.has = FALSE, !.gen = @ + 1]
         IN  /\ n \in TimerRecord /\ n.phase = r.phase /\ n.gen = r.gen + 1 /\ n.has = FALSE
             /\ n.done = r.done /\ n.armed = r.armed
BY Zenon DEF TimerRecord

\* The requests a dropped timer settles wait for its current generation.
LEMMA DroppedFacts ==
  ASSUME HostTypeOK, HostInv, NEW t \in Timers
  PROVE  /\ Dropped(t) \subseteq waiters /\ Dropped(t) \in SUBSET Promise /\ IsFiniteSet(Dropped(t))
         /\ \A w \in Dropped(t) : w = <<t, timer[t].gen>> /\ w \in Cancelled(t)
         /\ \A w \in waiters \ Dropped(t) : w[1] # t
         /\ Cancelled(t) \subseteq {<<t, timer[t].gen>>}
         /\ Cancelled(t) # {} => timer[t].has /\ ~timer[t].done
<1>1. Dropped(t) \subseteq waiters /\ Dropped(t) \in SUBSET Promise
  BY DEF Dropped, HostTypeOK
<1>2. IsFiniteSet(Dropped(t))
  BY <1>1, FinitePromises, FS_Subset
<1>3. ASSUME NEW w \in waiters
      PROVE  /\ w \in TimerPromise /\ w \notin Requests /\ w = <<w[1], w[2]>>
             /\ timer[w[1]].gen = w[2] /\ timer[w[1]].has /\ ~timer[w[1]].done
  <2>1. PICK u \in Timers, g \in 1..Budget : w = <<u, g>>
    BY DEF HostInv, Waiting, TimerPromise
  <2> QED BY <2>1, TimerPromises DEF HostInv, Waiting, WaitersWillBeSettled
<1>4. \A w \in Dropped(t) : w = <<t, timer[t].gen>> /\ w \in Cancelled(t)
  BY <1>1, <1>3 DEF Dropped, WaitsFor, Cancelled
<1>5. \A w \in waiters \ Dropped(t) : w[1] # t
  BY <1>3 DEF Dropped, WaitsFor
<1> QED BY <1>1, <1>2, <1>4, <1>5 DEF Cancelled

\* timer_drop ends the generation; the requests that wait for it are told so.
LEMMA DropInv ==
  ASSUME HostTypeOK, HostInv, NEW t \in Timers, NEW r \in TimerRecord,
         r.gen = timer[t].gen, r.done = timer[t].done, r.phase = 1 => r.armed,
         Call, Drop(t, r), Unwrap(t),
         UNCHANGED <<promise, held, alive, outbound, arrived, lost, fired>>
  PROVE  HostTypeOK' /\ HostInv'
<1> DEFINE n == [r EXCEPT !.has = FALSE, !.gen = @ + 1]
           p == <<t, timer[t].gen>>
<1>1. /\ budget \in Nat /\ budget' = budget - 1 /\ budget - 1 \in 0..budget
      /\ timer[t].gen \in 0..Budget /\ timer[t].gen + 1 \in 1..Budget
      /\ timer[t].gen + 1 + (budget - 1) <= Budget
      /\ timer[t].has => timer[t].gen \in 1..Budget
  <2>1. budget \in Nat /\ budget > 0 /\ budget' = budget - 1
    BY DEF HostTypeOK, Call
  <2> QED BY <2>1, OfTimer DEF Good
<1>2. /\ n \in TimerRecord /\ n.phase = r.phase /\ n.gen = timer[t].gen + 1 /\ ~n.has
      /\ n.done = timer[t].done /\ n.armed = r.armed
  <2>1. r.gen + 1 \in 0..Budget
    BY <1>1, CoopAssumption
  <2> QED BY <2>1, ForgetFacts
<1>3. PICK s \in Listings(Dropped(t)) : completions' = completions \o Record(s, FALSE)
  BY DEF Drop
<1>4. /\ waiters' = waiters \ Dropped(t) /\ cancelled' = cancelled \cup Cancelled(t)
      /\ timer' = [timer EXCEPT ![t] = n] /\ wrap' = [wrap EXCEPT ![t] = 0]
  BY DEF Drop, Forget, Unwrap
<1> HIDE DEF n
<1>5. /\ Dropped(t) \subseteq waiters /\ Dropped(t) \in SUBSET Promise /\ IsFiniteSet(Dropped(t))
      /\ \A w \in Dropped(t) : w = p /\ w \in Cancelled(t)
      /\ \A w \in waiters \ Dropped(t) : w[1] # t
      /\ Cancelled(t) \subseteq {p}
      /\ Cancelled(t) # {} => timer[t].has /\ ~timer[t].done
  BY DroppedFacts
<1>6. s \in Seq(Promise) /\ ToSet(s) = Dropped(t) /\ IsInjective(s)
  BY <1>5, Listed
<1>7. /\ completions' \in Seq(Entry)
      /\ Of(completions') = Of(completions) \cup Dropped(t)
      /\ Unique(completions) /\ Of(completions) \cap Dropped(t) = {} => Unique(completions')
      /\ \A f, k : /\ Entries(completions, f, k)
                   /\ \A q \in Dropped(t) : q \notin Requests => q \in k
                   => Entries(completions', f, k)
  BY <1>3, <1>6, Recorded DEF HostTypeOK
<1>8. ASSUME NEW u \in Timers
      PROVE  /\ u = t => timer'[u] = n /\ wrap'[u] = 0
             /\ u # t => timer'[u] = timer[u] /\ wrap'[u] = wrap[u]
  BY <1>4 DEF HostTypeOK
<1>9. HostTypeOK'
  <2>1. timer' \in [Timers -> TimerRecord]
    BY <1>2, <1>4 DEF HostTypeOK
  <2>2. budget' \in 0..Budget /\ 0 \in 0..Budget
    BY <1>1, CoopAssumption DEF HostTypeOK
  <2>3. wrap' \in [Timers -> 0..Budget]
    BY <1>4, <2>2 DEF HostTypeOK
  <2>4. Cancelled(t) \subseteq Promise
    BY <1>1, <1>5, TimerPromises
  <2>5. waiters' \subseteq Promise /\ cancelled' \subseteq Promise
    BY <1>4, <2>4 DEF HostTypeOK
  <2> QED BY <1>7, <2>1, <2>2, <2>3, <2>5, Zenon DEF HostTypeOK
<1>10. Records'
  <2> SUFFICES ASSUME NEW u \in Timers
               PROVE  /\ Good(timer'[u], wrap'[u], budget - 1)
                      /\ u \in held /\ timer'[u].has => wrap'[u] = timer'[u].gen
    BY <1>1 DEF HostInv, Records
  <2>1. CASE u = t
    BY <1>1, <1>2, <1>8, <2>1 DEF Good
  <2>2. CASE u # t
    BY <1>1, <1>8, <2>2, OfTimer, GoodLess
  <2> QED BY <2>1, <2>2
<1>11. Generations'
  <2> SUFFICES ASSUME NEW u \in Timers, NEW g \in 1..Budget, promise[<<u, g>>] # "unused"
               PROVE  /\ g <= timer'[u].gen
                      /\ u \in held /\ g = timer'[u].gen => wrap'[u] = g
    BY DEF Generations
  <2>1. CASE u = t
    BY <1>1, <1>2, <1>8, <2>1 DEF HostInv, Generations
  <2>2. CASE u # t
    BY <1>8, <2>2 DEF HostInv, Generations
  <2> QED BY <2>1, <2>2
<1>12. Histories'
  <2> SUFFICES ASSUME NEW u \in Timers, NEW g \in 1..Budget
               PROVE  /\ <<u, g>> \in fired => g < timer'[u].gen \/ (g = timer'[u].gen /\ timer'[u].done)
                      /\ <<u, g>> \in cancelled' => g < timer'[u].gen
                      /\ <<u, g>> \notin fired \cap cancelled'
                      /\ promise[<<u, g>>] = "value" => <<u, g>> \in fired
                      /\ promise[<<u, g>>] = "none" => <<u, g>> \in cancelled'
    BY DEF Histories
  <2>1. /\ <<u, g>> \in fired => g < timer[u].gen \/ (g = timer[u].gen /\ timer[u].done)
        /\ <<u, g>> \in cancelled => g < timer[u].gen
        /\ <<u, g>> \notin fired \cap cancelled
        /\ promise[<<u, g>>] = "value" => <<u, g>> \in fired
        /\ promise[<<u, g>>] = "none" => <<u, g>> \in cancelled
    BY DEF HostInv, Histories
  <2>2. <<u, g>> \in cancelled' => \/ <<u, g>> \in cancelled
                                   \/ u = t /\ g = timer[t].gen /\ timer[t].has /\ ~timer[t].done
    BY <1>4, <1>5
  <2>3. CASE u = t
    BY <1>1, <1>2, <1>4, <1>8, <2>1, <2>2, <2>3
  <2>4. CASE u # t
    BY <1>4, <1>8, <2>1, <2>2, <2>4
  <2> QED BY <2>3, <2>4
<1>13. Entries(completions, fired, cancelled)'
  <2>1. Entries(completions, fired, cancelled')
    BY <1>4 DEF HostInv, Entries
  <2>2. Entries(completions', fired, cancelled')
    BY <1>4, <1>5, <1>7, <2>1
  <2> QED BY <2>2
<1>14. Referenced'
  <2>1. Of(completions) \cap Dropped(t) = {}
    BY <1>5 DEF HostInv, Referenced
  <2>2. Unique(completions')
    BY <1>7, <2>1 DEF HostInv, Referenced
  <2> QED BY <1>4, <1>5, <1>7, <2>2 DEF HostInv, Referenced
<1>15. Waiting'
  <2>1. waiters' \subseteq TimerPromise /\ lost' \subseteq TimerPromise
    BY <1>4 DEF HostInv, Waiting
  <2>2. ASSUME NEW w \in waiters'
        PROVE  /\ w[1] \in alive' /\ timer'[w[1]].gen = w[2] /\ timer'[w[1]].has
               /\ ~timer'[w[1]].done /\ timer'[w[1]].armed
    <3>1. /\ w[1] \in alive /\ timer[w[1]].gen = w[2] /\ timer[w[1]].has
          /\ ~timer[w[1]].done /\ timer[w[1]].armed
      BY <1>4 DEF HostInv, Waiting, WaitersWillBeSettled
    <3>2. w[1] # t /\ w[1] \in Timers
      BY <1>4, <1>5, <3>1 DEF HostTypeOK
    <3> QED BY <1>8, <3>1, <3>2
  <2> QED BY <2>1, <2>2 DEF Waiting, WaitersWillBeSettled
<1> QED BY <1>9, <1>10, <1>11, <1>12, <1>13, <1>14, <1>15 DEF HostInv

\* Stopping and cancelling a timer drop its generation.
LEMMA StopTimerInv ==
  ASSUME HostTypeOK, HostInv, NEW t \in Timers, StopTimer(t) \/ CancelTimer(t)
  PROVE  HostTypeOK' /\ HostInv'
<1> DEFINE stopped == [timer[t] EXCEPT !.armed = FALSE, !.phase = 2]
           reset   == [timer[t] EXCEPT !.armed = FALSE, !.phase = 0]
<1>1. timer[t] \in TimerRecord /\ (timer[t].phase = 1 => timer[t].armed)
  BY OfTimer DEF Good
<1>2. /\ stopped \in TimerRecord /\ stopped.gen = timer[t].gen /\ stopped.done = timer[t].done
      /\ stopped.phase = 2
  <2>1. 2 \in 0..2
    OBVIOUS
  <2> QED BY <1>1, <2>1, Zenon DEF TimerRecord
<1>3. /\ reset \in TimerRecord /\ reset.gen = timer[t].gen /\ reset.done = timer[t].done
      /\ reset.phase = 0
  <2>1. 0 \in 0..2
    OBVIOUS
  <2> QED BY <1>1, <2>1, Zenon DEF TimerRecord
<1>4. Call /\ Unwrap(t) /\ UNCHANGED <<promise, held, alive, outbound, arrived, lost, fired>>
  BY DEF StopTimer, CancelTimer
<1>5. Drop(t, stopped) \/ Drop(t, timer[t]) \/ Drop(t, reset)
  BY DEF StopTimer, CancelTimer
<1> HIDE DEF stopped, reset
<1>6. CASE Drop(t, stopped)
  BY <1>2, <1>4, <1>6, DropInv
<1>7. CASE Drop(t, timer[t])
  BY <1>1, <1>4, <1>7, DropInv
<1>8. CASE Drop(t, reset)
  BY <1>3, <1>4, <1>8, DropInv
<1> QED BY <1>5, <1>6, <1>7, <1>8

\* A timer whose object is gone stays alive while a request waits for it.
LEMMA DropTimerInv ==
  ASSUME HostTypeOK, HostInv, NEW t \in Timers, DropTimer(t)
  PROVE  HostTypeOK' /\ HostInv'
<1>1. /\ budget \in Nat /\ budget' = budget - 1 /\ budget - 1 \in 0..budget
      /\ held' = held \ {t} /\ wrap' = [wrap EXCEPT ![t] = 0]
      /\ alive' \subseteq alive /\ alive \ {t} \subseteq alive'
      /\ UNCHANGED <<promise, timer, waiters, outbound, arrived, completions, lost, fired, cancelled>>
  BY DEF DropTimer, Call, Unwrap, HostTypeOK
<1>2. ASSUME NEW u \in Timers
      PROVE  /\ u = t => wrap'[u] = 0 /\ u \notin held'
             /\ u # t => wrap'[u] = wrap[u] /\ (u \in held' <=> u \in held)
  BY <1>1 DEF HostTypeOK
<1>3. HostTypeOK'
  <2>1. budget' \in 0..Budget /\ 0 \in 0..Budget
    BY <1>1, CoopAssumption DEF HostTypeOK
  <2>2. wrap' \in [Timers -> 0..Budget]
    BY <1>1, <2>1 DEF HostTypeOK
  <2>3. held' \subseteq Timers /\ alive' \subseteq Timers
    BY <1>1 DEF HostTypeOK
  <2> QED BY <1>1, <2>1, <2>2, <2>3, Zenon DEF HostTypeOK
<1>4. Records'
  <2>1. held' \subseteq alive'
    BY <1>1 DEF HostInv, Records
  <2> SUFFICES ASSUME NEW u \in Timers
               PROVE  /\ Good(timer[u], wrap'[u], budget - 1)
                      /\ u \in held' /\ timer[u].has => wrap'[u] = timer[u].gen
    BY <1>1, <2>1 DEF Records
  <2>2. Good(timer[u], wrap[u], budget - 1)
    BY <1>1, OfTimer, GoodLess
  <2>3. Good(timer[u], wrap'[u], budget - 1)
    BY <1>2, <2>2 DEF Good
  <2> QED BY <1>2, <2>3, OfTimer
<1>5. Generations'
  BY <1>1, <1>2 DEF HostInv, Generations
<1>6. Histories' /\ Entries(completions, fired, cancelled)' /\ Referenced'
  BY <1>1 DEF HostInv, Histories, Entries, Referenced, Of, Unique
<1>7. Waiting'
  <2>1. ASSUME NEW w \in waiters
        PROVE  w[1] \in alive'
    <3>1. w \notin Requests /\ w[1] \in alive
      <4>1. PICK u \in Timers, g \in 1..Budget : w = <<u, g>>
        BY DEF HostInv, Waiting, TimerPromise
      <4> QED BY <4>1, TimerPromises DEF HostInv, Waiting, WaitersWillBeSettled
    <3>2. w[1] = t => HolderOf(t, waiters \cup lost \cup Queued)
      BY <3>1 DEF HolderOf
    <3> QED BY <1>1, <3>1, <3>2 DEF DropTimer
  <2> QED BY <1>1, <2>1 DEF HostInv, Waiting, WaitersWillBeSettled
<1> QED BY <1>3, <1>4, <1>5, <1>6, <1>7 DEF HostInv

\* A request's first reference is in one table.
LEMMA RequestInv ==
  ASSUME HostTypeOK, HostInv, NEW r \in Requests, Call, promise[r] = "unused",
         promise' = [promise EXCEPT ![r] = "pending"],
         \/ outbound' = outbound \cup {r} /\ UNCHANGED completions
         \/ completions' = completions \o Record(<<r>>, TRUE) /\ UNCHANGED outbound,
         UNCHANGED <<held, wrap, alive, timer, waiters, arrived, lost, fired, cancelled>>
  PROVE  HostTypeOK' /\ HostInv'
<1>1. budget \in Nat /\ budget' = budget - 1 /\ budget - 1 \in 0..budget /\ r \in Promise
  BY DEF Call, HostTypeOK, Promise
<1>2. r \notin Of(completions) \cup waiters \cup lost \cup outbound
  BY <1>1, Unreferenced
<1>3. /\ completions' \in Seq(Entry) /\ outbound' \subseteq Requests
      /\ Of(completions') \cup outbound' = Of(completions) \cup outbound \cup {r}
      /\ Of(completions') \subseteq Of(completions) \cup {r}
      /\ outbound' \subseteq outbound \cup {r}
      /\ Unique(completions') /\ Of(completions') \cap outbound' = {}
      /\ Entries(completions', fired, cancelled)
  <2>1. Unique(completions) /\ Of(completions) \cap outbound = {}
        /\ Entries(completions, fired, cancelled)
    BY DEF HostInv, Referenced
  <2>2. CASE outbound' = outbound \cup {r} /\ UNCHANGED completions
    BY <1>2, <2>1, <2>2 DEF HostTypeOK, Entries
  <2>3. CASE completions' = completions \o Record(<<r>>, TRUE) /\ UNCHANGED outbound
    <3>1. <<r>> \in Seq(Promise) /\ ToSet(<<r>>) = {r} /\ IsInjective(<<r>>)
      BY <1>1, OneElement
    <3>2. /\ completions' \in Seq(Entry)
          /\ Of(completions') = Of(completions) \cup {r}
          /\ Unique(completions) /\ Of(completions) \cap {r} = {} => Unique(completions')
          /\ \A f, k : Entries(completions, f, k) => Entries(completions', f, k)
      BY <2>3, <3>1, Recorded DEF HostTypeOK
    <3> QED BY <1>2, <2>1, <2>3, <3>2 DEF HostTypeOK
  <2> QED BY <2>2, <2>3
<1>4. HostTypeOK'
  <2>1. budget' \in 0..Budget
    BY <1>1, CoopAssumption DEF HostTypeOK
  <2>2. promise' \in [Promise -> {"unused", "pending", "value", "none"}]
    BY DEF HostTypeOK
  <2> QED BY <1>3, <2>1, <2>2, Zenon DEF HostTypeOK
<1>5. Records'
  <2> SUFFICES ASSUME NEW u \in Timers
               PROVE  Good(timer[u], wrap[u], budget - 1)
    BY <1>1 DEF HostInv, Records
  <2> QED BY <1>1, OfTimer, GoodLess
<1>6. \A u \in Timers : \A g \in 1..Budget : promise'[<<u, g>>] = promise[<<u, g>>]
  BY TimerPromises DEF HostTypeOK
<1>7. Generations' /\ Histories'
  BY <1>6 DEF HostInv, Generations, Histories
<1>8. Entries(completions, fired, cancelled)'
  BY <1>3 DEF Entries
<1>9. Referenced'
  <2>1. \A q \in Promise : promise'[q] = IF q = r THEN "pending" ELSE promise[q]
    BY DEF HostTypeOK
  <2> QED BY <1>2, <1>3, <2>1 DEF HostInv, Referenced
<1>10. Waiting'
  BY DEF HostInv, Waiting, WaitersWillBeSettled
<1> QED BY <1>4, <1>5, <1>7, <1>8, <1>9, <1>10 DEF HostInv

-----------------------------------------------------------------------------
(* The tables of the host: the wait loop and the environment.              *)

\* fire_timers ends the current generation of the timers that are due: the requests
\* it leaves wait for the others.
LEMMA FiringFacts ==
  ASSUME HostTypeOK, HostInv, FireTimers
  PROVE  /\ timer' \in [Timers -> TimerRecord]
         /\ \A t \in Timers : /\ Good(timer'[t], wrap[t], budget)
                              /\ timer'[t].gen = timer[t].gen /\ timer'[t].has = timer[t].has
         /\ fired \subseteq fired' /\ fired' \subseteq Promise
         /\ \A t \in Timers : \A g \in 1..Budget : <<t, g>> \in fired' =>
               /\ g < timer[t].gen \/ (g = timer[t].gen /\ timer'[t].done)
               /\ <<t, g>> \notin cancelled
         /\ SettledByFiring \subseteq waiters /\ SettledByFiring \subseteq fired'
         /\ SettledByFiring \in SUBSET Promise /\ IsFiniteSet(SettledByFiring)
         /\ waiters' = waiters \ SettledByFiring
         /\ \A w \in waiters' : timer'[w[1]] = timer[w[1]]
<1> DEFINE now == {<<t, timer[t].gen>> : t \in {u \in Timers : Fires(u)}}
<1>1. /\ timer' = [t \in Timers |-> Fire(t)] /\ waiters' = waiters \ SettledByFiring
      /\ fired' = fired \cup now
  BY DEF FireTimers
<1>2. ASSUME NEW t \in Timers
      PROVE  /\ Fire(t) \in TimerRecord /\ Good(Fire(t), wrap[t], budget)
             /\ Fire(t).gen = timer[t].gen /\ Fire(t).has = timer[t].has
             /\ Fires(t) => Fire(t).done
             /\ timer[t].done => Fire(t).done
             /\ ~Due(t) => Fire(t) = timer[t]
  BY OfTimer, FireFacts
<1>3. ASSUME NEW t \in Timers, Fires(t)
      PROVE  timer[t].gen \in 1..Budget /\ timer[t].has /\ ~timer[t].done
  BY <1>3, OfTimer DEF Fires, Good
<1>4. \A q \in now : \E t \in Timers : Fires(t) /\ q = <<t, timer[t].gen>>
  OBVIOUS
<1>5. now \subseteq Promise
  BY <1>3, <1>4, TimerPromises
<1>6. ASSUME NEW t \in Timers, NEW g \in 1..Budget, <<t, g>> \in fired'
      PROVE  /\ g < timer[t].gen \/ (g = timer[t].gen /\ timer'[t].done)
             /\ <<t, g>> \notin cancelled
  <2>1. CASE <<t, g>> \in fired
    BY <1>1, <1>2, <2>1 DEF HostInv, Histories
  <2>2. CASE <<t, g>> \in now
    <3>1. Fires(t) /\ g = timer[t].gen
      BY <1>4, <2>2
    <3>2. <<t, g>> \in cancelled => g < timer[t].gen
      BY DEF HostInv, Histories
    <3>3. timer'[t].done /\ timer[t].gen \in Nat
      BY <1>1, <1>2, <1>3, <3>1
    <3> QED BY <3>1, <3>2, <3>3
  <2> QED BY <1>1, <1>6, <2>1, <2>2
<1>7. ASSUME NEW w \in waiters
      PROVE  /\ w \notin Requests /\ w = <<w[1], w[2]>> /\ w[1] \in Timers
             /\ timer[w[1]].gen = w[2] /\ timer[w[1]].has /\ ~timer[w[1]].done
  <2>1. PICK u \in Timers, g \in 1..Budget : w = <<u, g>>
    BY DEF HostInv, Waiting, TimerPromise
  <2> QED BY <2>1, TimerPromises DEF HostInv, Waiting, WaitersWillBeSettled
<1>8. SettledByFiring \subseteq waiters
  BY DEF SettledByFiring
<1>9. SettledByFiring \subseteq now
  <2> SUFFICES ASSUME NEW w \in SettledByFiring
               PROVE  w \in now
    OBVIOUS
  <2>1. PICK t \in Timers : Fires(t) /\ WaitsFor(w, t, timer[t].gen)
    BY DEF SettledByFiring
  <2>2. w = <<t, timer[t].gen>>
    BY <1>7, <1>8, <2>1 DEF WaitsFor
  <2> QED BY <2>1, <2>2
<1>10. SettledByFiring \in SUBSET Promise /\ IsFiniteSet(SettledByFiring)
  BY <1>5, <1>9, FinitePromises, FS_Subset
<1>11. ASSUME NEW w \in waiters'
       PROVE  timer'[w[1]] = timer[w[1]]
  <2>1. w \in waiters /\ w \notin SettledByFiring
    BY <1>1
  <2>2. ~Fires(w[1])
    BY <1>7, <2>1 DEF SettledByFiring, WaitsFor
  <2>3. ~Due(w[1])
    BY <1>7, <2>1, <2>2 DEF Fires
  <2> QED BY <1>1, <1>2, <1>7, <2>1, <2>3
<1>12. fired \subseteq fired' /\ fired' \subseteq Promise /\ SettledByFiring \subseteq fired'
  BY <1>1, <1>5, <1>9 DEF HostTypeOK
<1>13. timer' \in [Timers -> TimerRecord]
  BY <1>1, <1>2
<1>14. \A t \in Timers : timer'[t] = Fire(t)
  BY <1>1
<1> HIDE DEF now
<1> QED BY <1>1, <1>2, <1>6, <1>8, <1>10, <1>11, <1>12, <1>13, <1>14

\* The completions fire_timers and the responses polled add to those that wait.
LEMMA CompletedFacts ==
  ASSUME HostTypeOK, HostInv, FireTimers, NEW polled \in SUBSET Answered,
         NEW s \in Listings(SettledByFiring), NEW a \in Listings(polled)
  PROVE  LET d == completions \o Record(s \o a, TRUE)
         IN  /\ d \in Seq(Entry) /\ Unique(d) /\ Entries(d, fired', cancelled)
             /\ Of(d) = Of(completions) \cup SettledByFiring \cup polled
<1>1. /\ SettledByFiring \in SUBSET Promise /\ IsFiniteSet(SettledByFiring)
      /\ SettledByFiring \subseteq waiters /\ SettledByFiring \subseteq fired' /\ fired \subseteq fired'
  BY FiringFacts
<1>2. polled \subseteq outbound /\ polled \in SUBSET Promise /\ polled \subseteq Requests
  BY DEF Answered, HostTypeOK, Promise
<1>3. IsFiniteSet(polled)
  BY <1>2, FinitePromises, FS_Subset
<1>4. /\ s \in Seq(Promise) /\ ToSet(s) = SettledByFiring /\ IsInjective(s)
      /\ a \in Seq(Promise) /\ ToSet(a) = polled /\ IsInjective(a)
  BY <1>1, <1>2, <1>3, Listed
<1>5. /\ Unique(completions) /\ Of(completions) \cap (waiters \cup outbound) = {}
      /\ waiters \cap outbound = {} /\ Entries(completions, fired, cancelled)
  BY DEF HostInv, Referenced
<1>6. /\ s \o a \in Seq(Promise) /\ ToSet(s \o a) = SettledByFiring \cup polled /\ IsInjective(s \o a)
  BY <1>1, <1>2, <1>4, <1>5, JoinedQueue
<1>7. Entries(completions, fired', cancelled)
  BY <1>1, <1>5 DEF Entries
<1>8. Of(completions) \cap (SettledByFiring \cup polled) = {}
  BY <1>1, <1>2, <1>5
<1>9. \A p \in ToSet(s \o a) : p \notin Requests => p \in fired'
  BY <1>1, <1>2, <1>6
<1>10. completions \in Seq(Entry) /\ TRUE \in BOOLEAN
  BY DEF HostTypeOK
<1> DEFINE z == s \o a
           d == completions \o Record(z, TRUE)
<1> HIDE DEF z
<1>11. /\ d \in Seq(Entry)
       /\ Of(d) = Of(completions) \cup ToSet(z)
       /\ Unique(completions) /\ IsInjective(z) /\ Of(completions) \cap ToSet(z) = {} => Unique(d)
       /\ \A f, k : /\ Entries(completions, f, k)
                    /\ \A p \in ToSet(z) : p \notin Requests => p \in f
                    => Entries(d, f, k)
  <2>1. z \in Seq(Promise)
    BY <1>6 DEF z
  <2> QED BY <1>10, <2>1, Recorded
<1> HIDE DEF d
<1>12. d \in Seq(Entry) /\ Unique(d) /\ Entries(d, fired', cancelled)
       /\ Of(d) = Of(completions) \cup SettledByFiring \cup polled
  BY <1>5, <1>6, <1>7, <1>8, <1>9, <1>11 DEF z
<1> QED BY <1>12 DEF d, z

\* The promises of a batch end as their timers ended, the others stay as they are.
LEMMA DeliverFacts ==
  ASSUME HostTypeOK, HostInv, NEW batch \in Seq(Entry), Entries(batch, fired', cancelled),
         Deliver(batch)
  PROVE  /\ promise' \in [Promise -> {"unused", "pending", "value", "none"}]
         /\ \A p \in Of(batch) : promise'[p] \in {"value", "none"}
         /\ \A p \in Promise \ Of(batch) : promise'[p] = promise[p]
         /\ \A p \in Of(batch) \ Requests : /\ promise'[p] = "value" => p \in fired'
                                            /\ promise'[p] = "none" => p \in cancelled
<1> DEFINE ok(p)   == \E i \in DOMAIN batch : batch[i].ok /\ batch[i].of = p
           kept(p) == p \notin Requests /\ wrap[p[1]] = p[2]
<1>1. DOMAIN batch = 1..Len(batch) /\ \A i \in 1..Len(batch) : batch[i] \in Entry
  BY LenProperties, ElementOfSeq
<1>2. \A p \in Promise :
         promise'[p] = IF ok(p) THEN "value"
                       ELSE IF p \in Of(batch) /\ ~kept(p) THEN "none" ELSE promise[p]
  <2> DEFINE all      == {batch[i].of : i \in DOMAIN batch}
             resolved == {batch[i].of : i \in {j \in DOMAIN batch : batch[j].ok}}
             ended    == resolved \cup {p \in all : ~kept(p)}
  <2>1. promise' = [p \in Promise |-> IF p \in resolved THEN "value"
                                      ELSE IF p \in ended THEN "none" ELSE promise[p]]
    BY DEF Deliver
  <2>2. \A p : p \in resolved <=> ok(p)
    OBVIOUS
  <2>3. all = Of(batch)
    BY DEF Of
  <2> HIDE DEF all, resolved, kept
  <2>4. \A p : p \in ended <=> ok(p) \/ (p \in Of(batch) /\ ~kept(p))
    BY <2>2, <2>3
  <2> HIDE DEF ended, ok
  <2> QED BY <2>1, <2>2, <2>4
<1>3. \A p : ok(p) => p \in Of(batch)
  BY DEF Of
<1>4. ASSUME NEW p \in Of(batch), ~ok(p), p \notin Requests
      PROVE  p \in cancelled /\ ~kept(p)
  <2>1. PICK i \in DOMAIN batch : batch[i].of = p
    BY DEF Of
  <2>2. ~batch[i].ok
    BY <1>4, <2>1
  <2>3. p \in cancelled
    BY <1>4, <2>1, <2>2 DEF Entries
  <2>4. PICK t \in Timers, g \in 1..Budget : p = <<t, g>>
    BY <1>4, <2>3 DEF HostTypeOK, Promise
  <2>5. g < timer[t].gen /\ wrap[t] \in {0, timer[t].gen} /\ timer[t].gen \in Nat
    BY <2>3, <2>4, OfTimer DEF HostInv, Histories, Good
  <2>6. wrap[t] # g
    BY <2>5
  <2> QED BY <2>3, <2>4, <2>6
<1>5. ASSUME NEW p \in Of(batch), ok(p), p \notin Requests
      PROVE  p \in fired'
  BY <1>5 DEF Entries
<1>6. Of(batch) \subseteq Promise
  BY <1>1 DEF Of, Entry
<1>7. \A p \in Requests : ~kept(p)
  OBVIOUS
<1> HIDE DEF ok, kept
<1>8. \A p \in Of(batch) : promise'[p] = IF ok(p) THEN "value" ELSE "none"
  BY <1>2, <1>4, <1>6, <1>7
<1>9. \A p \in Promise \ Of(batch) : promise'[p] = promise[p]
  BY <1>2, <1>3
<1>10. promise' \in [Promise -> {"unused", "pending", "value", "none"}]
  <2>1. promise' = [p \in Promise |-> promise'[p]]
    BY DEF Deliver
  <2> HIDE DEF Of
  <2>2. \A p \in Promise : promise'[p] \in {"unused", "pending", "value", "none"}
    BY <1>8, <1>9 DEF HostTypeOK
  <2> QED BY <2>1, <2>2
<1> QED BY <1>4, <1>5, <1>8, <1>9, <1>10

\* What fire_timers preserves, while promises end only as their generations ended.
LEMMA FiredInv ==
  ASSUME HostTypeOK, HostInv, FireTimers, UNCHANGED <<budget, held, wrap, lost, cancelled>>,
         held \subseteq alive', \A w \in waiters' : w[1] \in alive',
         \A p \in Promise \ Requests :
            \/ promise'[p] = promise[p]
            \/ /\ promise[p] = "pending"
               /\ promise'[p] = "value" => p \in fired'
               /\ promise'[p] = "none" => p \in cancelled
  PROVE  Records' /\ Generations' /\ Histories' /\ Waiting'
<1>1. /\ \A t \in Timers : /\ Good(timer'[t], wrap[t], budget)
                           /\ timer'[t].gen = timer[t].gen /\ timer'[t].has = timer[t].has
      /\ fired \subseteq fired'
      /\ \A t \in Timers : \A g \in 1..Budget : <<t, g>> \in fired' =>
               /\ g < timer[t].gen \/ (g = timer[t].gen /\ timer'[t].done)
               /\ <<t, g>> \notin cancelled
      /\ waiters' = waiters \ SettledByFiring
      /\ \A w \in waiters' : timer'[w[1]] = timer[w[1]]
  BY FiringFacts
<1>2. Records'
  BY <1>1 DEF HostInv, Records
<1>3. \A t \in Timers : \A g \in 1..Budget :
            \/ promise'[<<t, g>>] = promise[<<t, g>>]
            \/ /\ promise[<<t, g>>] = "pending"
               /\ promise'[<<t, g>>] = "value" => <<t, g>> \in fired'
               /\ promise'[<<t, g>>] = "none" => <<t, g>> \in cancelled
  BY TimerPromises
<1>4. Generations'
  BY <1>1, <1>3 DEF HostInv, Generations
<1>5. Histories'
  <2> SUFFICES ASSUME NEW u \in Timers, NEW g \in 1..Budget
               PROVE  /\ <<u, g>> \in fired' => g < timer'[u].gen \/ (g = timer'[u].gen /\ timer'[u].done)
                      /\ <<u, g>> \in cancelled => g < timer'[u].gen
                      /\ <<u, g>> \notin fired' \cap cancelled
                      /\ promise'[<<u, g>>] = "value" => <<u, g>> \in fired'
                      /\ promise'[<<u, g>>] = "none" => <<u, g>> \in cancelled
    BY DEF Histories
  <2>1. /\ <<u, g>> \in cancelled => g < timer[u].gen
        /\ promise[<<u, g>>] = "value" => <<u, g>> \in fired
        /\ promise[<<u, g>>] = "none" => <<u, g>> \in cancelled
    BY DEF HostInv, Histories
  <2> QED BY <1>1, <1>3, <2>1
<1>6. Waiting'
  BY <1>1 DEF HostInv, Waiting, WaitersWillBeSettled
<1> QED BY <1>2, <1>4, <1>5, <1>6

\* complete_batch settles every completion: a reference leaves the host with its promise.
LEMMA TakeCompletionsInv ==
  ASSUME HostTypeOK, HostInv, TakeCompletions
  PROVE  HostTypeOK' /\ HostInv'
<1>1. /\ FireTimers /\ outbound' = outbound \ Answered /\ completions' = <<>>
      /\ UNCHANGED <<budget, held, wrap, arrived, lost, cancelled>>
  BY DEF TakeCompletions
<1>2. PICK s \in Listings(SettledByFiring), a \in Listings(Answered) :
        Deliver(completions \o Record(s \o a, TRUE))
  BY DEF TakeCompletions
<1> DEFINE d == completions \o Record(s \o a, TRUE)
<1>3. /\ d \in Seq(Entry) /\ Unique(d) /\ Entries(d, fired', cancelled)
      /\ Of(d) = Of(completions) \cup SettledByFiring \cup Answered
  BY <1>1, CompletedFacts
<1>4. Deliver(d)
  BY <1>2
<1> HIDE DEF d
<1>5. /\ promise' \in [Promise -> {"unused", "pending", "value", "none"}]
      /\ \A p \in Of(d) : promise'[p] \in {"value", "none"}
      /\ \A p \in Promise \ Of(d) : promise'[p] = promise[p]
      /\ \A p \in Of(d) \ Requests : /\ promise'[p] = "value" => p \in fired'
                                     /\ promise'[p] = "none" => p \in cancelled
  BY <1>3, <1>4, DeliverFacts
<1>6. /\ timer' \in [Timers -> TimerRecord] /\ fired' \subseteq Promise
      /\ waiters' = waiters \ SettledByFiring /\ SettledByFiring \subseteq waiters
  BY <1>1, FiringFacts
<1>7. alive' = {t \in alive : t \in held \/ HolderOf(t, waiters' \cup lost)}
  BY <1>4 DEF Deliver
<1>8. held \subseteq alive' /\ alive' \subseteq Timers
  BY <1>7 DEF HostTypeOK, HostInv, Records
<1>9. \A w \in waiters' : w[1] \in alive'
  <2> SUFFICES ASSUME NEW w \in waiters'
               PROVE  w[1] \in alive'
    OBVIOUS
  <2>1. w \notin Requests /\ w[1] \in alive
    <3>1. w \in waiters
      BY <1>6
    <3>2. PICK u \in Timers, g \in 1..Budget : w = <<u, g>>
      BY <3>1 DEF HostInv, Waiting, TimerPromise
    <3> QED BY <3>1, <3>2, TimerPromises DEF HostInv, Waiting, WaitersWillBeSettled
  <2> QED BY <1>7, <2>1 DEF HolderOf
<1>10. \A p \in Of(d) : p \in Promise => promise[p] = "pending"
  BY <1>3, <1>6 DEF HostInv, Referenced, Answered
<1>11. Records' /\ Generations' /\ Histories' /\ Waiting'
  <2>1. \A p \in Promise \ Requests :
            \/ promise'[p] = promise[p]
            \/ /\ promise[p] = "pending"
               /\ promise'[p] = "value" => p \in fired'
               /\ promise'[p] = "none" => p \in cancelled
    BY <1>5, <1>10
  <2> QED BY <1>1, <1>8, <1>9, <2>1, FiredInv
<1>12. HostTypeOK'
  <2>1. completions' \in Seq(Entry) /\ outbound' \subseteq Requests
    BY <1>1, NoneRecorded DEF HostTypeOK
  <2>2. waiters' \subseteq Promise
    BY <1>6 DEF HostTypeOK
  <2> QED BY <1>1, <1>5, <1>6, <1>8, <2>1, <2>2, Zenon DEF HostTypeOK
<1>13. Entries(completions, fired, cancelled)'
  BY <1>1, NoneRecorded
<1>14. Referenced'
  <2>1. Of(completions') = {} /\ Unique(completions')
    BY <1>1, NoneRecorded
  <2>2. \A p \in Promise : promise'[p] = "pending"
                           <=> p \in Of(completions') \cup waiters' \cup lost' \cup outbound'
    <3> SUFFICES ASSUME NEW p \in Promise
                 PROVE  promise'[p] = "pending" <=> p \in waiters' \cup lost \cup outbound'
      BY <1>1, <2>1
    <3>1. promise[p] = "pending" <=> p \in Of(completions) \cup waiters \cup lost \cup outbound
      BY DEF HostInv, Referenced
    <3>2. CASE p \in Of(d)
      <4>1. promise'[p] # "pending"
        BY <1>5, <3>2
      <4>2. p \notin waiters' \cup lost \cup outbound'
        BY <1>1, <1>3, <1>6, <3>2 DEF HostInv, Referenced, Answered
      <4> QED BY <4>1, <4>2
    <3>3. CASE p \notin Of(d)
      BY <1>1, <1>3, <1>5, <1>6, <3>1, <3>3
    <3> QED BY <3>2, <3>3
  <2> QED BY <1>1, <1>6, <2>1, <2>2 DEF HostInv, Referenced
<1> QED BY <1>11, <1>12, <1>13, <1>14 DEF HostInv

\* A turn of lasm_edge_wait moves references to the completions.
LEMMA WaitTurnInv ==
  ASSUME HostTypeOK, HostInv, WaitTurn
  PROVE  HostTypeOK' /\ HostInv'
<1>1. PICK polled \in SUBSET Answered :
        /\ outbound' = outbound \ polled
        /\ \E s \in Listings(SettledByFiring), a \in Listings(polled) :
             completions' = completions \o Record(s \o a, TRUE)
  BY DEF WaitTurn
<1>2. FireTimers /\ UNCHANGED <<budget, leanVars, alive, arrived, lost, cancelled>>
  BY DEF WaitTurn
<1>3. PICK s \in Listings(SettledByFiring), a \in Listings(polled) :
        completions' = completions \o Record(s \o a, TRUE)
  BY <1>1
<1>4. /\ completions' \in Seq(Entry) /\ Unique(completions')
      /\ Entries(completions', fired', cancelled)
      /\ Of(completions') = Of(completions) \cup SettledByFiring \cup polled
  BY <1>2, <1>3, CompletedFacts
<1>5. /\ timer' \in [Timers -> TimerRecord] /\ fired' \subseteq Promise
      /\ waiters' = waiters \ SettledByFiring /\ SettledByFiring \subseteq waiters
  BY <1>2, FiringFacts
<1>6. UNCHANGED <<budget, promise, held, wrap, alive, arrived, lost, cancelled>>
  BY <1>2 DEF leanVars
<1>7. Records' /\ Generations' /\ Histories' /\ Waiting'
  <2>1. held \subseteq alive' /\ \A w \in waiters' : w[1] \in alive'
    BY <1>5, <1>6 DEF HostInv, Records, Waiting, WaitersWillBeSettled
  <2> QED BY <1>2, <1>6, <2>1, FiredInv
<1>8. HostTypeOK'
  <2>1. outbound' \subseteq Requests /\ waiters' \subseteq Promise
    BY <1>1, <1>5 DEF HostTypeOK
  <2> QED BY <1>4, <1>5, <1>6, <2>1, Zenon DEF HostTypeOK
<1>9. Entries(completions, fired, cancelled)'
  BY <1>4, <1>6
<1>10. Referenced'
  BY <1>1, <1>4, <1>5, <1>6 DEF HostInv, Referenced, Answered
<1> QED BY <1>7, <1>8, <1>9, <1>10 DEF HostInv

\* A tick only counts deadlines down.
LEMMA TickInv ==
  ASSUME HostTypeOK, HostInv, Tick
  PROVE  HostTypeOK' /\ HostInv'
<1>1. /\ timer' = [t \in Timers |-> [timer[t] EXCEPT !.left = Less(@)]]
      /\ UNCHANGED <<budget, promise, held, wrap, alive, waiters, outbound, arrived, completions,
                     lost, fired, cancelled>>
  BY DEF Tick, leanVars
<1>2. ASSUME NEW t \in Timers
      PROVE  /\ timer'[t] \in TimerRecord
             /\ timer'[t].phase = timer[t].phase /\ timer'[t].gen = timer[t].gen
             /\ timer'[t].has = timer[t].has /\ timer'[t].done = timer[t].done
             /\ timer'[t].armed = timer[t].armed
  <2>1. timer[t] \in TimerRecord
    BY DEF HostTypeOK
  <2>2. Less(timer[t].left) \in Nat
    BY <2>1 DEF TimerRecord, Less
  <2>3. timer'[t] = [timer[t] EXCEPT !.left = Less(timer[t].left)]
    BY <1>1
  <2> QED BY <2>1, <2>2, <2>3, Zenon DEF TimerRecord
<1>3. HostTypeOK'
  <2>1. timer' \in [Timers -> TimerRecord]
    <3>1. timer' = [t \in Timers |-> timer'[t]]
      BY <1>1
    <3> QED BY <1>2, <3>1
  <2> QED BY <1>1, <2>1, Zenon DEF HostTypeOK
<1>4. Records'
  BY <1>1, <1>2 DEF HostInv, Records, Good
<1>5. Generations' /\ Histories'
  <2>1. Generations'
    BY <1>1, <1>2 DEF HostInv, Generations
  <2>2. Histories'
    BY <1>1, <1>2, ZenonT(30) DEF HostInv, Histories
  <2> QED BY <2>1, <2>2
<1>7. Entries(completions, fired, cancelled)' /\ Referenced'
  BY <1>1 DEF HostInv, Entries, Referenced, Of, Unique
<1>6. Waiting'
  <2>1. \A w \in waiters : w[1] \in Timers
    BY DEF HostInv, Waiting, TimerPromise
  <2> QED BY <1>1, <1>2, <2>1 DEF HostInv, Waiting, WaitersWillBeSettled
<1> QED BY <1>3, <1>4, <1>5, <1>6, <1>7 DEF HostInv

\* The host's tables are consistent initially.
LEMMA InitHost ==
  ASSUME Init
  PROVE  HostTypeOK /\ HostInv
<1> USE DEF Init
<1> DEFINE blank == [phase |-> 0, gen |-> 0, has |-> FALSE, done |-> FALSE, armed |-> FALSE,
                     left |-> 0]
<1>1. 0 \in 0..Budget /\ Budget \in 0..Budget
  BY CoopAssumption
<1>2. blank \in TimerRecord
  BY <1>1 DEF TimerRecord
<1>3. HostTypeOK
  <2>1. timer \in [Timers -> TimerRecord]
    BY <1>2
  <2> QED BY <1>1, <2>1, NoneRecorded DEF HostTypeOK
<1>4. Records
  BY CoopAssumption DEF Records, Good
<1>5. Generations /\ Histories
  BY TimerPromises DEF Generations, Histories
<1>6. Entries(completions, fired, cancelled) /\ Referenced
  BY NoneRecorded DEF Referenced
<1>7. Waiting
  BY DEF Waiting, WaitersWillBeSettled
<1> QED BY <1>3, <1>4, <1>5, <1>6, <1>7 DEF HostInv

\* A step that changes nothing, or only makes a call.
Quiet == budget' \in 0..budget /\ UNCHANGED <<pc, stack, blocking, leanVars, hostVars>>

\* Every step keeps the host's tables consistent.
LEMMA StepHost ==
  ASSUME HostTypeOK, HostInv, Next \/ Quiet
  PROVE  HostTypeOK' /\ HostInv'
<1>1. budget \in Nat /\ arrived \subseteq Requests
  BY DEF HostTypeOK
<1>2. ASSUME NEW k \in Tasks, Spawn(k) \/ \E p \in Promise : Continue(k, p)
      PROVE  HostTypeOK' /\ HostInv'
  BY <1>1, <1>2, HostQuiet DEF Spawn, Continue, Call, hostVars
<1>3. ASSUME NEW t \in Timers, \/ MakeTimer(t) \/ NextTimer(t) \/ ResetTimer(t)
                               \/ StopTimer(t) \/ CancelTimer(t) \/ DropTimer(t)
      PROVE  HostTypeOK' /\ HostInv'
  BY <1>3, MakeTimerInv, NextTimerInv, ResetTimerInv, StopTimerInv, DropTimerInv
<1>4. ASSUME NEW r \in Requests, SendRequest(r) \/ StartRequest(r)
      PROVE  HostTypeOK' /\ HostInv'
  BY <1>4, RequestInv DEF SendRequest, StartRequest
<1>5. CASE (\E x, y \in Awaitable : Get({x, y})) \/ (\E n \in 1..MaxSleep : Sleep(n)) \/ Return
  <2>3. (budget > 0 /\ budget' = budget - 1) \/ budget' = budget
    BY <1>5, Zenon DEF Get, Sleep, Return, Call
  <2>1. budget' \in 0..budget
    BY <1>1, <2>3
  <2>2. UNCHANGED <<promise, held, wrap, hostVars>>
    BY <1>5 DEF Get, Sleep, Return, leanVars
  <2> QED BY <1>1, <2>1, <2>2, HostQuiet DEF hostVars
<1>6. CASE WaitReturns \/ RunOne \/ WaitDone \/ WaitFails
  BY <1>1, <1>6, HostQuiet DEF WaitReturns, RunOne, WaitDone, WaitFails, leanVars, hostVars
<1>7. CASE Poll \/ PollAgain
  BY <1>7, TakeCompletionsInv DEF Poll, PollAgain
<1>8. CASE WaitTurn \/ Tick
  BY <1>8, WaitTurnInv, TickInv
<1>9. CASE (\E r \in Requests : Arrive(r)) \/ Over \/ Quiet
  BY <1>1, <1>9, HostQuiet DEF Arrive, Over, Quiet, vars, leanVars, hostVars
<1> QED BY <1>2, <1>3, <1>4, <1>5, <1>6, <1>7, <1>8, <1>9 DEF Next, Program, Runtime

-----------------------------------------------------------------------------
(* The blocking calls mirror the sleeping frames of the stack.             *)

\* Call i of b is the one of frame at[i] of s.
Mirrors(at, b, s) ==
    /\ at \in [1..Len(b) -> 1..Len(s)]
    /\ \A i, j \in 1..Len(b) : i < j => at[i] < at[j]
    /\ \A i \in 1..Len(b) : s[at[i]].kind = "sleep" /\ b[i] = s[at[i]].left
    /\ \A k \in 1..Len(s) : s[k].kind = "sleep" => \E i \in 1..Len(b) : at[i] = k

IsMirror(b, s) == \E at : Mirrors(at, b, s)

\* The form of BlockingIsStack.
LEMMA MirrorForm ==
  ASSUME NEW b \in Seq(0..MaxSleep), NEW s \in Seq(Frame)
  PROVE  IsMirror(b, s) <=>
            \E at \in [DOMAIN b -> DOMAIN s] :
                /\ \A i, j \in DOMAIN b : i < j => at[i] < at[j]
                /\ {at[i] : i \in DOMAIN b} = {i \in DOMAIN s : s[i].kind = "sleep"}
                /\ \A i \in DOMAIN b : b[i] = s[at[i]].left
<1>1. DOMAIN b = 1..Len(b) /\ DOMAIN s = 1..Len(s)
  BY LenProperties
<1>2. ASSUME NEW at, Mirrors(at, b, s)
      PROVE  {at[i] : i \in DOMAIN b} = {i \in DOMAIN s : s[i].kind = "sleep"}
  BY <1>1, <1>2 DEF Mirrors
<1>3. ASSUME NEW at \in [DOMAIN b -> DOMAIN s],
             \A i, j \in DOMAIN b : i < j => at[i] < at[j],
             {at[i] : i \in DOMAIN b} = {i \in DOMAIN s : s[i].kind = "sleep"},
             \A i \in DOMAIN b : b[i] = s[at[i]].left
      PROVE  Mirrors(at, b, s)
  <2>1. \A i \in DOMAIN b : s[at[i]].kind = "sleep"
    BY <1>3
  <2>2. \A k \in DOMAIN s : s[k].kind = "sleep" => \E i \in DOMAIN b : at[i] = k
    BY <1>3
  <2> QED BY <1>1, <1>3, <2>1, <2>2 DEF Mirrors
<1>4. ASSUME NEW at, Mirrors(at, b, s)
      PROVE  /\ at \in [DOMAIN b -> DOMAIN s]
             /\ \A i, j \in DOMAIN b : i < j => at[i] < at[j]
             /\ \A i \in DOMAIN b : b[i] = s[at[i]].left
  BY <1>1, <1>4 DEF Mirrors
<1> DEFINE Form(at) == /\ \A i, j \in DOMAIN b : i < j => at[i] < at[j]
                       /\ {at[i] : i \in DOMAIN b} = {i \in DOMAIN s : s[i].kind = "sleep"}
                       /\ \A i \in DOMAIN b : b[i] = s[at[i]].left
<1>5. \A at : Mirrors(at, b, s) => at \in [DOMAIN b -> DOMAIN s] /\ Form(at)
  BY <1>2, <1>4
<1>6. \A at \in [DOMAIN b -> DOMAIN s] : Form(at) => Mirrors(at, b, s)
  BY <1>3
<1>7. IsMirror(b, s) <=> \E at \in [DOMAIN b -> DOMAIN s] : Form(at)
  <2> HIDE DEF Form
  <2> QED BY <1>5, <1>6 DEF IsMirror
<1> QED BY <1>7

\* No call and no sleeping frame.
LEMMA MirrorInit ==
  ASSUME NEW f, f.kind # "sleep"
  PROVE  IsMirror(<<>>, <<f>>)
<1> DEFINE at == [i \in 1..0 |-> 1]
<1>1. Len(<<>>) = 0 /\ Len(<<f>>) = 1 /\ <<f>>[1] = f
  OBVIOUS
<1>2. Mirrors(at, <<>>, <<f>>)
  BY <1>1 DEF Mirrors
<1> QED BY <1>2 DEF IsMirror

\* A frame is pushed; a sleeping one with its call.
LEMMA MirrorPush ==
  ASSUME NEW b \in Seq(0..MaxSleep), NEW s \in Seq(Frame), IsMirror(b, s), NEW f \in Frame
  PROVE  /\ f.kind # "sleep" => IsMirror(b, Append(s, f))
         /\ f.kind = "sleep" /\ f.left \in 0..MaxSleep => IsMirror(Append(b, f.left), Append(s, f))
<1> DEFINE z == Append(s, f)
<1>1. /\ Len(b) \in Nat /\ Len(s) \in Nat
      /\ Len(z) = Len(s) + 1 /\ z[Len(s) + 1] = f
      /\ \A i \in 1..Len(s) : z[i] = s[i]
  BY LenProperties, AppendProperties
<1>2. PICK at : Mirrors(at, b, s)
  BY DEF IsMirror
<1> HIDE DEF z
<1>3. ASSUME f.kind # "sleep"
      PROVE  IsMirror(b, z)
  <2>1. at \in [1..Len(b) -> 1..Len(z)]
    BY <1>1, <1>2 DEF Mirrors
  <2>2. \A i \in 1..Len(b) : z[at[i]].kind = "sleep" /\ b[i] = z[at[i]].left
    BY <1>1, <1>2 DEF Mirrors
  <2>3. \A k \in 1..Len(z) : z[k].kind = "sleep" => \E i \in 1..Len(b) : at[i] = k
    <3>1. \A k \in 1..Len(z) : k \in 1..Len(s) \/ k = Len(s) + 1
      BY <1>1
    <3> QED BY <1>1, <1>2, <1>3, <3>1 DEF Mirrors
  <2>4. Mirrors(at, b, z)
    BY <1>2, <2>1, <2>2, <2>3 DEF Mirrors
  <2> QED BY <2>4 DEF IsMirror
<1>4. ASSUME f.kind = "sleep", f.left \in 0..MaxSleep
      PROVE  IsMirror(Append(b, f.left), z)
  <2> DEFINE c == Append(b, f.left)
             to == [i \in 1..Len(b) + 1 |-> IF i = Len(b) + 1 THEN Len(s) + 1 ELSE at[i]]
  <2>1. /\ Len(c) = Len(b) + 1 /\ c[Len(b) + 1] = f.left
        /\ \A i \in 1..Len(b) : c[i] = b[i]
    BY <1>4, AppendProperties
  <2> HIDE DEF c
  <2>2. \A i \in 1..Len(c) : i \in 1..Len(b) \/ i = Len(b) + 1
    BY <1>1, <2>1
  <2>3. /\ \A i \in 1..Len(b) : at[i] \in 1..Len(s) /\ to[i] = at[i] /\ i # Len(b) + 1
        /\ to[Len(b) + 1] = Len(s) + 1
    BY <1>1, <1>2 DEF Mirrors
  <2>4. to \in [1..Len(c) -> 1..Len(z)]
    <3>1. 1..Len(s) \subseteq 1..Len(z) /\ Len(s) + 1 \in 1..Len(z)
      BY <1>1
    <3>2. \A i \in 1..Len(b) + 1 : i \in 1..Len(b) \/ i = Len(b) + 1
      BY <2>1, <2>2
    <3>3. \A i \in 1..Len(b) + 1 : to[i] \in 1..Len(z)
      BY <2>3, <3>1, <3>2
    <3> HIDE DEF z
    <3> QED BY <2>1, <3>3
  <2> HIDE DEF to
  <2>5. \A i, j \in 1..Len(c) : i < j => to[i] < to[j]
    <3> SUFFICES ASSUME NEW i \in 1..Len(c), NEW j \in 1..Len(c), i < j
                 PROVE  to[i] < to[j]
      OBVIOUS
    <3>1. i \in 1..Len(b)
      BY <1>1, <2>1
    <3>2. CASE j \in 1..Len(b)
      BY <1>2, <2>3, <3>1, <3>2 DEF Mirrors
    <3>3. CASE j = Len(b) + 1
      BY <1>1, <2>3, <3>1, <3>3
    <3> QED BY <2>2, <3>2, <3>3
  <2>6. \A i \in 1..Len(c) : z[to[i]].kind = "sleep" /\ c[i] = z[to[i]].left
    <3> SUFFICES ASSUME NEW i \in 1..Len(c)
                 PROVE  z[to[i]].kind = "sleep" /\ c[i] = z[to[i]].left
      OBVIOUS
    <3>1. CASE i \in 1..Len(b)
      BY <1>1, <1>2, <2>1, <2>3, <3>1 DEF Mirrors
    <3>2. CASE i = Len(b) + 1
      BY <1>1, <1>4, <2>1, <2>3, <3>2
    <3> QED BY <2>2, <3>1, <3>2
  <2>7. \A k \in 1..Len(z) : z[k].kind = "sleep" => \E i \in 1..Len(c) : to[i] = k
    <3> SUFFICES ASSUME NEW k \in 1..Len(z), z[k].kind = "sleep"
                 PROVE  \E i \in 1..Len(c) : to[i] = k
      OBVIOUS
    <3>1. CASE k \in 1..Len(s)
      <4>1. PICK i \in 1..Len(b) : at[i] = k
        BY <1>1, <1>2, <3>1 DEF Mirrors
      <4>2. i \in 1..Len(c)
        BY <1>1, <2>1
      <4> QED BY <2>3, <4>1, <4>2
    <3>2. CASE k = Len(s) + 1
      <4>1. Len(b) + 1 \in 1..Len(c)
        BY <1>1, <2>1
      <4> QED BY <2>3, <3>2, <4>1
    <3> QED BY <1>1, <3>1, <3>2
  <2>8. Mirrors(to, c, z)
    BY <2>4, <2>5, <2>6, <2>7 DEF Mirrors
  <2> QED BY <2>8 DEF IsMirror, c
<1> QED BY <1>3, <1>4 DEF z

\* A sequence without its last element.
LEMMA Popped ==
  ASSUME NEW S, NEW s \in Seq(S), s # <<>>
  PROVE  LET z == SubSeq(s, 1, Len(s) - 1)
         IN  /\ z \in Seq(S) /\ Len(s) \in Nat \ {0} /\ Len(z) = Len(s) - 1
             /\ \A i \in 1..Len(s) - 1 : z[i] = s[i] /\ i \in 1..Len(s) /\ i < Len(s)
<1> DEFINE n == Len(s) - 1
<1>1. Len(s) \in Nat /\ Len(s) # 0
  BY EmptySeq
<1>2. n \in Nat /\ 1 \in Int /\ n \in Int
  BY <1>1
<1>3. \A i \in 1..n : i \in 1..Len(s) /\ i < Len(s)
  BY <1>1
<1> HIDE DEF n
<1>4. \A i \in 1..n : 1 + i - 1 = i
  BY <1>2
<1>5. n - 1 + 1 = n
  BY <1>2
<1>6. 1 <= n \/ n = 0
  BY <1>2
<1>7. \A i \in 1..n : s[i] \in S
  BY <1>3, ElementOfSeq
<1>8. /\ SubSeq(s, 1, n) \in Seq(S)
      /\ Len(SubSeq(s, 1, n)) = IF 1 <= n THEN n - 1 + 1 ELSE 0
      /\ \A i \in 1..n - 1 + 1 : SubSeq(s, 1, n)[i] = s[1 + i - 1]
  BY <1>2, <1>7, SubSeqProperties
<1>9. /\ SubSeq(s, 1, n) \in Seq(S) /\ Len(SubSeq(s, 1, n)) = n
      /\ \A i \in 1..n : SubSeq(s, 1, n)[i] = s[i]
  BY <1>2, <1>8, <1>4, <1>5, <1>6
<1> QED BY <1>1, <1>9, <1>3 DEF n

\* The innermost frame is popped; a sleeping one with its call.
LEMMA MirrorPop ==
  ASSUME NEW b \in Seq(0..MaxSleep), NEW s \in Seq(Frame), IsMirror(b, s), s # <<>>
  PROVE  LET z == SubSeq(s, 1, Len(s) - 1)
         IN  /\ s[Len(s)].kind # "sleep" => IsMirror(b, z)
             /\ s[Len(s)].kind = "sleep" => b # <<>> /\ IsMirror(Front(b), z)
<1> DEFINE z == SubSeq(s, 1, Len(s) - 1)
<1>1. /\ Len(b) \in Nat /\ Len(s) \in Nat \ {0}
      /\ Len(z) = Len(s) - 1 /\ \A i \in 1..Len(s) - 1 : z[i] = s[i] /\ i \in 1..Len(s)
  BY LenProperties, Popped
<1>2. PICK at : Mirrors(at, b, s)
  BY DEF IsMirror
<1> HIDE DEF z
<1>3. \A k \in 1..Len(z) : k \in 1..Len(s) /\ z[k] = s[k] /\ k # Len(s)
  BY <1>1
<1>4. \A k \in 1..Len(s) : k # Len(s) => k \in 1..Len(z)
  BY <1>1
<1>5. /\ at \in [1..Len(b) -> 1..Len(s)]
      /\ \A i, j \in 1..Len(b) : i < j => at[i] < at[j]
      /\ \A i \in 1..Len(b) : s[at[i]].kind = "sleep" /\ b[i] = s[at[i]].left
      /\ \A k \in 1..Len(s) : s[k].kind = "sleep" => \E i \in 1..Len(b) : at[i] = k
  BY <1>2 DEF Mirrors
<1>6. ASSUME s[Len(s)].kind # "sleep"
      PROVE  IsMirror(b, z)
  <2>1. \A i \in 1..Len(b) : at[i] \in 1..Len(z)
    BY <1>4, <1>5, <1>6
  <2>2. at \in [1..Len(b) -> 1..Len(z)]
    BY <1>5, <2>1
  <2>3. Mirrors(at, b, z)
    BY <1>3, <1>5, <2>1, <2>2 DEF Mirrors
  <2> QED BY <2>3 DEF IsMirror
<1>7. ASSUME s[Len(s)].kind = "sleep"
      PROVE  b # <<>> /\ IsMirror(Front(b), z)
  <2> DEFINE c  == Front(b)
             to == [i \in 1..Len(b) - 1 |-> at[i]]
  <2>1. PICK j \in 1..Len(b) : at[j] = Len(s)
    BY <1>1, <1>5, <1>7
  <2>2. j = Len(b)
    <3> SUFFICES ASSUME j # Len(b)
                 PROVE  FALSE
      OBVIOUS
    <3>1. Len(b) \in 1..Len(b) /\ j < Len(b)
      BY <1>1
    <3>2. at[j] < at[Len(b)] /\ at[Len(b)] \in 1..Len(s)
      BY <1>5, <3>1
    <3> QED BY <1>1, <2>1, <3>2
  <2>3. b # <<>>
    BY <2>1
  <2>4. Len(c) = Len(b) - 1 /\ \A i \in 1..Len(b) - 1 : c[i] = b[i] /\ i \in 1..Len(b) /\ i < Len(b)
    BY <2>3, Popped DEF Front
  <2> HIDE DEF c
  <2>5. \A i \in 1..Len(b) - 1 : at[i] < Len(s) /\ at[i] \in 1..Len(z)
    <3> SUFFICES ASSUME NEW i \in 1..Len(b) - 1
                 PROVE  at[i] < Len(s) /\ at[i] \in 1..Len(z)
      OBVIOUS
    <3>1. at[i] < Len(s) /\ at[i] \in 1..Len(s)
      BY <1>5, <2>1, <2>2, <2>4
    <3> QED BY <1>1, <1>4, <3>1
  <2>6. to \in [1..Len(c) -> 1..Len(z)] /\ \A i \in 1..Len(c) : to[i] = at[i]
    BY <2>4, <2>5
  <2> HIDE DEF to
  <2>7. \A k \in 1..Len(z) : z[k].kind = "sleep" => \E i \in 1..Len(c) : to[i] = k
    <3> SUFFICES ASSUME NEW k \in 1..Len(z), z[k].kind = "sleep"
                 PROVE  \E i \in 1..Len(c) : to[i] = k
      OBVIOUS
    <3>1. PICK i \in 1..Len(b) : at[i] = k
      BY <1>3, <1>5
    <3>2. i # Len(b)
      BY <1>3, <2>1, <2>2, <3>1
    <3>3. i \in 1..Len(c)
      BY <1>1, <2>4, <3>2
    <3> QED BY <2>6, <3>1, <3>3
  <2>8. Mirrors(to, c, z)
    <3>1. \A i, k \in 1..Len(c) : i < k => to[i] < to[k]
      BY <1>5, <2>4, <2>6
    <3>2. \A i \in 1..Len(c) : z[to[i]].kind = "sleep" /\ c[i] = z[to[i]].left
      <4> SUFFICES ASSUME NEW i \in 1..Len(c)
                   PROVE  z[to[i]].kind = "sleep" /\ c[i] = z[to[i]].left
        OBVIOUS
      <4>1. i \in 1..Len(b) - 1 /\ i \in 1..Len(b) /\ c[i] = b[i]
        BY <2>4
      <4>2. to[i] = at[i] /\ z[at[i]] = s[at[i]]
        BY <1>3, <2>5, <2>6, <4>1
      <4> QED BY <1>5, <4>1, <4>2
    <3> QED BY <2>6, <2>7, <3>1, <3>2 DEF Mirrors
  <2> QED BY <2>3, <2>8 DEF IsMirror, c
<1> QED BY <1>6, <1>7 DEF z

\* A frame a tick later.
LEMMA FrameFacts ==
  ASSUME NEW f \in Frame
  PROVE  /\ [f EXCEPT !.left = Less(@)] \in Frame
         /\ [f EXCEPT !.left = Less(@)].kind = f.kind
         /\ [f EXCEPT !.left = Less(@)].on = f.on
         /\ [f EXCEPT !.left = Less(@)].left = Less(f.left)
         /\ f.kind = "sleep" => f.left \in 0..MaxSleep
<1>1. Less(0) = 0 /\ \A n \in 0..MaxSleep : Less(n) \in 0..MaxSleep
  BY CoopAssumption DEF Less
<1>2. CASE f \in [kind : {"main", "task"}, on : SUBSET Tasks, left : {0}]
  BY <1>1, <1>2 DEF Frame
<1>3. CASE f \in [kind : {"get"}, on : SUBSET Awaitable, left : {0}]
  BY <1>1, <1>3 DEF Frame
<1>4. CASE f \in [kind : {"sleep"}, on : {{}}, left : 0..MaxSleep]
  BY <1>1, <1>4 DEF Frame
<1> QED BY <1>2, <1>3, <1>4 DEF Frame

\* Both count down together.
LEMMA MirrorTick ==
  ASSUME NEW b \in Seq(0..MaxSleep), NEW s \in Seq(Frame), IsMirror(b, s)
  PROVE  LET c == [i \in DOMAIN b |-> Less(b[i])]
             z == [i \in DOMAIN s |-> [s[i] EXCEPT !.left = Less(@)]]
         IN  /\ c \in Seq(0..MaxSleep) /\ z \in Seq(Frame) /\ Len(z) = Len(s)
             /\ \A i \in 1..Len(s) : z[i].kind = s[i].kind /\ z[i].on = s[i].on
             /\ IsMirror(c, z)
<1> DEFINE c == [i \in DOMAIN b |-> Less(b[i])]
           z == [i \in DOMAIN s |-> [s[i] EXCEPT !.left = Less(@)]]
<1>1. /\ DOMAIN b = 1..Len(b) /\ \A i \in 1..Len(b) : b[i] \in 0..MaxSleep
      /\ DOMAIN s = 1..Len(s) /\ \A i \in 1..Len(s) : s[i] \in Frame
      /\ Len(b) \in Nat /\ Len(s) \in Nat
  BY LenProperties, ElementOfSeq
<1>2. \A n \in 0..MaxSleep : Less(n) \in 0..MaxSleep
  BY CoopAssumption DEF Less
<1>3. c \in Seq(0..MaxSleep) /\ Len(c) = Len(b) /\ \A i \in 1..Len(b) : c[i] = Less(b[i])
  BY <1>1, <1>2
<1>4. \A i \in 1..Len(s) : /\ z[i] \in Frame /\ z[i].kind = s[i].kind /\ z[i].on = s[i].on
                           /\ z[i].left = Less(s[i].left)
  BY <1>1, FrameFacts
<1>5. z \in Seq(Frame) /\ Len(z) = Len(s)
  <2>1. z = [i \in 1..Len(s) |-> z[i]]
    BY <1>1
  <2> HIDE DEF z
  <2> QED BY <1>1, <1>4, <2>1
<1> HIDE DEF c, z
<1>6. PICK at : Mirrors(at, b, s)
  BY DEF IsMirror
<1>7. Mirrors(at, c, z)
  <2>1. /\ at \in [1..Len(b) -> 1..Len(s)]
        /\ \A i, j \in 1..Len(b) : i < j => at[i] < at[j]
        /\ \A i \in 1..Len(b) : s[at[i]].kind = "sleep" /\ b[i] = s[at[i]].left
        /\ \A k \in 1..Len(s) : s[k].kind = "sleep" => \E i \in 1..Len(b) : at[i] = k
    BY <1>6 DEF Mirrors
  <2>2. \A i \in 1..Len(b) : z[at[i]].kind = "sleep" /\ c[i] = z[at[i]].left
    <3> SUFFICES ASSUME NEW i \in 1..Len(b)
                 PROVE  z[at[i]].kind = "sleep" /\ c[i] = z[at[i]].left
      OBVIOUS
    <3>1. at[i] \in 1..Len(s) /\ s[at[i]].kind = "sleep" /\ b[i] = s[at[i]].left
      BY <2>1
    <3>2. z[at[i]].kind = s[at[i]].kind /\ z[at[i]].left = Less(s[at[i]].left)
      BY <1>4, <3>1
    <3>3. c[i] = Less(b[i])
      BY <1>3
    <3> QED BY <3>1, <3>2, <3>3
  <2>3. \A k \in 1..Len(s) : z[k].kind = "sleep" => \E i \in 1..Len(b) : at[i] = k
    BY <1>4, <2>1
  <2>4. Len(c) = Len(b) /\ Len(z) = Len(s)
    BY <1>3, <1>5
  <2> QED BY <2>1, <2>2, <2>3, <2>4 DEF Mirrors
<1>8. IsMirror(c, z)
  BY <1>7 DEF IsMirror
<1> QED BY <1>3, <1>4, <1>5, <1>8 DEF c, z

-----------------------------------------------------------------------------
(* The stack, the task manager and the wait loop.                          *)

\* The promises q end.
LEMMA EnqueueFacts ==
  ASSUME LeanTypeOK, NEW q, Enqueue(q)
  PROVE  /\ queue' \in Seq(Tasks)
         /\ job' \in [Tasks -> {"new", "bound", "queued", "running", "done"}]
         /\ q = {} => queue' = queue /\ job' = job
<1> DEFINE ready == {k \in Tasks : job[k] = "bound" /\ dep[k] \in q}
<1>1. /\ queue \in Seq(Tasks)
      /\ job \in [Tasks -> {"new", "bound", "queued", "running", "done"}]
  BY DEF LeanTypeOK
<1>2. PICK s \in Listings(ready) : queue' = queue \o s
  BY DEF Enqueue
<1>3. job' = [k \in Tasks |-> IF k \in ready THEN "queued" ELSE job[k]]
  BY DEF Enqueue
<1>4. ready \in SUBSET Tasks /\ IsFiniteSet(ready) /\ (q = {} => ready = {})
  BY CoopAssumption, FS_Subset
<1> HIDE DEF ready
<1>5. s \in Seq(Tasks) /\ (ready = {} => s = <<>>)
  BY <1>4, Listed
<1>6. queue' \in Seq(Tasks)
  BY <1>1, <1>2, <1>5, JoinedQueue
<1>7. job' \in [Tasks -> {"new", "bound", "queued", "running", "done"}]
  BY <1>1, <1>3
<1>8. ready = {} => job' = job
  BY <1>1, <1>3
<1>9. queue \o <<>> = queue
  BY <1>1, ConcatEmptySeq
<1> QED BY <1>2, <1>4, <1>5, <1>6, <1>7, <1>8, <1>9

\* A frame is pushed.
LEMMA StackPush ==
  ASSUME NEW s \in Seq(Frame), Stacked(s), NEW f \in Frame, f.kind # "main",
         IsWait(f) <=> ~IsWait(s[Len(s)])
  PROVE  LET z == Append(s, f)
         IN  z \in Seq(Frame) /\ Stacked(z) /\ z[Len(z)] = f
<1> DEFINE z == Append(s, f)
<1>1. /\ z \in Seq(Frame) /\ Len(s) \in Nat /\ Len(s) # 0 /\ Len(z) = Len(s) + 1
      /\ z[Len(s) + 1] = f /\ \A i \in 1..Len(s) : z[i] = s[i]
  BY AppendProperties, LenProperties, EmptySeq DEF Stacked
<1> HIDE DEF z
<1>2. z # <<>>
  BY <1>1, EmptySeq
<1>3. ASSUME NEW i \in 1..Len(z)
      PROVE  /\ z[i].kind = "main" <=> i = 1
             /\ i # 1 => (IsWait(z[i]) <=> ~IsWait(z[i - 1]))
  <2>1. CASE i = Len(s) + 1
    <3>1. i # 1 /\ i - 1 = Len(s) /\ Len(s) \in 1..Len(s)
      BY <1>1, <2>1
    <3> QED BY <1>1, <2>1, <3>1
  <2>2. CASE i # Len(s) + 1
    <3>1. i \in 1..Len(s) /\ (i # 1 => i - 1 \in 1..Len(s))
      BY <1>1, <2>2
    <3> QED BY <1>1, <3>1 DEF Stacked
  <2> QED BY <2>1, <2>2
<1>4. Stacked(z)
  BY <1>2, <1>3 DEF Stacked
<1>5. z[Len(z)] = f
  BY <1>1
<1> QED BY <1>1, <1>4, <1>5 DEF z

\* A frame other than main's is popped.
LEMMA StackPop ==
  ASSUME NEW s \in Seq(Frame), Stacked(s), s[Len(s)].kind # "main"
  PROVE  LET z == SubSeq(s, 1, Len(s) - 1)
         IN  /\ z \in Seq(Frame) /\ Stacked(z)
             /\ IsWait(z[Len(z)]) <=> ~IsWait(s[Len(s)])
<1> DEFINE z == SubSeq(s, 1, Len(s) - 1)
<1>1. s # <<>>
  BY DEF Stacked
<1>2. /\ z \in Seq(Frame) /\ Len(s) \in Nat \ {0} /\ Len(z) = Len(s) - 1
      /\ \A i \in 1..Len(s) - 1 : z[i] = s[i] /\ i \in 1..Len(s) /\ i < Len(s)
  BY <1>1, Popped
<1> HIDE DEF z
<1>3. Len(s) \in 1..Len(s)
  BY <1>2
<1>4. Len(s) # 1
  BY <1>3 DEF Stacked
<1>5. Len(s) - 1 \in 1..Len(s) - 1 /\ Len(z) # 0
  BY <1>2, <1>4
<1>6. z # <<>>
  BY <1>5, EmptySeq
<1>7. ASSUME NEW i \in 1..Len(z)
      PROVE  /\ z[i].kind = "main" <=> i = 1
             /\ i # 1 => (IsWait(z[i]) <=> ~IsWait(z[i - 1]))
  <2>1. i \in 1..Len(s) /\ z[i] = s[i] /\ (i # 1 => i - 1 \in 1..Len(s) - 1)
    BY <1>2
  <2>2. i # 1 => z[i - 1] = s[i - 1]
    BY <1>2, <2>1
  <2> QED BY <2>1, <2>2 DEF Stacked
<1>8. Stacked(z)
  BY <1>6, <1>7 DEF Stacked
<1>9. z[Len(z)] = s[Len(s) - 1]
  BY <1>2, <1>5
<1>10. IsWait(s[Len(s)]) <=> ~IsWait(s[Len(s) - 1])
  BY <1>3, <1>4 DEF Stacked
<1> QED BY <1>2, <1>8, <1>9, <1>10 DEF z

\* A step that leaves the stack, the tasks and the promises alone.
LEMMA LeanQuiet ==
  ASSUME LeanTypeOK, LeanInv,
         UNCHANGED <<pc, stack, blocking, queue, job, dep, promise>>,
         pc # "failed" \/ UNCHANGED <<completions, waiters, outbound>>
  PROVE  LeanTypeOK' /\ LeanInv'
<1>1. LeanTypeOK'
  BY DEF LeanTypeOK
<1>2. Frames' /\ BlockingIsStack'
  BY DEF LeanInv, Frames, Top, BlockingIsStack
<1>3. WaitOver' = WaitOver /\ Top' = Top
  BY DEF WaitOver, Top, CallReady, Finished
<1>4. (pc \in {"wait", "failed"} => Idle)'
  BY <1>3 DEF LeanInv, Idle
<1>5. NoFalseDeadlock'
  BY <1>3 DEF LeanInv, NoFalseDeadlock, Hopeless
<1> QED BY <1>1, <1>2, <1>4, <1>5 DEF LeanInv

\* The program runs on, or the runtime moves on in its wait loop.
LEMMA LeanMoves ==
  ASSUME LeanTypeOK, LeanInv,
         \/ pc = "lean" /\ pc' = "lean"
         \/ pc = "lean" /\ pc' = "exited"
         \/ pc \in {"loop", "wait", "repoll"} /\ pc' \in {"loop", "wait", "repoll"},
         UNCHANGED <<stack, blocking>>, queue' \in Seq(Tasks),
         job' \in [Tasks -> {"new", "bound", "queued", "running", "done"}],
         dep' \in [Tasks -> Promise \cup {NoPromise}],
         pc' = "wait" => Idle'
  PROVE  LeanTypeOK' /\ LeanInv'
<1>1. LeanTypeOK'
  BY DEF LeanTypeOK
<1>2. Frames' /\ BlockingIsStack'
  BY DEF LeanInv, Frames, Top, BlockingIsStack
<1>3. pc' # "failed"
  OBVIOUS
<1> QED BY <1>1, <1>2, <1>3 DEF LeanInv, NoFalseDeadlock

\* BlockingIsStack in the form the lemmas have it in, now and after a step.
LEMMA MirrorNow ==
  ASSUME LeanTypeOK
  PROVE  BlockingIsStack <=> IsMirror(blocking, stack)
<1>1. stack \in Seq(Frame) /\ blocking \in Seq(0..MaxSleep)
  BY DEF LeanTypeOK
<1> QED BY <1>1, MirrorForm DEF BlockingIsStack

LEMMA MirrorThen ==
  ASSUME stack' \in Seq(Frame), blocking' \in Seq(0..MaxSleep), IsMirror(blocking', stack')
  PROVE  BlockingIsStack'
BY MirrorForm DEF BlockingIsStack

\* A frame is pushed: a wait of the program, or a task on top of a wait.
LEMMA PushInv ==
  ASSUME LeanTypeOK, LeanInv, NEW f \in Frame, f.kind # "main", stack' = Append(stack, f),
         IF IsWait(f) THEN pc = "lean" /\ pc' = "loop" ELSE pc = "loop" /\ pc' = "lean",
         blocking' = IF f.kind = "sleep" THEN Append(blocking, f.left) ELSE blocking,
         queue' \in Seq(Tasks), UNCHANGED dep,
         job' \in [Tasks -> {"new", "bound", "queued", "running", "done"}]
  PROVE  LeanTypeOK' /\ LeanInv'
<1>1. stack \in Seq(Frame) /\ blocking \in Seq(0..MaxSleep) /\ IsMirror(blocking, stack)
  BY MirrorNow DEF LeanTypeOK, LeanInv
<1>2. Stacked(stack) /\ (IsWait(f) <=> ~IsWait(stack[Len(stack)]))
  BY DEF LeanInv, Frames, Top
<1>3. stack' \in Seq(Frame) /\ Stacked(stack') /\ stack'[Len(stack')] = f
  BY <1>1, <1>2, StackPush
<1>4. f.kind = "sleep" => f.left \in 0..MaxSleep
  BY FrameFacts
<1>5. blocking' \in Seq(0..MaxSleep) /\ IsMirror(blocking', stack')
  BY <1>1, <1>4, MirrorPush, AppendProperties
<1>6. BlockingIsStack'
  BY <1>3, <1>5, MirrorThen
<1>7. LeanTypeOK'
  BY <1>3, <1>5 DEF LeanTypeOK
<1>8. Frames'
  BY <1>3 DEF Frames, Top
<1>9. pc' \notin {"wait", "failed"}
  OBVIOUS
<1> QED BY <1>6, <1>7, <1>8, <1>9 DEF LeanInv, NoFalseDeadlock

\* A frame is popped: a task's by the program, a wait's by the runtime.
LEMMA PopInv ==
  ASSUME LeanTypeOK, LeanInv, Top.kind # "main", stack' = Pop,
         \/ pc = "lean" /\ pc' = "loop"
         \/ pc = "loop" /\ pc' = "lean",
         blocking' = IF Top.kind = "sleep" THEN Front(blocking) ELSE blocking,
         UNCHANGED <<queue, dep>>,
         job' \in [Tasks -> {"new", "bound", "queued", "running", "done"}]
  PROVE  LeanTypeOK' /\ LeanInv'
<1>1. stack \in Seq(Frame) /\ blocking \in Seq(0..MaxSleep) /\ IsMirror(blocking, stack)
  BY MirrorNow DEF LeanTypeOK, LeanInv
<1>2. Stacked(stack) /\ stack # <<>>
  BY DEF LeanInv, Frames, Stacked
<1>3. /\ stack' \in Seq(Frame) /\ Stacked(stack')
      /\ IsWait(stack'[Len(stack')]) <=> ~IsWait(stack[Len(stack)])
  BY <1>1, <1>2, StackPop DEF Pop, Top
<1>4. /\ Top.kind # "sleep" => IsMirror(blocking, stack')
      /\ Top.kind = "sleep" => blocking # <<>> /\ IsMirror(Front(blocking), stack')
  BY <1>1, <1>2, MirrorPop DEF Pop, Top
<1>5. blocking # <<>> => Front(blocking) \in Seq(0..MaxSleep)
  BY <1>1, Popped DEF Front
<1>6. blocking' \in Seq(0..MaxSleep) /\ IsMirror(blocking', stack')
  BY <1>1, <1>4, <1>5
<1>7. BlockingIsStack'
  BY <1>3, <1>6, MirrorThen
<1>8. LeanTypeOK'
  BY <1>3, <1>6 DEF LeanTypeOK
<1>9. Frames'
  BY <1>3 DEF LeanInv, Frames, Top
<1>10. pc' \notin {"wait", "failed"}
  OBVIOUS
<1> QED BY <1>7, <1>8, <1>9, <1>10 DEF LeanInv, NoFalseDeadlock

-----------------------------------------------------------------------------
(* The steps of the program and of the runtime keep the stack.             *)

LEMMA ProgramInv ==
  ASSUME HostTypeOK, LeanTypeOK, LeanInv, Program
  PROVE  LeanTypeOK' /\ LeanInv'
<1> DEFINE States == {"new", "bound", "queued", "running", "done"}
<1>1. /\ queue \in Seq(Tasks) /\ job \in [Tasks -> States]
      /\ dep \in [Tasks -> Promise \cup {NoPromise}]
  BY DEF LeanTypeOK
<1>2. ASSUME NEW k \in Tasks, Spawn(k) \/ \E p \in Promise : Continue(k, p)
      PROVE  LeanTypeOK' /\ LeanInv'
  <2>1. pc = "lean" /\ UNCHANGED <<pc, stack, blocking>>
    BY <1>2 DEF Spawn, Continue, Call
  <2>2. queue' = Append(queue, k) \/ UNCHANGED queue
    BY <1>2 DEF Spawn, Continue
  <2>3. queue' \in Seq(Tasks)
    BY <1>1, <2>2, AppendProperties
  <2>4. job' = [job EXCEPT ![k] = "queued"] \/ job' = [job EXCEPT ![k] = "bound"]
    BY <1>2 DEF Spawn, Continue
  <2>5. job' \in [Tasks -> States]
    BY <1>1, <2>4
  <2>6. UNCHANGED dep \/ \E p \in Promise : dep' = [dep EXCEPT ![k] = p]
    BY <1>2 DEF Spawn, Continue
  <2>7. dep' \in [Tasks -> Promise \cup {NoPromise}]
    BY <1>1, <2>6
  <2> QED BY <2>1, <2>3, <2>5, <2>7, LeanMoves
<1>3. ASSUME NEW t \in Timers, \/ MakeTimer(t) \/ NextTimer(t) \/ ResetTimer(t)
                               \/ StopTimer(t) \/ CancelTimer(t) \/ DropTimer(t)
      PROVE  LeanTypeOK' /\ LeanInv'
  <2>1. pc = "lean" /\ UNCHANGED <<pc, stack, blocking, queue, job, dep>>
    BY <1>3 DEF MakeTimer, NextTimer, ResetTimer, StopTimer, CancelTimer, DropTimer, Call,
                leanVars
  <2> QED BY <1>1, <2>1, LeanMoves
<1>4. ASSUME NEW r \in Requests, SendRequest(r) \/ StartRequest(r)
      PROVE  LeanTypeOK' /\ LeanInv'
  <2>1. pc = "lean" /\ UNCHANGED <<pc, stack, blocking, queue, job, dep>>
    BY <1>4 DEF SendRequest, StartRequest, Call
  <2> QED BY <1>1, <2>1, LeanMoves
<1>5. ASSUME NEW x \in Awaitable, NEW y \in Awaitable, Get({x, y})
      PROVE  LeanTypeOK' /\ LeanInv'
  <2> DEFINE f == [kind |-> "get", on |-> {x, y}, left |-> 0]
  <2>1. f \in Frame /\ f.kind = "get"
    BY DEF Frame
  <2>2. /\ pc = "lean" /\ pc' = "loop" /\ stack' = Append(stack, f)
        /\ UNCHANGED <<blocking, queue, dep, job>>
    BY <1>5 DEF Get, Push, Call, leanVars
  <2> HIDE DEF f
  <2> QED BY <1>1, <2>1, <2>2, PushInv DEF IsWait
<1>6. ASSUME NEW n \in 1..MaxSleep, Sleep(n)
      PROVE  LeanTypeOK' /\ LeanInv'
  <2> DEFINE f == [kind |-> "sleep", on |-> {}, left |-> n]
  <2>1. n \in 0..MaxSleep
    BY CoopAssumption
  <2>2. f \in Frame /\ f.kind = "sleep" /\ f.left = n
    BY <2>1 DEF Frame
  <2>3. /\ pc = "lean" /\ pc' = "loop" /\ stack' = Append(stack, f)
        /\ blocking' = Append(blocking, n) /\ UNCHANGED <<queue, dep, job>>
    BY <1>6 DEF Sleep, Push, Call, leanVars
  <2> HIDE DEF f
  <2> QED BY <1>1, <2>2, <2>3, PushInv DEF IsWait
<1>7. CASE Return
  <2>1. pc = "lean" /\ UNCHANGED <<blocking, queue, dep>>
    BY <1>7 DEF Return
  <2>2. CASE Top.kind = "main"
    <3>1. pc' = "exited" /\ UNCHANGED <<stack, job>>
      BY <1>7, <2>2 DEF Return
    <3> QED BY <1>1, <2>1, <3>1, LeanMoves
  <2>3. CASE Top.kind # "main"
    <3>1. /\ pc' = "loop" /\ stack' = Pop
          /\ job' = [k \in Tasks |-> IF k \in Top.on THEN "done" ELSE job[k]]
      BY <1>7, <2>3 DEF Return
    <3>2. job' \in [Tasks -> States]
      BY <1>1, <3>1
    <3>3. Top.kind # "sleep"
      BY <2>1 DEF LeanInv, Frames, IsWait
    <3> QED BY <2>1, <2>3, <3>1, <3>2, <3>3, PopInv
  <2> QED BY <2>2, <2>3
<1> QED BY <1>2, <1>3, <1>4, <1>5, <1>6, <1>7 DEF Program

\* A wait returns, or a task runs on top of it.
LEMMA LoopInv ==
  ASSUME LeanTypeOK, LeanInv, WaitReturns \/ RunOne
  PROVE  LeanTypeOK' /\ LeanInv'
<1>1. /\ queue \in Seq(Tasks)
      /\ job \in [Tasks -> {"new", "bound", "queued", "running", "done"}]
  BY DEF LeanTypeOK
<1>2. CASE WaitReturns
  <2>1. /\ pc = "loop" /\ pc' = "lean" /\ stack' = Pop /\ UNCHANGED <<queue, dep, job>>
        /\ blocking' = IF Top.kind = "sleep" THEN Front(blocking) ELSE blocking
    BY <1>2 DEF WaitReturns, leanVars
  <2>2. Top.kind # "main"
    BY <2>1 DEF LeanInv, Frames, IsWait
  <2> QED BY <1>1, <2>1, <2>2, PopInv
<1>3. CASE RunOne
  <2> DEFINE f == [kind |-> "task", on |-> {Head(queue)}, left |-> 0]
  <2>1. /\ pc = "loop" /\ pc' = "lean" /\ stack' = Append(stack, f) /\ UNCHANGED <<blocking, dep>>
        /\ queue # <<>> /\ queue' = Tail(queue) /\ job' = [job EXCEPT ![Head(queue)] = "running"]
    BY <1>3 DEF RunOne, Push
  <2>2. Head(queue) \in Tasks /\ queue' \in Seq(Tasks)
    BY <1>1, <2>1, TakenQueue
  <2>3. f \in Frame /\ f.kind = "task"
    BY <2>2 DEF Frame
  <2> HIDE DEF f
  <2>4. job' \in [Tasks -> {"new", "bound", "queued", "running", "done"}]
    BY <1>1, <2>1
  <2> QED BY <2>1, <2>2, <2>3, <2>4, PushInv DEF IsWait
<1> QED BY <1>2, <1>3

\* The runtime takes completions.  It goes on to wait only when there was none:
\* then no promise has ended.
LEMMA PollInv ==
  ASSUME HostTypeOK, LeanTypeOK, LeanInv, Poll \/ PollAgain
  PROVE  LeanTypeOK' /\ LeanInv'
<1>1. TakeCompletions /\ pc \in {"loop", "repoll"} /\ pc' \in {"loop", "wait"}
  BY DEF Poll, PollAgain
<1>2. UNCHANGED <<stack, blocking, dep>>
  BY <1>1 DEF TakeCompletions
<1>3. PICK s \in Listings(SettledByFiring), a \in Listings(Answered) :
        Deliver(completions \o Record(s \o a, TRUE))
  BY <1>1 DEF TakeCompletions
<1> DEFINE batch    == completions \o Record(s \o a, TRUE)
           all      == {batch[i].of : i \in DOMAIN batch}
           resolved == {batch[i].of : i \in {j \in DOMAIN batch : batch[j].ok}}
           kept(p)  == p \notin Requests /\ wrap[p[1]] = p[2]
           ended    == resolved \cup {p \in all : ~kept(p)}
<1>4. /\ promise' = [p \in Promise |-> IF p \in resolved THEN "value"
                                       ELSE IF p \in ended THEN "none" ELSE promise[p]]
      /\ Enqueue(ended)
  BY <1>3 DEF Deliver
<1>5. batch = <<>> => ended = {} /\ resolved = {}
  <2> SUFFICES ASSUME batch = <<>>
               PROVE  ended = {} /\ resolved = {}
    OBVIOUS
  <2> HIDE DEF batch
  <2>1. DOMAIN batch = {}
    OBVIOUS
  <2>2. all = {} /\ resolved = {}
    BY <2>1
  <2> QED BY <2>2
<1> HIDE DEF ended, resolved
<1>6. /\ queue' \in Seq(Tasks)
      /\ job' \in [Tasks -> {"new", "bound", "queued", "running", "done"}]
      /\ ended = {} => queue' = queue /\ job' = job
  BY <1>4, EnqueueFacts
<1>7. ASSUME pc' = "wait"
      PROVE  Idle'
  <2>1. /\ Poll /\ ~WaitOver /\ queue = <<>>
        /\ completions = <<>> /\ SettledByFiring = {} /\ Answered = {}
    BY <1>7 DEF Poll, PollAgain
  <2>2. s = <<>> /\ a = <<>>
    <3>1. IsFiniteSet({}) /\ {} \in SUBSET Promise
      BY FS_EmptySet
    <3> QED BY <2>1, <3>1, Listed
  <2>3. batch = <<>>
    BY <2>1, <2>2 DEF Record
  <2>4. promise \in [Promise -> {"unused", "pending", "value", "none"}]
    BY DEF HostTypeOK
  <2> HIDE DEF batch
  <2>5. promise' = promise
    BY <1>4, <1>5, <2>3, <2>4
  <2>6. queue' = <<>> /\ job' = job
    BY <1>5, <1>6, <2>1, <2>3
  <2>7. ~WaitOver'
    BY <1>2, <2>1, <2>5, <2>6 DEF WaitOver, Top, CallReady, Finished
  <2> QED BY <2>6, <2>7 DEF Idle
<1> QED BY <1>1, <1>2, <1>6, <1>7, LeanMoves DEF LeanTypeOK

\* A wait of the host ends, or goes on.
LEMMA WaitInv ==
  ASSUME LeanTypeOK, LeanInv, WaitDone \/ WaitTurn
  PROVE  LeanTypeOK' /\ LeanInv'
<1>1. pc = "wait" /\ pc' \in {"loop", "wait", "repoll"} /\ UNCHANGED <<stack, blocking, leanVars>>
  BY DEF WaitDone, WaitTurn, AfterWait
<1>2. UNCHANGED <<queue, job, dep, promise>>
  BY <1>1 DEF leanVars
<1>3. queue \in Seq(Tasks) /\ LeanTypeOK
  BY DEF LeanTypeOK
<1>4. WaitOver' = WaitOver /\ Top' = Top
  BY <1>1, <1>2 DEF WaitOver, Top, CallReady, Finished
<1>5. Idle'
  BY <1>1, <1>2, <1>4 DEF LeanInv, Idle
<1> QED BY <1>1, <1>2, <1>3, <1>5, LeanMoves DEF LeanTypeOK

\* The program is stopped: no request waits for a timer, since that timer would be armed,
\* and the innermost frame does not sleep, since its call would be blocking.
LEMMA WaitFailsInv ==
  ASSUME LeanTypeOK, LeanInv, HostTypeOK, HostInv, WaitFails
  PROVE  LeanTypeOK' /\ LeanInv'
<1>1. /\ pc = "wait" /\ pc' = "failed" /\ UNCHANGED <<stack, blocking, queue, job, dep, promise>>
      /\ UNCHANGED <<completions, waiters, outbound>>
      /\ completions = <<>> /\ outbound = {} /\ ~Timed
  BY DEF WaitFails, WaitEvent, leanVars, hostVars
<1>2. stack \in Seq(Frame) /\ blocking \in Seq(0..MaxSleep) /\ IsMirror(blocking, stack)
  BY MirrorNow DEF LeanTypeOK, LeanInv
<1>3. waiters = {}
  BY <1>1 DEF Timed, HostInv, Waiting, WaitersWillBeSettled
<1>4. Top.kind = "get"
  <2>1. Top.kind \in {"get", "sleep"} /\ stack # <<>>
    BY <1>1 DEF LeanInv, Frames, Stacked, IsWait
  <2>2. ASSUME Top.kind = "sleep"
        PROVE  FALSE
    <3>1. Len(stack) \in 1..Len(stack) /\ blocking = <<>> /\ Len(blocking) = 0
      BY <1>1, <1>2, <2>1, EmptySeq DEF Timed
    <3>2. PICK at : Mirrors(at, blocking, stack)
      BY <1>2 DEF IsMirror
    <3>3. \E i \in 1..Len(blocking) : at[i] = Len(stack)
      BY <2>2, <3>1, <3>2 DEF Mirrors, Top
    <3> QED BY <3>1, <3>3
  <2> QED BY <2>1, <2>2
<1>5. Idle
  BY <1>1 DEF LeanInv
<1>6. WaitOver' = WaitOver /\ Top' = Top
  BY <1>1 DEF WaitOver, Top, CallReady, Finished
<1>7. Idle' /\ Hopeless'
  BY <1>1, <1>3, <1>4, <1>5, <1>6 DEF Idle, Hopeless
<1>8. LeanTypeOK'
  BY <1>1 DEF LeanTypeOK
<1>9. Frames' /\ BlockingIsStack'
  BY <1>1 DEF LeanInv, Frames, Top, BlockingIsStack
<1> QED BY <1>7, <1>8, <1>9 DEF LeanInv, NoFalseDeadlock

\* The clock counts the calls and their frames down together.
LEMMA TickLeanInv ==
  ASSUME LeanTypeOK, LeanInv, Tick
  PROVE  LeanTypeOK' /\ LeanInv'
<1>1. /\ pc # "failed" /\ UNCHANGED <<pc, queue, job, dep, promise>>
      /\ blocking' = [i \in DOMAIN blocking |-> Less(blocking[i])]
      /\ stack' = [i \in DOMAIN stack |-> [stack[i] EXCEPT !.left = Less(@)]]
  BY DEF Tick, leanVars
<1>2. stack \in Seq(Frame) /\ blocking \in Seq(0..MaxSleep) /\ IsMirror(blocking, stack)
  BY MirrorNow DEF LeanTypeOK, LeanInv
<1>3. /\ blocking' \in Seq(0..MaxSleep) /\ stack' \in Seq(Frame) /\ Len(stack') = Len(stack)
      /\ \A i \in 1..Len(stack) : stack'[i].kind = stack[i].kind /\ stack'[i].on = stack[i].on
      /\ IsMirror(blocking', stack')
  BY <1>1, <1>2, MirrorTick
<1>4. BlockingIsStack'
  BY <1>3, MirrorThen
<1>5. LeanTypeOK'
  BY <1>1, <1>3 DEF LeanTypeOK
<1>6. stack # <<>> /\ Stacked(stack) /\ Len(stack) \in Nat /\ Len(stack) # 0
  BY <1>2, EmptySeq DEF LeanInv, Frames, Stacked
<1>7. Top'.kind = Top.kind /\ Top'.on = Top.on
  BY <1>3, <1>6 DEF Top
<1>8. Stacked(stack')
  <2>1. stack' # <<>>
    BY <1>3, <1>6, EmptySeq
  <2>2. \A i \in 1..Len(stack) : i # 1 => i - 1 \in 1..Len(stack)
    BY <1>6
  <2> QED BY ZenonT(30), <1>3, <1>6, <2>1, <2>2 DEF Stacked, IsWait
<1>9. Frames'
  BY <1>1, <1>7, <1>8 DEF LeanInv, Frames, IsWait
<1>10. (pc \in {"wait", "failed"} => Idle)'
  <2>1. Top.kind = "get" => WaitOver' = WaitOver
    BY <1>1, <1>7 DEF WaitOver, Finished
  <2> QED BY <1>1, <1>7, <2>1 DEF LeanInv, Idle
<1> QED BY <1>1, <1>4, <1>5, <1>9, <1>10 DEF LeanInv, NoFalseDeadlock

\* The initial state.
LEMMA InitLean ==
  ASSUME Init
  PROVE  LeanTypeOK /\ LeanInv
<1> DEFINE f == [kind |-> "main", on |-> {}, left |-> 0]
<1>1. /\ pc = "lean" /\ stack = <<f>> /\ queue = <<>> /\ blocking = <<>>
      /\ job = [k \in Tasks |-> "new"] /\ dep = [k \in Tasks |-> NoPromise]
  BY DEF Init
<1>2. f \in Frame /\ f.kind = "main"
  BY DEF Frame
<1> HIDE DEF f
<1>3. stack \in Seq(Frame) /\ Len(stack) = 1 /\ stack[1] = f /\ stack # <<>>
  BY <1>1, <1>2
<1>4. LeanTypeOK
  BY <1>1, <1>3 DEF LeanTypeOK
<1>5. Frames
  BY <1>1, <1>2, <1>3 DEF Frames, Stacked, IsWait, Top
<1>6. BlockingIsStack
  BY <1>1, <1>2, <1>4, MirrorInit, MirrorNow
<1> QED BY <1>1, <1>4, <1>5, <1>6 DEF LeanInv, NoFalseDeadlock

\* Every step keeps the stack in order.
LEMMA StepLean ==
  ASSUME HostTypeOK, HostInv, LeanTypeOK, LeanInv, Next \/ Quiet
  PROVE  LeanTypeOK' /\ LeanInv'
<1>1. CASE Program
  BY <1>1, ProgramInv
<1>2. CASE Runtime
  BY <1>2, LoopInv, PollInv, WaitInv, WaitFailsInv DEF Runtime
<1>3. CASE Tick
  BY <1>3, TickLeanInv
<1>4. CASE (\E r \in Requests : Arrive(r)) \/ Over \/ Quiet
  <2>1. /\ UNCHANGED <<pc, stack, blocking, queue, job, dep, promise>>
        /\ UNCHANGED <<completions, waiters, outbound>>
    BY <1>4 DEF Arrive, Over, Quiet, vars, leanVars, hostVars
  <2> QED BY <2>1, LeanQuiet
<1> QED BY <1>1, <1>2, <1>3, <1>4 DEF Next

LEMMA Invariance == Spec => [](HostTypeOK /\ HostInv /\ LeanTypeOK /\ LeanInv)
<1> DEFINE Inv == HostTypeOK /\ HostInv /\ LeanTypeOK /\ LeanInv
<1>1. Init => Inv
  BY InitHost, InitLean
<1>2. Inv /\ [Next]_vars => Inv'
  <2>1. UNCHANGED vars /\ budget \in Nat => Quiet
    BY DEF vars, Quiet
  <2>2. HostTypeOK => budget \in Nat
    BY DEF HostTypeOK
  <2> QED BY <2>1, <2>2, StepHost, StepLean
<1> QED BY <1>1, <1>2, PTL DEF Spec

-----------------------------------------------------------------------------
(* The theorems.                                                           *)

\* What the invariant says of the states it holds in.
LEMMA Promises ==
  ASSUME HostTypeOK, HostInv, LeanTypeOK, LeanInv
  PROVE  TypeOK /\ OneReference /\ WaitersWillBeSettled /\ OwnGeneration
<1>1. TypeOK
  BY DEF HostTypeOK, LeanTypeOK, TypeOK, Entry, TimerRecord
<1>2. WaitersWillBeSettled
  BY DEF HostInv, Waiting
<1>3. OwnGeneration
  <2>1. ASSUME NEW t \in Timers, NEW g \in 1..Budget
        PROVE  /\ promise[<<t, g>>] = "value" => <<t, g>> \in fired \ cancelled
               /\ promise[<<t, g>>] = "none" => <<t, g>> \in cancelled \ fired
    BY DEF HostInv, Histories
  <2> QED BY <2>1 DEF OwnGeneration
<1>4. ASSUME NEW p \in Promise
      PROVE  References(p) = IF promise[p] = "pending" THEN 1 ELSE 0
  <2> DEFINE slots  == {i \in DOMAIN completions : completions[i].of = p}
             tables == {S \in {<<waiters, 1>>, <<lost, 2>>, <<outbound, 3>>} : p \in S[1]}
  <2>1. /\ Unique(completions)
        /\ Of(completions) \cap (waiters \cup lost \cup outbound) = {}
        /\ waiters \cap lost = {} /\ (waiters \cup lost) \cap outbound = {}
        /\ promise[p] = "pending" <=> p \in Of(completions) \cup waiters \cup lost \cup outbound
    BY DEF HostInv, Referenced
  <2>2. References(p) = Cardinality(slots) + Cardinality(tables)
    BY DEF References
  <2>3. /\ \A x : slots = {x} /\ tables = {} => References(p) = 1
        /\ \A x : slots = {} /\ tables = {x} => References(p) = 1
        /\ slots = {} /\ tables = {} => References(p) = 0
    <3>1. Cardinality({}) = 0 /\ \A x : Cardinality({x}) = 1
      BY FS_EmptySet, FS_Singleton
    <3>2. 1 + 0 = 1 /\ 0 + 1 = 1 /\ 0 + 0 = 0
      OBVIOUS
    <3> HIDE DEF slots, tables
    <3> QED BY <2>2, <3>1, <3>2, Zenon
  <2>4. promise[p] = "pending" \/ p \in Of(completions) \cup waiters \cup lost \cup outbound
        => p \in Of(completions) \cup waiters \cup lost \cup outbound /\ promise[p] = "pending"
    BY <2>1
  <2>5. CASE p \in Of(completions)
    <3>1. PICK i \in DOMAIN completions : completions[i].of = p
      BY <2>5 DEF Of
    <3>2. slots = {i}
      BY <2>1, <3>1 DEF Unique
    <3>3. tables = {}
      BY <2>1, <2>5
    <3> QED BY <2>3, <2>4, <2>5, <3>2, <3>3, Zenon
  <2>6. CASE p \notin Of(completions)
    <3>1. slots = {}
      BY <2>6 DEF Of
    <3>2. CASE p \in waiters
      <4>1. tables = {<<waiters, 1>>}
        BY <2>1, <3>2
      <4> QED BY <2>3, <2>4, <3>1, <3>2, <4>1, Zenon
    <3>3. CASE p \in lost
      <4>1. tables = {<<lost, 2>>}
        BY <2>1, <3>3
      <4> QED BY <2>3, <2>4, <3>1, <3>3, <4>1, Zenon
    <3>4. CASE p \in outbound
      <4>1. tables = {<<outbound, 3>>}
        BY <2>1, <3>4
      <4> QED BY <2>3, <2>4, <3>1, <3>4, <4>1, Zenon
    <3>5. CASE p \notin waiters \cup lost \cup outbound
      <4>1. tables = {}
        BY <3>5
      <4> QED BY <2>3, <2>4, <2>6, <3>1, <3>5, <4>1, Zenon
    <3> QED BY <3>2, <3>3, <3>4, <3>5
  <2> QED BY <2>5, <2>6
<1> QED BY <1>1, <1>2, <1>3, <1>4 DEF OneReference

(***************************************************************************)
(* The state of the program, of its stack and of the host keeps its types: *)
(* no timer's generation outgrows the promises there are.                  *)
(***************************************************************************)
THEOREM Typed == Spec => []TypeOK
BY Invariance, Promises, PTL

(***************************************************************************)
(* A promise the program waits for is in exactly one of the host's tables  *)
(* until complete_batch takes it: never resolved twice, never forgotten.   *)
(***************************************************************************)
THEOREM PromisesAreHeldOnce == Spec => []OneReference
BY Invariance, Promises, PTL

(***************************************************************************)
(* Each request waiting for a timer waits for its current generation, and  *)
(* that timer is alive, armed and has not fired.                           *)
(***************************************************************************)
THEOREM WaitersAreSettled == Spec => []WaitersWillBeSettled
BY Invariance, Promises, PTL

(***************************************************************************)
(* A timer's promise gets its value only from its own generation's firing, *)
(* and is dropped only if that generation was stopped or cancelled.        *)
(***************************************************************************)
THEOREM GenerationsAreKept == Spec => []OwnGeneration
BY Invariance, Promises, PTL

(***************************************************************************)
(* The call lasm_edge_take_call pops is the innermost sleeping frame's.    *)
(***************************************************************************)
THEOREM CallsAreNested == Spec => []BlockingIsStack
<1>1. LeanInv => BlockingIsStack
  BY DEF LeanInv
<1> QED BY <1>1, Invariance, PTL

(***************************************************************************)
(* The program is stopped for a deadlock only in a wait nothing can end.   *)
(***************************************************************************)
THEOREM StopsAreDeadlocks == Spec => []NoFalseDeadlock
<1>1. LeanInv => NoFalseDeadlock
  BY DEF LeanInv
<1> QED BY <1>1, Invariance, PTL
=============================================================================
