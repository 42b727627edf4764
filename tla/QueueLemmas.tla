----------------------------- MODULE QueueLemmas -----------------------------
(***************************************************************************)
(* Lemmas about the sequences the queues, batches and completions of the   *)
(* host are made of: their sets of elements (ToSet) and their freedom from *)
(* repetitions (IsInjective), when sequences are appended to, cut and      *)
(* joined.  The proofs of Completions, CoopLoop and InteropPoller cite     *)
(* them.                                                                   *)
(***************************************************************************)
EXTENDS Integers, FiniteSets, SequencesExt, SequenceTheorems, FiniteSetTheorems, WellFoundedInduction,
        TLAPS

\* The elements of a sequence by index.
LEMMA ToSetDef ==
  ASSUME NEW S, NEW s \in Seq(S)
  PROVE  /\ ToSet(s) = {s[i] : i \in 1..Len(s)}
         /\ ToSet(s) \subseteq S
         /\ IsInjective(s) <=> \A i, j \in 1..Len(s) : s[i] = s[j] => i = j
BY DEF ToSet, IsInjective

\* The empty sequence.
LEMMA EmptyQueue ==
  /\ ToSet(<<>>) = {} /\ IsInjective(<<>>)
  /\ \A S : \A s \in Seq(S) : ToSet(s) = {} => s = <<>>
<1>1. ASSUME NEW S, NEW s \in Seq(S), s # <<>>
      PROVE  ToSet(s) # {}
  <2>1. 1 \in 1..Len(s)
    BY <1>1
  <2>2. s[1] \in ToSet(s)
    <3>1. ToSet(s) = {s[i] : i \in 1..Len(s)}
      BY ToSetDef
    <3> QED BY <2>1, <3>1
  <2> QED BY <2>2
<1>2. <<>> \in Seq({}) /\ Len(<<>>) = 0 /\ 1..0 = {}
  BY EmptySeq
<1>3. ToSet(<<>>) = {} /\ IsInjective(<<>>)
  BY <1>2, ToSetDef
<1> QED BY <1>1, <1>3

\* A joined sequence has the elements of both, once each if they share none.
LEMMA JoinedQueue ==
  ASSUME NEW S, NEW s \in Seq(S), NEW t \in Seq(S)
  PROVE  /\ s \o t \in Seq(S)
         /\ ToSet(s \o t) = ToSet(s) \cup ToSet(t)
         /\ IsInjective(s \o t) <=> IsInjective(s) /\ IsInjective(t) /\ ToSet(s) \cap ToSet(t) = {}
<1> DEFINE u == s \o t
<1>1. /\ u \in Seq(S) /\ Len(u) = Len(s) + Len(t)
      /\ Len(s) \in Nat /\ Len(t) \in Nat
      /\ \A i \in 1..Len(s) : u[i] = s[i] /\ i \in 1..Len(u)
      /\ \A i \in 1..Len(t) : u[i + Len(s)] = t[i] /\ i + Len(s) \in 1..Len(u)
      /\ \A i \in 1..Len(u) : \/ i \in 1..Len(s) /\ u[i] = s[i]
                              \/ i - Len(s) \in 1..Len(t) /\ u[i] = t[i - Len(s)]
  BY LenProperties
<1> HIDE DEF u
<1>2. ToSet(u) = ToSet(s) \cup ToSet(t)
  <2>1. /\ ToSet(u) = {u[i] : i \in 1..Len(u)}
        /\ ToSet(s) = {s[i] : i \in 1..Len(s)}
        /\ ToSet(t) = {t[i] : i \in 1..Len(t)}
    <3>1. \A q \in Seq(S) : ToSet(q) = {q[i] : i \in 1..Len(q)}
      BY ToSetDef
    <3> QED BY <1>1, <3>1, Zenon
  <2>2. ToSet(u) \subseteq ToSet(s) \cup ToSet(t)
    <3> SUFFICES ASSUME NEW i \in 1..Len(u) PROVE u[i] \in ToSet(s) \cup ToSet(t)
      BY <2>1, Zenon
    <3>1. CASE i \in 1..Len(s) /\ u[i] = s[i]
      BY <2>1, <3>1
    <3>2. CASE i - Len(s) \in 1..Len(t) /\ u[i] = t[i - Len(s)]
      BY <2>1, <3>2
    <3> QED BY <1>1, <3>1, <3>2
  <2>3. \A i \in 1..Len(s) : s[i] \in ToSet(u)
    BY <1>1, <2>1, Zenon
  <2>4. \A i \in 1..Len(t) : t[i] \in ToSet(u)
    BY <1>1, <2>1, Zenon
  <2> QED BY <2>1, <2>2, <2>3, <2>4
<1>3. ASSUME IsInjective(u)
      PROVE  IsInjective(s) /\ IsInjective(t) /\ ToSet(s) \cap ToSet(t) = {}
  <2>1. \A i, j \in 1..Len(u) : u[i] = u[j] => i = j
    BY <1>1, <1>3, ToSetDef
  <2>2. IsInjective(s)
    BY <1>1, <2>1, ToSetDef
  <2>3. IsInjective(t)
    <3>1. ASSUME NEW i \in 1..Len(t), NEW j \in 1..Len(t), t[i] = t[j]
          PROVE  i = j
      <4>1. i + Len(s) = j + Len(s)
        BY <1>1, <2>1, <3>1
      <4> QED BY <4>1
    <3> QED BY <3>1, ToSetDef
  <2>4. ASSUME NEW i \in 1..Len(s), NEW j \in 1..Len(t), s[i] = t[j]
        PROVE  FALSE
    <3>1. i = j + Len(s)
      BY <1>1, <2>1, <2>4
    <3> QED BY <3>1
  <2> QED BY <2>2, <2>3, <2>4, ToSetDef
<1>4. ASSUME IsInjective(s), IsInjective(t), ToSet(s) \cap ToSet(t) = {}
      PROVE  IsInjective(u)
  <2>1. /\ \A i, j \in 1..Len(s) : s[i] = s[j] => i = j
        /\ \A i, j \in 1..Len(t) : t[i] = t[j] => i = j
        /\ \A i \in 1..Len(s), j \in 1..Len(t) : s[i] # t[j]
    <3>1. /\ ToSet(s) = {s[i] : i \in 1..Len(s)}
          /\ ToSet(t) = {t[i] : i \in 1..Len(t)}
      BY ToSetDef
    <3>2. \A i, j \in 1..Len(s) : s[i] = s[j] => i = j
      BY <1>4, ToSetDef
    <3>3. \A i, j \in 1..Len(t) : t[i] = t[j] => i = j
      BY <1>4, ToSetDef
    <3>4. \A i \in 1..Len(s), j \in 1..Len(t) : s[i] # t[j]
      BY <1>4, <3>1
    <3> QED BY <3>2, <3>3, <3>4
  <2>2. ASSUME NEW i \in 1..Len(u), NEW j \in 1..Len(u), u[i] = u[j]
        PROVE  i = j
    <3>1. CASE i \in 1..Len(s)
      BY SMTT(20), <1>1, <2>1, <2>2, <3>1
    <3>2. CASE i \notin 1..Len(s) /\ j \notin 1..Len(s)
      <4>1. i - Len(s) = j - Len(s)
        BY SMTT(20), <1>1, <2>1, <2>2, <3>2
      <4> QED BY <4>1
    <3>3. CASE i \notin 1..Len(s) /\ j \in 1..Len(s)
      BY SMTT(20), <1>1, <2>1, <2>2, <3>3
    <3> QED BY <3>1, <3>2, <3>3
  <2> QED BY <1>1, <2>2, ToSetDef
<1> QED BY <1>2, <1>3, <1>4 DEF u

\* A sequence of one element.
LEMMA OneElement ==
  ASSUME NEW S, NEW e \in S
  PROVE  <<e>> \in Seq(S) /\ ToSet(<<e>>) = {e} /\ IsInjective(<<e>>)
<1>1. <<e>> \in Seq(S) /\ Len(<<e>>) = 1 /\ <<e>>[1] = e
  OBVIOUS
<1>2. ToSet(<<e>>) = {<<e>>[i] : i \in 1..1}
  BY <1>1, ToSetDef
<1>3. 1..1 = {1}
  OBVIOUS
<1>4. ToSet(<<e>>) = {e}
  BY <1>2
<1>5. IsInjective(<<e>>)
  BY <1>1, <1>3, ToSetDef
<1> QED BY <1>4, <1>5

\* An element is added at the end.
LEMMA AppendedQueue ==
  ASSUME NEW S, NEW s \in Seq(S), NEW e \in S
  PROVE  /\ Append(s, e) \in Seq(S) /\ Append(s, e) # <<>>
         /\ ToSet(Append(s, e)) = ToSet(s) \cup {e}
         /\ IsInjective(Append(s, e)) <=> IsInjective(s) /\ e \notin ToSet(s)
<1>1. Append(s, e) = s \o <<e>> /\ Append(s, e) # <<>>
  BY AppendProperties
<1>2. <<e>> \in Seq(S) /\ ToSet(<<e>>) = {e} /\ IsInjective(<<e>>)
  BY OneElement
<1>3. /\ s \o <<e>> \in Seq(S)
      /\ ToSet(s \o <<e>>) = ToSet(s) \cup {e}
      /\ IsInjective(s \o <<e>>) <=> IsInjective(s) /\ ToSet(s) \cap {e} = {}
  BY <1>2, JoinedQueue
<1> QED BY <1>1, <1>3, Zenon

\* The first element is taken.
LEMMA TakenQueue ==
  ASSUME NEW S, NEW s \in Seq(S), s # <<>>
  PROVE  /\ Head(s) \in S /\ Tail(s) \in Seq(S)
         /\ s = <<Head(s)>> \o Tail(s)
         /\ ToSet(s) = {Head(s)} \cup ToSet(Tail(s))
         /\ IsInjective(s) <=> IsInjective(Tail(s)) /\ Head(s) \notin ToSet(Tail(s))
         /\ Len(s) \in Nat /\ Len(s) >= 1
         /\ Len(s) = 1 <=> Tail(s) = <<>>
<1>1. /\ Head(s) \in S /\ Tail(s) \in Seq(S) /\ Len(Tail(s)) = Len(s) - 1
      /\ Len(s) \in Nat /\ Len(s) >= 1 /\ Head(s) = s[1]
      /\ \A i \in 1..Len(Tail(s)) : Tail(s)[i] = s[i + 1]
  BY LenProperties
<1>2. <<Head(s)>> \in Seq(S) /\ Len(<<Head(s)>>) = 1 /\ <<Head(s)>>[1] = Head(s)
  BY <1>1
<1>3. s = <<Head(s)>> \o Tail(s)
  <2> DEFINE u == <<Head(s)>> \o Tail(s)
  <2>1. /\ u \in Seq(S) /\ Len(u) = Len(s)
        /\ \A i \in 1..Len(u) : u[i] = IF i <= 1 THEN Head(s) ELSE Tail(s)[i - 1]
    BY ConcatProperties
  <2> HIDE DEF u
  <2>2. \A i \in 1..Len(u) : u[i] = s[i]
    <3>1. TAKE i \in 1..Len(u)
    <3>2. CASE i = 1
      BY <2>1
    <3>3. CASE i # 1
      <4>1. i - 1 \in 1..Len(Tail(s)) /\ (i - 1) + 1 = i /\ ~(i <= 1)
        BY <2>1, <3>3
      <4> QED BY <2>1
    <3> QED BY <3>2, <3>3
  <2>3. u = s
    BY <2>1
  <2> QED BY <2>3
<1>4. Len(s) = 1 <=> Tail(s) = <<>>
  BY <1>1, EmptySeq
<1>5. /\ ToSet(<<Head(s)>> \o Tail(s)) = {Head(s)} \cup ToSet(Tail(s))
      /\ IsInjective(<<Head(s)>> \o Tail(s)) <=> IsInjective(Tail(s)) /\ Head(s) \notin ToSet(Tail(s))
  <2>1. ToSet(<<Head(s)>>) = {Head(s)} /\ IsInjective(<<Head(s)>>)
    BY OneElement
  <2>2. /\ ToSet(<<Head(s)>> \o Tail(s)) = {Head(s)} \cup ToSet(Tail(s))
        /\ IsInjective(<<Head(s)>> \o Tail(s)) <=>
              IsInjective(Tail(s)) /\ {Head(s)} \cap ToSet(Tail(s)) = {}
    <3> DEFINE h == <<Head(s)>>
               t == Tail(s)
    <3>1. h \in Seq(S) /\ t \in Seq(S) /\ ToSet(h) = {Head(s)} /\ IsInjective(h)
      BY <2>1
    <3> HIDE DEF h, t
    <3>2. /\ ToSet(h \o t) = ToSet(h) \cup ToSet(t)
          /\ IsInjective(h \o t) <=> IsInjective(h) /\ IsInjective(t) /\ ToSet(h) \cap ToSet(t) = {}
      BY <3>1, JoinedQueue
    <3>3. /\ ToSet(h \o t) = {Head(s)} \cup ToSet(t)
          /\ IsInjective(h \o t) <=> IsInjective(t) /\ {Head(s)} \cap ToSet(t) = {}
      BY <3>1, <3>2, Zenon
    <3> QED BY <3>3 DEF h, t
  <2> QED BY <2>2
<1> QED BY <1>1, <1>3, <1>4, <1>5

\* A sequence is cut in two.
LEMMA CutQueue ==
  ASSUME NEW S, NEW s \in Seq(S), NEW n \in 0..Len(s)
  PROVE  /\ SubSeq(s, 1, n) \in Seq(S) /\ SubSeq(s, n + 1, Len(s)) \in Seq(S)
         /\ SubSeq(s, 1, n) \o SubSeq(s, n + 1, Len(s)) = s
         /\ n > 0 => SubSeq(s, 1, n) # <<>>
<1>1. Len(s) \in Nat /\ \A i \in 1..Len(s) : s[i] \in S
  BY ElementOfSeq
<1>2. /\ SubSeq(s, 1, n) \in Seq(S) /\ Len(SubSeq(s, 1, n)) = n
      /\ \A i \in 1..n : SubSeq(s, 1, n)[i] = s[i]
  BY SubSeqProperties
<1>3. /\ SubSeq(s, n + 1, Len(s)) \in Seq(S)
      /\ Len(SubSeq(s, n + 1, Len(s))) = Len(s) - n
      /\ \A i \in 1..(Len(s) - n) : SubSeq(s, n + 1, Len(s))[i] = s[n + i]
  <2>1. \A i \in (n + 1)..Len(s) : s[i] \in S
    BY <1>1
  <2>2. n + 1 \in Int /\ Len(s) \in Int
    BY <1>1
  <2>3. /\ SubSeq(s, n + 1, Len(s)) \in Seq(S)
        /\ Len(SubSeq(s, n + 1, Len(s))) = IF n + 1 <= Len(s) THEN Len(s) - (n + 1) + 1 ELSE 0
        /\ \A i \in 1..(Len(s) - (n + 1) + 1) : SubSeq(s, n + 1, Len(s))[i] = s[(n + 1) + i - 1]
    BY SubSeqProperties
  <2> QED BY <2>3
<1>4. SubSeq(s, 1, n) \o SubSeq(s, n + 1, Len(s)) = s
  <2> DEFINE a == SubSeq(s, 1, n)
             b == SubSeq(s, n + 1, Len(s))
  <2>1. /\ a \in Seq(S) /\ Len(a) = n /\ \A i \in 1..n : a[i] = s[i]
        /\ b \in Seq(S) /\ Len(b) = Len(s) - n /\ \A i \in 1..(Len(s) - n) : b[i] = s[n + i]
    BY <1>3
  <2> HIDE DEF a, b
  <2>2. /\ a \o b \in Seq(S) /\ Len(a \o b) = Len(s)
        /\ \A i \in 1..Len(s) : (a \o b)[i] = IF i <= n THEN a[i] ELSE b[i - n]
    <3>1. n + (Len(s) - n) = Len(s)
      BY <1>1
    <3> QED BY <2>1
  <2>3. \A i \in 1..Len(s) : (a \o b)[i] = s[i]
    <3>1. TAKE i \in 1..Len(s)
    <3>2. CASE i <= n
      BY <2>1, <3>2
    <3>3. CASE ~(i <= n)
      <4>1. i - n \in 1..(Len(s) - n) /\ n + (i - n) = i
        BY <3>3
      <4> QED BY <2>1, <2>2
    <3> QED BY <3>2, <3>3
  <2>4. a \o b = s
    BY <2>2, <2>3, SeqEqual
  <2> QED BY <2>4 DEF a, b
<1>5. n > 0 => SubSeq(s, 1, n) # <<>>
  BY EmptySeq
<1> QED BY <1>2, <1>3, <1>4, <1>5

\* What happens at the ends of a joined sequence.
LEMMA JoinedEnds ==
  ASSUME NEW S, NEW s \in Seq(S), NEW t \in Seq(S), NEW e \in S
  PROVE  /\ s \o Append(t, e) = Append(s \o t, e)
         /\ s \o t = <<>> <=> s = <<>> /\ t = <<>>
         /\ s # <<>> => Head(s \o t) = Head(s) /\ Tail(s \o t) = Tail(s) \o t
<1>1. s \o Append(t, e) = Append(s \o t, e)
  <2>1. Append(t, e) = t \o <<e>> /\ <<e>> \in Seq(S) /\ s \o t \in Seq(S)
    BY ConcatProperties
  <2>2. Append(s \o t, e) = (s \o t) \o <<e>>
    BY AppendIsConcat
  <2>3. (s \o t) \o <<e>> = s \o (t \o <<e>>)
    BY ConcatAssociative
  <2> QED BY <2>1, <2>2, <2>3, Zenon
<1>2. s \o t = <<>> <=> s = <<>> /\ t = <<>>
  BY ConcatEqualIffEmpty
<1>3. ASSUME s # <<>>
      PROVE  Head(s \o t) = Head(s) /\ Tail(s \o t) = Tail(s) \o t
  <2> DEFINE u == s \o t
             r == Tail(s)
             v == r \o t
  <2>1. /\ u \in Seq(S) /\ Len(u) = Len(s) + Len(t) /\ u # <<>>
        /\ \A i \in 1..Len(u) : u[i] = IF i <= Len(s) THEN s[i] ELSE t[i - Len(s)]
        /\ Len(s) \in Nat /\ Len(t) \in Nat /\ Len(s) > 0
    BY <1>3
  <2>2. /\ r \in Seq(S) /\ Len(r) = Len(s) - 1 /\ Head(s) = s[1]
        /\ \A i \in 1..Len(r) : r[i] = s[i + 1]
    BY <1>3
  <2>3. /\ v \in Seq(S) /\ Len(v) = Len(r) + Len(t)
        /\ \A i \in 1..Len(v) : v[i] = IF i <= Len(r) THEN r[i] ELSE t[i - Len(r)]
    BY <2>2
  <2> HIDE DEF u, r, v
  <2>4. /\ Head(u) = u[1] /\ Tail(u) \in Seq(S) /\ Len(Tail(u)) = Len(u) - 1
        /\ \A i \in 1..Len(Tail(u)) : Tail(u)[i] = u[i + 1]
    BY <2>1
  <2>5. Head(u) = Head(s)
    BY <2>1
  <2>6. Len(Tail(u)) = Len(v)
    BY <2>1, <2>2, <2>3
  <2>7. ASSUME NEW i \in 1..Len(v)
        PROVE  Tail(u)[i] = v[i]
    <3>1. i \in Nat /\ i >= 1 /\ i + 1 \in 1..Len(u)
      BY <2>1, <2>2, <2>3
    <3>2. CASE i <= Len(r)
      <4>1. Tail(u)[i] = s[i + 1]
        BY <2>1, <2>2, <3>2
      <4>2. v[i] = s[i + 1]
        BY <2>2, <2>3, <3>2
      <4> QED BY <4>1, <4>2
    <3>3. CASE ~(i <= Len(r))
      <4>1. (i + 1) - Len(s) = i - Len(r) /\ ~(i + 1 <= Len(s))
        BY <2>2, <3>3
      <4>2. Tail(u)[i] = t[(i + 1) - Len(s)]
        BY <2>1, <3>1, <4>1
      <4> QED BY <2>3, <3>3, <4>1, <4>2
    <3> QED BY <3>2, <3>3
  <2>8. Tail(u) = v
    BY <2>3, <2>4, <2>6, <2>7, SeqEqual
  <2> QED BY <2>5, <2>8 DEF u, r, v
<1> QED BY <1>1

\* Every a in s comes before every b.
Precedes(s, a, b) == \A i, j \in 1..Len(s) : s[i] = a /\ s[j] = b => i < j

\* An order is kept when the head is taken, which is no b that has an a behind it,
\* and when an element is added, unless that is an a behind a b.
LEMMA PrecedesKept ==
  ASSUME NEW S, NEW s \in Seq(S), NEW a, NEW b, a # b
  PROVE  /\ Precedes(<<>>, a, b)
         /\ \A e \in S : Precedes(s, a, b) /\ (e = a => b \notin ToSet(s))
                           => Precedes(Append(s, e), a, b)
         /\ s # <<>> /\ Precedes(s, a, b)
              => Precedes(Tail(s), a, b) /\ (Head(s) = b => a \notin ToSet(Tail(s)))
<1>1. Precedes(<<>>, a, b)
  <2>1. Len(<<>>) = 0
    BY EmptySeq
  <2> QED BY DEF Precedes
<1>2. ASSUME NEW e \in S, Precedes(s, a, b), e = a => b \notin ToSet(s)
      PROVE  Precedes(Append(s, e), a, b)
  <2>1. /\ Len(Append(s, e)) = Len(s) + 1 /\ Append(s, e)[Len(s) + 1] = e /\ Len(s) \in Nat
        /\ \A i \in 1..Len(s) : Append(s, e)[i] = s[i]
    BY LenProperties
  <2>2. ToSet(s) = {s[i] : i \in 1..Len(s)}
    BY ToSetDef
  <2>3. ASSUME NEW i \in 1..(Len(s) + 1), NEW j \in 1..(Len(s) + 1),
               Append(s, e)[i] = a, Append(s, e)[j] = b
        PROVE  i < j
    <3>1. CASE j \in 1..Len(s)
      <4>1. s[j] = b /\ b \in ToSet(s)
        BY <2>2, <2>3, <3>1
      <4>2. i # Len(s) + 1
        BY <1>2, <2>3, <4>1
      <4>3. i \in 1..Len(s) /\ s[i] = a
        BY <2>3, <4>2
      <4> QED BY <1>2, <4>1, <4>3 DEF Precedes
    <3>2. CASE j = Len(s) + 1
      <4>1. i # j
        BY <2>3
      <4> QED BY <3>2, <4>1
    <3> QED BY <3>1, <3>2
  <2> QED BY <2>3 DEF Precedes
<1>3. ASSUME s # <<>>, Precedes(s, a, b)
      PROVE  Precedes(Tail(s), a, b) /\ (Head(s) = b => a \notin ToSet(Tail(s)))
  <2>1. /\ Tail(s) \in Seq(S) /\ Len(Tail(s)) = Len(s) - 1 /\ Len(s) \in Nat /\ Len(s) > 0
        /\ Head(s) = s[1] /\ \A i \in 1..Len(Tail(s)) : Tail(s)[i] = s[i + 1]
    BY <1>3
  <2>2. ToSet(Tail(s)) = {Tail(s)[i] : i \in 1..Len(Tail(s))}
    BY <2>1, ToSetDef
  <2>3. ASSUME NEW i \in 1..Len(Tail(s)), NEW j \in 1..Len(Tail(s)),
               Tail(s)[i] = a, Tail(s)[j] = b
        PROVE  i < j
    <3>1. i + 1 \in 1..Len(s) /\ j + 1 \in 1..Len(s) /\ s[i + 1] = a /\ s[j + 1] = b
      BY <2>3
    <3>2. i + 1 < j + 1
      BY <1>3, <3>1 DEF Precedes
    <3> QED BY <3>2
  <2>4. ASSUME Head(s) = b, NEW i \in 1..Len(Tail(s)), Tail(s)[i] = a
        PROVE  FALSE
    <3>1. i + 1 \in 1..Len(s) /\ s[i + 1] = a /\ 1 \in 1..Len(s) /\ s[1] = b
      BY <2>4
    <3>2. i + 1 < 1
      BY <1>3, <3>1 DEF Precedes
    <3> QED BY <3>2
  <2>5. Precedes(Tail(s), a, b)
    BY <2>3 DEF Precedes
  <2> QED BY <2>2, <2>4, <2>5
<1> QED BY <1>1, <1>2, <1>3

\* A set of numbers that is bounded has a greatest one.
LEMMA Greatest ==
  ASSUME NEW n \in Nat, NEW S, S \subseteq 1..n, S # {}
  PROVE  \E m \in S : \A k \in S : k <= m
<1> DEFINE R == {ss \in Nat \X Nat : ss[1] < ss[2]}
           T == {n - k : k \in S}
<1>1. IsWellFoundedOn(R, Nat)
  BY NatLessThanWellFounded DEF OpToRel
<1>2. T \subseteq Nat
  OBVIOUS
<1>3. T # {}
  <2>1. PICK k : k \in S
    OBVIOUS
  <2>2. n - k \in T
    BY <2>1
  <2> QED BY <2>2
<1>4. \E x \in T : \A y \in T : ~ (<<y, x>> \in R)
  <2> HIDE DEF R, T
  <2> QED BY <1>1, <1>2, <1>3, WFMin
<1>5. PICK x \in T : \A y \in T : ~ (<<y, x>> \in R)
  BY <1>4
<1>6. PICK m \in S : x = n - m
  BY <1>5
<1>7. ASSUME NEW k \in S
      PROVE  k <= m
  <2>1. n - k \in T /\ n - k \in Nat /\ x \in Nat
    BY <1>2, <1>5
  <2>2. ~(n - k < x)
    BY <1>5, <2>1
  <2> QED BY <1>6, <2>1, <2>2
<1> QED BY <1>7
=============================================================================
