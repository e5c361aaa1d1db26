----------------------------- MODULE DataLemmas -----------------------------
(***************************************************************************)
(* What the proofs need of natural numbers and sequences.                  *)
(***************************************************************************)
EXTENDS Integers, SequencesExt, SequenceTheorems, FiniteSetTheorems, WellFoundedInduction, TLAPS

-----------------------------------------------------------------------------
(* Natural numbers.                                                        *)

\* The order of the naturals is well founded: the intervals that end at the members
\* of a set are ordered as their ends are.
LEMMA LeastNatural ==
  ASSUME NEW S \in SUBSET Nat, S # {}
  PROVE  \E n \in S : \A m \in S : n <= m
<1> DEFINE Upto(n) == 0 .. n
           T == {Upto(n) : n \in S}
           R == StrictSubsetOrdering(Nat)
           F == FiniteSubsetsOf(Nat)
<1>1. IsWellFoundedOn(R, F)
  BY FS_StrictSubsetOrderingWellFounded
<1>2. T \subseteq F
  <2>1. \A n \in S : Upto(n) \in SUBSET Nat
    OBVIOUS
  <2>2. \A n \in S : IsFiniteSet(Upto(n))
    BY FS_Interval
  <2>3. QED
    BY <2>1, <2>2 DEF FiniteSubsetsOf
<1>3. T # {}
  OBVIOUS
<1>4. PICK x \in T : \A y \in T : ~ (<<y, x>> \in R)
  <2> HIDE DEF T, R, F
  <2>1. QED
    BY <1>1, <1>2, <1>3, WFMin
<1>5. PICK n \in S : x = Upto(n)
  OBVIOUS
<1>6. ASSUME NEW m \in S, ~(n <= m) PROVE FALSE
  <2>1. Upto(m) \in T
    OBVIOUS
  <2>2. Upto(m) \subseteq Upto(n) /\ n \in Upto(n) /\ n \notin Upto(m)
    BY <1>6
  <2>3. <<Upto(m), Upto(n)>> \in R
    BY <2>2 DEF StrictSubsetOrdering
  <2>4. QED
    BY <1>4, <1>5, <2>1, <2>3
<1>7. QED
  BY <1>6

\* An interval has a first place where something holds that holds somewhere in it.
LEMMA FirstPlace ==
  ASSUME NEW i \in Int, NEW n \in Int, NEW S, NEW k \in i .. n, k \in S
  PROVE  \E j \in i .. n : j \in S /\ \A m \in i .. j - 1 : m \notin S
<1> DEFINE T == {m \in Nat : i + m \in S /\ i + m <= n}
<1>1. T \in SUBSET Nat /\ k - i \in T
  OBVIOUS
<1>2. PICK m \in T : \A l \in T : m <= l
  <2> HIDE DEF T
  <2>1. QED
    BY <1>1, LeastNatural
<1>3. \A l \in i .. (i + m) - 1 : l \notin S
  <2> SUFFICES ASSUME NEW l \in i .. (i + m) - 1, l \in S PROVE FALSE
    OBVIOUS
  <2>1. l - i \in T /\ l - i < m
    OBVIOUS
  <2>2. QED
    BY <1>2, <2>1
<1>4. QED
  BY <1>2, <1>3

\* A step can be iterated.
IsIteration(f, S, start, step, bound) ==
  /\ f \in [0 .. bound -> S]
  /\ f[0] = start /\ \A n \in 1 .. bound : f[n] = step[f[n - 1]]

LEMMA Iterates ==
  ASSUME NEW S, NEW start \in S, NEW step \in [S -> S], NEW bound \in Nat
  PROVE  \E f : IsIteration(f, S, start, step, bound)
<1> DEFINE IsWalk(f, m) == f[0] = start /\ \A n \in 1 .. m : f[n] = step[f[n - 1]]
           T == {m \in Nat : ~ \E f \in [0 .. m -> S] : IsWalk(f, m)}
<1>1. CASE T = {}
  <2>1. bound \notin T
    BY <1>1
  <2>2. QED
    BY <2>1 DEF IsIteration
<1>2. CASE T # {}
  <2>1. PICK m \in T : \A k \in T : m <= k
    <3>1. T \in SUBSET Nat
      OBVIOUS
    <3> HIDE DEF T
    <3>2. QED
      BY <1>2, <3>1, LeastNatural
  <2>2. m \in Nat /\ ~ \E f \in [0 .. m -> S] : IsWalk(f, m)
    BY <2>1
  <2>3. CASE m = 0
    <3> DEFINE f == [n \in 0 .. 0 |-> start]
    <3>1. f \in [0 .. m -> S] /\ IsWalk(f, m)
      BY <2>3
    <3>2. QED
      BY <2>2, <3>1
  <2>4. CASE m # 0
    <3>1. m - 1 \in Nat /\ m - 1 \notin T
      <4>1. m - 1 \in Nat /\ ~(m <= m - 1)
        BY <2>2, <2>4
      <4> HIDE DEF T
      <4>2. QED
        BY <2>1, <4>1
    <3>2. PICK f \in [0 .. m - 1 -> S] : IsWalk(f, m - 1)
      BY <3>1
    <3> DEFINE g == [n \in 0 .. m |-> IF n = m THEN step[f[m - 1]] ELSE f[n]]
    <3>3. g \in [0 .. m -> S]
      BY <3>1, <3>2
    <3>4. ASSUME NEW n \in 1 .. m PROVE g[n] = step[g[n - 1]]
      <4>1. n - 1 \in 0 .. m - 1 /\ g[n - 1] = f[n - 1]
        BY <2>2
      <4>2. CASE n = m
        BY <2>2, <4>1, <4>2
      <4>3. CASE n # m
        BY <2>2, <3>2, <4>1, <4>3
      <4>4. QED
        BY <4>2, <4>3
    <3>5. IsWalk(g, m)
      <4>1. g[0] = start
        BY <2>2, <2>4, <3>2
      <4>2. QED
        BY <3>4, <4>1
    <3>6. QED
      BY <2>2, <3>3, <3>5
  <2>5. QED
    BY <2>3, <2>4
<1>3. QED
  BY <1>1, <1>2

\* What holds at the start, and of a step when of the one before, holds along the way.
LEMMA Inductive ==
  ASSUME NEW bound \in Nat, NEW S, 0 \in S,
         \A n \in 1 .. bound : n - 1 \in S => n \in S
  PROVE  \A n \in 0 .. bound : n \in S
<1> DEFINE T == {n \in 0 .. bound : n \notin S}
<1>1. CASE T # {}
  <2>1. PICK m \in T : \A k \in T : m <= k
    <3>1. T \in SUBSET Nat
      OBVIOUS
    <3> HIDE DEF T
    <3>2. QED
      BY <1>1, <3>1, LeastNatural
  <2>2. m # 0 /\ m \in 1 .. bound /\ m - 1 \in 0 .. bound /\ m - 1 \notin T
    BY <2>1
  <2>3. QED
    BY <2>1, <2>2
<1>2. QED
  BY <1>1

LEMMA FiniteRange ==
  ASSUME NEW f, IsFiniteSet(DOMAIN f)
  PROVE  IsFiniteSet(Range(f))
<1> DEFINE g == [x \in DOMAIN f |-> f[x]]
<1>1. g \in Surjection(DOMAIN f, Range(f))
  BY DEF Surjection, Range
<1> HIDE DEF g
<1>2. QED
  BY <1>1, FS_Surjection

-----------------------------------------------------------------------------
(* Recursive functions.                                                    *)

\* A function may be defined by its value at one other place, with a smaller measure.
IsRecursion(f, D, V, B, base, next, g) ==
  f \in [D -> V] /\ \A x \in D : f[x] = IF x \in B THEN base[x] ELSE g[<<x, f[next[x]]>>]

LEMMA Recurses ==
  ASSUME NEW D, NEW V, V # {}, NEW M \in Nat, NEW measure \in [D -> 0 .. M],
         NEW B \in SUBSET D, NEW base \in [D -> V], NEW next \in [D -> D],
         NEW g \in [D \X V -> V],
         \A x \in D : x \notin B => measure[next[x]] < measure[x]
  PROVE  \E f : IsRecursion(f, D, V, B, base, next, g)
<1> DEFINE value(f, x) == IF x \in B THEN base[x] ELSE g[<<x, f[next[x]]>>]
           IsSome(f, m) == \A x \in D : measure[x] < m => f[x] = value(f, x)
           S == {m \in Nat : \E f \in [D -> V] : IsSome(f, m)}
<1>1. ASSUME NEW f \in [D -> V], NEW x \in D PROVE value(f, x) \in V
  <2>1. next[x] \in D
    OBVIOUS
  <2>2. <<x, f[next[x]]>> \in D \X V
    BY <2>1
  <2>3. QED
    BY <2>2
<1>2. 0 \in S
  <2>1. PICK v : v \in V
    OBVIOUS
  <2>2. [x \in D |-> v] \in [D -> V] /\ \A x \in D : ~(measure[x] < 0)
    BY <2>1
  <2>3. QED
    BY <2>2
<1>3. ASSUME NEW m \in 1 .. M + 1, m - 1 \in S PROVE m \in S
  <2>1. PICK f \in [D -> V] : IsSome(f, m - 1)
    BY <1>3
  <2> DEFINE h == [x \in D |-> value(f, x)]
  <2>2. h \in [D -> V]
    <3> HIDE DEF value
    <3>1. QED
      BY <1>1
  <2>3. ASSUME NEW x \in D, measure[x] < m PROVE h[x] = value(h, x)
    <3>1. CASE x \in B
      BY <3>1
    <3>2. CASE x \notin B
      <4>1. next[x] \in D /\ measure[next[x]] < m - 1
        <5>1. measure[x] \in Nat /\ measure[next[x]] \in Nat /\ measure[next[x]] < measure[x]
          BY <3>2
        <5>2. QED
          BY <2>3, <5>1
      <4>2. f[next[x]] = value(f, next[x])
        BY <2>1, <4>1
      <4>3. h[next[x]] = f[next[x]]
        BY <4>1, <4>2
      <4> HIDE DEF h
      <4>4. value(h, x) = value(f, x)
        BY <4>3
      <4>5. h[x] = value(f, x)
        BY DEF h
      <4>6. QED
        BY <4>4, <4>5
    <3>3. QED
      BY <3>1, <3>2
  <2> HIDE DEF h, value
  <2>4. QED
    BY <2>2, <2>3
<1>4. \A m \in 0 .. M + 1 : m \in S
  <2> HIDE DEF S
  <2>1. QED
    BY <1>2, <1>3, Inductive
<1>5. PICK f \in [D -> V] : IsSome(f, M + 1)
  BY <1>4
<1>6. \A x \in D : measure[x] < M + 1
  OBVIOUS
<1>7. QED
  BY <1>5, <1>6 DEF IsRecursion

\* What holds everywhere if it holds where it does of every smaller measure.
LEMMA ByMeasure ==
  ASSUME NEW D, NEW measure \in [D -> Nat], NEW S,
         \A x \in D : (\A y \in D : measure[y] < measure[x] => y \in S) => x \in S
  PROVE  \A x \in D : x \in S
<1> DEFINE Others == {x \in D : x \notin S}
           T == {measure[x] : x \in Others}
<1>1. SUFFICES ASSUME Others # {} PROVE FALSE
  OBVIOUS
<1>2. T \in SUBSET Nat /\ T # {}
  BY <1>1
<1>3. PICK n \in T : \A m \in T : n <= m
  <2> HIDE DEF T
  <2>1. QED
    BY <1>2, LeastNatural
<1>4. PICK x \in Others : n = measure[x]
  BY <1>3
<1>5. PICK y \in D : measure[y] < measure[x] /\ y \notin S
  BY <1>4
<1>6. measure[y] \in T /\ measure[y] \in Nat /\ measure[x] \in Nat
  BY <1>4, <1>5
<1> HIDE DEF T
<1>7. QED
  BY <1>3, <1>4, <1>5, <1>6

-----------------------------------------------------------------------------
(* Sequences.                                                              *)

IsSequence(s) == s \in Seq(Range(s))

LEMMA SequenceOf == ASSUME NEW X, NEW s \in Seq(X) PROVE IsSequence(s)
<1>1. /\ Len(s) \in Nat /\ DOMAIN s = 1 .. Len(s)
      /\ s = [i \in 1 .. Len(s) |-> s[i]]
      /\ \A i \in 1 .. Len(s) : s[i] \in Range(s)
  BY DEF Range
<1>2. s \in [1 .. Len(s) -> Range(s)]
  BY <1>1
<1>3. QED
  BY <1>1, <1>2 DEF IsSequence

LEMMA EmptyIsSequence == IsSequence(<<>>)
BY DEF IsSequence

LEMMA PairIsSequence ==
  ASSUME NEW a, NEW b
  PROVE  IsSequence(<<a, b>>) /\ 2 \in DOMAIN <<a, b>> /\ <<a, b>>[2] = b
<1>1. <<a, b>> \in Seq({a, b})
  OBVIOUS
<1>2. IsSequence(<<a, b>>)
  BY <1>1, SequenceOf
<1>3. QED
  BY <1>2

LEMMA AppendIsSequence ==
  ASSUME NEW s, IsSequence(s), NEW e
  PROVE  /\ IsSequence(Append(s, e)) /\ Range(Append(s, e)) = Range(s) \cup {e}
         /\ Len(s) \in Nat /\ Len(Append(s, e)) = Len(s) + 1
         /\ Append(s, e)[Len(s) + 1] = e
         /\ \A i \in DOMAIN s : Append(s, e)[i] = s[i]
<1> DEFINE X == Range(s) \cup {e}
           t == Append(s, e)
<1>1. s \in Seq(X) /\ e \in X
  BY SeqMonotonic DEF IsSequence
<1> HIDE DEF X
<1>2. /\ t \in Seq(X) /\ Len(t) = Len(s) + 1
      /\ Len(s) \in Nat /\ DOMAIN s = 1 .. Len(s) /\ DOMAIN t = 1 .. Len(s) + 1
      /\ \A i \in DOMAIN s : t[i] = s[i]
      /\ t[Len(s) + 1] = e
  BY <1>1
<1>3. IsSequence(t)
  BY <1>2, SequenceOf
<1> HIDE DEF t
<1>4. Range(t) = {t[i] : i \in 1 .. Len(s) + 1} /\ Range(s) = {s[i] : i \in 1 .. Len(s)}
  BY <1>2 DEF Range
<1>5. Range(t) = Range(s) \cup {e}
  <2>1. \A x \in Range(t) : x \in Range(s) \cup {e}
    BY <1>2, <1>4
  <2>2. \A x \in Range(s) \cup {e} : x \in Range(t)
    BY <1>2, <1>4
  <2>3. QED
    BY <2>1, <2>2
<1>6. QED
  BY <1>2, <1>3, <1>5 DEF t

LEMMA LastOfAppend ==
  ASSUME NEW s, IsSequence(s), NEW e
  PROVE  Last(Append(s, e)) = e
<1> DEFINE X == Range(s) \cup {e}
<1>1. s \in Seq(X) /\ e \in X
  BY SeqMonotonic DEF IsSequence
<1> HIDE DEF X
<1>2. Len(Append(s, e)) = Len(s) + 1 /\ Append(s, e)[Len(s) + 1] = e
  BY <1>1
<1>3. QED
  BY <1>2 DEF Last

\* What has an entry in the tail of a sequence or in one put before it has one in
\* the whole.
LEMMA Prefixed ==
  ASSUME NEW s, IsSequence(s), NEW t, IsSequence(t)
  PROVE  /\ IsSequence(s \o t)
         /\ \A i \in DOMAIN s : i \in DOMAIN (s \o t) /\ (s \o t)[i] = s[i]
         /\ \A i \in DOMAIN t : Len(s) + i \in DOMAIN (s \o t) /\ (s \o t)[Len(s) + i] = t[i]
<1> DEFINE X == Range(s) \cup Range(t)
<1>1. s \in Seq(X) /\ t \in Seq(X)
  BY SeqMonotonic DEF IsSequence
<1> HIDE DEF X
<1>2. /\ s \o t \in Seq(X)
      /\ Len(s \o t) = Len(s) + Len(t)
      /\ \A i \in 1 .. Len(s) : (s \o t)[i] = s[i]
      /\ \A i \in 1 .. Len(t) : (s \o t)[Len(s) + i] = t[i]
      /\ Len(s) \in Nat /\ Len(t) \in Nat
      /\ DOMAIN s = 1 .. Len(s) /\ DOMAIN t = 1 .. Len(t)
      /\ DOMAIN (s \o t) = 1 .. Len(s) + Len(t)
  BY <1>1
<1>3. IsSequence(s \o t)
  BY <1>2, SequenceOf
<1>4. QED
  BY <1>2, <1>3

LEMMA TailShifts ==
  ASSUME NEW s, IsSequence(s), s # <<>>
  PROVE  /\ IsSequence(Tail(s))
         /\ Head(s) = s[1]
         /\ \A i \in DOMAIN s : i # 1 => i - 1 \in DOMAIN Tail(s) /\ Tail(s)[i - 1] = s[i]
<1>1. /\ s \in Seq(Range(s))
      /\ Len(s) \in Nat /\ DOMAIN s = 1 .. Len(s)
      /\ Tail(s) \in Seq(Range(s))
      /\ DOMAIN Tail(s) = 1 .. Len(s) - 1
      /\ \A i \in 1 .. Len(s) - 1 : Tail(s)[i] = s[i + 1]
  BY DEF IsSequence
<1>2. IsSequence(Tail(s))
  BY <1>1, SequenceOf
<1>3. \A i \in 1 .. Len(s) : i # 1 => i - 1 \in 1 .. Len(s) - 1 /\ (i - 1) + 1 = i
  BY <1>1
<1>4. Head(s) = s[1]
  BY <1>1
<1>5. QED
  BY <1>1, <1>2, <1>3, <1>4

LEMMA Joined ==
  ASSUME NEW X, NEW s \in Seq(X), NEW t \in Seq(X)
  PROVE  /\ s \o t \in Seq(X)
         /\ Len(s \o t) = Len(s) + Len(t)
         /\ \A i \in 1 .. Len(s) : (s \o t)[i] = s[i]
         /\ \A i \in 1 .. Len(t) : (s \o t)[Len(s) + i] = t[i]
OBVIOUS

LEMMA JoinedThree ==
  ASSUME NEW X, NEW s \in Seq(X), NEW t \in Seq(X), NEW u \in Seq(X)
  PROVE  /\ s \o t \o u \in Seq(X)
         /\ Len(s \o t \o u) = Len(s) + Len(t) + Len(u)
         /\ \A i \in 1 .. Len(s) : (s \o t \o u)[i] = s[i]
         /\ \A i \in 1 .. Len(t) : (s \o t \o u)[Len(s) + i] = t[i]
         /\ \A i \in 1 .. Len(u) : (s \o t \o u)[Len(s) + Len(t) + i] = u[i]
<1> DEFINE st == s \o t
<1>1. /\ st \in Seq(X) /\ Len(st) = Len(s) + Len(t)
      /\ \A i \in 1 .. Len(s) : st[i] = s[i]
      /\ \A i \in 1 .. Len(t) : st[Len(s) + i] = t[i]
  BY Joined
<1> HIDE DEF st
<1>2. /\ st \o u \in Seq(X) /\ Len(st \o u) = Len(st) + Len(u)
      /\ \A i \in 1 .. Len(st) : (st \o u)[i] = st[i]
      /\ \A i \in 1 .. Len(u) : (st \o u)[Len(st) + i] = u[i]
  <2>1. st \in Seq(X)
    BY <1>1
  <2>2. QED
    BY <2>1, Joined
<1>3. \A i \in 1 .. Len(t) : Len(s) + i \in 1 .. Len(st) /\ (st \o u)[Len(s) + i] = t[i]
  BY <1>1, <1>2
<1>4. QED
  BY <1>1, <1>2, <1>3 DEF st

LEMMA SingletonSequence ==
  ASSUME NEW X, NEW s \in Seq(X), Len(s) = 1
  PROVE  s = <<s[1]>>
OBVIOUS

=============================================================================
