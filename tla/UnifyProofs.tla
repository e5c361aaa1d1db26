---------------------------- MODULE UnifyProofs ----------------------------
(***************************************************************************)
(* Proofs about unification, from any cells and any list of equations that *)
(* are asked for: the cells and the environment hold types, known types    *)
(* stay, the bindings make no cycle unless a variable was related to       *)
(* itself, they solve the equations, and errors are real.  The work may    *)
(* hold tasks of a caller between the equations, so that the proofs about  *)
(* the type checker can cite the lemmas on steps.                          *)
(***************************************************************************)
EXTENDS Unify, DataLemmas

-----------------------------------------------------------------------------
(* follow_links.                                                           *)

\* The same of any environment e, so that two of them can be compared.
BoundIn(e, t) == IsVar(t) /\ t.name \in DOMAIN e
Linked(e, u) == IF BoundIn(e, u) THEN e[u.name] ELSE u

FollowIn(e, t) ==
  LET links == {v \in DOMAIN e : BoundIn(e, e[v])}
      along[n \in 0 .. Cardinality(links) + 1] ==
        IF n = 0 THEN t
        ELSE LET u == along[n - 1] IN IF BoundIn(e, u) THEN e[u.name] ELSE u
  IN  along[Cardinality(links) + 1]

LEMMA FollowsIn ==
  /\ \A t : IsBound(t) <=> BoundIn(env, t)
  /\ \A t : Follow(t) = FollowIn(env, t)
BY DEF IsBound, BoundIn, Follow, FollowIn

Links(e) == {v \in DOMAIN e : BoundIn(e, e[v])}
Steps(e) == Cardinality(Links(e)) + 1

LEMMA Chain ==
  ASSUME NEW e, IsFiniteSet(DOMAIN e), NEW t
  PROVE  \E f \in [0 .. Steps(e) -> {t} \cup Range(e)] :
           /\ f[0] = t /\ \A n \in 1 .. Steps(e) : f[n] = Linked(e, f[n - 1])
           /\ FollowIn(e, t) = f[Steps(e)]
<1> DEFINE S == {t} \cup Range(e)
           step == [u \in S |-> Linked(e, u)]
           IsChain(f) == f = [n \in 0 .. Steps(e) |->
                                IF n = 0 THEN t
                                ELSE LET u == f[n - 1] IN IF BoundIn(e, u) THEN e[u.name] ELSE u]
           along == CHOOSE f : IsChain(f)
<1>1. Steps(e) \in Nat
  BY FS_Subset, FS_CardinalityType DEF Steps, Links
<1>2. step \in [S -> S]
  BY DEF Linked, BoundIn, Range
<1>3. PICK f : IsIteration(f, S, t, step, Steps(e))
  <2> HIDE DEF S, step
  <2>1. t \in S
    BY DEF S
  <2>2. QED
    BY <1>1, <1>2, <2>1, Iterates
<1>4. \A n \in 1 .. Steps(e) : n - 1 \in 0 .. Steps(e)
  BY <1>1
<1>5. IsChain(f)
  <2>1. \A n \in 1 .. Steps(e) : step[f[n - 1]] = Linked(e, f[n - 1])
    BY <1>1, <1>3, <1>4 DEF IsIteration
  <2>2. f \in [0 .. Steps(e) -> S] /\ f[0] = t /\ \A n \in 1 .. Steps(e) : f[n] = step[f[n - 1]]
    BY <1>3 DEF IsIteration
  <2>3. \A n \in 0 .. Steps(e) : f[n] = IF n = 0 THEN t ELSE Linked(e, f[n - 1])
    <3>1. \A n \in 0 .. Steps(e) : n # 0 => n \in 1 .. Steps(e)
      BY <1>1
    <3> HIDE DEF step, S
    <3>2. QED
      BY <2>1, <2>2, <3>1
  <2>4. f = [n \in 0 .. Steps(e) |-> f[n]]
    BY <2>2
  <2> HIDE DEF step, S
  <2>5. QED
    BY <2>3, <2>4 DEF Linked
<1>6. IsChain(along)
  <2> HIDE DEF IsChain
  <2>1. QED
    BY <1>5
<1>7. FollowIn(e, t) = along[Steps(e)]
  BY DEF FollowIn, Steps, Links
<1> HIDE DEF along
<1>8. DOMAIN along = 0 .. Steps(e) /\ along[0] = t
      /\ \A n \in 1 .. Steps(e) : along[n] = Linked(e, along[n - 1])
  BY <1>1, <1>6 DEF Linked
<1>9. along \in [0 .. Steps(e) -> S]
  <2> DEFINE T == {n \in 0 .. Steps(e) : along[n] \in S}
  <2>1. 0 \in T /\ \A n \in 1 .. Steps(e) : n - 1 \in T => n \in T
    BY <1>1, <1>4, <1>8 DEF Linked, BoundIn, Range
  <2>2. \A n \in 0 .. Steps(e) : n \in T
    <3> HIDE DEF T
    <3>1. QED
      BY <1>1, <2>1, Inductive
  <2>3. \A n \in 0 .. Steps(e) : along[n] \in S
    BY <2>2
  <2>4. along = [n \in 0 .. Steps(e) |-> along[n]]
    BY <1>6
  <2> HIDE DEF S
  <2>5. QED
    BY <2>3, <2>4
<1>10. QED
  BY <1>7, <1>8, <1>9

LEMMA FollowLeads ==
  ASSUME NEW e, IsFiniteSet(DOMAIN e), NEW t
  PROVE  FollowIn(e, t) \in {t} \cup Range(e)
<1>1. Steps(e) \in Nat
  BY FS_Subset, FS_CardinalityType DEF Steps, Links
<1>2. Steps(e) \in 0 .. Steps(e)
  BY <1>1
<1>3. QED
  BY <1>2, Chain

LEMMA FollowStays ==
  ASSUME NEW e, IsFiniteSet(DOMAIN e), NEW t, ~BoundIn(e, t)
  PROVE  FollowIn(e, t) = t
<1>1. Steps(e) \in Nat
  BY FS_Subset, FS_CardinalityType DEF Steps, Links
<1>2. PICK f \in [0 .. Steps(e) -> {t} \cup Range(e)] :
           /\ f[0] = t /\ \A n \in 1 .. Steps(e) : f[n] = Linked(e, f[n - 1])
           /\ FollowIn(e, t) = f[Steps(e)]
  BY Chain
<1> DEFINE S == {n \in Int : f[n] = t}
<1>3. 0 \in S
  BY <1>2
<1>4. \A n \in 1 .. Steps(e) : n - 1 \in S => n \in S
  BY <1>2 DEF Linked
<1>5. \A n \in 0 .. Steps(e) : n \in S
  <2> HIDE DEF S
  <2>1. QED
    BY <1>1, <1>3, <1>4, Inductive
<1>6. QED
  BY <1>1, <1>2, <1>5

\* Bindings with a rank that falls along every chain make no cycle.
RanksIn(e, rank) ==
  /\ rank \in [DOMAIN e -> Nat]
  /\ \A v \in DOMAIN e : BoundIn(e, e[v]) => rank[e[v].name] < rank[v]
RankedIn(e) == \E rank : RanksIn(e, rank)

LEMMA RankedEnds ==
  ASSUME NEW e, IsFiniteSet(DOMAIN e), RankedIn(e), NEW t
  PROVE  ~BoundIn(e, FollowIn(e, t))
<1>1. IsFiniteSet(Links(e)) /\ Cardinality(Links(e)) \in Nat /\ Steps(e) = Cardinality(Links(e)) + 1
  BY FS_Subset, FS_CardinalityType DEF Steps, Links
<1>2. PICK f \in [0 .. Steps(e) -> {t} \cup Range(e)] :
           /\ f[0] = t /\ \A n \in 1 .. Steps(e) : f[n] = Linked(e, f[n - 1])
           /\ FollowIn(e, t) = f[Steps(e)]
  BY Chain
<1>3. PICK rank : RanksIn(e, rank)
  BY DEF RankedIn
<1> DEFINE Below(u) == {v \in Links(e) : rank[v] <= rank[u.name]}
           S == {n \in Int : BoundIn(e, f[n]) => Cardinality(Below(f[n])) <= Cardinality(Links(e)) - n}
<1>4. \A u : IsFiniteSet(Below(u)) /\ Cardinality(Below(u)) \in Nat
             /\ Cardinality(Below(u)) <= Cardinality(Links(e))
  <2> TAKE u
  <2>1. Below(u) \in SUBSET Links(e)
    OBVIOUS
  <2> HIDE DEF Below
  <2>2. QED
    BY <1>1, <2>1, FS_Subset, FS_CardinalityType
<1>5. 0 \in S
  <2>1. Cardinality(Below(f[0])) <= Cardinality(Links(e))
    BY <1>4
  <2> HIDE DEF Below
  <2>2. QED
    BY <1>1, <2>1
<1>6. ASSUME NEW n \in 1 .. Steps(e), n - 1 \in S PROVE n \in S
  <2> DEFINE u == f[n - 1]
             w == f[n]
  <2>1. SUFFICES ASSUME BoundIn(e, w) PROVE Cardinality(Below(w)) <= Cardinality(Links(e)) - n
    BY <1>1
  <2>2. n - 1 \in 0 .. Steps(e) /\ w = Linked(e, u)
    BY <1>1, <1>2
  <2>3. BoundIn(e, u) /\ w = e[u.name] /\ u.name \in Links(e) /\ w.name \in DOMAIN e
    BY <2>1, <2>2 DEF Linked, Links, BoundIn
  <2>4. rank[w.name] < rank[u.name] /\ rank \in [DOMAIN e -> Nat]
    BY <1>3, <2>1, <2>3 DEF RanksIn, BoundIn
  <2>5. Cardinality(Below(u)) <= Cardinality(Links(e)) - (n - 1)
    BY <1>6, <2>3
  <2> HIDE DEF u, w
  <2>6. Below(w) \subseteq Below(u) /\ u.name \in Below(u) /\ u.name \notin Below(w)
    BY <2>3, <2>4 DEF Links, BoundIn
  <2>7. /\ Cardinality(Below(w)) < Cardinality(Below(u))
        /\ Cardinality(Below(w)) \in Nat /\ Cardinality(Below(u)) \in Nat
    <3>1. IsFiniteSet(Below(u)) /\ Cardinality(Below(u)) \in Nat /\ Cardinality(Below(w)) \in Nat
      BY <1>4
    <3> HIDE DEF Below
    <3>2. Below(w) \in SUBSET Below(u) /\ Below(w) # Below(u)
      BY <2>6
    <3>3. QED
      BY <3>1, <3>2, FS_Subset
  <2> HIDE DEF Below
  <2>8. QED
    BY <1>1, <2>5, <2>7
<1>7. \A n \in 0 .. Steps(e) : n \in S
  <2> HIDE DEF S
  <2>1. Steps(e) \in Nat
    BY <1>1
  <2>2. QED
    BY <1>5, <1>6, <2>1, Inductive
<1>8. BoundIn(e, f[Steps(e)]) => Cardinality(Below(f[Steps(e)])) <= Cardinality(Links(e)) - Steps(e)
  BY <1>1, <1>7
<1>9. QED
  <2> HIDE DEF Below
  <2>1. QED
    BY <1>1, <1>2, <1>4, <1>8


\* What holds of a variable when it holds of the one it is bound to holds of all.
LEMMA AlongBindings ==
  ASSUME NEW e, RankedIn(e), NEW S,
         \A v \in DOMAIN e : (BoundIn(e, e[v]) => e[v].name \in S) => v \in S
  PROVE  \A v \in DOMAIN e : v \in S
<1>1. PICK rank : RanksIn(e, rank)
  BY DEF RankedIn
<1> DEFINE Others == {v \in DOMAIN e : v \notin S}
           T == {rank[v] : v \in Others}
<1>2. SUFFICES ASSUME Others # {} PROVE FALSE
  OBVIOUS
<1>3. T \in SUBSET Nat /\ T # {}
  BY <1>1, <1>2 DEF RanksIn
<1>4. PICK n \in T : \A m \in T : n <= m
  <2> HIDE DEF T
  <2>1. QED
    BY <1>3, LeastNatural
<1>5. PICK v \in Others : n = rank[v]
  BY <1>4
<1>6. BoundIn(e, e[v]) /\ e[v].name \notin S /\ e[v].name \in DOMAIN e
  BY <1>5 DEF BoundIn
<1>7. rank[e[v].name] \in T /\ rank[e[v].name] < rank[v]
  BY <1>1, <1>5, <1>6 DEF RanksIn
<1>8. rank[e[v].name] \in Nat /\ rank[v] \in Nat
  BY <1>1, <1>5, <1>6 DEF RanksIn
<1> HIDE DEF T, Others
<1>9. QED
  BY <1>4, <1>5, <1>7, <1>8

\* The first step of a chain that ends can be taken alone.
LEMMA FollowStep ==
  ASSUME NEW e, IsFiniteSet(DOMAIN e), RankedIn(e), NEW t
  PROVE  FollowIn(e, t) = FollowIn(e, Linked(e, t))
<1> DEFINE u == Linked(e, t)
<1>1. Steps(e) \in Nat /\ Steps(e) >= 1
  BY FS_Subset, FS_CardinalityType DEF Steps, Links
<1>2. PICK f \in [0 .. Steps(e) -> {t} \cup Range(e)] :
           /\ f[0] = t /\ \A n \in 1 .. Steps(e) : f[n] = Linked(e, f[n - 1])
           /\ FollowIn(e, t) = f[Steps(e)]
  BY Chain
<1>3. PICK g \in [0 .. Steps(e) -> {u} \cup Range(e)] :
           /\ g[0] = u /\ \A n \in 1 .. Steps(e) : g[n] = Linked(e, g[n - 1])
           /\ FollowIn(e, u) = g[Steps(e)]
  <2> HIDE DEF u
  <2>1. QED
    BY Chain
<1> DEFINE S == {n \in Int : g[n] = f[n + 1]}
<1>4. 0 \in S
  BY <1>1, <1>2, <1>3
<1>5. ASSUME NEW n \in 1 .. Steps(e) - 1, n - 1 \in S PROVE n \in S
  <2>1. n \in 1 .. Steps(e) /\ n + 1 \in 1 .. Steps(e) /\ (n - 1) + 1 = n /\ (n + 1) - 1 = n
    BY <1>1
  <2>2. g[n] = Linked(e, g[n - 1]) /\ g[n - 1] = f[n] /\ f[n + 1] = Linked(e, f[n])
    BY <1>2, <1>3, <1>5, <2>1
  <2>3. QED
    BY <2>2
<1>6. \A n \in 0 .. Steps(e) - 1 : n \in S
  <2> HIDE DEF S
  <2>1. Steps(e) - 1 \in Nat
    BY <1>1
  <2>2. QED
    BY <1>4, <1>5, <2>1, Inductive
<1>7. g[Steps(e) - 1] = f[Steps(e)]
  BY <1>1, <1>6
<1>8. ~BoundIn(e, f[Steps(e)])
  BY <1>2, RankedEnds
<1>9. g[Steps(e)] = Linked(e, g[Steps(e) - 1])
  BY <1>1, <1>3
<1>10. QED
  BY <1>2, <1>3, <1>7, <1>8, <1>9 DEF Linked

\* The end of a variable's chain.
LEMMA FollowVariable ==
  ASSUME NEW e, IsFiniteSet(DOMAIN e), RankedIn(e), NEW n
  PROVE  FollowIn(e, Var(n)) = IF n \in DOMAIN e THEN FollowIn(e, e[n]) ELSE Var(n)
<1>1. Linked(e, Var(n)) = IF n \in DOMAIN e THEN e[n] ELSE Var(n)
  BY DEF Linked, BoundIn, Var, IsVar
<1>2. n \notin DOMAIN e => ~BoundIn(e, Var(n))
  BY DEF BoundIn, Var
<1>3. QED
  BY <1>1, <1>2, FollowStep, FollowStays

\* An environment in which variable x is bound, or bound anew, to w.
Rebound(e, x, w) == [v \in DOMAIN e \cup {x} |-> IF v = x THEN w ELSE e[v]]

\* The new binding is the end of its chain, and what was bound to the variable comes
\* before it.
LEMMA ReboundRanked ==
  ASSUME NEW e, IsFiniteSet(DOMAIN e), RankedIn(e), NEW x, NEW w,
         ~BoundIn(e, w), IsVar(w) => w.name # x
  PROVE  IsFiniteSet(DOMAIN Rebound(e, x, w)) /\ RankedIn(Rebound(e, x, w))
<1> DEFINE d == Rebound(e, x, w)
<1>1. PICK rank : RanksIn(e, rank)
  BY DEF RankedIn
<1> DEFINE new == [v \in DOMAIN d |-> IF v \in DOMAIN e THEN rank[v] + 1 ELSE 0]
<1>2. DOMAIN d = DOMAIN e \cup {x}
  BY DEF Rebound
<1>3. ~BoundIn(d, w)
  BY <1>2 DEF BoundIn
<1>4. ASSUME NEW v \in DOMAIN d, BoundIn(d, d[v]) PROVE new[d[v].name] < new[v]
  <2>1. v # x /\ v \in DOMAIN e /\ d[v] = e[v]
    BY <1>2, <1>3, <1>4 DEF Rebound
  <2>2. e[v].name \in DOMAIN d
    BY <1>4, <2>1 DEF BoundIn
  <2>3. CASE e[v].name \in DOMAIN e
    <3>1. rank[e[v].name] < rank[v] /\ rank[e[v].name] \in Nat /\ rank[v] \in Nat
      BY <1>1, <1>4, <2>1, <2>3 DEF RanksIn, BoundIn
    <3> HIDE DEF d
    <3>2. QED
      BY <2>1, <2>2, <2>3, <3>1
  <2>4. CASE e[v].name \notin DOMAIN e
    <3>1. rank[v] \in Nat
      BY <1>1, <2>1 DEF RanksIn
    <3> HIDE DEF d
    <3>2. QED
      BY <2>1, <2>2, <2>4, <3>1
  <2>5. QED
    BY <2>3, <2>4
<1>5. new \in [DOMAIN d -> Nat]
  BY <1>1 DEF RanksIn
<1>6. IsFiniteSet(DOMAIN d)
  BY <1>2, FS_AddElement
<1> HIDE DEF new, d
<1>7. RankedIn(d)
  BY <1>4, <1>5 DEF RanksIn, RankedIn
<1>8. QED
  BY <1>6, <1>7 DEF d

\* Chains after x is bound: those that went through x end in w, the others where they
\* did; what x was bound to before ends where x did.
LEMMA Rebinding ==
  ASSUME NEW e, IsFiniteSet(DOMAIN e), RankedIn(e),
         \A v \in DOMAIN e : IsVar(e[v]) => e[v] = Var(e[v].name),
         NEW x, NEW w, ~BoundIn(e, w), IsVar(w) => w.name # x,
         NEW d, d = Rebound(e, x, w)
  PROVE  /\ FollowIn(d, w) = w /\ FollowIn(d, Var(x)) = w
         /\ \A n : \/ FollowIn(d, Var(n)) = FollowIn(e, Var(n))
                   \/ FollowIn(d, Var(n)) = w /\ FollowIn(e, Var(n)) = FollowIn(e, Var(x))
         /\ x \in DOMAIN e => FollowIn(d, e[x]) = FollowIn(e, Var(x))
         /\ x \notin DOMAIN e =>
              \A n : FollowIn(e, Var(n)) = Var(x) => FollowIn(d, Var(n)) = w
<1> DEFINE Z == FollowIn(e, Var(x))
<1>1. /\ IsFiniteSet(DOMAIN d) /\ RankedIn(d)
      /\ DOMAIN d = DOMAIN e \cup {x} /\ d[x] = w
      /\ \A v \in DOMAIN e : v # x => d[v] = e[v]
  BY ReboundRanked DEF Rebound
<1>2. ~BoundIn(d, w)
  BY <1>1 DEF BoundIn
<1>3. FollowIn(d, w) = w
  BY <1>1, <1>2, FollowStays
<1>4. FollowIn(d, Var(x)) = w
  BY <1>1, <1>3, FollowVariable
<1>5. ASSUME NEW v \in DOMAIN e, v # x
      PROVE  /\ FollowIn(d, Var(v)) = FollowIn(d, e[v])
             /\ FollowIn(e, Var(v)) = FollowIn(e, e[v])
             /\ BoundIn(d, e[v]) => e[v] = Var(e[v].name)
             /\ BoundIn(e, e[v]) => BoundIn(d, e[v]) /\ e[v] = Var(e[v].name)
             /\ ~BoundIn(d, e[v]) => FollowIn(d, e[v]) = e[v] /\ FollowIn(e, e[v]) = e[v]
  <2>1. FollowIn(d, Var(v)) = FollowIn(d, e[v]) /\ FollowIn(e, Var(v)) = FollowIn(e, e[v])
    BY <1>1, <1>5, FollowVariable
  <2>2. BoundIn(e, e[v]) => BoundIn(d, e[v])
    BY <1>1 DEF BoundIn
  <2>3. BoundIn(d, e[v]) => e[v] = Var(e[v].name)
    BY DEF BoundIn
  <2>4. ~BoundIn(d, e[v]) => FollowIn(d, e[v]) = e[v] /\ FollowIn(e, e[v]) = e[v]
    BY <1>1, <2>2, FollowStays
  <2>5. QED
    BY <2>1, <2>2, <2>3, <2>4
<1>6. \A n : \/ FollowIn(d, Var(n)) = FollowIn(e, Var(n))
             \/ FollowIn(d, Var(n)) = w /\ FollowIn(e, Var(n)) = Z
  <2> DEFINE Kept(n) == \/ FollowIn(d, Var(n)) = FollowIn(e, Var(n))
                        \/ FollowIn(d, Var(n)) = w /\ FollowIn(e, Var(n)) = Z
             S == {n \in DOMAIN d : Kept(n)}
  <2>1. ASSUME NEW v \in DOMAIN d, BoundIn(d, d[v]) => d[v].name \in S PROVE v \in S
    <3>1. CASE v = x
      BY <1>4, <3>1
    <3>2. CASE v # x
      <4>1. v \in DOMAIN e /\ d[v] = e[v]
        BY <1>1, <3>2
      <4>2. CASE BoundIn(d, e[v])
        <5>1. e[v] = Var(e[v].name)
          BY <1>5, <3>2, <4>1, <4>2
        <5>2. Kept(e[v].name)
          BY <2>1, <4>1, <4>2
        <5>3. FollowIn(d, Var(v)) = FollowIn(d, Var(e[v].name))
              /\ FollowIn(e, Var(v)) = FollowIn(e, Var(e[v].name))
          BY <1>5, <3>2, <4>1, <5>1
        <5> HIDE DEF Z
        <5>4. QED
          BY <5>2, <5>3
      <4>3. CASE ~BoundIn(d, e[v])
        BY <1>5, <3>2, <4>1, <4>3
      <4>4. QED
        BY <4>2, <4>3
    <3>3. QED
      BY <3>1, <3>2
  <2>2. \A v \in DOMAIN d : v \in S
    <3> HIDE DEF S
    <3>1. QED
      BY <1>1, <2>1, AlongBindings
  <2>3. ASSUME NEW n PROVE Kept(n)
    <3>1. CASE n \in DOMAIN d
      BY <2>2, <3>1
    <3>2. CASE n \notin DOMAIN d
      BY <1>1, <3>2, FollowVariable
    <3>3. QED
      BY <3>1, <3>2
  <2>4. QED
    BY <2>3
<1>7. ASSUME x \in DOMAIN e PROVE FollowIn(d, e[x]) = Z
  <2>1. PICK rank : RanksIn(e, rank)
    BY DEF RankedIn
  <2>2. DOMAIN d = DOMAIN e
    BY <1>1, <1>7
  <2> DEFINE S == {v \in DOMAIN e : rank[v] < rank[x] => FollowIn(d, Var(v)) = FollowIn(e, Var(v))}
  <2>3. ASSUME NEW v \in DOMAIN e, BoundIn(e, e[v]) => e[v].name \in S PROVE v \in S
    <3>1. SUFFICES ASSUME rank[v] < rank[x] PROVE FollowIn(d, Var(v)) = FollowIn(e, Var(v))
      OBVIOUS
    <3>2. v # x
      BY <1>7, <2>1, <3>1 DEF RanksIn
    <3>3. CASE BoundIn(e, e[v])
      <4>1. rank[e[v].name] < rank[v] /\ e[v].name \in DOMAIN e
        BY <2>1, <3>3 DEF RanksIn, BoundIn
      <4>2. rank[e[v].name] < rank[x]
        <5>1. rank[e[v].name] \in Nat /\ rank[v] \in Nat /\ rank[x] \in Nat
          BY <1>7, <2>1, <4>1 DEF RanksIn
        <5>2. QED
          BY <3>1, <4>1, <5>1
      <4>3. FollowIn(d, Var(e[v].name)) = FollowIn(e, Var(e[v].name))
        BY <2>3, <3>3, <4>2
      <4>4. QED
        BY <1>5, <3>2, <3>3, <4>3
    <3>4. CASE ~BoundIn(e, e[v])
      <4>1. ~BoundIn(d, e[v])
        BY <2>2, <3>4 DEF BoundIn
      <4>2. QED
        BY <1>5, <3>2, <4>1
    <3>5. QED
      BY <3>3, <3>4
  <2>4. \A v \in DOMAIN e : v \in S
    <3> HIDE DEF S
    <3>1. QED
      BY <2>3, AlongBindings
  <2>5. Z = FollowIn(e, e[x])
    BY <1>7, FollowVariable
  <2>6. CASE BoundIn(e, e[x])
    <3>1. rank[e[x].name] < rank[x] /\ e[x].name \in DOMAIN e /\ e[x] = Var(e[x].name)
      BY <1>7, <2>1, <2>6 DEF RanksIn, BoundIn
    <3>2. QED
      BY <2>4, <2>5, <3>1
  <2>7. CASE ~BoundIn(e, e[x])
    <3>1. ~BoundIn(d, e[x])
      BY <2>2, <2>7 DEF BoundIn
    <3>2. QED
      BY <1>1, <2>5, <2>7, <3>1, FollowStays
  <2>8. QED
    BY <2>6, <2>7
<1>8. ASSUME x \notin DOMAIN e, NEW n, FollowIn(e, Var(n)) = Var(x)
      PROVE  FollowIn(d, Var(n)) = w
  <2> DEFINE S == {v \in DOMAIN d : FollowIn(e, Var(v)) = Var(x) => FollowIn(d, Var(v)) = w}
  <2>1. ASSUME NEW v \in DOMAIN d, BoundIn(d, d[v]) => d[v].name \in S PROVE v \in S
    <3>1. SUFFICES ASSUME FollowIn(e, Var(v)) = Var(x), v # x PROVE FollowIn(d, Var(v)) = w
      BY <1>4
    <3>2. v \in DOMAIN e /\ d[v] = e[v]
      BY <1>1, <3>1
    <3>3. CASE BoundIn(d, e[v])
      <4>1. e[v] = Var(e[v].name) /\ e[v].name \in S
        BY <1>5, <2>1, <3>1, <3>2, <3>3
      <4>2. QED
        BY <1>5, <3>1, <3>2, <4>1
    <3>4. CASE ~BoundIn(d, e[v])
      <4>1. FollowIn(e, Var(v)) = e[v]
        BY <1>5, <3>1, <3>2, <3>4
      <4>2. BoundIn(d, Var(x))
        BY <1>1 DEF BoundIn, Var, IsVar
      <4>3. QED
        BY <3>1, <3>4, <4>1, <4>2
    <3>5. QED
      BY <3>3, <3>4
  <2>2. \A v \in DOMAIN d : v \in S
    <3> HIDE DEF S
    <3>1. QED
      BY <1>1, <2>1, AlongBindings
  <2>3. CASE n \in DOMAIN d
    BY <1>8, <2>2, <2>3
  <2>4. CASE n \notin DOMAIN d
    <3>1. FollowIn(e, Var(n)) = Var(n)
      BY <1>1, <2>4, FollowVariable
    <3>2. n = x
      BY <1>8, <3>1 DEF Var
    <3>3. QED
      BY <1>1, <2>4, <3>2
  <2>5. QED
    BY <2>3, <2>4
<1>9. QED
  BY <1>3, <1>4, <1>6, <1>7, <1>8

-----------------------------------------------------------------------------
(* The invariant: UnifyTypeOK with sets for the types and the work, and    *)
(* a rank for the bindings.                                                *)

AllLapses == {"entangled", "occurs", "overwritten", "arity", "contents", "nameless"}

\* The types over some cells, and the work: equations, also those on members that
\* wait for a caller to push them, and what else a caller has to do.
TypesOver(D) ==
  {Var(n) : n \in Nat} \cup {Ground(tag) : tag \in GroundTags}
  \cup {t \in [tag : {"fn", "tuple", "struct", "array", "ptr"}, name : {0},
               members : Seq(D), fields : Seq(STRING)] :
          /\ IF t.tag = "struct" THEN Len(t.fields) = Len(t.members) ELSE t.fields = <<>>
          /\ t.tag \in {"array", "ptr"} => Len(t.members) = 1}

EquationsOver(D) ==
  [do : {"unify"}, l : D, r : D, index : Nat, stated : BOOLEAN]
CallersTasks(D) ==
  [do : {"member"}, l : D, f : D, index : Ids]
  \cup [do : {"visit", "finish", "conclude", "leave"}, node : Nat]
Tasks(D) == {Undefined} \cup EquationsOver(D) \cup CallersTasks(D)

UnifyInv ==
  /\ types \in Seq(TypesOver(DOMAIN types))
  /\ IsFiniteSet(DOMAIN env) /\ DOMAIN env \subseteq Nat
  /\ env \in [DOMAIN env -> TypesOver(DOMAIN types)]
  /\ agenda \in Seq(Tasks(DOMAIN types))
  /\ error_flag \in BOOLEAN
  /\ lapses \subseteq AllLapses

AcyclicInv == "entangled" \notin lapses => RankedIn(env)

LEMMA MoreTypes ==
  ASSUME NEW D, NEW E, D \subseteq E
  PROVE  TypesOver(D) \subseteq TypesOver(E)
<1>1. Seq(D) \subseteq Seq(E)
  BY SeqMonotonic
<1>2. QED
  BY <1>1 DEF TypesOver

LEMMA MoreTasks ==
  ASSUME NEW D, NEW E, D \subseteq E
  PROVE  Tasks(D) \subseteq Tasks(E)
BY DEF Tasks, EquationsOver, CallersTasks

LEMMA TypeIsType ==
  ASSUME NEW t \in TypesOver(DOMAIN types)
  PROVE  /\ IsType(t)
         /\ t.members \in Seq(DOMAIN types)
         /\ IsVar(t) => t.name \in Nat /\ t = Var(t.name)
         /\ t.tag \in GroundTags => ~IsVar(t)
<1>1. CASE t \in {Var(n) : n \in Nat}
  <2>1. PICK n \in Nat : t = Var(n)
    BY <1>1
  <2>2. t.tag = "var" /\ t.name = n /\ t.members = <<>>
    BY <2>1 DEF Var
  <2>3. QED
    BY <2>1, <2>2 DEF IsVar, IsType, GroundTags
<1>2. CASE t \in {Ground(tag) : tag \in GroundTags}
  <2>1. PICK tag \in GroundTags : t = Ground(tag)
    BY <1>2
  <2>2. t.tag = tag /\ t.members = <<>>
    BY <2>1 DEF Ground
  <2>3. QED
    BY <2>1, <2>2 DEF IsVar, IsType, GroundTags
<1>3. CASE t \in [tag : {"fn", "tuple", "struct", "array", "ptr"}, name : {0},
               members : Seq(DOMAIN types), fields : Seq(STRING)]
          /\ (IF t.tag = "struct" THEN Len(t.fields) = Len(t.members) ELSE t.fields = <<>>)
          /\ (t.tag \in {"array", "ptr"} => Len(t.members) = 1)
  BY <1>3 DEF IsVar, IsType, GroundTags
<1>4. QED
  BY <1>1, <1>2, <1>3 DEF TypesOver

LEMMA TypesAreOver ==
  ASSUME NEW t, IsType(t)
  PROVE  t \in TypesOver(DOMAIN types)
BY DEF IsType, TypesOver, GroundTags

LEMMA InvTypes ==
  ASSUME UnifyInv
  PROVE  UnifyTypeOK
<1>1. \A c \in DOMAIN types : types[c] \in TypesOver(DOMAIN types)
  BY DEF UnifyInv
<1>2. \A v \in DOMAIN env : env[v] \in TypesOver(DOMAIN types)
  BY DEF UnifyInv
<1>3. \A i \in DOMAIN agenda : agenda[i] \in Tasks(DOMAIN types)
  BY DEF UnifyInv
<1>4. \A i \in DOMAIN agenda :
        agenda[i].do = "unify" => agenda[i].l \in DOMAIN types /\ agenda[i].r \in DOMAIN types
  BY <1>3 DEF Tasks, EquationsOver, CallersTasks, Undefined
<1>5. QED
  BY <1>1, <1>2, <1>4, TypeIsType DEF UnifyInv, UnifyTypeOK, AllLapses

\* The work at hand.
LEMMA TaskAtHand ==
  ASSUME UnifyInv, Unifying
  PROVE  /\ types \in Seq(TypesOver(DOMAIN types))
         /\ Len(types) \in Nat /\ DOMAIN types = 1 .. Len(types)
         /\ Task \in [do : {"unify"}, l : DOMAIN types, r : DOMAIN types,
                      index : Nat, stated : BOOLEAN]
         /\ Left \in TypesOver(DOMAIN types) /\ Right \in TypesOver(DOMAIN types)
         /\ Rest \in Seq(Tasks(DOMAIN types))
<1>1. types \in Seq(TypesOver(DOMAIN types)) /\ Len(types) \in Nat /\ DOMAIN types = 1 .. Len(types)
  BY DEF UnifyInv
<1>2. agenda \in Seq(Tasks(DOMAIN types)) /\ agenda # <<>>
  BY DEF UnifyInv, Unifying, Idle
<1>3. Task \in Tasks(DOMAIN types) /\ Rest \in Seq(Tasks(DOMAIN types))
  BY <1>2, HeadTailProperties DEF Task, Rest
<1>4. Task \in [do : {"unify"}, l : DOMAIN types, r : DOMAIN types,
               index : Nat, stated : BOOLEAN]
  BY <1>3 DEF Tasks, EquationsOver, CallersTasks, Undefined, Unifying
<1>5. Left \in TypesOver(DOMAIN types) /\ Right \in TypesOver(DOMAIN types)
  BY <1>1, <1>4 DEF Left, Right
<1>6. QED
  BY <1>1, <1>3, <1>4, <1>5

LEMMA FollowTypes ==
  ASSUME UnifyInv, NEW t \in TypesOver(DOMAIN types)
  PROVE  Follow(t) \in TypesOver(DOMAIN types)
<1>1. Range(env) \subseteq TypesOver(DOMAIN types)
  BY DEF UnifyInv, Range
<1>2. Follow(t) = FollowIn(env, t)
  BY FollowsIn
<1>3. QED
  BY <1>1, <1>2, FollowLeads DEF UnifyInv

LEMMA FollowUnbound ==
  ASSUME UnifyInv, NEW t, ~IsBound(t)
  PROVE  Follow(t) = t
<1>1. ~BoundIn(env, t) /\ Follow(t) = FollowIn(env, t)
  BY FollowsIn
<1>2. QED
  BY <1>1, FollowStays DEF UnifyInv

\* One equation more, or several.
LEMMA PutFirst ==
  ASSUME NEW D, NEW rest \in Seq(Tasks(D)), NEW task \in Tasks(D)
  PROVE  <<task>> \o rest \in Seq(Tasks(D))
OBVIOUS

LEMMA EquationsAreTasks ==
  ASSUME NEW D, NEW l \in D, NEW r \in D, NEW stated \in BOOLEAN
  PROVE  Equation(l, r, 0, stated) \in Tasks(D)
BY DEF Equation, Tasks, EquationsOver

LEMMA RecordLapses ==
  ASSUME Record, lapses \subseteq AllLapses
  PROVE  lapses' \subseteq AllLapses /\ lapses \subseteq lapses'
BY DEF Record, AllLapses

\* The binding of the variable on the left.
LEMMA BindingTypes ==
  ASSUME UnifyInv, BindingVar, NEW t \in TypesOver(DOMAIN types)
  PROVE  /\ DOMAIN Binding(t) = DOMAIN env \cup {Left.name}
         /\ IsFiniteSet(DOMAIN Binding(t)) /\ DOMAIN Binding(t) \subseteq Nat
         /\ Binding(t) \in [DOMAIN Binding(t) -> TypesOver(DOMAIN types)]
<1>1. Left.name \in Nat
  BY TaskAtHand, TypeIsType DEF BindingVar
<1>2. IsFiniteSet(DOMAIN env \cup {Left.name})
  BY FS_AddElement DEF UnifyInv
<1>3. QED
  BY <1>1, <1>2 DEF UnifyInv, Binding

LEMMA OldBindingTypes ==
  ASSUME UnifyInv, BindingVar, NEW cells \in Seq(TypesOver(DOMAIN types)), Len(cells) = Len(types),
         ThenOldBinding(cells)
  PROVE  /\ types' \in Seq(TypesOver(DOMAIN types'))
         /\ DOMAIN types \subseteq DOMAIN types'
         /\ agenda' \in Seq(Tasks(DOMAIN types'))
<1>1. UnifyInv /\ Unifying
  BY DEF BindingVar
<1>2. CASE types' = cells /\ agenda' = Rest
  <2>1. DOMAIN types' = DOMAIN types
    BY <1>1, <1>2, TaskAtHand
  <2>2. QED
    BY <1>1, <1>2, <2>1, TaskAtHand
<1>3. CASE /\ IsBound(Left) /\ types' = Append(cells, env[Left.name])
           /\ agenda' = <<Equation(Len(cells) + 1, Task.l, 0, FALSE)>> \o Rest
  <2> DEFINE D == DOMAIN types
  <2>1. env[Left.name] \in TypesOver(D)
    BY <1>3 DEF UnifyInv, IsBound
  <2>2. types' \in Seq(TypesOver(D)) /\ Len(types') = Len(types) + 1 /\ Len(types) \in Nat
        /\ D = 1 .. Len(types)
    BY <1>1, <1>3, <2>1, TaskAtHand
  <2>3. DOMAIN types' = 1 .. Len(types) + 1 /\ D \subseteq DOMAIN types'
        /\ Len(types) + 1 \in DOMAIN types'
    BY <2>2
  <2>4. types' \in Seq(TypesOver(DOMAIN types'))
    BY <2>2, <2>3, MoreTypes, SeqMonotonic
  <2>5. Task.l \in DOMAIN types'
    BY <1>1, <2>3, TaskAtHand
  <2>6. Rest \in Seq(Tasks(DOMAIN types'))
    BY <1>1, <2>3, TaskAtHand, MoreTasks, SeqMonotonic
  <2>7. Equation(Len(cells) + 1, Task.l, 0, FALSE) \in Tasks(DOMAIN types')
    BY <2>3, <2>5, EquationsAreTasks
  <2>8. agenda' \in Seq(Tasks(DOMAIN types'))
    BY <1>3, <2>6, <2>7, PutFirst
  <2>9. QED
    BY <2>3, <2>4, <2>8
<1>4. QED
  BY <1>2, <1>3 DEF ThenOldBinding

-----------------------------------------------------------------------------
(* Steps.                                                                  *)

\* What a step does: the cells grow in number, known types stay, and a variable is bound
\* to what is not bound, if it is bound at all.
KeepsKnown == \A c \in DOMAIN types : types[c].tag \in GroundTags => types'[c] = types[c]
Binds ==
  \E w \in TypesOver(DOMAIN types) :
    /\ BindingVar /\ env' = Binding(w)
    /\ ~IsBound(w) /\ (w = Left => "entangled" \in lapses')
Unifies ==
  /\ types' \in Seq(TypesOver(DOMAIN types')) /\ DOMAIN types \subseteq DOMAIN types'
  /\ KeepsKnown
  /\ agenda' \in Seq(Tasks(DOMAIN types'))
  /\ error_flag' \in BOOLEAN
  /\ lapses \subseteq lapses' /\ lapses' \subseteq AllLapses
  /\ env' = env \/ Binds

\* A step that leaves the cells alone.
LEMMA SameCells ==
  ASSUME UnifyInv, UNCHANGED types, agenda' \in Seq(Tasks(DOMAIN types)),
         error_flag' \in BOOLEAN, lapses \subseteq lapses', lapses' \subseteq AllLapses,
         env' = env
  PROVE  Unifies
BY DEF Unifies, KeepsKnown, UnifyInv

LEMMA SwapUnifies ==
  ASSUME UnifyInv, Swap
  PROVE  Unifies
<1>1. Unifying /\ types' = types /\ env' = env /\ error_flag' = error_flag /\ lapses' = lapses
      /\ agenda' = <<Equation(Task.r, Task.l, 0, Task.stated)>> \o Rest
  BY DEF Swap
<1>2. agenda' \in Seq(Tasks(DOMAIN types))
  <2>1. Equation(Task.r, Task.l, 0, Task.stated) \in Tasks(DOMAIN types)
    BY <1>1, TaskAtHand, EquationsAreTasks
  <2>2. QED
    BY <1>1, <2>1, TaskAtHand, PutFirst
<1>3. QED
  BY <1>1, <1>2, SameCells DEF UnifyInv

LEMMA MismatchUnifies ==
  ASSUME UnifyInv, Mismatch \/ UnifyGround
  PROVE  Unifies
<1>1. Unifying /\ types' = types /\ env' = env /\ error_flag' \in BOOLEAN /\ agenda' = Rest
      /\ Record
  BY DEF Mismatch, UnifyGround, UnifyInv
<1>2. lapses \subseteq lapses' /\ lapses' \subseteq AllLapses
  BY <1>1, RecordLapses DEF UnifyInv
<1>3. QED
  BY <1>1, <1>2, TaskAtHand, SameCells

LEMMA CompoundUnifies ==
  ASSUME UnifyInv, UnifyCompound
  PROVE  Unifies
<1>1. Unifying /\ types' = types /\ env' = env /\ error_flag' \in BOOLEAN /\ Record
      /\ (agenda' = <<Undefined>> \/ agenda' = Rest)
  BY DEF UnifyCompound, UnifyInv
<1>2. lapses \subseteq lapses' /\ lapses' \subseteq AllLapses
  BY <1>1, RecordLapses DEF UnifyInv
<1>3. Undefined \in Tasks(DOMAIN types) /\ Rest \in Seq(Tasks(DOMAIN types))
  BY <1>1, TaskAtHand DEF Tasks
<1>4. agenda' \in Seq(Tasks(DOMAIN types))
  BY <1>1, <1>3
<1>5. QED
  BY <1>1, <1>2, <1>4, SameCells

LEMMA MemberUnifies ==
  ASSUME UnifyInv, UnifyMember
  PROVE  Unifies
<1> DEFINE w == Follow(Right)
           D == DOMAIN types
<1>1. Unifying /\ types' = [types EXCEPT ![Task.r] = w]
      /\ UNCHANGED <<env, error_flag, posted, lapses>>
  BY DEF UnifyMember
<1>2. w \in TypesOver(D)
  BY <1>1, TaskAtHand, FollowTypes
<1>3. types' \in Seq(TypesOver(D)) /\ DOMAIN types' = D
  <2> HIDE DEF w
  <2>1. QED
    BY <1>1, <1>2, TaskAtHand
<1>4. KeepsKnown
  <2> SUFFICES ASSUME NEW c \in D, types[c].tag \in GroundTags PROVE types'[c] = types[c]
    BY DEF KeepsKnown
  <2>1. CASE c = Task.r
    <3>1. Right = types[c] /\ ~IsVar(Right)
      BY <1>1, <2>1, TaskAtHand, TypeIsType DEF Right
    <3>2. w = Right
      BY <3>1, FollowUnbound DEF IsBound, UnifyInv
    <3> HIDE DEF w
    <3>3. QED
      BY <1>1, <2>1, <3>1, <3>2
  <2>2. CASE c # Task.r
    BY <1>1, <2>2
  <2>3. QED
    BY <2>1, <2>2
<1>5. agenda' \in Seq(Tasks(D))
  <2>1. Task.l \in D /\ Task.r \in D /\ Task.stated \in BOOLEAN /\ Rest \in Seq(Tasks(D))
    BY <1>1, TaskAtHand
  <2>2. CASE agenda' = Rest
    BY <2>1, <2>2
  <2>3. CASE agenda' = <<Undefined>>
    BY <2>3 DEF Tasks
  <2>4. CASE agenda' = <<Equation(Task.l, Task.r, 0, Task.stated)>> \o Rest
    BY <2>1, <2>4, EquationsAreTasks, PutFirst
  <2>5. CASE /\ Task.index \in DOMAIN w.members
             /\ agenda' = <<Equation(Task.l, w.members[Task.index], 0, Task.stated)>> \o Rest
    <3>1. w.members \in Seq(D)
      BY <1>2, TypeIsType
    <3> HIDE DEF w
    <3>2. w.members[Task.index] \in D
      BY <2>5, <3>1
    <3>3. QED
      BY <2>1, <2>5, <3>2, EquationsAreTasks, PutFirst
  <2>6. QED
    BY <2>2, <2>3, <2>4, <2>5 DEF UnifyMember
<1>6. QED
  <2> HIDE DEF w
  <2>1. QED
    BY <1>1, <1>3, <1>4, <1>5 DEF Unifies, UnifyInv

LEMMA FnsUnify ==
  ASSUME UnifyInv, UnifyFns
  PROVE  Unifies
<1> DEFINE D == DOMAIN types
           n == Len(types)
           arity == Len(Left.members)
           copies == [i \in 1 .. 2 * arity |->
                        IF i <= arity THEN types[Left.members[i]]
                        ELSE types[Right.members[i - arity]]]
           equations == [i \in 1 .. arity |-> Equation(n + i, n + arity + i, 0, Task.stated)]
<1>1. Unifying /\ Record /\ env' = env /\ error_flag' = error_flag
  BY DEF UnifyFns
<1>2. lapses \subseteq lapses' /\ lapses' \subseteq AllLapses
  BY <1>1, RecordLapses DEF UnifyInv
<1>3. CASE types' = types /\ agenda' = Rest
  BY <1>1, <1>2, <1>3, TaskAtHand, SameCells DEF UnifyInv
<1>4. CASE /\ Len(Right.members) = arity
           /\ types' = types \o copies /\ agenda' = equations \o Rest
  <2>1. /\ types \in Seq(TypesOver(D)) /\ n \in Nat /\ D = 1 .. n
        /\ Task.stated \in BOOLEAN /\ Rest \in Seq(Tasks(D))
    BY <1>1, TaskAtHand
  <2>2. Left.members \in Seq(D) /\ Right.members \in Seq(D)
    BY <1>1, TaskAtHand, TypeIsType
  <2>3. arity \in Nat /\ DOMAIN Left.members = 1 .. arity /\ DOMAIN Right.members = 1 .. arity
    BY <1>4, <2>2
  <2>4. copies \in Seq(TypesOver(D)) /\ Len(copies) = 2 * arity
    <3>1. ASSUME NEW i \in 1 .. 2 * arity PROVE copies[i] \in TypesOver(D)
      <4>1. CASE i <= arity
        <5>1. i \in 1 .. arity
          BY <2>3, <4>1
        <5>2. Left.members[i] \in D
          BY <2>2, <2>3, <5>1
        <5>3. types[Left.members[i]] \in TypesOver(D) /\ copies[i] = types[Left.members[i]]
          BY <2>1, <4>1, <5>2
        <5>4. QED
          BY <5>3
      <4>2. CASE ~(i <= arity)
        <5>1. i - arity \in 1 .. arity
          BY <2>3, <4>2
        <5>2. Right.members[i - arity] \in D
          BY <2>2, <2>3, <5>1
        <5>3. /\ types[Right.members[i - arity]] \in TypesOver(D)
              /\ copies[i] = types[Right.members[i - arity]]
          BY <2>1, <4>2, <5>2
        <5>4. QED
          BY <5>3
      <4>3. QED
        BY <4>1, <4>2
    <3>2. 2 * arity \in Nat
      BY <2>3
    <3> HIDE DEF arity
    <3>3. DOMAIN copies = 1 .. 2 * arity /\ copies = [i \in 1 .. 2 * arity |-> copies[i]]
      OBVIOUS
    <3> HIDE DEF copies
    <3>4. QED
      BY <3>1, <3>2, <3>3
  <2> HIDE DEF copies
  <2>5. /\ types' \in Seq(TypesOver(D)) /\ DOMAIN types' = 1 .. n + 2 * arity
        /\ \A c \in D : types'[c] = types[c]
    <3>1. /\ types \o copies \in Seq(TypesOver(D))
          /\ Len(types \o copies) = Len(types) + Len(copies)
          /\ \A c \in 1 .. Len(types) : (types \o copies)[c] = types[c]
      BY <2>1, <2>4, Joined
    <3>2. DOMAIN types' = 1 .. Len(types')
      BY <1>4, <3>1
    <3> HIDE DEF arity
    <3>3. QED
      BY <1>4, <2>1, <2>3, <2>4, <3>1, <3>2
  <2>6. D \subseteq DOMAIN types'
    <3> HIDE DEF n, arity
    <3>1. QED
      BY <2>1, <2>3, <2>5
  <2>7. types' \in Seq(TypesOver(DOMAIN types'))
    BY <2>5, <2>6, MoreTypes, SeqMonotonic
  <2>8. equations \in Seq(Tasks(DOMAIN types'))
    <3> HIDE DEF n, arity
    <3>1. ASSUME NEW i \in 1 .. arity PROVE equations[i] \in Tasks(DOMAIN types')
      <4>1. n + i \in DOMAIN types' /\ n + arity + i \in DOMAIN types'
        BY <2>1, <2>3, <2>5
      <4>2. QED
        BY <2>1, <4>1, EquationsAreTasks
    <3>2. DOMAIN equations = 1 .. arity /\ equations = [i \in 1 .. arity |-> equations[i]]
      OBVIOUS
    <3> HIDE DEF equations
    <3>3. QED
      BY <2>3, <3>1, <3>2
  <2> HIDE DEF equations
  <2>9. Rest \in Seq(Tasks(DOMAIN types'))
    BY <2>1, <2>6, MoreTasks, SeqMonotonic
  <2>10. agenda' \in Seq(Tasks(DOMAIN types'))
    BY <1>4, <2>8, <2>9
  <2>11. KeepsKnown
    BY <2>5 DEF KeepsKnown
  <2>12. QED
    BY <1>1, <1>2, <2>6, <2>7, <2>10, <2>11 DEF Unifies, UnifyInv
<1>5. QED
  BY <1>3, <1>4 DEF UnifyFns

\* The cells after the old binding of the variable is put on the agenda.
LEMMA OldBindingKeeps ==
  ASSUME UnifyInv, NEW cells \in Seq(TypesOver(DOMAIN types)), Len(cells) = Len(types),
         ThenOldBinding(cells),
         \A c \in DOMAIN types : types[c].tag \in GroundTags => cells[c] = types[c]
  PROVE  KeepsKnown
<1>1. types' = cells \/ types' = Append(cells, env[Left.name])
  BY DEF ThenOldBinding
<1>2. Len(types) \in Nat /\ DOMAIN types = 1 .. Len(types) /\ DOMAIN cells = DOMAIN types
  BY DEF UnifyInv
<1>3. \A c \in DOMAIN types : types'[c] = cells[c]
  <2>1. IsSequence(cells)
    BY SequenceOf
  <2>2. QED
    BY <1>1, <1>2, <2>1, AppendIsSequence
<1>4. QED
  BY <1>3 DEF KeepsKnown

LEMMA SameVarUnifies ==
  ASSUME UnifyInv, UnifySameVar
  PROVE  Unifies
<1>1. /\ BindingVar /\ Unifying /\ ThenOldBinding(types) /\ Record
      /\ env' = env /\ error_flag' = error_flag
  BY DEF UnifySameVar, BindingVar
<1>2. lapses \subseteq lapses' /\ lapses' \subseteq AllLapses
  BY <1>1, RecordLapses DEF UnifyInv
<1>3. types \in Seq(TypesOver(DOMAIN types))
  BY DEF UnifyInv
<1>4. /\ types' \in Seq(TypesOver(DOMAIN types'))
      /\ DOMAIN types \subseteq DOMAIN types'
      /\ agenda' \in Seq(Tasks(DOMAIN types'))
  BY <1>1, <1>3, OldBindingTypes
<1>5. KeepsKnown
  BY <1>1, <1>3, OldBindingKeeps
<1>6. QED
  BY <1>1, <1>2, <1>4, <1>5 DEF Unifies, UnifyInv

LEMMA VarsUnify ==
  ASSUME UnifyInv, UnifyVars
  PROVE  Unifies
<1> DEFINE w == Follow(Right)
           D == DOMAIN types
           cells == [types EXCEPT ![Task.r] = w, ![Task.l] = IF IsVar(w) THEN @ ELSE w]
<1>1. /\ BindingVar /\ Unifying /\ ThenOldBinding(cells) /\ Record
      /\ env' = Binding(w) /\ error_flag' = error_flag
      /\ ~SameName /\ ~IsBound(w)
  BY DEF UnifyVars, BindingVar, Ends
<1>2. lapses \subseteq lapses' /\ lapses' \subseteq AllLapses
  BY <1>1, RecordLapses DEF UnifyInv
<1>3. /\ types \in Seq(TypesOver(D)) /\ Task.l \in D /\ Task.r \in D
      /\ Left \in TypesOver(D) /\ Right \in TypesOver(D)
      /\ Len(types) \in Nat /\ D = 1 .. Len(types)
  BY <1>1, TaskAtHand
<1>4. w \in TypesOver(D)
  BY <1>3, FollowTypes
<1>5. ~IsVar(Right) => w = Right
  BY FollowUnbound DEF IsBound, UnifyInv
<1>6. w = Left => "entangled" \in lapses'
  <2> SUFFICES ASSUME w = Left PROVE "entangled" \in lapses'
    OBVIOUS
  <2>1. IsVar(Left) /\ ~IsBound(Left) /\ Follow(Left) = Left
    BY <1>1, FollowUnbound DEF BindingVar, UnifyInv
  <2>2. Left = Var(Left.name)
    BY <1>3, <2>1, TypeIsType
  <2>3. Left # Right
    BY <1>1, <2>2 DEF SameName, Var
  <2> HIDE DEF w
  <2>4. QED
    BY <1>1, <2>1, <2>3 DEF Record, w
<1> HIDE DEF w
<1>7. cells \in Seq(TypesOver(D)) /\ Len(cells) = Len(types)
  BY <1>3, <1>4
<1>8. \A c \in D : types[c].tag \in GroundTags => cells[c] = types[c]
  <2> SUFFICES ASSUME NEW c \in D, types[c].tag \in GroundTags PROVE cells[c] = types[c]
    OBVIOUS
  <2>1. ~IsVar(types[c])
    BY <1>3, TypeIsType
  <2>2. c # Task.l
    BY <1>1, <2>1 DEF BindingVar, Left
  <2>3. c = Task.r => w = types[c]
    BY <1>5, <2>1 DEF Right
  <2>4. QED
    BY <1>3, <2>2, <2>3
<1> HIDE DEF cells
<1>9. /\ types' \in Seq(TypesOver(DOMAIN types'))
      /\ DOMAIN types \subseteq DOMAIN types'
      /\ agenda' \in Seq(Tasks(DOMAIN types'))
  BY <1>1, <1>7, OldBindingTypes
<1>10. KeepsKnown
  BY <1>1, <1>7, <1>8, OldBindingKeeps
<1>11. Binds
  BY <1>1, <1>4, <1>6 DEF Binds
<1>12. QED
  BY <1>1, <1>2, <1>9, <1>10, <1>11 DEF Unifies, UnifyInv

LEMMA VarFnUnifies ==
  ASSUME UnifyInv, UnifyVarFn
  PROVE  Unifies
<1> DEFINE D == DOMAIN types
           members == Range(Right.members)
           cells == [c \in D |-> IF c = Task.l THEN Right
                                 ELSE IF c \in members THEN Follow(types[c])
                                 ELSE types[c]]
<1>1. /\ BindingVar /\ Unifying /\ ThenOldBinding(cells) /\ Record
      /\ env' = Binding(Right) /\ error_flag' = error_flag
      /\ Right.tag \in {"fn", "tuple"}
  BY DEF UnifyVarFn, BindingVar
<1>2. lapses \subseteq lapses' /\ lapses' \subseteq AllLapses
  BY <1>1, RecordLapses DEF UnifyInv
<1>3. /\ types \in Seq(TypesOver(D)) /\ Task.l \in D
      /\ Right \in TypesOver(D)
      /\ Len(types) \in Nat /\ D = 1 .. Len(types)
  BY <1>1, TaskAtHand
<1>4. ~IsVar(Right) /\ ~IsBound(Right) /\ Right # Left
  BY <1>1 DEF IsVar, IsBound, BindingVar
<1>5. \A c \in D : Follow(types[c]) \in TypesOver(D)
  BY <1>3, FollowTypes
<1>6. cells \in Seq(TypesOver(D)) /\ Len(cells) = Len(types)
  <2>1. \A c \in D : cells[c] \in TypesOver(D)
    BY <1>3, <1>5
  <2>2. cells = [c \in 1 .. Len(types) |-> cells[c]]
    BY <1>3
  <2> HIDE DEF cells
  <2>3. QED
    BY <1>3, <2>1, <2>2
<1>7. \A c \in D : types[c].tag \in GroundTags => cells[c] = types[c]
  <2> SUFFICES ASSUME NEW c \in D, types[c].tag \in GroundTags PROVE cells[c] = types[c]
    OBVIOUS
  <2>1. ~IsVar(types[c])
    BY <1>3, TypeIsType
  <2>2. c # Task.l
    BY <1>1, <2>1 DEF BindingVar, Left
  <2>3. Follow(types[c]) = types[c]
    BY <2>1, FollowUnbound DEF IsBound, UnifyInv
  <2>4. QED
    BY <1>3, <2>2, <2>3
<1> HIDE DEF cells
<1>8. /\ types' \in Seq(TypesOver(DOMAIN types'))
      /\ DOMAIN types \subseteq DOMAIN types'
      /\ agenda' \in Seq(Tasks(DOMAIN types'))
  BY <1>1, <1>6, OldBindingTypes
<1>9. KeepsKnown
  BY <1>1, <1>6, <1>7, OldBindingKeeps
<1>10. Binds
  BY <1>1, <1>3, <1>4 DEF Binds
<1>11. QED
  BY <1>1, <1>2, <1>8, <1>9, <1>10 DEF Unifies, UnifyInv

LEMMA StepUnifies ==
  ASSUME UnifyInv, UnifyStep
  PROVE  Unifies
BY MemberUnifies, SwapUnifies, MismatchUnifies, FnsUnify, CompoundUnifies, VarFnUnifies,
   SameVarUnifies, VarsUnify
DEF UnifyStep

LEMMA InvStays ==
  ASSUME UnifyInv, Unifies
  PROVE  UnifyInv'
<1>1. IsFiniteSet(DOMAIN env') /\ DOMAIN env' \subseteq Nat
      /\ env' \in [DOMAIN env' -> TypesOver(DOMAIN types)]
  <2>1. CASE env' = env
    BY <2>1 DEF UnifyInv
  <2>2. CASE Binds
    BY <2>2, BindingTypes DEF Binds
  <2>3. QED
    BY <2>1, <2>2 DEF Unifies
<1>2. TypesOver(DOMAIN types) \subseteq TypesOver(DOMAIN types')
  BY MoreTypes DEF Unifies
<1>3. env' \in [DOMAIN env' -> TypesOver(DOMAIN types')]
  BY <1>1, <1>2
<1>4. QED
  BY <1>1, <1>3 DEF Unifies, UnifyInv, TypesOver, Tasks


LEMMA RanksStay ==
  ASSUME UnifyInv, AcyclicInv, Unifies
  PROVE  AcyclicInv'
<1> SUFFICES ASSUME "entangled" \notin lapses' PROVE RankedIn(env')
  BY DEF AcyclicInv
<1>1. RankedIn(env)
  BY DEF Unifies, AcyclicInv
<1>2. CASE env' = env
  BY <1>1, <1>2
<1>3. CASE Binds
  <2>1. PICK w \in TypesOver(DOMAIN types) :
          BindingVar /\ env' = Binding(w) /\ ~IsBound(w) /\ w # Left
    BY <1>3 DEF Binds
  <2>2. IsVar(w) => w.name # Left.name
    BY <2>1, TaskAtHand, TypeIsType DEF BindingVar
  <2>3. ~BoundIn(env, w) /\ env' = Rebound(env, Left.name, w)
    BY <2>1, FollowsIn DEF Binding, Rebound
  <2>4. IsFiniteSet(DOMAIN env)
    BY DEF UnifyInv
  <2>5. RankedIn(Rebound(env, Left.name, w))
    BY <1>1, <2>2, <2>3, <2>4, ReboundRanked
  <2>6. QED
    BY <2>3, <2>5
<1>4. QED
  BY <1>2, <1>3 DEF Unifies

\* At the start the environment is empty, and all equations are asked for.
LEMMA StartUnifies ==
  ASSUME NothingUnified, types \in Seq(Range(types)), \A c \in DOMAIN types : IsType(types[c]),
         agenda \in Seq(Tasks(DOMAIN types))
  PROVE  UnifyInv /\ AcyclicInv
<1>1. types \in Seq(TypesOver(DOMAIN types))
  <2>1. Range(types) \subseteq TypesOver(DOMAIN types)
    BY TypesAreOver DEF Range
  <2>2. QED
    BY <2>1, SeqMonotonic
<1>2. DOMAIN env = {} /\ env \in [DOMAIN env -> TypesOver(DOMAIN types)]
      /\ error_flag = FALSE /\ lapses = {}
  BY DEF NothingUnified
<1>3. IsFiniteSet(DOMAIN env)
  BY <1>2, FS_EmptySet
<1>4. RanksIn(env, env)
  BY <1>2 DEF RanksIn
<1>5. QED
  BY <1>1, <1>2, <1>3, <1>4 DEF UnifyInv, AcyclicInv, RankedIn

LEMMA UnifyInitInv == UnifyInit => UnifyInv /\ AcyclicInv
<1> SUFFICES ASSUME UnifyInit PROVE UnifyInv /\ AcyclicInv
  OBVIOUS
<1>1. Statements \subseteq Tasks(DOMAIN types)
  BY DEF Statements, Tasks, EquationsOver
<1>2. agenda \in Seq(Tasks(DOMAIN types))
  BY <1>1, SeqMonotonic DEF UnifyInit
<1>3. QED
  BY <1>2, StartUnifies DEF UnifyInit

LEMMA UnifyInvHolds == UnifySpec => [](UnifyInv /\ AcyclicInv)
<1>1. UnifyInit => UnifyInv /\ AcyclicInv
  BY UnifyInitInv
<1>2. UnifyInv /\ AcyclicInv /\ [UnifyNext]_unifyVars => (UnifyInv /\ AcyclicInv)'
  <2> SUFFICES ASSUME UnifyInv, AcyclicInv, [UnifyNext]_unifyVars PROVE (UnifyInv /\ AcyclicInv)'
    OBVIOUS
  <2>1. CASE UnifyStep
    BY <2>1, StepUnifies, InvStays, RanksStay
  <2>2. CASE UNCHANGED unifyVars
    BY <2>2 DEF unifyVars, UnifyInv, AcyclicInv
  <2>3. QED
    BY <2>1, <2>2 DEF UnifyNext, Spin
<1>3. QED
  BY <1>1, <1>2, PTL DEF UnifySpec

\* Cells hold types whose parts are cells, and every equation is about cells that exist
\* (the pointers unify passes, into copies on the stack and the heap).
THEOREM UnifyTypesOK == UnifySpec => []UnifyTypeOK
BY UnifyInvHolds, InvTypes, PTL

\* The environment has no cycle unless a variable was related to itself: only then may
\* follow_links never end.
THEOREM UnifyAcyclic == UnifySpec => []Acyclic
<1>1. UnifyInv /\ AcyclicInv => Acyclic
  BY RankedEnds, FollowsIn DEF AcyclicInv, Acyclic, UnifyInv, Ends
<1>2. QED
  BY <1>1, UnifyInvHolds, PTL

\* What unify writes through its pointers is a variable's cell (unify_vars, unify_fn).
THEOREM UnifyKeeps == UnifySpec => KnownTypesAreKept
<1>1. UnifyInv /\ [UnifyNext]_unifyVars => [KeepsKnown]_types
  <2> SUFFICES ASSUME UnifyInv, [UnifyNext]_unifyVars, types' # types PROVE KeepsKnown
    OBVIOUS
  <2>1. UnifyStep
    BY DEF UnifyNext, Spin, unifyVars
  <2>2. QED
    BY <2>1, StepUnifies DEF Unifies
<1>2. QED
  BY <1>1, UnifyInvHolds, PTL DEF UnifySpec, KnownTypesAreKept, KeepsKnown

-----------------------------------------------------------------------------
(* The environment solves the equations.  Between the binding of a         *)
(* variable and the equation on its old binding, which unify derives and   *)
(* which is next, they are solved but for that equation: whatever ends     *)
(* where the old binding does counts as what the variable is bound to now. *)

Given(s) == \A i \in DOMAIN s : s[i].do = "unify" => s[i].stated

Pending == Unifying /\ ~Task.stated

DerivedInv == ~Idle => Given(Rest) /\ (Pending => Task.index = 0 /\ IsVar(Left))

Eventual(term) ==
  IF Pending /\ Solution(term) = Term(Follow(Left)) THEN Term(Follow(Right)) ELSE Solution(term)

AllSolved ==
  /\ \A e \in posted : Eventual(e[1]) = Eventual(e[2])
  /\ Pending /\ ~IsVar(Follow(Left)) => Term(Follow(Left)) = Term(Follow(Right))

SolvedInv == lapses = {} /\ ~error_flag => AllSolved

SolutionIn(e, term) == IF term.tag = "var" THEN Term(FollowIn(e, Var(term.of))) ELSE term

\* Lists of equations that are asked for.
LEMMA GivenJoined ==
  ASSUME NEW X, NEW s \in Seq(X), NEW r \in Seq(X), Given(s), Given(r)
  PROVE  s \o r \in Seq(X) /\ Given(s \o r)
<1>1. /\ s \o r \in Seq(X) /\ Len(s \o r) = Len(s) + Len(r)
      /\ \A i \in 1 .. Len(s) : (s \o r)[i] = s[i]
      /\ \A i \in 1 .. Len(r) : (s \o r)[Len(s) + i] = r[i]
  BY Joined
<1>2. ASSUME NEW i \in DOMAIN (s \o r), (s \o r)[i].do = "unify" PROVE (s \o r)[i].stated
  <2>1. CASE i \in 1 .. Len(s)
    BY <1>1, <1>2, <2>1 DEF Given
  <2>2. CASE i \notin 1 .. Len(s)
    <3>1. i - Len(s) \in 1 .. Len(r) /\ Len(s) + (i - Len(s)) = i
      BY <1>1, <2>2
    <3>2. QED
      BY <1>1, <1>2, <3>1 DEF Given
  <2>3. QED
    BY <2>1, <2>2
<1>3. QED
  BY <1>1, <1>2 DEF Given

LEMMA GivenFirst ==
  ASSUME NEW X, NEW task \in X, NEW r \in Seq(X), Given(r), task.do = "unify" => task.stated
  PROVE  Given(<<task>> \o r)
<1>1. <<task>> \in Seq(X) /\ Given(<<task>>)
  BY DEF Given
<1>2. QED
  BY <1>1, GivenJoined

LEMMA GivenTail ==
  ASSUME NEW X, NEW s \in Seq(X), Given(s), s # <<>>
  PROVE  Given(Tail(s)) /\ (Head(s).do = "unify" => Head(s).stated)
<1>1. /\ Head(s) = s[1] /\ 1 \in DOMAIN s
      /\ \A i \in DOMAIN Tail(s) : i + 1 \in DOMAIN s /\ Tail(s)[i] = s[i + 1]
  OBVIOUS
<1>2. QED
  BY <1>1 DEF Given

LEMMA GivenAgenda ==
  ASSUME UnifyInv, Given(agenda)
  PROVE  DerivedInv /\ ~Pending
<1>1. agenda \in Seq(Tasks(DOMAIN types))
  BY DEF UnifyInv
<1>2. CASE agenda = <<>>
  BY <1>2 DEF DerivedInv, Pending, Unifying, Idle
<1>3. CASE agenda # <<>>
  BY <1>1, <1>3, GivenTail DEF DerivedInv, Pending, Unifying, Idle, Task, Rest
<1>4. QED
  BY <1>2, <1>3

\* The equations before and after a variable is bound.
LEMMA RebindingSolves ==
  ASSUME NEW e, IsFiniteSet(DOMAIN e), RankedIn(e),
         \A v \in DOMAIN e : IsVar(e[v]) => e[v] = Var(e[v].name),
         NEW x, NEW w, ~BoundIn(e, w), IsVar(w) => w.name # x,
         NEW d, d = Rebound(e, x, w),
         ~IsVar(FollowIn(e, Var(x))) => Term(FollowIn(e, Var(x))) = Term(w),
         NEW P \in BOOLEAN, P <=> x \in DOMAIN e /\ IsVar(e[x]),
         NEW term
  PROVE  (IF P /\ SolutionIn(d, term) = Term(FollowIn(d, e[x])) THEN Term(w)
          ELSE SolutionIn(d, term))
         = (IF SolutionIn(e, term) = Term(FollowIn(e, Var(x))) THEN Term(w)
            ELSE SolutionIn(e, term))
<1> DEFINE Z == FollowIn(e, Var(x))
<1>1. /\ FollowIn(d, w) = w /\ FollowIn(d, Var(x)) = w
      /\ \A n : \/ FollowIn(d, Var(n)) = FollowIn(e, Var(n))
                \/ FollowIn(d, Var(n)) = w /\ FollowIn(e, Var(n)) = Z
      /\ x \in DOMAIN e => FollowIn(d, e[x]) = Z
      /\ x \notin DOMAIN e =>
           \A n : FollowIn(e, Var(n)) = Var(x) => FollowIn(d, Var(n)) = w
  BY Rebinding
<1>2. \/ SolutionIn(d, term) = SolutionIn(e, term)
      \/ SolutionIn(d, term) = Term(w) /\ SolutionIn(e, term) = Term(Z)
  <2> HIDE DEF Z
  <2>1. QED
    BY <1>1 DEF SolutionIn
<1>3. CASE P
  <2>1. FollowIn(d, e[x]) = Z
    BY <1>1, <1>3
  <2> HIDE DEF Z
  <2>2. QED
    BY <1>2, <1>3, <2>1 DEF Z
<1>4. CASE ~P /\ x \in DOMAIN e
  <2>1. ~IsVar(e[x])
    BY <1>4
  <2>2. Z = e[x]
    <3>1. Z = FollowIn(e, e[x])
      BY <1>4, FollowVariable
    <3>2. ~BoundIn(e, e[x])
      BY <2>1 DEF BoundIn
    <3>3. QED
      BY <3>1, <3>2, FollowStays
  <2>3. Term(Z) = Term(w)
    BY <2>1, <2>2
  <2> HIDE DEF Z
  <2>4. QED
    BY <1>2, <1>4, <2>3 DEF Z
<1>5. CASE ~P /\ x \notin DOMAIN e
  <2>1. Z = Var(x)
    BY <1>5, FollowVariable
  <2>2. ASSUME SolutionIn(e, term) = Term(Z) PROVE SolutionIn(d, term) = Term(w)
    <3>1. Term(Z).tag = "var" /\ Term(Z).of = x
      BY <2>1 DEF Term, Var, IsVar
    <3>2. term.tag = "var" /\ Term(FollowIn(e, Var(term.of))) = Term(Z)
      BY <2>2, <3>1 DEF SolutionIn
    <3> DEFINE u == FollowIn(e, Var(term.of))
    <3>3. u.tag = "var" /\ u.name = x
      BY <3>1, <3>2 DEF Term, IsVar
    <3>4. u = Var(u.name)
      <4>1. u \in {Var(term.of)} \cup Range(e)
        BY FollowLeads
      <4> HIDE DEF u
      <4>2. QED
        BY <3>3, <4>1 DEF Range, IsVar, Var
    <3>5. u = Var(x)
      BY <3>3, <3>4
    <3>6. FollowIn(d, Var(term.of)) = w
      BY <1>1, <1>5, <3>5
    <3>7. QED
      BY <3>2, <3>6 DEF SolutionIn
  <2> HIDE DEF Z
  <2>3. QED
    BY <1>2, <1>5, <2>2 DEF Z
<1>6. QED
  BY <1>3, <1>4, <1>5


LEMMA SolutionOfTerm ==
  ASSUME UnifyInv, NEW t \in TypesOver(DOMAIN types)
  PROVE  Solution(Term(t)) = Term(Follow(t))
<1>1. CASE IsVar(t)
  <2>1. t = Var(t.name)
    BY <1>1, TypeIsType
  <2>2. Term(t).tag = "var" /\ Term(t).of = t.name
    BY <1>1 DEF Term, IsVar
  <2>3. QED
    BY <2>1, <2>2 DEF Solution
<1>2. CASE ~IsVar(t)
  <2>1. Follow(t) = t
    BY <1>2, FollowUnbound DEF IsBound
  <2>2. Term(t).tag # "var"
    BY <1>2 DEF Term, IsVar
  <2>3. QED
    BY <2>1, <2>2 DEF Solution
<1>3. QED
  BY <1>1, <1>2

LEMMA SolutionsIn == \A term : Solution(term) = SolutionIn(env, term)
BY FollowsIn DEF Solution, SolutionIn

\* Types of one tag whose terms are the same whatever their parts are.
LEMMA SameTerms ==
  ASSUME NEW t \in TypesOver(DOMAIN types), NEW u \in TypesOver(DOMAIN types),
         t.tag = u.tag, t.tag \in GroundTags \cup {"array", "ptr"}
  PROVE  Term(t) = Term(u)
<1>1. IsType(t) /\ IsType(u)
  BY TypeIsType
<1>2. ~IsVar(t) /\ ~IsVar(u)
  BY DEF IsVar, GroundTags
<1>3. CASE t.tag \in GroundTags
  <2>1. t = Ground(t.tag) /\ u = Ground(u.tag)
    BY <1>1, <1>2, <1>3 DEF IsType, GroundTags
  <2>2. QED
    BY <2>1
<1>4. CASE t.tag \in {"array", "ptr"}
  <2>1. Len(t.members) = 1 /\ Len(u.members) = 1
    BY <1>1, <1>2, <1>4 DEF IsType, GroundTags
  <2>2. QED
    BY <1>2, <2>1 DEF Term
<1>5. QED
  BY <1>3, <1>4

\* A step that binds nothing takes an equation that was asked for, and posts it, if at
\* all, for two sides of one term.
Plain ==
  /\ ~Pending /\ env' = env /\ Given(agenda')
  /\ lapses' = {} /\ ~error_flag' => \A e \in posted' : e \in posted \/ e[1] = e[2]

LEMMA RecordPosts ==
  ASSUME Record, lapses' = {} /\ ~error_flag' => Term(Left) = Term(Right)
  PROVE  lapses' = {} /\ ~error_flag' => \A e \in posted' : e \in posted \/ e[1] = e[2]
<1> DEFINE l == Term(Left)
           r == Term(Right)
<1>1. posted' = posted \/ posted' = posted \cup {<<l, r>>}
  BY DEF Record
<1>2. <<l, r>>[1] = l /\ <<l, r>>[2] = r
  OBVIOUS
<1>3. QED
  <2> HIDE DEF l, r
  <2>1. QED
    BY <1>1, <1>2 DEF l, r

LEMMA PlainSteps ==
  ASSUME UnifyInv, DerivedInv,
         UnifyMember \/ Swap \/ Mismatch \/ UnifyGround \/ UnifyFns \/ UnifyCompound
  PROVE  Plain
<1> DEFINE D == DOMAIN types
<1>1. Unifying /\ env' = env
  BY DEF UnifyMember, Swap, Mismatch, UnifyGround, UnifyFns, UnifyCompound
<1>2. /\ Task \in EquationsOver(D) /\ Left \in TypesOver(D) /\ Right \in TypesOver(D)
      /\ Rest \in Seq(Tasks(D)) /\ Given(Rest)
  BY <1>1, TaskAtHand DEF EquationsOver, DerivedInv, Unifying
<1>3. Task.index # 0 \/ ~IsVar(Left)
  BY DEF UnifyMember, Swap, Mismatch, UnifyGround, UnifyFns, UnifyCompound, IsVar, GroundTags
<1>4. ~Pending /\ Task.stated = TRUE
  BY <1>1, <1>2, <1>3 DEF DerivedInv, Pending, Unifying, EquationsOver
<1>5. ASSUME NEW l, NEW r PROVE Given(<<Equation(l, r, 0, Task.stated)>> \o Rest)
  <2> DEFINE X == Tasks(D) \cup {Equation(l, r, 0, Task.stated)}
  <2>1. Rest \in Seq(X) /\ Equation(l, r, 0, Task.stated) \in X
    BY <1>2, SeqMonotonic
  <2>2. Equation(l, r, 0, Task.stated).stated = TRUE
    BY <1>4 DEF Equation
  <2> HIDE DEF X
  <2>3. QED
    BY <1>2, <2>1, <2>2, GivenFirst
<1>6. Given(<<Undefined>>)
  BY DEF Given, Undefined
<1>7. CASE UnifyMember
  <2>1. posted' = posted
    BY <1>7 DEF UnifyMember
  <2>2. \/ agenda' = Rest \/ agenda' = <<Undefined>>
        \/ \E r : agenda' = <<Equation(Task.l, r, 0, Task.stated)>> \o Rest
    BY <1>7 DEF UnifyMember
  <2>3. Given(agenda')
    BY <1>2, <1>5, <1>6, <2>2
  <2>4. QED
    BY <1>1, <1>4, <2>1, <2>3 DEF Plain
<1>8. CASE Swap
  BY <1>1, <1>4, <1>5, <1>8 DEF Swap, Plain
<1>9. CASE Mismatch
  BY <1>1, <1>2, <1>4, <1>9 DEF Mismatch, Plain
<1>10. CASE UnifyGround
  <2>1. Term(Left) = Term(Right) /\ Record
    BY <1>2, <1>10, SameTerms DEF UnifyGround
  <2>2. QED
    BY <1>1, <1>2, <1>4, <1>10, <2>1, RecordPosts DEF UnifyGround, Plain
<1>11. CASE UnifyFns
  <2>1. lapses' = {} => Term(Left) = Term(Right)
    BY <1>11 DEF UnifyFns, Record
  <2>2. Given(agenda')
    <3>1. CASE agenda' = Rest
      BY <1>2, <3>1
    <3>2. CASE \E n, arity : agenda' = [i \in 1 .. arity |->
                                          Equation(n + i, n + arity + i, 0, Task.stated)] \o Rest
                             /\ arity \in Nat
      <4>1. PICK n, arity : agenda' = [i \in 1 .. arity |->
                                          Equation(n + i, n + arity + i, 0, Task.stated)] \o Rest
                             /\ arity \in Nat
        BY <3>2
      <4> DEFINE s == [i \in 1 .. arity |-> Equation(n + i, n + arity + i, 0, Task.stated)]
                 X == Range(s) \cup Tasks(D)
      <4>2. s \in Seq(X) /\ \A i \in DOMAIN s : s[i].stated = TRUE
        <5>1. \A i \in 1 .. arity : s[i].stated = TRUE
          BY <1>4 DEF Equation
        <5>2. s = [i \in 1 .. arity |-> s[i]] /\ DOMAIN s = 1 .. arity
          OBVIOUS
        <5> HIDE DEF s
        <5>3. QED
          BY <4>1, <5>1, <5>2 DEF Range
      <4>3. Rest \in Seq(X)
        BY <1>2, SeqMonotonic
      <4> HIDE DEF s, X
      <4>4. Given(s)
        BY <4>2 DEF Given
      <4>5. Given(s \o Rest)
        BY <1>2, <4>2, <4>3, <4>4, GivenJoined
      <4>6. QED
        BY <4>1, <4>5 DEF s
    <3>3. Len(Left.members) \in Nat
      BY <1>2, TypeIsType
    <3>4. QED
      BY <1>11, <3>1, <3>2, <3>3 DEF UnifyFns
  <2>3. QED
    BY <1>1, <1>4, <1>11, <2>1, <2>2, RecordPosts DEF UnifyFns, Plain
<1>12. CASE UnifyCompound
  <2>1. ~error_flag' => Term(Left) = Term(Right)
    BY <1>12 DEF UnifyCompound, Term, IsVar
  <2>2. Given(agenda')
    BY <1>2, <1>6, <1>12 DEF UnifyCompound
  <2>3. QED
    BY <1>1, <1>4, <1>12, <2>1, <2>2, RecordPosts DEF UnifyCompound, Plain
<1>13. QED
  BY <1>7, <1>8, <1>9, <1>10, <1>11, <1>12

\* The step of a caller that posts nothing, and of unify when it binds nothing.
LEMMA PlainSolves ==
  ASSUME AllSolved, Plain, ~Pending', lapses' = {}, ~error_flag'
  PROVE  AllSolved'
<1>1. \A term : Eventual(term) = SolutionIn(env, term)
  BY SolutionsIn DEF Eventual, Plain
<1>2. \A term : Eventual(term)' = SolutionIn(env', term)
  <2> TAKE term
  <2>1. Solution(term)' = SolutionIn(env', term)
    BY DEF Solution, SolutionIn, Follow, FollowIn, IsBound, BoundIn
  <2>2. QED
    BY <2>1 DEF Eventual
<1>3. \A e \in posted' : Eventual(e[1])' = Eventual(e[2])'
  <2> TAKE e \in posted'
  <2>1. CASE e \in posted
    BY <1>1, <1>2, <2>1 DEF AllSolved, Plain
  <2>2. CASE e[1] = e[2]
    BY <2>2
  <2>3. QED
    BY <2>1, <2>2 DEF Plain
<1>4. QED
  BY <1>3 DEF AllSolved


\* After a variable is bound, the next equation is on its old binding or was asked for.
LEMMA OldBindingNext ==
  ASSUME UnifyInv, DerivedInv, BindingVar,
         NEW cells \in Seq(TypesOver(DOMAIN types)), Len(cells) = Len(types),
         ThenOldBinding(cells)
  PROVE  \/ /\ IsBound(Left) /\ IsVar(env[Left.name])
            /\ Pending' /\ DerivedInv'
            /\ Left' = env[Left.name] /\ Right' = cells[Task.l]
         \/ /\ ~(IsBound(Left) /\ IsVar(env[Left.name]))
            /\ ~Pending' /\ DerivedInv'
<1> DEFINE D == DOMAIN types
           old == env[Left.name]
           equation == Equation(Len(cells) + 1, Task.l, 0, FALSE)
<1>1. /\ Unifying /\ Task.l \in D /\ Rest \in Seq(Tasks(D)) /\ Given(Rest)
      /\ Len(types) \in Nat /\ D = 1 .. Len(types)
  BY TaskAtHand DEF BindingVar, DerivedInv, Unifying
<1>2. CASE ~(IsBound(Left) /\ IsVar(old))
  <2>1. agenda' = Rest
    BY <1>2 DEF ThenOldBinding
  <2>2. CASE Rest = <<>>
    BY <1>2, <2>1, <2>2 DEF Pending, DerivedInv, Unifying, Idle
  <2>3. CASE Rest # <<>>
    BY <1>1, <1>2, <2>1, <2>3, GivenTail DEF Pending, DerivedInv, Unifying, Idle, Task, Rest
  <2>4. QED
    BY <2>2, <2>3
<1>3. CASE IsBound(Left) /\ IsVar(old)
  <2>1. types' = Append(cells, old) /\ agenda' = <<equation>> \o Rest
    BY <1>3 DEF ThenOldBinding
  <2>2. agenda' # <<>> /\ Head(agenda') = equation /\ Tail(agenda') = Rest
    <3> DEFINE X == Tasks(D) \cup {equation}
    <3>1. equation \in X /\ Rest \in Seq(X)
      BY <1>1, SeqMonotonic
    <3> HIDE DEF X, equation
    <3>2. QED
      BY <2>1, <3>1
  <2>3. types'[Len(cells) + 1] = old /\ types'[Task.l] = cells[Task.l]
    <3>1. IsSequence(cells) /\ DOMAIN cells = D
      BY <1>1, SequenceOf
    <3> HIDE DEF old
    <3>2. QED
      BY <1>1, <2>1, <3>1, AppendIsSequence
  <2>4. Task' = equation /\ Rest' = Rest /\ ~Idle'
    BY <2>2 DEF Task, Rest, Idle
  <2>5. /\ equation.do = "unify" /\ equation.index = 0 /\ equation.stated = FALSE
        /\ equation.l = Len(cells) + 1 /\ equation.r = Task.l
    BY DEF Equation
  <2> HIDE DEF equation, old
  <2>6. Left' = old /\ Right' = cells[Task.l]
    BY <2>3, <2>4, <2>5 DEF Left, Right
  <2>7. Pending'
    BY <2>4, <2>5 DEF Pending, Unifying
  <2>8. DerivedInv'
    BY <1>1, <1>3, <2>4, <2>5, <2>6 DEF DerivedInv, Pending, old
  <2>9. QED
    BY <1>3, <2>6, <2>7, <2>8 DEF old
<1>4. QED
  BY <1>2, <1>3

\* A variable is bound: what was solved is solved by the new bindings, and so is the
\* equation itself.
LEMMA BindingSolves ==
  ASSUME UnifyInv, AcyclicInv, DerivedInv, AllSolved, BindingVar, Record,
         NEW cells \in Seq(TypesOver(DOMAIN types)), Len(cells) = Len(types),
         ThenOldBinding(cells),
         NEW w, w = Follow(Right), env' = Binding(w),
         ~IsBound(w), Left # Right,
         cells[Task.l] = Left \/ cells[Task.l] = w,
         lapses' = {}
  PROVE  AllSolved'
<1> DEFINE D == DOMAIN types
           x == Left.name
           Z == Follow(Left)
           P == IsBound(Left) /\ IsVar(env[x])
           Mid(term) == IF Solution(term) = Term(Z) THEN Term(w) ELSE Solution(term)
<1>1. /\ Left \in TypesOver(D) /\ Right \in TypesOver(D) /\ IsVar(Left)
      /\ Left = Var(x) /\ Unifying /\ Task \in EquationsOver(D)
  BY TaskAtHand, TypeIsType DEF BindingVar, EquationsOver
<1>2. w \in TypesOver(D) /\ Z \in TypesOver(D) /\ Follow(w) = w
  BY <1>1, FollowTypes, FollowUnbound
<1>3. IsVar(Z) => Z # w
  BY DEF Record
<1>4. IsBound(Left) /\ ~IsVar(Z) => Term(Z) = Term(w)
  BY DEF Record
<1>5. IsBound(Left) <=> x \in DOMAIN env
  BY <1>1 DEF IsBound
<1>6. x \notin DOMAIN env => Z = Left
  BY <1>5, FollowUnbound
<1>7. ~IsVar(Z) => Term(Z) = Term(w)
  BY <1>1, <1>4, <1>5, <1>6
<1>8. /\ IsFiniteSet(DOMAIN env) /\ RankedIn(env)
      /\ \A v \in DOMAIN env : IsVar(env[v]) => env[v] = Var(env[v].name)
  <2>1. lapses = {}
    BY DEF Record
  <2>2. \A v \in DOMAIN env : env[v] \in TypesOver(D)
    BY DEF UnifyInv
  <2>3. QED
    BY <2>1, <2>2, TypeIsType DEF UnifyInv, AcyclicInv
<1>9. ~BoundIn(env, w) /\ (IsVar(w) => w.name # x)
  <2>1. ASSUME IsVar(w), w.name = x PROVE FALSE
    <3>1. w = Var(x)
      BY <1>2, <2>1, TypeIsType
    <3>2. ~IsBound(Left) /\ w = Left
      BY <1>1, <3>1
    <3>3. QED
      BY <1>1, <1>3, <3>2, FollowUnbound
  <2>2. QED
    BY <2>1, FollowsIn
<1>10. env' = Rebound(env, x, w) /\ Z = FollowIn(env, Var(x))
  BY <1>1, FollowsIn DEF Binding, Rebound
<1>11. /\ FollowIn(env', w) = w /\ FollowIn(env', Var(x)) = w
       /\ x \in DOMAIN env => FollowIn(env', env[x]) = Z
  <2>1. PICK d : d = env'
    OBVIOUS
  <2>2. d = Rebound(env, x, w)
    BY <1>10, <2>1
  <2> HIDE DEF x
  <2>3. /\ FollowIn(d, w) = w /\ FollowIn(d, Var(x)) = w
        /\ x \in DOMAIN env => FollowIn(d, env[x]) = FollowIn(env, Var(x))
    BY <1>8, <1>9, <2>2, Rebinding
  <2>4. QED
    BY <1>10, <2>1, <2>3
<1>12. /\ P => Pending' /\ Left' = env[x] /\ Right' = cells[Task.l]
       /\ ~P => ~Pending'
  BY OldBindingNext
<1>13. P => /\ FollowIn(env', Left') = FollowIn(env', env[x]) /\ FollowIn(env', Left') = Z
            /\ FollowIn(env', Right') = w
  <2> HIDE DEF x, Z
  <2>1. QED
    BY <1>1, <1>5, <1>11, <1>12
<1>14. ASSUME NEW term PROVE Eventual(term)' = Mid(term)
  <2>1. /\ Eventual(term)' = IF Pending' /\ SolutionIn(env', term) = Term(FollowIn(env', Left'))
                             THEN Term(FollowIn(env', Right')) ELSE SolutionIn(env', term)
    BY DEF Eventual, Solution, SolutionIn, Follow, FollowIn, IsBound, BoundIn
  <2>2. PICK d : d = env'
    OBVIOUS
  <2>3. /\ d = Rebound(env, x, w)
        /\ ~IsVar(FollowIn(env, Var(x))) => Term(FollowIn(env, Var(x))) = Term(w)
        /\ P \in BOOLEAN /\ (P <=> x \in DOMAIN env /\ IsVar(env[x]))
    BY <1>5, <1>7, <1>10, <2>2
  <2>4. (IF P /\ SolutionIn(d, term) = Term(FollowIn(d, env[x])) THEN Term(w)
         ELSE SolutionIn(d, term))
        = (IF SolutionIn(env, term) = Term(FollowIn(env, Var(x))) THEN Term(w)
           ELSE SolutionIn(env, term))
    <3> HIDE DEF P, x
    <3>1. QED
      BY <1>8, <1>9, <2>3, RebindingSolves
  <2>5. Mid(term) = IF SolutionIn(env, term) = Term(FollowIn(env, Var(x))) THEN Term(w)
                    ELSE SolutionIn(env, term)
    BY <1>10, SolutionsIn
  <2> HIDE DEF P, x, Z, Mid
  <2>6. Eventual(term)' = IF P /\ SolutionIn(d, term) = Term(FollowIn(d, env[x])) THEN Term(w)
                          ELSE SolutionIn(d, term)
    BY <1>12, <1>13, <2>1, <2>2
  <2>7. QED
    BY <2>4, <2>5, <2>6
<1>15. Mid(Term(Left)) = Mid(Term(Right))
  <2>1. Solution(Term(Left)) = Term(Z) /\ Solution(Term(Right)) = Term(w)
    BY <1>1, SolutionOfTerm
  <2> HIDE DEF Z
  <2>2. QED
    BY <2>1
<1>16. ASSUME NEW e \in posted PROVE Mid(e[1]) = Mid(e[2])
  <2>1. Eventual(e[1]) = Eventual(e[2])
    BY DEF AllSolved
  <2> HIDE DEF Z
  <2>2. CASE Pending
    <3>1. \A term : Eventual(term) = Mid(term)
      BY <2>2 DEF Eventual, Z
    <3> HIDE DEF Mid
    <3>2. QED
      BY <2>1, <3>1
  <2>3. CASE ~Pending
    BY <2>1, <2>3 DEF Eventual
  <2>4. QED
    BY <2>2, <2>3
<1>17. \A e \in posted' : Mid(e[1]) = Mid(e[2])
  <2> DEFINE l == Term(Left)
             r == Term(Right)
  <2>1. posted' = posted \/ posted' = posted \cup {<<l, r>>}
    BY DEF Record
  <2>2. <<l, r>>[1] = l /\ <<l, r>>[2] = r
    OBVIOUS
  <2> HIDE DEF Mid, l, r
  <2>3. QED
    BY <1>15, <1>16, <2>1, <2>2 DEF l, r
<1>18. Pending' /\ ~IsVar(FollowIn(env', Left')) =>
         Term(FollowIn(env', Left')) = Term(FollowIn(env', Right'))
  <2> HIDE DEF Z, P
  <2>1. QED
    BY <1>7, <1>12, <1>13
<1>19. (\A t : Follow(t)' = FollowIn(env', t)) /\ Follow(Left)' = FollowIn(env', Left')
       /\ Follow(Right)' = FollowIn(env', Right')
  BY DEF Follow, FollowIn, IsBound, BoundIn
<1> HIDE DEF Mid
<1>20. \A e \in posted' : Eventual(e[1])' = Eventual(e[2])'
  BY <1>14, <1>17
<1>21. QED
  BY <1>18, <1>19, <1>20 DEF AllSolved


\* The cells a variable that is bound leaves.
LEMMA VarsCells ==
  ASSUME UnifyInv, UnifyVars
  PROVE  \E cells \in Seq(TypesOver(DOMAIN types)) :
           /\ BindingVar /\ ThenOldBinding(cells) /\ Len(cells) = Len(types)
           /\ Left # Right
           /\ cells[Task.l] = Left \/ cells[Task.l] = Follow(Right)
<1> DEFINE w == Follow(Right)
           cells == [types EXCEPT ![Task.r] = w, ![Task.l] = IF IsVar(w) THEN @ ELSE w]
<1>1. /\ BindingVar /\ ThenOldBinding(cells)
      /\ ~SameName /\ Right.tag \notin {"fn", "tuple"}
  BY DEF UnifyVars
<1>2. /\ types \in Seq(TypesOver(DOMAIN types)) /\ Task.l \in DOMAIN types
      /\ Task.r \in DOMAIN types /\ Left = types[Task.l] /\ Right = types[Task.r]
      /\ Left = Var(Left.name) /\ w \in TypesOver(DOMAIN types)
  BY <1>1, TaskAtHand, TypeIsType, FollowTypes DEF BindingVar, Left, Right
<1>3. Left # Right
  BY <1>1, <1>2 DEF SameName, Var
<1> HIDE DEF w
<1>4. cells \in Seq(TypesOver(DOMAIN types)) /\ Len(cells) = Len(types)
  BY <1>2
<1>5. cells[Task.l] = Left \/ cells[Task.l] = w
  BY <1>2, <1>3
<1> HIDE DEF cells
<1>6. QED
  BY <1>1, <1>3, <1>4, <1>5 DEF w

LEMMA VarsSolve ==
  ASSUME UnifyInv, AcyclicInv, DerivedInv, AllSolved, UnifyVars, lapses' = {}
  PROVE  AllSolved'
<1>1. PICK cells \in Seq(TypesOver(DOMAIN types)) :
        /\ BindingVar /\ ThenOldBinding(cells) /\ Len(cells) = Len(types)
        /\ Left # Right
        /\ cells[Task.l] = Left \/ cells[Task.l] = Follow(Right)
  BY VarsCells
<1>2. Record /\ env' = Binding(Follow(Right)) /\ ~IsBound(Follow(Right))
  BY DEF UnifyVars, Ends
<1>3. QED
  BY <1>1, <1>2, BindingSolves

LEMMA VarFnCells ==
  ASSUME UnifyInv, UnifyVarFn
  PROVE  \E cells \in Seq(TypesOver(DOMAIN types)) :
           /\ BindingVar /\ ThenOldBinding(cells) /\ Len(cells) = Len(types)
           /\ Left # Right /\ Right = Follow(Right) /\ ~IsBound(Right)
           /\ cells[Task.l] = Right
<1> DEFINE D == DOMAIN types
           members == Range(Right.members)
           cells == [c \in D |-> IF c = Task.l THEN Right
                                 ELSE IF c \in members THEN Follow(types[c])
                                 ELSE types[c]]
<1>1. /\ BindingVar /\ Unifying /\ ThenOldBinding(cells)
      /\ Right.tag \in {"fn", "tuple"}
  BY DEF UnifyVarFn, BindingVar
<1>2. /\ types \in Seq(TypesOver(D)) /\ Task.l \in D /\ Right \in TypesOver(D)
      /\ Len(types) \in Nat /\ D = 1 .. Len(types)
  BY <1>1, TaskAtHand
<1>3. ~IsVar(Right) /\ ~IsBound(Right) /\ Left # Right
  BY <1>1 DEF BindingVar, IsVar, IsBound
<1>4. Right = Follow(Right)
  BY <1>3, FollowUnbound
<1>5. cells \in Seq(TypesOver(D)) /\ Len(cells) = Len(types)
  <2>1. \A c \in D : cells[c] \in TypesOver(D)
    BY <1>2, FollowTypes
  <2>2. cells = [c \in 1 .. Len(types) |-> cells[c]]
    BY <1>2
  <2> HIDE DEF cells
  <2>3. QED
    BY <1>2, <2>1, <2>2
<1>6. cells[Task.l] = Right
  BY <1>2
<1> HIDE DEF cells
<1>7. QED
  BY <1>1, <1>3, <1>4, <1>5, <1>6

LEMMA VarFnSolves ==
  ASSUME UnifyInv, AcyclicInv, DerivedInv, AllSolved, UnifyVarFn, lapses' = {}
  PROVE  AllSolved'
<1>1. PICK cells \in Seq(TypesOver(DOMAIN types)) :
        /\ BindingVar /\ ThenOldBinding(cells) /\ Len(cells) = Len(types)
        /\ Left # Right /\ Right = Follow(Right) /\ ~IsBound(Right)
        /\ cells[Task.l] = Right
  BY VarFnCells
<1>2. Record /\ env' = Binding(Right)
  BY DEF UnifyVarFn
<1>3. QED
  BY <1>1, <1>2, BindingSolves

\* Nothing is bound, but the old binding is unified once more: both ends are where they were.
LEMMA SameVarSolves ==
  ASSUME UnifyInv, AcyclicInv, DerivedInv, AllSolved, UnifySameVar, lapses' = {}
  PROVE  AllSolved'
<1> DEFINE x == Left.name
<1>1. BindingVar /\ SameName /\ Record /\ env' = env /\ ThenOldBinding(types)
  BY DEF UnifySameVar
<1>2. /\ types \in Seq(TypesOver(DOMAIN types)) /\ Task.l \in DOMAIN types
      /\ Left = types[Task.l] /\ Left = Var(x)
      /\ IsVar(Right) => Right = Var(Right.name)
  BY <1>1, TaskAtHand, TypeIsType DEF BindingVar, Left
<1>3. Left = Right
  <2>1. IsVar(Right)
    BY <1>1 DEF Record
  <2>2. QED
    BY <1>1, <1>2, <2>1 DEF SameName
<1>4. lapses = {} /\ RankedIn(env) /\ IsFiniteSet(DOMAIN env)
  BY <1>1 DEF Record, AcyclicInv, UnifyInv
<1>5. ASSUME NEW term PROVE Eventual(term) = SolutionIn(env, term)
  BY <1>3, SolutionsIn DEF Eventual
<1>6. \/ /\ IsBound(Left) /\ Pending' /\ Left' = env[x] /\ Right' = Left
      \/ ~Pending'
  BY <1>1, <1>2, OldBindingNext
<1>7. Pending' => FollowIn(env', Left') = FollowIn(env', Right')
  <2>1. IsBound(Left) => FollowIn(env, Var(x)) = FollowIn(env, env[x])
    BY <1>4, FollowVariable DEF IsBound
  <2> HIDE DEF x
  <2>2. QED
    BY <1>1, <1>2, <1>6, <2>1
<1>8. (\A t : Follow(t)' = FollowIn(env', t)) /\ Follow(Left)' = FollowIn(env', Left')
      /\ Follow(Right)' = FollowIn(env', Right')
      /\ \A term : Solution(term)' = SolutionIn(env', term)
  BY DEF Follow, FollowIn, IsBound, BoundIn, Solution, SolutionIn
<1>9. ASSUME NEW term PROVE Eventual(term)' = SolutionIn(env, term)
  <2>1. Eventual(term)' = IF Pending' /\ SolutionIn(env', term) = Term(FollowIn(env', Left'))
                          THEN Term(FollowIn(env', Right')) ELSE SolutionIn(env', term)
    BY <1>8 DEF Eventual
  <2>2. QED
    BY <1>1, <1>7, <2>1
<1>10. \A e \in posted' : e \in posted \/ e[1] = e[2]
  <2> DEFINE l == Term(Left)
  <2>1. posted' = posted \/ posted' = posted \cup {<<l, l>>}
    BY <1>1, <1>3 DEF Record
  <2>2. <<l, l>>[1] = l /\ <<l, l>>[2] = l
    OBVIOUS
  <2> HIDE DEF l
  <2>3. QED
    BY <2>1, <2>2
<1>11. \A e \in posted' : Eventual(e[1])' = Eventual(e[2])'
  <2> TAKE e \in posted'
  <2>1. CASE e \in posted
    BY <1>5, <1>9, <2>1 DEF AllSolved
  <2>2. CASE e[1] = e[2]
    BY <2>2
  <2>3. QED
    BY <1>10, <2>1, <2>2
<1>12. QED
  BY <1>7, <1>8, <1>11 DEF AllSolved

\* Without an equation that unify derives next.
LEMMA GivenStays ==
  ASSUME UnifyInv', Given(agenda')
  PROVE  DerivedInv' /\ ~Pending'
<1>1. agenda' \in Seq(Tasks(DOMAIN types'))
  BY DEF UnifyInv
<1>2. CASE agenda' = <<>>
  BY <1>2 DEF DerivedInv, Pending, Unifying, Idle
<1>3. CASE agenda' # <<>>
  BY <1>1, <1>3, GivenTail DEF DerivedInv, Pending, Unifying, Idle, Task, Rest
<1>4. QED
  BY <1>2, <1>3

LEMMA StepDerives ==
  ASSUME UnifyInv, DerivedInv, UnifyStep, UnifyInv'
  PROVE  DerivedInv'
<1>1. CASE UnifyMember \/ Swap \/ Mismatch \/ UnifyGround \/ UnifyFns \/ UnifyCompound
  BY <1>1, PlainSteps, GivenStays DEF Plain
<1>2. CASE UnifyVars
  BY <1>2, VarsCells, OldBindingNext
<1>3. CASE UnifyVarFn
  BY <1>3, VarFnCells, OldBindingNext
<1>4. CASE UnifySameVar
  BY <1>4, OldBindingNext DEF UnifySameVar, UnifyInv
<1>5. QED
  BY <1>1, <1>2, <1>3, <1>4 DEF UnifyStep

LEMMA ErrorsStay ==
  ASSUME UnifyStep
  PROVE  error_flag => error_flag'
BY DEF UnifyStep, UnifyMember, Swap, Mismatch, UnifyGround, UnifyFns, UnifyCompound, UnifyVarFn,
       UnifySameVar, UnifyVars

LEMMA StepSolves ==
  ASSUME UnifyInv, AcyclicInv, DerivedInv, AllSolved, UnifyStep, UnifyInv',
         lapses' = {}, ~error_flag'
  PROVE  AllSolved'
<1>1. CASE UnifyMember \/ Swap \/ Mismatch \/ UnifyGround \/ UnifyFns \/ UnifyCompound
  BY <1>1, PlainSteps, GivenStays, PlainSolves DEF Plain
<1>2. QED
  BY <1>1, VarsSolve, VarFnSolves, SameVarSolves DEF UnifyStep

LEMMA NothingUnsolved ==
  ASSUME UNCHANGED <<types, env, agenda, posted>>
  PROVE  (DerivedInv => DerivedInv') /\ (AllSolved => AllSolved')
<1>1. /\ Idle' = Idle /\ Rest' = Rest /\ Task' = Task /\ Left' = Left /\ Right' = Right
      /\ Unifying' = Unifying
  BY DEF Idle, Rest, Task, Left, Right, Unifying
<1>2. Pending' = Pending
  BY <1>1 DEF Pending
<1>3. /\ \A t : Follow(t)' = Follow(t) /\ \A term : Solution(term)' = Solution(term)
      /\ Follow(Left)' = Follow(Left) /\ Follow(Right)' = Follow(Right)
  BY <1>1 DEF Follow, IsBound, Solution
<1>4. \A term : Eventual(term)' = Eventual(term)
  BY <1>2, <1>3 DEF Eventual
<1>5. QED
  BY <1>1, <1>2, <1>3, <1>4 DEF DerivedInv, AllSolved

LEMMA UnifyInitGiven == UnifyInit => Given(agenda) /\ posted = {}
<1> SUFFICES ASSUME UnifyInit PROVE Given(agenda) /\ posted = {}
  OBVIOUS
<1>1. agenda \in Seq(Statements) /\ posted = {}
  BY DEF UnifyInit, NothingUnified
<1>2. \A i \in DOMAIN agenda : agenda[i] \in Statements
  BY <1>1
<1>3. QED
  BY <1>1, <1>2 DEF Given, Statements

LEMMA DerivedInvHolds == UnifySpec => []DerivedInv
<1>1. UnifyInit => DerivedInv
  BY UnifyInitGiven, UnifyInitInv, GivenAgenda
<1>2. UnifyInv /\ UnifyInv' /\ DerivedInv /\ [UnifyNext]_unifyVars => DerivedInv'
  BY StepDerives, NothingUnsolved DEF UnifyNext, Spin, unifyVars
<1>3. QED
  BY <1>1, <1>2, UnifyInvHolds, PTL DEF UnifySpec

\* Once everything is unified, without an error or a lapse, the types the environment
\* gives the two sides of every equation are the same (unify_types.c, with the old binding
\* unified again at the end of unify).
THEOREM UnifySolves == UnifySpec => []EnvironmentSolves
<1>1. UnifyInit => SolvedInv
  BY UnifyInitGiven, UnifyInitInv, GivenAgenda DEF SolvedInv, AllSolved
<1>2. UnifyInv /\ UnifyInv' /\ AcyclicInv /\ DerivedInv /\ SolvedInv /\ [UnifyNext]_unifyVars
      => SolvedInv'
  <2> SUFFICES ASSUME UnifyInv, UnifyInv', AcyclicInv, DerivedInv, SolvedInv,
                      [UnifyNext]_unifyVars
               PROVE  SolvedInv'
    OBVIOUS
  <2>1. CASE UnifyStep
    <3>1. lapses \subseteq lapses' /\ (error_flag => error_flag')
      BY <2>1, StepUnifies, ErrorsStay DEF Unifies
    <3>2. QED
      BY <2>1, <3>1, StepSolves DEF SolvedInv
  <2>2. CASE UNCHANGED unifyVars
    BY <2>2, NothingUnsolved DEF unifyVars, SolvedInv
  <2>3. QED
    BY <2>1, <2>2 DEF UnifyNext, Spin
<1>3. UnifyInv /\ SolvedInv => EnvironmentSolves
  BY DEF SolvedInv, AllSolved, EnvironmentSolves, Eventual, Pending, Unifying
<1>4. QED
  BY <1>1, <1>2, <1>3, UnifyInvHolds, DerivedInvHolds, PTL DEF UnifySpec

-----------------------------------------------------------------------------
(* Merging.  The classes of the terms of some facts.                       *)

IsMerging(iter, S, base) ==
  iter = [s \in SUBSET S |->
            IF s = {} THEN base
            ELSE LET e == CHOOSE e \in s : TRUE IN Merged(e, iter[s \ {e}])]

LEMMA MergingExists ==
  ASSUME NEW S, IsFiniteSet(S), NEW terms, NEW base \in SUBSET SUBSET terms,
         \A e \in S : e[1] \in terms /\ e[2] \in terms
  PROVE  \E iter : IsMerging(iter, S, base)
<1> DEFINE D == SUBSET S
           V == SUBSET SUBSET terms
           M == Cardinality(S)
           measure == [s \in D |-> Cardinality(s)]
           chosen(s) == CHOOSE e \in s : TRUE
           next == [s \in D |-> s \ {chosen(s)}]
           g == [p \in D \X V |-> IF p[1] = {} THEN base ELSE Merged(chosen(p[1]), p[2])]
<1>1. ASSUME NEW s \in D
      PROVE  /\ IsFiniteSet(s) /\ Cardinality(s) \in Nat /\ Cardinality(s) <= M
             /\ next[s] \in D
             /\ s # {} => chosen(s) \in s /\ Cardinality(next[s]) < Cardinality(s)
  <2>1. IsFiniteSet(s) /\ Cardinality(s) \in Nat /\ Cardinality(s) <= M
    BY FS_Subset, FS_CardinalityType
  <2>2. s # {} => chosen(s) \in s
    OBVIOUS
  <2>3. s # {} => Cardinality(s \ {chosen(s)}) = Cardinality(s) - 1
    <3> HIDE DEF chosen
    <3>1. QED
      BY <2>1, <2>2, FS_RemoveElement
  <2>4. next[s] = s \ {chosen(s)}
    OBVIOUS
  <2> HIDE DEF next, chosen
  <2>5. QED
    BY <2>1, <2>2, <2>3, <2>4
<1>2. M \in Nat
  BY FS_CardinalityType
<1>3. ASSUME NEW e, NEW classes \in V PROVE Merged(e, classes) \in V
  BY DEF Merged
<1>4. g \in [D \X V -> V]
  <2>1. \A p \in D \X V : g[p] \in V
    <3> HIDE DEF V, chosen
    <3>1. base \in V
      BY DEF V
    <3>2. QED
      BY <1>3, <3>1
  <2> HIDE DEF D, V, chosen
  <2>2. QED
    BY <2>1
<1>5. PICK f : IsRecursion(f, D, V, {{}}, [s \in D |-> base], next, g)
  <2>1. measure \in [D -> 0 .. M] /\ V # {} /\ next \in [D -> D]
        /\ {{}} \in SUBSET D /\ [s \in D |-> base] \in [D -> V]
    <3>1. \A s \in D : Cardinality(s) \in 0 .. M
      <4> TAKE s \in D
      <4>1. Cardinality(s) \in Nat /\ Cardinality(s) <= M
        BY <1>1
      <4> HIDE DEF M, D
      <4>2. QED
        BY <1>2, <4>1
    <3> HIDE DEF M
    <3>2. measure \in [D -> 0 .. M]
      BY <3>1
    <3>3. QED
      BY <3>2
  <2>2. \A s \in D : s \notin {{}} => measure[next[s]] < measure[s]
    <3> TAKE s \in D
    <3>1. measure[next[s]] = Cardinality(next[s]) /\ measure[s] = Cardinality(s)
      BY <1>1
    <3> HIDE DEF measure, next
    <3>2. QED
      BY <1>1, <3>1
  <2> HIDE DEF D, V, M, measure, next, g
  <2>3. QED
    BY <1>2, <1>4, <2>1, <2>2, Recurses
<1>6. ASSUME NEW s \in D
      PROVE  f[s] = IF s = {} THEN base
                    ELSE LET e == CHOOSE e \in s : TRUE IN Merged(e, f[s \ {e}])
  <2>1. CASE s = {}
    BY <1>5, <2>1 DEF IsRecursion
  <2>2. CASE s # {}
    <3>1. f[s] = g[<<s, f[next[s]]>>] /\ f[next[s]] \in V
      <4> HIDE DEF g, next, V
      <4>1. QED
        BY <1>1, <1>5, <2>2 DEF IsRecursion
    <3>2. g[<<s, f[next[s]]>>] = Merged(chosen(s), f[next[s]])
      <4> HIDE DEF V, next, chosen
      <4>1. QED
        BY <2>2, <3>1
    <3>3. next[s] = s \ {chosen(s)}
      OBVIOUS
    <3> HIDE DEF next, g
    <3>4. QED
      BY <2>2, <3>1, <3>2, <3>3
  <2>3. QED
    BY <2>1, <2>2
<1>7. f = [s \in D |-> f[s]]
  BY <1>5 DEF IsRecursion
<1>8. IsMerging(f, S, base)
  BY <1>6, <1>7 DEF IsMerging
<1>9. QED
  BY <1>8

MergedFrom(S, base) == (CHOOSE iter : IsMerging(iter, S, base))[S]

Partitions(classes, terms) ==
  /\ classes \subseteq SUBSET terms /\ UNION classes = terms
  /\ \A c, d \in classes : c = d \/ c \cap d = {}

Joins(classes, facts) == \A e \in facts : \E c \in classes : e[1] \in c /\ e[2] \in c

\* Every fact is inside a class, and no two classes have a term in common.
LEMMA Merges ==
  ASSUME NEW S, IsFiniteSet(S), NEW terms, NEW base, Partitions(base, terms),
         \A e \in S : e[1] \in terms /\ e[2] \in terms
  PROVE  Partitions(MergedFrom(S, base), terms) /\ Joins(MergedFrom(S, base), S)
<1> DEFINE iter == CHOOSE iter : IsMerging(iter, S, base)
<1>1. MergedFrom(S, base) = iter[S]
  BY DEF MergedFrom
<1>2. IsMerging(iter, S, base)
  BY MergingExists DEF Partitions
<1> HIDE DEF iter
<1> DEFINE Covers(s) == /\ iter[s] \subseteq SUBSET terms /\ UNION iter[s] = terms
                        /\ \A c, d \in iter[s] : c = d \/ c \cap d = {}
                        /\ \A e \in s : \E c \in iter[s] : e[1] \in c /\ e[2] \in c
           T == {s \in SUBSET S : Covers(s)}
           measure == [s \in SUBSET S |-> Cardinality(s)]
<1>3. measure \in [SUBSET S -> Nat]
  BY FS_Subset, FS_CardinalityType
<1>4. ASSUME NEW s \in SUBSET S,
             \A r \in SUBSET S : measure[r] < measure[s] => r \in T
      PROVE  s \in T
  <2>1. CASE s = {}
    <3>1. iter[s] = base
      BY <1>2, <2>1 DEF IsMerging
    <3>2. QED
      BY <2>1, <3>1 DEF Partitions
  <2>2. CASE s # {}
    <3>1. PICK x : x = CHOOSE e \in s : TRUE
      OBVIOUS
    <3> DEFINE r == s \ {x}
               classes == iter[r]
               touched == {c \in classes : x[1] \in c \/ x[2] \in c}
    <3>2. x \in s /\ r \in SUBSET S /\ x[1] \in terms /\ x[2] \in terms
      BY <2>2, <3>1
    <3>3. iter[s] = (classes \ touched) \cup {UNION touched}
      <4>1. \A u \in SUBSET S : u # {} =>
              iter[u] = LET e == CHOOSE e \in u : TRUE IN Merged(e, iter[u \ {e}])
        BY <1>2 DEF IsMerging
      <4>2. iter[s] = Merged(x, classes)
        BY <2>2, <3>1, <4>1
      <4>3. QED
        BY <4>2 DEF Merged
    <3>4. Cardinality(r) < Cardinality(s)
      <4>1. IsFiniteSet(s)
        BY FS_Subset
      <4>2. Cardinality(r) = Cardinality(s) - 1 /\ Cardinality(s) \in Nat
        BY <3>2, <4>1, FS_RemoveElement, FS_CardinalityType
      <4>3. QED
        BY <4>2
    <3>5. Covers(r)
      <4> HIDE DEF r, Covers
      <4>1. QED
        BY <1>4, <3>2, <3>4
    <3> HIDE DEF r
    <3>6. /\ classes \subseteq SUBSET terms /\ UNION classes = terms
          /\ \A c, d \in classes : c = d \/ c \cap d = {}
          /\ \A e \in r : \E c \in classes : e[1] \in c /\ e[2] \in c
      BY <3>5
    <3> HIDE DEF classes
    <3>7. iter[s] \subseteq SUBSET terms
      BY <3>3, <3>6
    <3>8. UNION iter[s] = terms
      <4>1. ASSUME NEW t \in terms PROVE t \in UNION iter[s]
        <5>1. PICK c \in classes : t \in c
          BY <3>6
        <5>2. CASE c \in touched
          <6>1. UNION touched \in iter[s] /\ c \subseteq UNION touched
            BY <3>3, <5>2
          <6> HIDE DEF touched
          <6>2. QED
            BY <5>1, <6>1
        <5>3. CASE c \notin touched
          BY <3>3, <5>1, <5>3
        <5>4. QED
          BY <5>2, <5>3
      <4>2. QED
        BY <3>7, <4>1
    <3>9. ASSUME NEW e \in s PROVE \E c \in iter[s] : e[1] \in c /\ e[2] \in c
      <4>1. CASE e = x
        <5>1. x[1] \in UNION touched /\ x[2] \in UNION touched
          BY <3>2, <3>6
        <5>2. QED
          BY <3>3, <4>1, <5>1
      <4>2. CASE e # x
        <5>1. PICK c \in classes : e[1] \in c /\ e[2] \in c
          BY <3>6, <4>2 DEF r
        <5>2. CASE c \in touched
          <6>1. UNION touched \in iter[s] /\ c \subseteq UNION touched
            BY <3>3, <5>2
          <6> HIDE DEF touched
          <6>2. QED
            BY <5>1, <6>1
        <5>3. CASE c \notin touched
          BY <3>3, <5>1, <5>3
        <5>4. QED
          BY <5>2, <5>3
      <4>3. QED
        BY <4>1, <4>2
    <3>10. ASSUME NEW c \in iter[s], NEW d \in iter[s], c # d PROVE c \cap d = {}
      <4>1. ASSUME NEW b \in classes \ touched PROVE b \cap UNION touched = {}
        BY <3>6, <4>1
      <4> HIDE DEF touched
      <4>2. c \in classes \ touched \/ c = UNION touched
        BY <3>3
      <4>3. d \in classes \ touched \/ d = UNION touched
        BY <3>3
      <4>4. QED
        BY <3>6, <3>10, <4>1, <4>2, <4>3
    <3>11. QED
      BY <3>7, <3>8, <3>9, <3>10
  <2>3. QED
    BY <2>1, <2>2
<1>5. \A s \in SUBSET S : s \in T
  <2> HIDE DEF T, measure
  <2>1. QED
    BY <1>3, <1>4, ByMeasure
<1>6. QED
  BY <1>1, <1>5 DEF Partitions, Joins

Singletons(T) == {{t} : t \in T}

\* The facts may be any pairs of any terms.
LEMMA ClassesMerge ==
  ASSUME NEW S, IsFiniteSet(S)
  PROVE  Partitions(Classes(S), TermsOf(S)) /\ Joins(Classes(S), S)
<1> DEFINE terms == TermsOf(S)
           base == Singletons(terms)
<1>1. Classes(S) = MergedFrom(S, base)
  BY DEF Classes, FoldSet, MapThenFoldSet, IsMerging, MergedFrom, Singletons
<1>2. Partitions(base, terms)
  BY DEF Singletons, Partitions
<1>3. \A e \in S : e[1] \in terms /\ e[2] \in terms
  BY DEF TermsOf
<1> HIDE DEF base, terms
<1>4. Partitions(MergedFrom(S, base), terms) /\ Joins(MergedFrom(S, base), S)
  BY <1>2, <1>3, Merges
<1>5. QED
  BY <1>1, <1>4 DEF terms

-----------------------------------------------------------------------------
(* What follows from the facts, until nothing more does.                   *)

\* Facts are pairs of terms, which are made of numbered cells.
Shaped(facts) ==
  /\ IsFiniteSet(facts) /\ \A e \in facts : e = <<e[1], e[2]>>
  /\ \A t \in TermsOf(facts) :
       t.members \in Seq(Nat) /\ (t.tag = "part" => Len(t.members) = 1)

CellsIn(terms) == UNION {{Cell(c) : c \in Range(t.members)} : t \in terms}
AllTerms(facts) == TermsOf(facts) \cup CellsIn(TermsOf(facts))
AllFacts(facts) == SUBSET (AllTerms(facts) \X AllTerms(facts))

More(known) == known \cup Consequences(known)

IsClosing(f, facts) ==
  f = [known \in AllFacts(facts) |-> IF More(known) = known THEN known ELSE f[More(known)]]

LEMMA ConsequencesStay ==
  ASSUME NEW facts, Shaped(facts), NEW known \in AllFacts(facts)
  PROVE  IsFiniteSet(known) /\ More(known) \in AllFacts(facts)
<1> DEFINE all == AllTerms(facts)
<1>1. IsFiniteSet(all \X all)
  <2> DEFINE terms == TermsOf(facts)
             f == [x \in facts |-> x[1]]
             g == [x \in facts |-> x[2]]
  <2>1. IsFiniteSet(terms)
    <3>1. {x[1] : x \in facts} = Range(f) /\ {x[2] : x \in facts} = Range(g)
      BY DEF Range
    <3>2. IsFiniteSet(Range(f)) /\ IsFiniteSet(Range(g))
      BY FiniteRange DEF Shaped
    <3>3. QED
      BY <3>1, <3>2, FS_Union DEF TermsOf
  <2>2. ASSUME NEW t \in terms PROVE IsFiniteSet({Cell(c) : c \in Range(t.members)})
    <3> DEFINE h == [i \in DOMAIN t.members |-> Cell(t.members[i])]
    <3>1. IsFiniteSet(DOMAIN t.members)
      <4>1. DOMAIN t.members = 1 .. Len(t.members) /\ Len(t.members) \in Nat
        BY DEF Shaped
      <4>2. QED
        BY <4>1, FS_Interval
    <3>2. {Cell(c) : c \in Range(t.members)} = Range(h)
      BY DEF Range
    <3>3. DOMAIN h = DOMAIN t.members
      OBVIOUS
    <3> HIDE DEF h
    <3>4. QED
      BY <3>1, <3>2, <3>3, FiniteRange
  <2> HIDE DEF terms
  <2>3. IsFiniteSet({{Cell(c) : c \in Range(t.members)} : t \in terms})
    <3> DEFINE k == [t \in terms |-> {Cell(c) : c \in Range(t.members)}]
    <3>1. {{Cell(c) : c \in Range(t.members)} : t \in terms} = Range(k) /\ DOMAIN k = terms
      BY DEF Range
    <3> HIDE DEF k
    <3>2. QED
      BY <2>1, <3>1, FiniteRange
  <2>4. IsFiniteSet(CellsIn(terms))
    BY <2>2, <2>3, FS_UNION DEF CellsIn
  <2>5. IsFiniteSet(all)
    BY <2>1, <2>4, FS_Union DEF AllTerms, terms
  <2>6. QED
    BY <2>5, FS_Product
<1>2. IsFiniteSet(known)
  BY <1>1, FS_Subset DEF AllFacts
<1>3. TermsOf(known) \subseteq all
  <2> SUFFICES ASSUME NEW e \in known PROVE e[1] \in all /\ e[2] \in all
    BY DEF TermsOf
  <2>1. e \in all \X all
    BY DEF AllFacts
  <2>2. QED
    BY <2>1
<1>4. ASSUME NEW t \in all PROVE /\ \A i \in DOMAIN t.members : Cell(t.members[i]) \in all
                                 /\ t.members \in Seq(Nat)
  <2>1. CASE t \in TermsOf(facts)
    <3>1. \A i \in DOMAIN t.members : Cell(t.members[i]) \in CellsIn(TermsOf(facts))
      BY <2>1 DEF CellsIn, Range
    <3>2. QED
      BY <2>1, <3>1 DEF AllTerms, Shaped
  <2>2. CASE t \in CellsIn(TermsOf(facts))
    <3>1. PICK u \in TermsOf(facts) : \E i \in DOMAIN u.members : t = Cell(u.members[i])
      BY <2>2 DEF CellsIn, Range
    <3> PICK i \in DOMAIN u.members : t = Cell(u.members[i])
      BY <3>1
    <3>2. u.members[i] \in Nat
      BY DEF Shaped
    <3>3. t.members = <<u.members[i]>>
      BY DEF Cell
    <3>4. \A j \in DOMAIN t.members : t.members[j] = u.members[i]
      BY <3>3
    <3>5. \A j \in DOMAIN t.members : Cell(t.members[j]) = t
      BY <3>4
    <3>6. t.members \in Seq(Nat)
      BY <3>2, <3>3
    <3>7. QED
      BY <3>5, <3>6
  <2>3. QED
    BY <2>1, <2>2 DEF AllTerms
<1>5. ASSUME NEW t \in all, NEW u \in all, Term(t) = Term(u), IsConstructor(t), IsConstructor(u)
      PROVE  EqualParts(t, u) \subseteq all \X all
  <2>1. Len(t.members) = Len(u.members)
    <3>1. ~IsVar(t) /\ ~IsVar(u)
      BY <1>5 DEF IsConstructor, IsVar
    <3>2. Term(t).of = Term(u).of
      BY <1>5
    <3>3. QED
      BY <3>1, <3>2 DEF Term
  <2>2. DOMAIN t.members = DOMAIN u.members
    BY <1>4, <2>1
  <2> HIDE DEF all
  <2>3. QED
    BY <1>4, <2>2 DEF EqualParts
<1>6. Classes(known) \subseteq SUBSET TermsOf(known)
  BY <1>2, ClassesMerge DEF Partitions
<1>7. ASSUME NEW class \in Classes(known), NEW t \in class, NEW p \in TermsOf(known),
             Cell(p.members[1]) \in class, HasPart(t, p)
      PROVE  t \in all /\ p \in all /\ PartOf(t, p) \in all
  <2>1. t \in all /\ p \in all /\ Cell(p.members[1]) \in all
    BY <1>3, <1>6, <1>7
  <2> HIDE DEF all
  <2>2. QED
    BY <1>4, <1>7, <2>1 DEF HasPart, PartOf
<1>8. Consequences(known) \subseteq all \X all
  <2> SUFFICES ASSUME NEW x \in Consequences(known) PROVE x \in all \X all
    OBVIOUS
  <2>1. PICK class \in Classes(known) :
          LET types_in == {t \in class : IsConstructor(t)}
              parts == {p \in TermsOf(known) : p.tag = "part" /\ Cell(p.members[1]) \in class}
          IN  \/ \E e \in types_in \X types_in :
                   Term(e[1]) = Term(e[2]) /\ x \in EqualParts(e[1], e[2])
              \/ \E e \in types_in \X parts :
                   HasPart(e[1], e[2]) /\ x = <<e[2], PartOf(e[1], e[2])>>
    BY DEF Consequences
  <2> DEFINE types_in == {t \in class : IsConstructor(t)}
             parts == {p \in TermsOf(known) : p.tag = "part" /\ Cell(p.members[1]) \in class}
  <2>2. CASE \E e \in types_in \X types_in :
               Term(e[1]) = Term(e[2]) /\ x \in EqualParts(e[1], e[2])
    <3>1. PICK e \in types_in \X types_in : Term(e[1]) = Term(e[2]) /\ x \in EqualParts(e[1], e[2])
      BY <2>2
    <3>2. e[1] \in all /\ e[2] \in all /\ IsConstructor(e[1]) /\ IsConstructor(e[2])
      BY <1>3, <1>6
    <3> HIDE DEF all
    <3>3. QED
      BY <1>5, <3>1, <3>2
  <2>3. CASE \E e \in types_in \X parts :
               HasPart(e[1], e[2]) /\ x = <<e[2], PartOf(e[1], e[2])>>
    <3>1. PICK e \in types_in \X parts : HasPart(e[1], e[2]) /\ x = <<e[2], PartOf(e[1], e[2])>>
      BY <2>3
    <3>2. e[1] \in class /\ e[2] \in TermsOf(known) /\ Cell(e[2].members[1]) \in class
      OBVIOUS
    <3> HIDE DEF all
    <3>3. e[2] \in all /\ PartOf(e[1], e[2]) \in all
      BY <1>7, <3>1, <3>2
    <3>4. QED
      BY <3>1, <3>3
  <2>4. QED
    BY <2>1, <2>2, <2>3
<1>9. QED
  BY <1>2, <1>8 DEF More, AllFacts

LEMMA ClosingExists ==
  ASSUME NEW facts, Shaped(facts)
  PROVE  \E f : IsClosing(f, facts)
<1> DEFINE D == AllFacts(facts)
           A == AllTerms(facts) \X AllTerms(facts)
           M == Cardinality(A)
           measure == [K \in D |-> Cardinality(A \ K)]
           B == {K \in D : More(K) = K}
           next == [K \in D |-> More(K)]
           g == [p \in D \X D |-> p[2]]
           base == [K \in D |-> K]
<1>1. IsFiniteSet(A)
  <2>1. A \in D
    BY DEF AllFacts
  <2>2. QED
    BY <2>1, ConsequencesStay
<1>2. ASSUME NEW K \in D
      PROVE  /\ IsFiniteSet(A \ K) /\ Cardinality(A \ K) \in 0 .. M
             /\ More(K) \in D
             /\ More(K) # K => Cardinality(A \ More(K)) < Cardinality(A \ K)
  <2>1. A \ K \in SUBSET A
    OBVIOUS
  <2>2. IsFiniteSet(A \ K) /\ Cardinality(A \ K) \in Nat /\ Cardinality(A \ K) <= M /\ M \in Nat
    BY <1>1, <2>1, FS_Subset, FS_CardinalityType
  <2>3. More(K) \in D
    BY ConsequencesStay
  <2>4. ASSUME More(K) # K PROVE Cardinality(A \ More(K)) < Cardinality(A \ K)
    <3>1. A \ More(K) \in SUBSET (A \ K) /\ A \ More(K) # A \ K
      <4>1. K \subseteq More(K)
        BY DEF More
      <4>2. More(K) \subseteq A
        BY <2>3 DEF AllFacts
      <4>3. QED
        BY <2>4, <4>1, <4>2
    <3> HIDE DEF A, M
    <3>2. IsFiniteSet(A \ K)
      BY <2>2
    <3>3. QED
      BY <3>1, <3>2, FS_Subset, FS_CardinalityType
  <2> HIDE DEF M, A, D
  <2>5. QED
    BY <2>2, <2>3, <2>4
<1>3. M \in Nat /\ measure \in [D -> 0 .. M]
  <2>1. M \in Nat
    BY <1>1, FS_CardinalityType
  <2> HIDE DEF M, D
  <2>2. QED
    BY <1>2, <2>1
<1>4. B \in SUBSET D /\ D # {} /\ g \in [D \X D -> D] /\ base \in [D -> D] /\ next \in [D -> D]
  <2>1. B \in SUBSET D /\ D # {}
    BY DEF AllFacts
  <2>2. g \in [D \X D -> D] /\ base \in [D -> D] /\ next \in [D -> D]
    <3> HIDE DEF D
    <3>1. QED
      BY <1>2
  <2>3. QED
    BY <2>1, <2>2
<1>5. \A K \in D : K \notin B => measure[next[K]] < measure[K]
  <2> TAKE K \in D
  <2> SUFFICES ASSUME K \notin B PROVE measure[next[K]] < measure[K]
    OBVIOUS
  <2>1. next[K] = More(K) /\ More(K) # K /\ More(K) \in D
    BY <1>2
  <2>2. measure[More(K)] = Cardinality(A \ More(K)) /\ measure[K] = Cardinality(A \ K)
    BY <2>1
  <2> HIDE DEF next, measure, A, D
  <2>3. QED
    BY <1>2, <2>1, <2>2
<1>6. PICK f : IsRecursion(f, D, D, B, base, next, g)
  <2> HIDE DEF D, M, measure, B, next, g, base
  <2>1. QED
    BY <1>3, <1>4, <1>5, Recurses
<1>7. \A K \in D : f[K] = IF More(K) = K THEN K ELSE f[More(K)]
  <2> TAKE K \in D
  <2>1. CASE More(K) = K
    <3>1. K \in B /\ base[K] = K
      BY <2>1
    <3> HIDE DEF B, base, next, g
    <3>2. QED
      BY <1>6, <2>1, <3>1 DEF IsRecursion
  <2>2. CASE More(K) # K
    <3>1. K \notin B /\ next[K] = More(K)
      BY <2>2
    <3>2. f[K] = g[<<K, f[next[K]]>>] /\ f[next[K]] \in D
      <4>1. next[K] \in D
        BY <1>2, <3>1
      <4> HIDE DEF B, base, next, g, D
      <4>2. QED
        BY <1>6, <3>1, <4>1 DEF IsRecursion
    <3>3. \A c \in D : g[<<K, c>>] = c
      OBVIOUS
    <3> HIDE DEF g, next, B, D
    <3>4. QED
      BY <2>2, <3>1, <3>2, <3>3
  <2>3. QED
    BY <2>1, <2>2
<1>8. f = [K \in D |-> f[K]]
  <2> HIDE DEF D
  <2>1. QED
    BY <1>6 DEF IsRecursion
<1> HIDE DEF D, B, base, next, g
<1>9. f = [K \in D |-> IF More(K) = K THEN K ELSE f[More(K)]]
  BY <1>7, <1>8
<1>10. QED
  BY <1>9 DEF IsClosing, D

\* The closure is finite, holds the facts, and what follows from it.
LEMMA ClosureCloses ==
  ASSUME NEW facts, Shaped(facts)
  PROVE  /\ IsFiniteSet(Closure(facts)) /\ facts \subseteq Closure(facts)
         /\ Consequences(Closure(facts)) \subseteq Closure(facts)
<1> DEFINE f == CHOOSE f : IsClosing(f, facts)
           D == AllFacts(facts)
           A == AllTerms(facts) \X AllTerms(facts)
           measure == [K \in D |-> Cardinality(A \ K)]
           T == {K \in D : f[K] \in D /\ K \subseteq f[K] /\ More(f[K]) = f[K]}
<1>1. Closure(facts) = f[facts]
  BY DEF Closure, IsClosing, More, AllFacts, AllTerms, CellsIn
<1>2. IsClosing(f, facts)
  BY ClosingExists
<1> HIDE DEF f
<1>3. \A K \in D : f[K] = IF More(K) = K THEN K ELSE f[More(K)]
  BY <1>2 DEF IsClosing
<1>4. IsFiniteSet(A)
  <2>1. A \in D
    BY DEF AllFacts
  <2>2. QED
    BY <2>1, ConsequencesStay
<1>5. measure \in [D -> Nat]
  <2>1. \A K \in D : Cardinality(A \ K) \in Nat
    BY <1>4, FS_Subset, FS_CardinalityType
  <2> HIDE DEF D, A
  <2>2. QED
    BY <2>1
<1>6. ASSUME NEW K \in D, \A L \in D : measure[L] < measure[K] => L \in T
      PROVE  K \in T
  <2>1. CASE More(K) = K
    <3>1. f[K] = K
      BY <1>3, <2>1
    <3> HIDE DEF D
    <3>2. QED
      BY <2>1, <3>1
  <2>2. CASE More(K) # K
    <3>1. More(K) \in D /\ K \subseteq More(K)
      BY ConsequencesStay DEF More
    <3>2. measure[More(K)] < measure[K]
      <4>1. A \ More(K) \in SUBSET (A \ K) /\ A \ More(K) # A \ K
        BY <2>2, <3>1 DEF AllFacts
      <4>2. IsFiniteSet(A \ K) /\ Cardinality(A \ K) \in Nat /\ Cardinality(A \ More(K)) \in Nat
        BY <1>4, <1>5, <3>1, FS_Subset, FS_CardinalityType
      <4>3. Cardinality(A \ More(K)) < Cardinality(A \ K)
        <5> HIDE DEF A
        <5>1. QED
          BY <4>1, <4>2, FS_Subset
      <4> HIDE DEF D, A
      <4>4. QED
        BY <3>1, <4>3
    <3> HIDE DEF D, measure
    <3>3. More(K) \in T
      BY <1>6, <3>1, <3>2
    <3>4. QED
      BY <1>3, <2>2, <3>1, <3>3
  <2>3. QED
    BY <2>1, <2>2
<1>7. \A K \in D : K \in T
  <2> HIDE DEF T, D, measure
  <2>1. QED
    BY <1>5, <1>6, ByMeasure
<1>8. facts \in D
  <2> SUFFICES ASSUME NEW e \in facts PROVE e \in A
    BY DEF AllFacts
  <2>1. e[1] \in TermsOf(facts) /\ e[2] \in TermsOf(facts)
    BY DEF TermsOf
  <2>2. e = <<e[1], e[2]>>
    BY DEF Shaped
  <2>3. QED
    BY <2>1, <2>2 DEF AllTerms
<1>9. QED
  BY <1>1, <1>7, <1>8, ConsequencesStay DEF More

-----------------------------------------------------------------------------
(* Errors are real.  A reading of the facts gives every term a class; when *)
(* one exists, the steps keep the two sides of every equation in the same  *)
(* class, and two constructors of different types never are.               *)

Agrees(P, facts) == \A e \in facts : P[e[1]] = P[e[2]]

SeparatesTypes(P, terms) ==
  \A t, u \in terms :
    IsConstructor(t) /\ IsConstructor(u) /\ P[t] = P[u] =>
      /\ Term(t) = Term(u)
      /\ \A i \in DOMAIN t.members : P[Cell(t.members[i])] = P[Cell(u.members[i])]

FindsParts(P, terms) ==
  \A t, p \in terms :
    /\ IsConstructor(t) /\ p.tag = "part" /\ Cell(p.members[1]) \in terms
    /\ P[t] = P[Cell(p.members[1])] /\ HasPart(t, p)
    => P[p] = P[PartOf(t, p)]

Reading(P, facts) ==
  Agrees(P, facts) /\ SeparatesTypes(P, TermsOf(facts)) /\ FindsParts(P, TermsOf(facts))

LEMMA SolvableHasReading ==
  ASSUME NEW facts, Shaped(facts), Solvable(facts)
  PROVE  \E P : Reading(P, facts)
<1> DEFINE K == Closure(facts)
           classOf(t) == CHOOSE class \in Classes(K) : t \in class
           P == [t \in TermsOf(K) |-> classOf(t)]
<1>1. facts \subseteq K /\ Consequences(K) \subseteq K
      /\ Partitions(Classes(K), TermsOf(K)) /\ Joins(Classes(K), K)
  BY ClosureCloses, ClassesMerge
<1>2. \A class \in Classes(K) : \A t, u \in class :
        IsConstructor(t) /\ IsConstructor(u) => Term(t) = Term(u)
  BY DEF Solvable
<1> HIDE DEF K
<1>3. ASSUME NEW t \in TermsOf(K) PROVE P[t] = classOf(t) /\ P[t] \in Classes(K) /\ t \in P[t]
  <2>1. \E class \in Classes(K) : t \in class
    BY <1>1 DEF Partitions
  <2>2. QED
    BY <2>1
<1>4. TermsOf(facts) \subseteq TermsOf(K)
  BY <1>1 DEF TermsOf
<1>5. ASSUME NEW e \in K PROVE P[e[1]] = P[e[2]]
  <2>1. PICK class \in Classes(K) : e[1] \in class /\ e[2] \in class
    BY <1>1 DEF Joins
  <2>2. e[1] \in TermsOf(K) /\ e[2] \in TermsOf(K)
    BY DEF TermsOf
  <2> HIDE DEF P
  <2>3. P[e[1]] = class /\ P[e[2]] = class
    BY <1>1, <1>3, <2>1, <2>2 DEF Partitions
  <2>4. QED
    BY <2>3
<1> HIDE DEF P
<1>6. ASSUME NEW t \in TermsOf(K), NEW u \in TermsOf(K), IsConstructor(t), IsConstructor(u), P[t] = P[u]
      PROVE  /\ Term(t) = Term(u)
             /\ \A i \in DOMAIN t.members : P[Cell(t.members[i])] = P[Cell(u.members[i])]
  <2>1. P[t] \in Classes(K) /\ t \in P[t] /\ u \in P[t]
    BY <1>3, <1>6
  <2>2. Term(t) = Term(u)
    BY <1>2, <1>6, <2>1
  <2>3. EqualParts(t, u) \subseteq Consequences(K)
    <3> DEFINE types_in == {v \in P[t] : IsConstructor(v)}
    <3>1. <<t, u>> \in types_in \X types_in
      BY <1>6, <2>1
    <3>2. <<t, u>>[1] = t /\ <<t, u>>[2] = u
      OBVIOUS
    <3>3. EqualParts(t, u) \in
            {EqualParts(e[1], e[2]) : e \in {e \in types_in \X types_in : Term(e[1]) = Term(e[2])}}
      BY <2>2, <3>1, <3>2
    <3>4. QED
      BY <2>1, <3>3 DEF Consequences
  <2>4. ASSUME NEW i \in DOMAIN t.members PROVE P[Cell(t.members[i])] = P[Cell(u.members[i])]
    <3>1. <<Cell(t.members[i]), Cell(u.members[i])>> \in K
      BY <1>1, <2>3 DEF EqualParts
    <3>2. QED
      BY <1>5, <3>1
  <2>5. QED
    BY <2>2, <2>4
<1>7. ASSUME NEW t \in TermsOf(K), NEW p \in TermsOf(K), IsConstructor(t), p.tag = "part",
             Cell(p.members[1]) \in TermsOf(K), P[t] = P[Cell(p.members[1])], HasPart(t, p)
      PROVE  P[p] = P[PartOf(t, p)]
  <2>1. P[t] \in Classes(K) /\ t \in P[t] /\ Cell(p.members[1]) \in P[t]
    BY <1>3, <1>7
  <2>2. <<p, PartOf(t, p)>> \in Consequences(K)
    <3> DEFINE types_in == {v \in P[t] : IsConstructor(v)}
               parts == {q \in TermsOf(K) : q.tag = "part" /\ Cell(q.members[1]) \in P[t]}
    <3>1. <<t, p>> \in types_in \X parts
      BY <1>7, <2>1
    <3>2. <<t, p>>[1] = t /\ <<t, p>>[2] = p
      OBVIOUS
    <3>3. <<p, PartOf(t, p)>> \in
            {<<e[2], PartOf(e[1], e[2])>> : e \in {e \in types_in \X parts : HasPart(e[1], e[2])}}
      BY <1>7, <3>1, <3>2
    <3>4. QED
      BY <2>1, <3>3 DEF Consequences
  <2>3. QED
    BY <1>1, <1>5, <2>2
<1>8. Agrees(P, facts) /\ SeparatesTypes(P, TermsOf(facts)) /\ FindsParts(P, TermsOf(facts))
  <2>1. Agrees(P, facts)
    BY <1>1, <1>5 DEF Agrees
  <2>2. SeparatesTypes(P, TermsOf(facts))
    BY <1>4, <1>6 DEF SeparatesTypes
  <2>3. FindsParts(P, TermsOf(facts))
    BY <1>4, <1>7 DEF FindsParts
  <2>4. QED
    BY <2>1, <2>2, <2>3
<1>9. QED
  BY <1>8 DEF Reading

Satisfies(P, cells, tasks) ==
  \A i \in DOMAIN tasks : tasks[i].do = "unify" =>
    P[cells[tasks[i].l]] = IF tasks[i].index = 0 THEN P[cells[tasks[i].r]]
                           ELSE P[Part(tasks[i].r, tasks[i].index)]

HeldBy(P) ==
  /\ ~error_flag
  /\ \A c : Cell(c) \in TermsOf(given) => P[types[c]] = P[Cell(c)]
  /\ \A v \in DOMAIN env : P[env[v]] = P[Var(v)]
  /\ Satisfies(P, types, agenda)

\* The types in use, and what the facts mention.
InUse == Range(types) \cup Range(env)

Mentioned ==
  /\ Shaped(given)
  /\ \A c : Cell(c) \in TermsOf(given) => c \in DOMAIN types
  /\ InUse \subseteq TermsOf(given)
  /\ \A t \in TermsOf(given) : IsConstructor(t) =>
       \A i \in DOMAIN t.members : Cell(t.members[i]) \in TermsOf(given)
  /\ \A i \in DOMAIN agenda : agenda[i].do = "unify" /\ agenda[i].index # 0 =>
       {Cell(agenda[i].r), Part(agenda[i].r, agenda[i].index)} \subseteq TermsOf(given)

ReadInv == Mentioned /\ \A P : Reading(P, given) => HeldBy(P)

\* What a step does: a cell keeps its type, but for links that are followed and a variable
\* that is bound; no term is new.
CellsStay(cells) ==
  \A c \in DOMAIN types :
    \/ cells[c] \in {types[c], Follow(types[c])}
    \/ BindingVar /\ c = Task.l /\ cells[c] = Follow(Right)

Stays ==
  /\ CellsStay(types') /\ \A c \in DOMAIN types' : types'[c] \in InUse
  /\ env' = env \/ (BindingVar /\ env' = Binding(Follow(Right)))
  /\ given \subseteq given' /\ TermsOf(given') = TermsOf(given) /\ Shaped(given')

\* The reading of the facts after the step.
Reads(P) == Reading(P, given') /\ HeldBy(P)

NextWork ==
  \/ agenda' = <<Undefined>>
  \/ \E tasks \in Seq(EquationsOver(DOMAIN types')) :
       /\ agenda' = tasks \o Rest /\ \A i \in DOMAIN tasks : tasks[i].index = 0
       /\ \A P : Reads(P) => Satisfies(P, types', tasks)

LEMMA FollowInUse ==
  ASSUME UnifyInv, NEW t \in InUse
  PROVE  Follow(t) \in InUse
<1>1. Follow(t) = FollowIn(env, t) /\ FollowIn(env, t) \in {t} \cup Range(env)
  BY FollowsIn, FollowLeads DEF UnifyInv
<1>2. QED
  BY <1>1 DEF InUse

LEMMA InUseTypes ==
  ASSUME UnifyInv
  PROVE  InUse \subseteq TypesOver(DOMAIN types) /\ \A c \in DOMAIN types : types[c] \in InUse
BY DEF UnifyInv, InUse, Range

LEMMA FollowReads ==
  ASSUME UnifyInv, NEW P, \A v \in DOMAIN env : P[env[v]] = P[Var(v)], NEW t \in InUse
  PROVE  P[Follow(t)] = P[t]
<1>1. Steps(env) \in Nat
  BY FS_Subset, FS_CardinalityType DEF UnifyInv, Steps, Links
<1>2. PICK f \in [0 .. Steps(env) -> {t} \cup Range(env)] :
           /\ f[0] = t /\ \A n \in 1 .. Steps(env) : f[n] = Linked(env, f[n - 1])
           /\ FollowIn(env, t) = f[Steps(env)]
  BY Chain DEF UnifyInv
<1> DEFINE S == {n \in Int : P[f[n]] = P[t]}
<1>3. 0 \in S
  BY <1>2
<1>4. ASSUME NEW n \in 1 .. Steps(env), n - 1 \in S PROVE n \in S
  <2> DEFINE u == f[n - 1]
  <2>1. n - 1 \in 0 .. Steps(env) /\ f[n] = Linked(env, u)
    BY <1>1, <1>2
  <2>2. u \in InUse
    BY <1>2, <2>1 DEF InUse
  <2>3. u \in TypesOver(DOMAIN types)
    BY <2>2, InUseTypes
  <2> HIDE DEF u
  <2>4. P[Linked(env, u)] = P[u]
    <3>1. CASE BoundIn(env, u)
      <4>1. u = Var(u.name) /\ u.name \in DOMAIN env
        BY <2>3, <3>1, TypeIsType DEF BoundIn
      <4>2. QED
        BY <3>1, <4>1 DEF Linked
    <3>2. CASE ~BoundIn(env, u)
      BY <3>2 DEF Linked
    <3>3. QED
      BY <3>1, <3>2
  <2>5. QED
    BY <1>4, <2>1, <2>4 DEF u
<1>5. \A n \in 0 .. Steps(env) : n \in S
  <2> HIDE DEF S
  <2>1. QED
    BY <1>1, <1>3, <1>4, Inductive
<1>6. QED
  BY <1>1, <1>2, <1>5, FollowsIn

\* The equation at hand under a reading.
LEMMA TaskReads ==
  ASSUME UnifyInv, Mentioned, Unifying, NEW P, HeldBy(P)
  PROVE  /\ Left \in InUse /\ Right \in InUse
         /\ \A t \in InUse : P[Follow(t)] = P[t]
         /\ Task.index = 0 => P[Left] = P[Right]
         /\ Task.index # 0 =>
              /\ Cell(Task.r) \in TermsOf(given) /\ Part(Task.r, Task.index) \in TermsOf(given)
              /\ P[Left] = P[Part(Task.r, Task.index)] /\ P[Right] = P[Cell(Task.r)]
<1>1. agenda \in Seq(Tasks(DOMAIN types)) /\ agenda # <<>> /\ Task.do = "unify"
  BY DEF UnifyInv, Unifying, Idle
<1>2. 1 \in DOMAIN agenda /\ Task = agenda[1]
  BY <1>1 DEF Task
<1>3. Left \in InUse /\ Right \in InUse
  BY TaskAtHand, InUseTypes DEF Left, Right
<1>4. \A t \in InUse : P[Follow(t)] = P[t]
  BY FollowReads DEF HeldBy
<1>5. P[Left] = IF Task.index = 0 THEN P[Right] ELSE P[Part(Task.r, Task.index)]
  BY <1>1, <1>2 DEF HeldBy, Satisfies, Left, Right
<1>6. Task.index # 0 =>
        Cell(Task.r) \in TermsOf(given) /\ Part(Task.r, Task.index) \in TermsOf(given)
  BY <1>1, <1>2 DEF Mentioned
<1>7. Task.index # 0 => P[Right] = P[Cell(Task.r)]
  BY <1>6 DEF HeldBy, Right
<1>8. QED
  BY <1>3, <1>4, <1>5, <1>6, <1>7

LEMMA CellsRead ==
  ASSUME UnifyInv, Mentioned, Unifying, NEW P, HeldBy(P), NEW cells, CellsStay(cells)
  PROVE  \A c \in DOMAIN types : P[cells[c]] = P[types[c]]
<1> TAKE c \in DOMAIN types
<1>1. types[c] \in InUse
  BY InUseTypes
<1>2. CASE cells[c] \in {types[c], Follow(types[c])}
  BY <1>1, <1>2, TaskReads
<1>3. CASE BindingVar /\ c = Task.l /\ cells[c] = Follow(Right)
  BY <1>3, TaskReads DEF BindingVar, Left
<1>4. QED
  BY <1>2, <1>3 DEF CellsStay

\* An equation, or none, is put before the rest.
LEMMA OneMore ==
  ASSUME UnifyInv, Unifying, DOMAIN types \subseteq DOMAIN types',
         NEW l \in DOMAIN types', NEW r \in DOMAIN types', NEW stated \in BOOLEAN,
         agenda' = <<Equation(l, r, 0, stated)>> \o Rest,
         \A P : Reads(P) => P[types'[l]] = P[types'[r]]
  PROVE  NextWork
<1> DEFINE task == Equation(l, r, 0, stated)
<1>1. task \in EquationsOver(DOMAIN types')
  BY DEF Equation, EquationsOver
<1>2. task.l = l /\ task.r = r /\ task.index = 0
  BY DEF Equation
<1> HIDE DEF task
<1>3. <<task>> \in Seq(EquationsOver(DOMAIN types')) /\ \A i \in DOMAIN <<task>> : <<task>>[i] = task
  BY <1>1
<1>4. \A P : Reads(P) => Satisfies(P, types', <<task>>)
  BY <1>2, <1>3 DEF Satisfies
<1>5. \A i \in DOMAIN <<task>> : <<task>>[i].index = 0
  BY <1>2, <1>3
<1>6. agenda' = <<task>> \o Rest
  BY DEF task
<1>7. QED
  BY <1>3, <1>4, <1>5, <1>6 DEF NextWork

LEMMA NoMore ==
  ASSUME UnifyInv, Unifying, agenda' = Rest
  PROVE  NextWork
<1>1. <<>> \in Seq(EquationsOver(DOMAIN types')) /\ agenda' = <<>> \o Rest
  BY TaskAtHand
<1>2. \A P : Satisfies(P, types', <<>>)
  BY DEF Satisfies
<1>3. \A i \in DOMAIN <<>> : <<>>[i].index = 0
  OBVIOUS
<1>4. QED
  BY <1>1, <1>2, <1>3 DEF NextWork

\* A step that leaves the cells, the bindings and the facts alone.
LEMMA NothingMoves ==
  ASSUME UnifyInv, Mentioned, UNCHANGED <<types, env, given>>
  PROVE  Stays
<1>1. types' = types /\ env' = env /\ given' = given
  OBVIOUS
<1>2. CellsStay(types') /\ \A c \in DOMAIN types' : types'[c] \in InUse
  BY <1>1, InUseTypes DEF CellsStay
<1>3. given \subseteq given' /\ TermsOf(given') = TermsOf(given) /\ Shaped(given')
  BY <1>1 DEF Mentioned
<1>4. QED
  BY <1>1, <1>2, <1>3 DEF Stays

LEMMA SwapReads ==
  ASSUME UnifyInv, Mentioned, Swap
  PROVE  Stays /\ NextWork
<1>1. /\ Unifying /\ Task.index = 0 /\ UNCHANGED <<types, env, given>>
      /\ agenda' = <<Equation(Task.r, Task.l, 0, Task.stated)>> \o Rest
  BY DEF Swap
<1>2. \A P : Reads(P) => P[types[Task.r]] = P[types[Task.l]]
  BY <1>1, TaskReads DEF Reads, Left, Right
<1>3. NextWork
  BY <1>1, <1>2, TaskAtHand, OneMore
<1>4. QED
  BY <1>1, <1>3, NothingMoves

LEMMA GroundReads ==
  ASSUME UnifyInv, Mentioned, Mismatch \/ UnifyGround \/ UnifyCompound
  PROVE  Stays /\ NextWork
<1>1. /\ Unifying /\ UNCHANGED <<types, env, given>>
      /\ agenda' = Rest \/ agenda' = <<Undefined>>
  BY DEF Mismatch, UnifyGround, UnifyCompound
<1>2. NextWork
  BY <1>1, NoMore DEF NextWork
<1>3. QED
  BY <1>1, <1>2, NothingMoves

\* Types the facts make equal are of one constructor.
LEMMA NoMismatch ==
  ASSUME UnifyInv, Mentioned, NEW P, Reads(P), TermsOf(given') = TermsOf(given),
         Mismatch \/ UnifyCompound
  PROVE  ~error_flag'
<1>1. /\ Unifying /\ Task.index = 0
      /\ ~IsVar(Left) /\ ~IsVar(Right)
      /\ error_flag' => error_flag \/ Term(Left) # Term(Right)
  BY DEF Mismatch, UnifyCompound, IsVar, Term
<1>2. /\ Left \in TermsOf(given) /\ Right \in TermsOf(given) /\ P[Left] = P[Right]
  BY <1>1, TaskReads DEF Reads, Mentioned
<1>3. IsConstructor(Left) /\ IsConstructor(Right)
  BY <1>1, TaskAtHand DEF IsConstructor, TypesOver, IsVar, Ground, GroundTags, Var
<1>4. Term(Left) = Term(Right)
  BY <1>2, <1>3 DEF Reads, Reading, SeparatesTypes
<1>5. QED
  BY <1>1, <1>4 DEF Reads, HeldBy

LEMMA MemberReads ==
  ASSUME UnifyInv, Mentioned, UnifyMember
  PROVE  Stays /\ NextWork
<1> DEFINE w == Follow(Right)
           D == DOMAIN types
           p == Part(Task.r, Task.index)
<1>1. /\ Unifying /\ Task.index # 0 /\ env' = env
      /\ types' = [types EXCEPT ![Task.r] = w]
      /\ given' = IF IsVar(w) /\ ~IsVar(Left) THEN given \cup {<<p, Cell(Task.r)>>} ELSE given
  BY DEF UnifyMember
<1>2. /\ Task.l \in D /\ Task.r \in D /\ Task.stated \in BOOLEAN /\ Right \in InUse
      /\ w \in InUse /\ w \in TypesOver(D)
  BY <1>1, TaskAtHand, InUseTypes, FollowInUse DEF Right
<1>3. Cell(Task.r) \in TermsOf(given) /\ p \in TermsOf(given)
  <2>1. agenda \in Seq(Tasks(D)) /\ agenda # <<>> /\ Task.do = "unify"
    BY <1>1 DEF UnifyInv, Unifying, Idle
  <2>2. 1 \in DOMAIN agenda /\ Task = agenda[1]
    BY <2>1 DEF Task
  <2>3. QED
    BY <1>1, <2>1, <2>2 DEF Mentioned
<1>4. given \subseteq given' /\ TermsOf(given') = TermsOf(given) /\ Shaped(given')
  <2>1. CASE given' = given
    BY <2>1 DEF Mentioned
  <2>2. CASE given' = given \cup {<<p, Cell(Task.r)>>}
    <3> DEFINE q == Cell(Task.r)
    <3>1. <<p, q>>[1] = p /\ <<p, q>>[2] = q
      OBVIOUS
    <3> HIDE DEF p, q
    <3>2. given' = given \cup {<<p, q>>} /\ p \in TermsOf(given) /\ q \in TermsOf(given)
      BY <1>3, <2>2 DEF q
    <3>3. TermsOf(given') = TermsOf(given)
      BY <3>1, <3>2 DEF TermsOf
    <3>4. IsFiniteSet(given')
      BY <3>2, FS_AddElement DEF Mentioned, Shaped
    <3>5. \A e \in given' : e = <<e[1], e[2]>>
      BY <3>1, <3>2 DEF Mentioned, Shaped
    <3>6. QED
      BY <3>2, <3>3, <3>4, <3>5 DEF Mentioned, Shaped
  <2>3. QED
    BY <1>1, <2>1, <2>2
<1>5. CellsStay(types') /\ DOMAIN types' = D /\ \A c \in D : types'[c] \in InUse
  <2>1. \A c \in D : types'[c] = IF c = Task.r THEN w ELSE types[c]
    BY <1>1
  <2>2. \A c \in D : c = Task.r => w = Follow(types[c])
    BY DEF Right
  <2>3. DOMAIN types' = D
    BY <1>1
  <2> HIDE DEF w
  <2>4. QED
    BY <1>2, <2>1, <2>2, <2>3, InUseTypes DEF CellsStay
<1>6. Stays
  <2> HIDE DEF w, p
  <2>1. QED
    BY <1>1, <1>4, <1>5 DEF Stays
<1>7. ASSUME NEW P, Reads(P)
      PROVE  /\ P[Left] = P[p] /\ P[w] = P[Cell(Task.r)] /\ P[Right] = P[w]
             /\ \A c \in D : P[types'[c]] = P[types[c]]
             /\ IsConstructor(w) /\ HasPart(w, p) => P[p] = P[PartOf(w, p)]
  <2>1. HeldBy(P)
    BY <1>7 DEF Reads
  <2>2. P[Left] = P[p] /\ P[w] = P[Cell(Task.r)] /\ P[Right] = P[w]
    BY <1>1, <1>2, <2>1, TaskReads
  <2>3. \A c \in D : P[types'[c]] = P[types[c]]
    BY <1>1, <1>5, <2>1, CellsRead
  <2>4. w \in TermsOf(given')
    BY <1>2, <1>4 DEF Mentioned
  <2>5. p.tag = "part" /\ p.members[1] = Task.r
    BY DEF Part
  <2>6. FindsParts(P, TermsOf(given')) /\ p \in TermsOf(given') /\ Cell(Task.r) \in TermsOf(given')
    BY <1>3, <1>4, <1>7 DEF Reads, Reading
  <2> HIDE DEF w, p
  <2>7. IsConstructor(w) /\ HasPart(w, p) => P[p] = P[PartOf(w, p)]
    BY <2>2, <2>4, <2>5, <2>6 DEF FindsParts
  <2>8. QED
    BY <2>2, <2>3, <2>7
<1> SUFFICES NextWork
  BY <1>6
<1>8. CASE agenda' = Rest
  BY <1>1, <1>8, NoMore
<1>9. CASE agenda' = <<Undefined>>
  BY <1>9 DEF NextWork
<1>10. CASE /\ w.tag \in {"fn", "tuple", "struct"} /\ Task.index \in DOMAIN w.members
            /\ agenda' = <<Equation(Task.l, w.members[Task.index], 0, Task.stated)>> \o Rest
  <2> DEFINE m == w.members[Task.index]
  <2>1. w.members \in Seq(D)
    BY <1>2, TypeIsType
  <2>2. IsConstructor(w) /\ HasPart(w, p) /\ PartOf(w, p) = Cell(m)
    BY <1>10 DEF IsConstructor, HasPart, PartOf, Part
  <2> HIDE DEF w, p
  <2>3. m \in D
    BY <1>10, <2>1
  <2>4. Cell(m) \in TermsOf(given)
    BY <1>2, <1>10, <2>2 DEF Mentioned
  <2> HIDE DEF m
  <2>5. ASSUME NEW P, Reads(P) PROVE P[types'[Task.l]] = P[types'[m]]
    <3>1. P[types[m]] = P[Cell(m)]
      BY <2>4, <2>5 DEF Reads, HeldBy
    <3>2. P[Left] = P[Cell(m)]
      BY <1>7, <2>2, <2>5
    <3>3. QED
      BY <1>2, <1>7, <2>3, <2>5, <3>1, <3>2 DEF Left
  <2>6. agenda' = <<Equation(Task.l, m, 0, Task.stated)>> \o Rest
    BY <1>10 DEF m
  <2>7. QED
    BY <1>1, <1>2, <1>5, <2>3, <2>5, <2>6, OneMore
<1>11. CASE /\ w.tag \notin {"fn", "tuple", "struct"} /\ ~(IsVar(w) /\ IsVar(Left))
            /\ agenda' = <<Equation(Task.l, Task.r, 0, Task.stated)>> \o Rest
  <2>1. ASSUME NEW P, Reads(P) PROVE P[types'[Task.l]] = P[types'[Task.r]]
    <3>1. P[p] = P[Cell(Task.r)]
      <4>1. CASE IsVar(w)
        <5>1. <<p, Cell(Task.r)>> \in given'
          BY <1>1, <1>11, <4>1
        <5>2. Agrees(P, given')
          BY <2>1 DEF Reads, Reading
        <5> DEFINE e == <<p, Cell(Task.r)>>
        <5>3. e[1] = p /\ e[2] = Cell(Task.r)
          OBVIOUS
        <5> HIDE DEF p, e
        <5>4. P[e[1]] = P[e[2]]
          BY <5>1, <5>2 DEF Agrees, e
        <5>5. QED
          BY <5>3, <5>4
      <4>2. CASE ~IsVar(w)
        <5>1. IsConstructor(w)
          BY <1>2, <4>2 DEF IsConstructor, TypesOver, IsVar, Ground, GroundTags, Var
        <5>2. HasPart(w, p) /\ PartOf(w, p) = Cell(Task.r)
          BY <1>11 DEF HasPart, PartOf, Part
        <5> HIDE DEF w, p
        <5>3. QED
          BY <1>7, <2>1, <5>1, <5>2
      <4>3. QED
        BY <4>1, <4>2
    <3> HIDE DEF w, p
    <3>2. QED
      BY <1>2, <1>7, <2>1, <3>1 DEF Left, Right
  <2>2. QED
    BY <1>1, <1>2, <1>5, <1>11, <2>1, OneMore
<1>12. QED
  BY <1>8, <1>9, <1>10, <1>11 DEF UnifyMember

LEMMA FnsRead ==
  ASSUME UnifyInv, Mentioned, UnifyFns
  PROVE  Stays /\ NextWork
<1> DEFINE D == DOMAIN types
           n == Len(types)
           arity == Len(Left.members)
           copies == [i \in 1 .. 2 * arity |->
                        IF i <= arity THEN types[Left.members[i]]
                        ELSE types[Right.members[i - arity]]]
           equations == [i \in 1 .. arity |-> Equation(n + i, n + arity + i, 0, Task.stated)]
<1>1. /\ Unifying /\ Task.index = 0 /\ Left.tag = "fn" /\ Right.tag = "fn"
      /\ env' = env /\ given' = given
  BY DEF UnifyFns
<1>2. CASE types' = types /\ agenda' = Rest
  BY <1>1, <1>2, NothingMoves, NoMore
<1>3. CASE /\ Len(Right.members) = arity
           /\ types' = types \o copies /\ agenda' = equations \o Rest
  <2>1. /\ n \in Nat /\ D = 1 .. n /\ Task.stated \in BOOLEAN
        /\ types \in Seq(InUse) /\ \A c \in D : types[c] \in InUse
    <3>1. types = [c \in 1 .. n |-> types[c]] /\ n \in Nat /\ D = 1 .. n
      BY <1>1, TaskAtHand
    <3>2. \A c \in D : types[c] \in InUse
      BY InUseTypes
    <3> HIDE DEF n
    <3>3. types \in Seq(InUse)
      BY <3>1, <3>2
    <3>4. QED
      BY <1>1, <3>1, <3>2, <3>3, TaskAtHand
  <2>2. /\ Left.members \in Seq(D) /\ Right.members \in Seq(D)
        /\ arity \in Nat /\ DOMAIN Left.members = 1 .. arity /\ DOMAIN Right.members = 1 .. arity
    BY <1>1, <1>3, TaskAtHand, TypeIsType
  <2>3. /\ \A i \in 1 .. arity : Left.members[i] \in D /\ Right.members[i] \in D
    BY <2>2
  <2>4. /\ copies \in Seq(InUse) /\ Len(copies) = 2 * arity
        /\ \A i \in 1 .. arity : /\ copies[i] = types[Left.members[i]]
                                 /\ copies[arity + i] = types[Right.members[i]]
    <3> HIDE DEF arity
    <3>1. ASSUME NEW i \in 1 .. 2 * arity PROVE copies[i] \in InUse
      <4>1. CASE i <= arity
        BY <2>1, <2>2, <2>3, <4>1
      <4>2. CASE ~(i <= arity)
        <5>1. i - arity \in 1 .. arity
          BY <2>2, <4>2
        <5>2. QED
          BY <2>1, <2>3, <4>2, <5>1
      <4>3. QED
        BY <4>1, <4>2
    <3>2. ASSUME NEW i \in 1 .. arity
          PROVE  copies[i] = types[Left.members[i]] /\ copies[arity + i] = types[Right.members[i]]
      <4>1. /\ i \in 1 .. 2 * arity /\ arity + i \in 1 .. 2 * arity /\ i <= arity
            /\ ~(arity + i <= arity) /\ (arity + i) - arity = i
        BY <2>2
      <4>2. QED
        BY <4>1
    <3>3. 2 * arity \in Nat /\ copies = [i \in 1 .. 2 * arity |-> copies[i]]
      BY <2>2
    <3> HIDE DEF copies
    <3>4. copies \in Seq(InUse) /\ Len(copies) = 2 * arity
      BY <3>1, <3>3
    <3>5. QED
      BY <3>2, <3>4
  <2> HIDE DEF copies
  <2>5. /\ types' \in Seq(InUse) /\ DOMAIN types' = 1 .. n + 2 * arity
        /\ \A c \in D : types'[c] = types[c]
        /\ \A i \in 1 .. 2 * arity : types'[n + i] = copies[i]
    <3>1. /\ types \o copies \in Seq(InUse)
          /\ Len(types \o copies) = Len(types) + Len(copies)
          /\ \A c \in 1 .. Len(types) : (types \o copies)[c] = types[c]
          /\ \A c \in 1 .. Len(copies) : (types \o copies)[Len(types) + c] = copies[c]
      <4>1. types \in Seq(InUse) /\ copies \in Seq(InUse)
        BY <2>1, <2>4
      <4>2. QED
        BY <4>1, Joined
    <3>2. DOMAIN types' = 1 .. Len(types')
      BY <1>3, <3>1
    <3> HIDE DEF arity
    <3>3. QED
      BY <1>3, <2>1, <2>2, <2>4, <3>1, <3>2
  <2>6. Stays
    <3>1. CellsStay(types') /\ \A c \in DOMAIN types' : types'[c] \in InUse
      <4>1. \A c \in DOMAIN types' : types'[c] \in InUse
        BY <2>5
      <4>2. QED
        BY <2>5, <4>1 DEF CellsStay
    <3> HIDE DEF arity, n, equations
    <3>2. QED
      BY <1>1, <3>1 DEF Stays, Mentioned
  <2>7. ASSUME NEW i \in 1 .. arity
        PROVE  /\ n + i \in DOMAIN types' /\ n + arity + i \in DOMAIN types'
               /\ types'[n + i] = types[Left.members[i]]
               /\ types'[n + arity + i] = types[Right.members[i]]
    <3> HIDE DEF n, arity
    <3>1. i \in 1 .. 2 * arity /\ arity + i \in 1 .. 2 * arity /\ n + (arity + i) = n + arity + i
      BY <2>1, <2>2
    <3>2. n + i \in 1 .. n + 2 * arity /\ n + arity + i \in 1 .. n + 2 * arity
      BY <2>1, <2>2
    <3>3. QED
      BY <2>4, <2>5, <3>1, <3>2
  <2>8. ASSUME NEW P, Reads(P), NEW i \in 1 .. arity
        PROVE  P[types[Left.members[i]]] = P[types[Right.members[i]]]
    <3>1. HeldBy(P) /\ Left \in TermsOf(given) /\ Right \in TermsOf(given) /\ P[Left] = P[Right]
      BY <1>1, <2>8, TaskReads DEF Reads, Mentioned
    <3>2. IsConstructor(Left) /\ IsConstructor(Right)
      BY <1>1 DEF IsConstructor
    <3>3. P[Cell(Left.members[i])] = P[Cell(Right.members[i])]
      BY <1>1, <2>2, <2>8, <3>1, <3>2 DEF Reads, Reading, SeparatesTypes
    <3>4. Cell(Left.members[i]) \in TermsOf(given) /\ Cell(Right.members[i]) \in TermsOf(given)
      BY <2>2, <3>1, <3>2 DEF Mentioned
    <3>5. QED
      BY <3>1, <3>3, <3>4 DEF HeldBy
  <2> HIDE DEF arity, n
  <2>9. ASSUME NEW i \in 1 .. arity
        PROVE  /\ equations[i] \in EquationsOver(DOMAIN types') /\ equations[i].index = 0
               /\ equations[i].l = n + i /\ equations[i].r = n + arity + i
    BY <2>1, <2>7 DEF Equation, EquationsOver
  <2>10. DOMAIN equations = 1 .. arity /\ equations = [i \in 1 .. arity |-> equations[i]]
    OBVIOUS
  <2> HIDE DEF equations
  <2>11. equations \in Seq(EquationsOver(DOMAIN types'))
    BY <2>2, <2>9, <2>10
  <2>12. ASSUME NEW P, Reads(P) PROVE Satisfies(P, types', equations)
    BY <2>7, <2>8, <2>9, <2>10, <2>12 DEF Satisfies
  <2>13. NextWork
    BY <1>3, <2>9, <2>10, <2>11, <2>12 DEF NextWork
  <2>14. QED
    BY <2>6, <2>13
<1>4. QED
  BY <1>2, <1>3 DEF UnifyFns

\* A variable on the left: the equation on its old binding holds of every reading.
LEMMA OldBindingReads ==
  ASSUME UnifyInv, Mentioned, BindingVar, given' = given,
         env' = env \/ env' = Binding(Follow(Right)),
         NEW cells \in Seq(TypesOver(DOMAIN types)), Len(cells) = Len(types),
         CellsStay(cells), ThenOldBinding(cells)
  PROVE  Stays /\ NextWork
<1> DEFINE D == DOMAIN types
           old == env[Left.name]
<1>1. /\ Unifying /\ Task.index = 0 /\ Task.l \in D /\ Len(types) \in Nat /\ D = 1 .. Len(types)
      /\ IsVar(Left) /\ Left = Var(Left.name) /\ IsSequence(cells) /\ DOMAIN cells = D
  BY TaskAtHand, TypeIsType, SequenceOf DEF BindingVar
<1>2. \A c \in D : cells[c] \in InUse
  <2> TAKE c \in D
  <2>1. types[c] \in InUse /\ Right \in InUse
    BY <1>1, TaskAtHand, InUseTypes DEF Right
  <2>2. Follow(types[c]) \in InUse /\ Follow(Right) \in InUse
    BY <2>1, FollowInUse
  <2>3. QED
    BY <2>1, <2>2 DEF CellsStay
<1>3. CASE types' = cells /\ agenda' = Rest
  <2>1. Stays
    BY <1>1, <1>2, <1>3 DEF Stays, Mentioned
  <2>2. QED
    BY <1>1, <1>3, <2>1, NoMore
<1>4. CASE /\ IsBound(Left) /\ types' = Append(cells, old)
           /\ agenda' = <<Equation(Len(cells) + 1, Task.l, 0, FALSE)>> \o Rest
  <2>1. /\ \A c \in D : types'[c] = cells[c]
        /\ types'[Len(cells) + 1] = old /\ DOMAIN types' = 1 .. Len(cells) + 1
    <3>1. IsSequence(types') /\ Len(types') = Len(cells) + 1 /\ types'[Len(cells) + 1] = old
      BY <1>1, <1>4, AppendIsSequence
    <3>2. \A c \in D : types'[c] = cells[c]
      BY <1>1, <1>4, AppendIsSequence
    <3>3. DOMAIN types' = 1 .. Len(types')
      BY <3>1 DEF IsSequence
    <3>4. QED
      BY <3>1, <3>2, <3>3
  <2>2. Left.name \in DOMAIN env /\ old \in InUse
    BY <1>4 DEF IsBound, InUse, Range
  <2> HIDE DEF old
  <2>3. \A c \in DOMAIN types' : c \in D \/ c = Len(cells) + 1
    BY <1>1, <2>1
  <2>4. CellsStay(types') /\ \A c \in DOMAIN types' : types'[c] \in InUse
    BY <1>2, <2>1, <2>2, <2>3 DEF CellsStay
  <2>5. Stays
    BY <2>4 DEF Stays, Mentioned
  <2>6. Task.l \in DOMAIN types' /\ Len(cells) + 1 \in DOMAIN types' /\ D \subseteq DOMAIN types'
    BY <1>1, <2>1
  <2>7. ASSUME NEW P, Reads(P) PROVE P[types'[Len(cells) + 1]] = P[types'[Task.l]]
    <3>1. HeldBy(P)
      BY <2>7 DEF Reads
    <3>2. P[types'[Task.l]] = P[Left]
      BY <1>1, <2>4, <3>1, CellsRead DEF Left
    <3>3. P[old] = P[Left]
      BY <1>1, <2>2, <3>1 DEF HeldBy, old
    <3>4. QED
      BY <2>1, <3>2, <3>3
  <2>8. NextWork
    BY <1>1, <1>4, <2>6, <2>7, OneMore
  <2>9. QED
    BY <2>5, <2>8
<1>5. QED
  BY <1>3, <1>4 DEF ThenOldBinding

LEMMA VariableReads ==
  ASSUME UnifyInv, Mentioned, UnifyVarFn \/ UnifySameVar \/ UnifyVars
  PROVE  Stays /\ NextWork
<1> DEFINE D == DOMAIN types
<1>1. BindingVar /\ Unifying /\ given' = given
  BY DEF UnifyVarFn, UnifySameVar, UnifyVars, BindingVar
<1>2. /\ types \in Seq(TypesOver(D)) /\ Len(types) \in Nat /\ D = 1 .. Len(types)
      /\ Task.l \in D /\ Task.r \in D /\ Right \in TypesOver(D) /\ IsVar(Left)
  BY <1>1, TaskAtHand DEF BindingVar
<1>3. CASE UnifySameVar
  <2>1. CellsStay(types) /\ ThenOldBinding(types) /\ env' = env
    BY <1>3 DEF CellsStay, UnifySameVar
  <2>2. QED
    BY <1>1, <1>2, <2>1, OldBindingReads
<1>4. CASE UnifyVarFn
  <2> DEFINE members == Range(Right.members)
             cells == [c \in D |-> IF c = Task.l THEN Right
                                   ELSE IF c \in members THEN Follow(types[c])
                                   ELSE types[c]]
  <2>1. ThenOldBinding(cells) /\ env' = Binding(Right) /\ Right.tag \in {"fn", "tuple"}
    BY <1>4 DEF UnifyVarFn
  <2>2. Follow(Right) = Right
    BY <2>1, FollowUnbound DEF IsBound, IsVar
  <2>3. cells \in Seq(TypesOver(D)) /\ Len(cells) = Len(types)
    <3>1. \A c \in D : cells[c] \in TypesOver(D)
      BY <1>2, FollowTypes
    <3>2. cells = [c \in 1 .. Len(types) |-> cells[c]]
      BY <1>2
    <3> HIDE DEF cells
    <3>3. QED
      BY <1>2, <3>1, <3>2
  <2>4. CellsStay(cells)
    BY <1>1, <1>2, <2>2 DEF CellsStay
  <2> HIDE DEF cells
  <2>5. QED
    BY <1>1, <2>1, <2>2, <2>3, <2>4, OldBindingReads
<1>5. CASE UnifyVars
  <2> DEFINE w == Follow(Right)
             cells == [types EXCEPT ![Task.r] = w, ![Task.l] = IF IsVar(w) THEN @ ELSE w]
  <2>1. ThenOldBinding(cells) /\ env' = Binding(w)
    BY <1>5 DEF UnifyVars
  <2>2. w \in TypesOver(D) /\ (\A c \in D : c = Task.r => w = Follow(types[c]))
    BY <1>2, FollowTypes DEF Right
  <2> HIDE DEF w
  <2>3. cells \in Seq(TypesOver(D)) /\ Len(cells) = Len(types)
    BY <1>2, <2>2
  <2>4. CellsStay(cells)
    <3>1. \A c \in D : \/ cells[c] = types[c]
                       \/ c = Task.r /\ cells[c] = w
                       \/ c = Task.l /\ cells[c] = w
      BY <1>2, <2>2
    <3> HIDE DEF cells
    <3>2. QED
      BY <1>1, <2>2, <3>1 DEF CellsStay, w
  <2> HIDE DEF cells
  <2>5. QED
    BY <1>1, <2>1, <2>3, <2>4, OldBindingReads DEF w
<1>6. QED
  BY <1>3, <1>4, <1>5

LEMMA StepReads ==
  ASSUME UnifyInv, Mentioned, UnifyStep
  PROVE  Stays /\ NextWork
BY MemberReads, SwapReads, GroundReads, FnsRead, VariableReads DEF UnifyStep

\* The invariant holds after a step: of the terms mentioned ...
LEMMA MentionedStays ==
  ASSUME UnifyInv, Mentioned, Unifying, Stays, NextWork, DOMAIN types \subseteq DOMAIN types'
  PROVE  Mentioned'
<1>1. TermsOf(given)' = TermsOf(given)
  BY DEF Stays, TermsOf
<1>2. Shaped(given)'
  <2>1. Shaped(given')
    BY DEF Stays
  <2>2. QED
    BY <2>1 DEF Shaped, TermsOf
<1>3. InUse' \subseteq TermsOf(given)
  <2>1. \A v \in DOMAIN env' : env'[v] \in InUse
    <3>1. CASE env' = env
      BY <3>1 DEF InUse, Range
    <3>2. CASE BindingVar /\ env' = Binding(Follow(Right))
      <4>1. Follow(Right) \in InUse
        BY TaskAtHand, InUseTypes, FollowInUse DEF Right
      <4>2. QED
        BY <3>2, <4>1 DEF Binding, InUse, Range
    <3>3. QED
      BY <3>1, <3>2 DEF Stays
  <2>2. \A c \in DOMAIN types' : types'[c] \in InUse
    BY DEF Stays
  <2>3. InUse' \subseteq InUse
    BY <2>1, <2>2 DEF InUse, Range
  <2>4. QED
    BY <2>3 DEF Mentioned
<1>4. ASSUME NEW i \in DOMAIN agenda', agenda'[i].do = "unify", agenda'[i].index # 0
      PROVE  {Cell(agenda'[i].r), Part(agenda'[i].r, agenda'[i].index)} \subseteq TermsOf(given)
  <2>1. agenda' # <<Undefined>>
    BY <1>4 DEF Undefined
  <2>2. PICK tasks \in Seq(EquationsOver(DOMAIN types')) :
          agenda' = tasks \o Rest /\ \A j \in DOMAIN tasks : tasks[j].index = 0
    BY <2>1 DEF NextWork
  <2>3. agenda \in Seq(Tasks(DOMAIN types)) /\ agenda # <<>>
    BY DEF UnifyInv, Unifying, Idle
  <2>4. PICK j \in DOMAIN agenda : agenda'[i] = agenda[j]
    <3>1. /\ Rest \in Seq(Tasks(DOMAIN types))
          /\ \A j \in 1 .. Len(Rest) : j + 1 \in DOMAIN agenda /\ Rest[j] = agenda[j + 1]
      BY <2>3 DEF Rest
    <3> DEFINE X == EquationsOver(DOMAIN types') \cup Tasks(DOMAIN types)
    <3>2. tasks \in Seq(X) /\ Rest \in Seq(X)
      BY <3>1, SeqMonotonic
    <3> HIDE DEF X
    <3>3. /\ tasks \o Rest \in Seq(X) /\ Len(tasks \o Rest) = Len(tasks) + Len(Rest)
          /\ \A k \in 1 .. Len(tasks) : (tasks \o Rest)[k] = tasks[k]
          /\ \A k \in 1 .. Len(Rest) : (tasks \o Rest)[Len(tasks) + k] = Rest[k]
      BY <3>2, Joined
    <3>4. Len(tasks) \in Nat /\ Len(Rest) \in Nat /\ DOMAIN tasks = 1 .. Len(tasks)
          /\ i \in 1 .. Len(tasks) + Len(Rest)
      BY <2>2, <3>2, <3>3
    <3>5. i \notin 1 .. Len(tasks)
      BY <1>4, <2>2, <3>3, <3>4
    <3>6. i - Len(tasks) \in 1 .. Len(Rest) /\ Len(tasks) + (i - Len(tasks)) = i
      BY <3>4, <3>5
    <3>7. agenda'[i] = Rest[i - Len(tasks)]
      BY <2>2, <3>3, <3>6
    <3>8. QED
      BY <3>1, <3>6, <3>7
  <2>5. QED
    BY <1>4, <2>4 DEF Mentioned
<1>5. QED
  BY <1>1, <1>2, <1>3, <1>4 DEF Mentioned

\* ... and of every reading.
LEMMA HeldStays ==
  ASSUME UnifyInv, Mentioned, UnifyStep, Stays, NextWork, DOMAIN types \subseteq DOMAIN types',
         NEW P, Reads(P)
  PROVE  HeldBy(P)'
<1>1. Unifying /\ HeldBy(P) /\ TermsOf(given') = TermsOf(given)
  BY DEF UnifyStep, UnifyMember, Swap, Mismatch, UnifyGround, UnifyFns, UnifyCompound,
         UnifyVarFn, UnifySameVar, UnifyVars, BindingVar, Reads, Stays
<1>2. ~error_flag'
  <2>1. CASE Mismatch \/ UnifyCompound
    BY <1>1, <2>1, NoMismatch
  <2>2. CASE ~(Mismatch \/ UnifyCompound)
    <3>1. error_flag' = error_flag
      BY <2>2 DEF UnifyStep, UnifyMember, Swap, UnifyGround, UnifyFns, UnifyVarFn, UnifySameVar,
                  UnifyVars
    <3>2. QED
      BY <1>1, <3>1 DEF HeldBy
  <2>3. QED
    BY <2>1, <2>2
<1>3. \A c \in DOMAIN types : P[types'[c]] = P[types[c]]
  BY <1>1, CellsRead DEF Stays
<1>4. ASSUME NEW c, Cell(c) \in TermsOf(given') PROVE P[types'[c]] = P[Cell(c)]
  BY <1>1, <1>3, <1>4 DEF HeldBy, Mentioned
<1>5. ASSUME NEW v \in DOMAIN env' PROVE P[env'[v]] = P[Var(v)]
  <2>1. CASE env' = env
    BY <1>1, <2>1 DEF HeldBy
  <2>2. CASE BindingVar /\ env' = Binding(Follow(Right))
    <3>1. Left = Var(Left.name) /\ Task.index = 0
      BY <1>1, <2>2, TaskAtHand, TypeIsType DEF BindingVar
    <3>2. P[Follow(Right)] = P[Left]
      BY <1>1, <3>1, TaskReads
    <3>3. CASE v = Left.name
      BY <2>2, <3>1, <3>2, <3>3 DEF Binding
    <3>4. CASE v # Left.name
      BY <1>1, <2>2, <3>4 DEF Binding, HeldBy
    <3>5. QED
      BY <3>3, <3>4
  <2>3. QED
    BY <2>1, <2>2 DEF Stays
<1>6. ASSUME NEW i \in DOMAIN agenda', agenda'[i].do = "unify"
      PROVE  P[types'[agenda'[i].l]] = IF agenda'[i].index = 0 THEN P[types'[agenda'[i].r]]
                                       ELSE P[Part(agenda'[i].r, agenda'[i].index)]
  <2>1. agenda' # <<Undefined>>
    BY <1>6 DEF Undefined
  <2>2. PICK tasks \in Seq(EquationsOver(DOMAIN types')) :
          agenda' = tasks \o Rest /\ Satisfies(P, types', tasks)
    BY <2>1 DEF NextWork
  <2>3. /\ agenda \in Seq(Tasks(DOMAIN types)) /\ agenda # <<>>
    BY <1>1 DEF UnifyInv, Unifying, Idle
  <2>4. /\ Rest \in Seq(Tasks(DOMAIN types))
        /\ \A j \in 1 .. Len(Rest) : j + 1 \in DOMAIN agenda /\ Rest[j] = agenda[j + 1]
    BY <2>3 DEF Rest
  <2> DEFINE X == EquationsOver(DOMAIN types') \cup Tasks(DOMAIN types)
  <2>5. tasks \in Seq(X) /\ Rest \in Seq(X)
    BY <2>4, SeqMonotonic
  <2> HIDE DEF X
  <2>6. /\ tasks \o Rest \in Seq(X) /\ Len(tasks \o Rest) = Len(tasks) + Len(Rest)
        /\ \A k \in 1 .. Len(tasks) : (tasks \o Rest)[k] = tasks[k]
        /\ \A k \in 1 .. Len(Rest) : (tasks \o Rest)[Len(tasks) + k] = Rest[k]
    BY <2>5, Joined
  <2>7. Len(tasks) \in Nat /\ Len(Rest) \in Nat /\ DOMAIN tasks = 1 .. Len(tasks)
        /\ i \in 1 .. Len(tasks) + Len(Rest)
    BY <2>2, <2>5, <2>6
  <2>8. CASE i \in 1 .. Len(tasks)
    BY <1>6, <2>2, <2>6, <2>7, <2>8 DEF Satisfies
  <2>9. CASE i \notin 1 .. Len(tasks)
    <3> DEFINE k == i - Len(tasks)
    <3>1. k \in 1 .. Len(Rest) /\ Len(tasks) + k = i
      BY <2>7, <2>9
    <3>2. agenda'[i] = Rest[k]
      BY <2>2, <2>6, <3>1
    <3> HIDE DEF k
    <3>3. k + 1 \in DOMAIN agenda /\ agenda'[i] = agenda[k + 1]
      BY <2>4, <3>1, <3>2
    <3>4. agenda[k + 1] \in EquationsOver(DOMAIN types)
      BY <1>6, <2>3, <3>3 DEF Tasks, CallersTasks, Undefined
    <3>5. agenda[k + 1].l \in DOMAIN types /\ agenda[k + 1].r \in DOMAIN types
      BY <3>4 DEF EquationsOver
    <3>6. P[types[agenda[k + 1].l]] =
            IF agenda[k + 1].index = 0 THEN P[types[agenda[k + 1].r]]
            ELSE P[Part(agenda[k + 1].r, agenda[k + 1].index)]
      BY <1>1, <1>6, <3>3 DEF HeldBy, Satisfies
    <3>7. QED
      BY <1>3, <3>3, <3>5, <3>6
  <2>10. QED
    BY <2>8, <2>9
<1>7. QED
  BY <1>1, <1>2, <1>4, <1>5, <1>6 DEF HeldBy, Satisfies, TermsOf

LEMMA ReadStep ==
  ASSUME UnifyInv, ReadInv, UnifyStep
  PROVE  ReadInv'
<1>1. Mentioned /\ Stays /\ NextWork
  BY StepReads DEF ReadInv
<1>2. DOMAIN types \subseteq DOMAIN types'
  BY StepUnifies DEF Unifies
<1>3. Unifying
  BY DEF UnifyStep, UnifyMember, Swap, Mismatch, UnifyGround, UnifyFns, UnifyCompound,
         UnifyVarFn, UnifySameVar, UnifyVars, BindingVar
<1>4. Mentioned'
  BY <1>1, <1>2, <1>3, MentionedStays
<1>5. ASSUME NEW P, Reading(P, given') PROVE HeldBy(P)'
  <2>1. Reading(P, given)
    BY <1>1, <1>5 DEF Stays, Reading, Agrees
  <2>2. Reads(P)
    BY <1>5, <2>1 DEF Reads, ReadInv
  <2>3. QED
    BY <1>1, <1>2, <2>2, HeldStays
<1>6. \A P : Reading(P, given)' => HeldBy(P)'
  BY <1>5 DEF Reading, Agrees, SeparatesTypes, FindsParts, TermsOf
<1>7. QED
  BY <1>4, <1>6 DEF ReadInv

\* What is said at the start: what every cell holds, and the equations.
LEMMA InitReads ==
  ASSUME UnifyInit, UnifyInv
  PROVE  ReadInv
<1> DEFINE D == DOMAIN types
           holds == [c \in D |-> <<Cell(c), types[c]>>]
           says == [i \in DOMAIN agenda |-> Said(agenda[i])]
<1>1. /\ types \in Seq(TypesOver(D)) /\ Len(types) \in Nat /\ D = 1 .. Len(types)
      /\ \A c \in D : types[c] \in TypesOver(D)
  BY DEF UnifyInv
<1>2. agenda \in Seq(Statements) /\ DOMAIN env = {} /\ error_flag = FALSE
  BY DEF UnifyInit, NothingUnified
<1>3. \A i \in DOMAIN agenda :
        agenda[i].l \in D /\ agenda[i].r \in D /\ agenda[i].index \in Nat
  <2>1. \A i \in DOMAIN agenda : agenda[i] \in Statements
    BY <1>2
  <2>2. QED
    BY <2>1 DEF Statements
<1>4. given = Range(holds) \cup Range(says)
  BY DEF UnifyInit, Range
<1>5. IsFiniteSet(given)
  <2>1. IsFiniteSet(D) /\ IsFiniteSet(DOMAIN agenda)
    <3>1. Len(agenda) \in Nat /\ DOMAIN agenda = 1 .. Len(agenda)
      BY <1>2
    <3>2. QED
      BY <1>1, <3>1, FS_Interval
  <2>2. IsFiniteSet(Range(holds)) /\ IsFiniteSet(Range(says))
    <3>1. DOMAIN holds = D /\ DOMAIN says = DOMAIN agenda
      OBVIOUS
    <3> HIDE DEF holds, says
    <3>2. QED
      BY <2>1, <3>1, FiniteRange
  <2> HIDE DEF holds, says
  <2>3. QED
    BY <1>4, <2>2, FS_Union
<1>6. ASSUME NEW e \in given
      PROVE  \/ \E c \in D : e = <<Cell(c), types[c]>>
             \/ \E i \in DOMAIN agenda : e = Said(agenda[i])
  BY DEF UnifyInit, Range
<1>7. ASSUME NEW i \in DOMAIN agenda
      PROVE  /\ Said(agenda[i]) = <<Said(agenda[i])[1], Said(agenda[i])[2]>>
             /\ Said(agenda[i])[1] = Cell(agenda[i].l)
             /\ Said(agenda[i])[2] = IF agenda[i].index = 0 THEN Cell(agenda[i].r)
                                     ELSE Part(agenda[i].r, agenda[i].index)
  BY DEF Said
<1>8. ASSUME NEW t \in TermsOf(given)
      PROVE  \/ \E c \in D : t = Cell(c)
             \/ \E c \in D : t = types[c]
             \/ \E i \in DOMAIN agenda : agenda[i].index # 0 /\ t = Part(agenda[i].r, agenda[i].index)
  <2>1. PICK e \in given : t = e[1] \/ t = e[2]
    BY DEF TermsOf
  <2>2. CASE \E c \in D : e = <<Cell(c), types[c]>>
    <3>1. PICK c \in D : e = <<Cell(c), types[c]>>
      BY <2>2
    <3>2. e[1] = Cell(c) /\ e[2] = types[c]
      BY <3>1
    <3>3. QED
      BY <2>1, <3>2
  <2>3. CASE \E i \in DOMAIN agenda : e = Said(agenda[i])
    BY <1>3, <1>7, <2>1, <2>3
  <2>4. QED
    BY <1>6, <2>2, <2>3
<1>9. ASSUME NEW c \in D
      PROVE  /\ <<Cell(c), types[c]>> \in given
             /\ Cell(c) \in TermsOf(given) /\ types[c] \in TermsOf(given)
  <2> DEFINE e == <<Cell(c), types[c]>>
  <2>1. e \in given
    BY DEF UnifyInit
  <2>2. e[1] = Cell(c) /\ e[2] = types[c]
    OBVIOUS
  <2> HIDE DEF e
  <2>3. QED
    BY <2>1, <2>2 DEF TermsOf, e
<1>10. ASSUME NEW i \in DOMAIN agenda
       PROVE  /\ Said(agenda[i]) \in given
              /\ agenda[i].index # 0 => Part(agenda[i].r, agenda[i].index) \in TermsOf(given)
  <2>1. Said(agenda[i]) \in given
    BY DEF UnifyInit, Range
  <2>2. QED
    BY <1>7, <2>1 DEF TermsOf
<1>11. ASSUME NEW c \in D
       PROVE  /\ types[c].tag \notin {"cell", "part"} /\ types[c].members \in Seq(D)
              /\ Cell(c).tag = "cell" /\ Cell(c).members = <<c>>
  <2>1. types[c] \in TypesOver(D)
    BY <1>1
  <2>2. types[c].tag \notin {"cell", "part"}
    BY <2>1 DEF TypesOver, Var, Ground, GroundTags
  <2>3. types[c].members \in Seq(D)
    BY <2>1, TypeIsType
  <2>4. Cell(c).tag = "cell" /\ Cell(c).members = <<c>>
    BY DEF Cell
  <2>5. QED
    BY <2>2, <2>3, <2>4
<1>12. Shaped(given)
  <2>1. \A e \in given : e = <<e[1], e[2]>>
    <3> TAKE e \in given
    <3>1. CASE \E c \in D : e = <<Cell(c), types[c]>>
      BY <3>1
    <3>2. CASE \E i \in DOMAIN agenda : e = Said(agenda[i])
      BY <1>7, <3>2
    <3>3. QED
      BY <1>6, <3>1, <3>2
  <2>2. ASSUME NEW t \in TermsOf(given)
        PROVE  t.members \in Seq(Nat) /\ (t.tag = "part" => Len(t.members) = 1)
    <3>1. CASE \E c \in D : t = Cell(c)
      <4>1. PICK c \in D : t = Cell(c)
        BY <3>1
      <4>2. t.tag = "cell" /\ t.members = <<c>> /\ c \in Nat
        BY <1>1, <1>11, <4>1
      <4>3. QED
        BY <4>2
    <3>2. CASE \E c \in D : t = types[c]
      <4>1. Seq(D) \subseteq Seq(Nat)
        BY <1>1, SeqMonotonic
      <4>2. QED
        BY <1>11, <3>2, <4>1
    <3>3. CASE \E i \in DOMAIN agenda :
                 agenda[i].index # 0 /\ t = Part(agenda[i].r, agenda[i].index)
      <4>1. PICK r \in D : t.members = <<r>> /\ t.tag = "part"
        BY <1>3, <3>3 DEF Part
      <4>2. QED
        BY <1>1, <4>1
    <3>4. QED
      BY <1>8, <3>1, <3>2, <3>3
  <2>3. QED
    BY <1>5, <2>1, <2>2 DEF Shaped
<1>13. ASSUME NEW c, Cell(c) \in TermsOf(given) PROVE c \in D
  <2>1. Cell(c).tag = "cell" /\ Cell(c).members = <<c>>
    BY DEF Cell
  <2>2. \A i : Part(agenda[i].r, agenda[i].index).tag = "part"
    BY DEF Part
  <2>3. PICK d \in D : Cell(c) = Cell(d)
    BY <1>8, <1>11, <1>13, <2>1, <2>2
  <2>4. <<c>> = <<d>>
    BY <1>11, <2>1, <2>3
  <2>5. QED
    BY <2>4
<1>14. InUse \subseteq TermsOf(given)
  BY <1>2, <1>9 DEF InUse, Range
<1>15. ASSUME NEW t \in TermsOf(given), IsConstructor(t), NEW i \in DOMAIN t.members
       PROVE  Cell(t.members[i]) \in TermsOf(given)
  <2>1. PICK c \in D : t = types[c]
    BY <1>8, <1>11, <1>15 DEF IsConstructor, Part
  <2>2. t.members[i] \in D
    BY <1>11, <1>15, <2>1
  <2>3. QED
    BY <1>9, <2>2
<1>16. Mentioned
  BY <1>3, <1>9, <1>10, <1>12, <1>13, <1>14, <1>15 DEF Mentioned
<1>17. ASSUME NEW P, Reading(P, given) PROVE HeldBy(P)
  <2>1. \A e \in given : P[e[1]] = P[e[2]]
    BY <1>17 DEF Reading, Agrees
  <2>2. ASSUME NEW c \in D PROVE P[types[c]] = P[Cell(c)]
    <3> DEFINE e == <<Cell(c), types[c]>>
    <3>1. e \in given /\ e[1] = Cell(c) /\ e[2] = types[c]
      BY <1>9
    <3> HIDE DEF e
    <3>2. P[e[1]] = P[e[2]]
      BY <2>1, <3>1
    <3>3. QED
      BY <3>1, <3>2
  <2>3. ASSUME NEW i \in DOMAIN agenda
        PROVE  P[types[agenda[i].l]] = IF agenda[i].index = 0 THEN P[types[agenda[i].r]]
                                       ELSE P[Part(agenda[i].r, agenda[i].index)]
    <3>1. P[Said(agenda[i])[1]] = P[Said(agenda[i])[2]]
      BY <1>10, <2>1
    <3>2. P[types[agenda[i].l]] = P[Cell(agenda[i].l)] /\ P[types[agenda[i].r]] = P[Cell(agenda[i].r)]
      BY <1>3, <2>2
    <3>3. QED
      BY <1>7, <3>1, <3>2
  <2>4. Satisfies(P, types, agenda)
    BY <2>3 DEF Satisfies
  <2>5. QED
    BY <1>2, <1>13, <2>2, <2>4 DEF HeldBy
<1>18. QED
  BY <1>16, <1>17 DEF ReadInv

LEMMA ReadInvHolds == UnifySpec => []ReadInv
<1>1. UnifyInit => ReadInv
  BY InitReads, UnifyInitInv
<1>2. UnifyInv /\ ReadInv /\ [UnifyNext]_unifyVars => ReadInv'
  <2> SUFFICES ASSUME UnifyInv, ReadInv, [UnifyNext]_unifyVars PROVE ReadInv'
    OBVIOUS
  <2>1. CASE UnifyStep
    BY <2>1, ReadStep
  <2>2. CASE UNCHANGED unifyVars
    BY <2>2 DEF unifyVars, ReadInv, Mentioned, Shaped, TermsOf, InUse, HeldBy, Satisfies,
                Reading, Agrees, SeparatesTypes, FindsParts
  <2>3. QED
    BY <2>1, <2>2 DEF UnifyNext, Spin
<1>3. QED
  BY <1>1, <1>2, UnifyInvHolds, PTL DEF UnifySpec

\* The error flag is set only when the equations that were asked for have no solution,
\* whatever bindings, copies and old bindings led to the two types that differ (unify,
\* line 170; unify_compound_types, line 138).
THEOREM UnifyErrs == UnifySpec => []ErrorsAreReal
<1>1. ReadInv => ErrorsAreReal
  <2> SUFFICES ASSUME ReadInv, Solvable(given) PROVE ~error_flag
    BY DEF ErrorsAreReal
  <2>1. PICK P : Reading(P, given)
    BY SolvableHasReading DEF ReadInv, Mentioned
  <2>2. QED
    BY <2>1 DEF ReadInv, HeldBy
<1>2. QED
  BY <1>1, ReadInvHolds, PTL

=============================================================================
