-------------------------- MODULE TypecheckProofs --------------------------
(***************************************************************************)
(* Proofs about the type checker, for any programs whose nodes have the    *)
(* children it reads: the types, the scopes and the deferred equations     *)
(* stay what they are, and an accepted session is one whose equations the  *)
(* environment solves.  The steps of unify are those of UnifyProofs, with  *)
(* the walk's tasks between the equations.                                 *)
(***************************************************************************)
EXTENDS Typecheck, UnifyProofs

-----------------------------------------------------------------------------
(* Nodes reached from a node.                                              *)

IsReach(f, N, next) ==
  f = [S \in SUBSET N |->
         IF \A n \in S : next[n] \subseteq S THEN S ELSE f[S \cup UNION {next[n] : n \in S}]]

Closed(S, next) == \A n \in S : next[n] \subseteq S
Wider(S, next) == S \cup UNION {next[n] : n \in S}

LEMMA WiderGrows ==
  ASSUME NEW N, IsFiniteSet(N), NEW next, \A n \in N : next[n] \subseteq N,
         NEW S \in SUBSET N, ~Closed(S, next)
  PROVE  /\ Wider(S, next) \in SUBSET N
         /\ Cardinality(N \ Wider(S, next)) < Cardinality(N \ S)
<1> DEFINE W == Wider(S, next)
<1>1. W \in SUBSET N /\ S \subseteq W
  BY DEF Wider
<1>2. PICK m \in W : m \notin S
  BY DEF Closed, Wider
<1> HIDE DEF W
<1>3. N \ W \subseteq (N \ S) \ {m} /\ m \in N \ S
  BY <1>1, <1>2
<1>4. IsFiniteSet(N \ S) /\ IsFiniteSet((N \ S) \ {m})
  BY FS_Subset
<1>5. Cardinality((N \ S) \ {m}) = Cardinality(N \ S) - 1 /\ Cardinality(N \ S) \in Nat
  BY <1>3, <1>4, FS_RemoveElement, FS_CardinalityType
<1>6. Cardinality(N \ W) <= Cardinality((N \ S) \ {m}) /\ Cardinality(N \ W) \in Nat
  BY <1>3, <1>4, FS_Subset, FS_CardinalityType
<1>7. QED
  BY <1>1, <1>5, <1>6 DEF W

LEMMA ReachExists ==
  ASSUME NEW N, IsFiniteSet(N), NEW next, \A n \in N : next[n] \subseteq N
  PROVE  \E f : IsReach(f, N, next)
<1> DEFINE D == SUBSET N
           M == Cardinality(N)
           measure == [S \in D |-> Cardinality(N \ S)]
           B == {S \in D : Closed(S, next)}
           wider == [S \in D |-> IF S \in B THEN S ELSE Wider(S, next)]
           g == [p \in D \X D |-> p[2]]
           base == [S \in D |-> S]
<1>1. M \in Nat /\ measure \in [D -> 0 .. M]
  <2>1. ASSUME NEW S \in D PROVE Cardinality(N \ S) \in 0 .. M
    <3>1. N \ S \in SUBSET N
      OBVIOUS
    <3>2. Cardinality(N \ S) <= M /\ Cardinality(N \ S) \in Nat /\ M \in Nat
      BY <3>1, FS_Subset, FS_CardinalityType
    <3> HIDE DEF M
    <3>3. QED
      BY <3>2
  <2>2. M \in Nat
    BY FS_CardinalityType
  <2> HIDE DEF D, M
  <2>3. QED
    BY <2>1, <2>2
<1>2. wider \in [D -> D]
  BY WiderGrows
<1>3. \A S \in D : S \notin B => measure[wider[S]] < measure[S]
  <2> TAKE S \in D
  <2> SUFFICES ASSUME S \notin B PROVE measure[wider[S]] < measure[S]
    OBVIOUS
  <2>1. Wider(S, next) \in D /\ Cardinality(N \ Wider(S, next)) < Cardinality(N \ S)
    BY WiderGrows
  <2>2. wider[S] = Wider(S, next)
    OBVIOUS
  <2>3. measure[Wider(S, next)] = Cardinality(N \ Wider(S, next)) /\ measure[S] = Cardinality(N \ S)
    BY <2>1
  <2> HIDE DEF wider, measure
  <2>4. QED
    BY <2>1, <2>2, <2>3
<1>4. B \in SUBSET D /\ D # {} /\ g \in [D \X D -> D] /\ base \in [D -> D]
  <2>1. B \in SUBSET D /\ D # {}
    OBVIOUS
  <2>2. g \in [D \X D -> D] /\ base \in [D -> D]
    <3> HIDE DEF D
    <3>1. QED
      OBVIOUS
  <2>3. QED
    BY <2>1, <2>2
<1>5. PICK f : IsRecursion(f, D, D, B, base, wider, g)
  <2> HIDE DEF D, M, measure, B, wider, g, base
  <2>1. QED
    BY <1>1, <1>2, <1>3, <1>4, Recurses
<1>6. \A S \in D : f[S] = IF Closed(S, next) THEN S ELSE f[Wider(S, next)]
  <2> TAKE S \in D
  <2>1. CASE Closed(S, next)
    <3>1. S \in B
      BY <2>1
    <3>2. f[S] = base[S]
      <4> HIDE DEF B, base, wider, g
      <4>1. QED
        BY <1>5, <3>1 DEF IsRecursion
    <3>3. QED
      BY <2>1, <3>2
  <2>2. CASE ~Closed(S, next)
    <3>1. S \notin B /\ wider[S] = Wider(S, next) /\ wider[S] \in D
      BY <2>2, WiderGrows
    <3>2. f[S] = g[<<S, f[wider[S]]>>] /\ f[wider[S]] \in D
      <4> HIDE DEF D, B, base, wider, g
      <4>1. QED
        BY <1>5, <3>1 DEF IsRecursion
    <3>3. g[<<S, f[wider[S]]>>] = f[wider[S]]
      <4> HIDE DEF D, wider
      <4>1. QED
        BY <3>2
    <3> HIDE DEF wider, g
    <3>4. QED
      BY <2>2, <3>1, <3>2, <3>3
  <2>3. QED
    BY <2>1, <2>2
<1>7. f = [S \in D |-> f[S]]
  BY <1>5 DEF IsRecursion
<1>8. f = [S \in D |-> IF Closed(S, next) THEN S ELSE f[Wider(S, next)]]
  <2> HIDE DEF D, M, measure, B, wider, g, base
  <2>1. QED
    BY <1>6, <1>7
<1>9. QED
  BY <1>8 DEF IsReach, Closed, Wider

Reach(N, next) == CHOOSE f : IsReach(f, N, next)

LEMMA ReachStays ==
  ASSUME NEW N, IsFiniteSet(N), NEW next, \A n \in N : next[n] \subseteq N,
         NEW root \in N
  PROVE  Reach(N, next)[{root}] \in SUBSET N
<1> DEFINE f == Reach(N, next)
           D == SUBSET N
           T == {S \in D : f[S] \in D}
           measure == [S \in D |-> Cardinality(N \ S)]
<1>1. IsReach(f, N, next)
  BY ReachExists DEF Reach
<1> HIDE DEF f
<1>2. \A S \in D : f[S] = IF Closed(S, next) THEN S ELSE f[Wider(S, next)]
  BY <1>1 DEF IsReach, Closed, Wider
<1>3. measure \in [D -> Nat]
  <2>1. \A S \in D : Cardinality(N \ S) \in Nat
    BY FS_Subset, FS_CardinalityType
  <2>2. QED
    BY <2>1
<1>4. ASSUME NEW S \in D, \A R \in D : measure[R] < measure[S] => R \in T
      PROVE  S \in T
  <2>1. CASE Closed(S, next)
    BY <1>2, <2>1
  <2>2. CASE ~Closed(S, next)
    <3>1. Wider(S, next) \in D /\ Cardinality(N \ Wider(S, next)) < Cardinality(N \ S)
      BY <2>2, WiderGrows
    <3>2. measure[Wider(S, next)] < measure[S]
      BY <3>1
    <3> HIDE DEF measure
    <3>3. Wider(S, next) \in T
      BY <1>4, <3>1, <3>2
    <3>4. QED
      BY <1>2, <2>2, <3>3
  <2>3. QED
    BY <2>1, <2>2
<1>5. \A S \in D : S \in T
  <2> HIDE DEF D, T, measure
  <2>1. QED
    BY <1>3, <1>4, ByMeasure
<1>6. {root} \in D
  OBVIOUS
<1>7. QED
  BY <1>5, <1>6 DEF f

LEMMA SpannedStays ==
  ASSUME IsFiniteSet(AllNodes), NEW next, \A n \in AllNodes : next[n] \subseteq AllNodes,
         NEW root \in AllNodes
  PROVE  Spanned(root, next) \in SUBSET AllNodes
<1>1. Spanned(root, next) = Reach(AllNodes, next)[{root}]
  BY DEF Spanned, Reach, IsReach
<1> HIDE DEF AllNodes
<1>2. Reach(AllNodes, next)[{root}] \in SUBSET AllNodes
  BY ReachStays
<1>3. QED
  BY <1>1, <1>2

-----------------------------------------------------------------------------
(* Sequences joined, and the innermost scope with a name.                  *)

IsFlattening(f, ss) ==
  f = [i \in 1 .. Len(ss) |-> IF i = 1 THEN ss[i] ELSE f[i - 1] \o ss[i]]

LEMMA FlatteningExists ==
  ASSUME NEW X, NEW ss \in Seq(Seq(X))
  PROVE  \E f : IsFlattening(f, ss)
<1> DEFINE D == 1 .. Len(ss)
           V == Seq(X)
           measure == [i \in D |-> i]
           base == [i \in D |-> ss[i]]
           next == [i \in D |-> IF i = 1 THEN 1 ELSE i - 1]
           g == [p \in D \X V |-> p[2] \o ss[p[1]]]
           B == D \cap {1}
<1>1. Len(ss) \in Nat /\ DOMAIN ss = D /\ \A i \in D : ss[i] \in V
  OBVIOUS
<1>2. V # {} /\ B \in SUBSET D
  <2>1. <<>> \in V
    OBVIOUS
  <2>2. QED
    BY <2>1
<1>3. measure \in [D -> 0 .. Len(ss)] /\ base \in [D -> V] /\ next \in [D -> D]
  BY <1>1
<1>4. g \in [D \X V -> V]
  <2>1. \A p \in D \X V : p[2] \o ss[p[1]] \in V
    BY <1>1
  <2> HIDE DEF D, V
  <2>2. QED
    BY <2>1
<1>5. \A i \in D : i \notin B => measure[next[i]] < measure[i]
  BY <1>1
<1>6. PICK f : IsRecursion(f, D, V, B, base, next, g)
  <2> HIDE DEF D, V, B, base, next, g, measure
  <2>1. QED
    BY <1>1, <1>2, <1>3, <1>4, <1>5, Recurses
<1>7. \A i \in D : f[i] = IF i = 1 THEN ss[i] ELSE f[i - 1] \o ss[i]
  <2> TAKE i \in D
  <2>1. CASE i = 1
    <3>1. i \in B /\ base[i] = ss[i]
      BY <2>1
    <3> HIDE DEF D, V, B, base, next, g
    <3>2. QED
      BY <1>6, <2>1, <3>1 DEF IsRecursion
  <2>2. CASE i # 1
    <3>1. i \notin B /\ next[i] = i - 1 /\ i - 1 \in D
      BY <1>1, <2>2
    <3>2. f[i] = g[<<i, f[i - 1]>>] /\ f[i - 1] \in V
      <4> HIDE DEF D, V, B, base, next, g
      <4>1. QED
        BY <1>6, <3>1 DEF IsRecursion
    <3>3. g[<<i, f[i - 1]>>] = f[i - 1] \o ss[i]
      <4> HIDE DEF D, V
      <4>1. QED
        BY <3>2
    <3> HIDE DEF D, V, g
    <3>4. QED
      BY <2>2, <3>2, <3>3
  <2>3. QED
    BY <2>1, <2>2
<1>8. f = [i \in D |-> f[i]]
  BY <1>6 DEF IsRecursion
<1>9. f = [i \in D |-> IF i = 1 THEN ss[i] ELSE f[i - 1] \o ss[i]]
  <2> HIDE DEF D
  <2>1. QED
    BY <1>7, <1>8
<1>10. QED
  BY <1>9 DEF IsFlattening

Flattening(ss) == CHOOSE f : IsFlattening(f, ss)

LEMMA FlattenJoins ==
  ASSUME NEW X, NEW ss \in Seq(Seq(X))
  PROVE  FlattenSeq(ss) \in Seq(X)
<1> DEFINE f == Flattening(ss)
           S == {0} \cup {i \in 1 .. Len(ss) : f[i] \in Seq(X)}
<1>1. IsFlattening(f, ss)
  BY FlatteningExists DEF Flattening
<1>2. Len(ss) \in Nat /\ \A i \in 1 .. Len(ss) : ss[i] \in Seq(X)
  OBVIOUS
<1> HIDE DEF f
<1>3. \A i \in 1 .. Len(ss) : f[i] = IF i = 1 THEN ss[i] ELSE f[i - 1] \o ss[i]
  BY <1>1 DEF IsFlattening
<1>4. \A i \in 1 .. Len(ss) : i - 1 \in S => i \in S
  <2> SUFFICES ASSUME NEW i \in 1 .. Len(ss), i - 1 \in S PROVE f[i] \in Seq(X)
    OBVIOUS
  <2>1. CASE i = 1
    BY <1>2, <1>3, <2>1
  <2>2. CASE i # 1
    <3>1. f[i - 1] \in Seq(X)
      BY <1>2, <2>2
    <3>2. ss[i] \in Seq(X)
      BY <1>2
    <3>3. f[i - 1] \o ss[i] \in Seq(X)
      BY <3>1, <3>2
    <3>4. QED
      BY <1>3, <2>2, <3>3
  <2>3. QED
    BY <2>1, <2>2
<1>5. \A i \in 0 .. Len(ss) : i \in S
  <2> HIDE DEF S
  <2>1. 0 \in S
    BY DEF S
  <2>2. QED
    BY <1>2, <1>4, <2>1, Inductive
<1>6. CASE Len(ss) = 0
  <2>1. ss = <<>>
    BY <1>6
  <2>2. QED
    BY <1>6, <2>1 DEF FlattenSeq
<1>7. CASE Len(ss) # 0
  <2>1. f[Len(ss)] \in Seq(X)
    BY <1>2, <1>5, <1>7
  <2>2. FlattenSeq(ss) = f[Len(ss)]
    BY <1>7 DEF FlattenSeq, f, Flattening, IsFlattening
  <2>3. QED
    BY <2>1, <2>2
<1>8. QED
  BY <1>6, <1>7

LEMMA LookupFinds ==
  ASSUME NEW X, scopes \in Seq(X), NEW name, InScope(name)
  PROVE  \E i \in DOMAIN scopes : name \in DOMAIN scopes[i] /\ Lookup(name) = scopes[i][name]
<1> DEFINE with == {i \in DOMAIN scopes : name \in DOMAIN scopes[i]}
           T == {Len(scopes) - i : i \in with}
<1>1. Len(scopes) \in Nat /\ DOMAIN scopes = 1 .. Len(scopes) /\ with # {}
  BY DEF InScope, LookupTable!Visible
<1>2. T \in SUBSET Nat /\ T # {}
  BY <1>1
<1>3. PICK least \in T : \A m \in T : least <= m
  <2> HIDE DEF T
  <2>1. QED
    BY <1>2, LeastNatural
<1>4. PICK i \in with : least = Len(scopes) - i
  OBVIOUS
<1>5. \A j \in with : j <= i
  <2> TAKE j \in with
  <2>1. Len(scopes) - j \in T /\ i \in Nat /\ j \in Nat
    BY <1>1
  <2> HIDE DEF T, with
  <2>2. Len(scopes) - i <= Len(scopes) - j
    BY <1>3, <1>4, <2>1
  <2>3. QED
    BY <1>1, <2>1, <2>2
<1>6. /\ i \in DOMAIN scopes /\ name \in DOMAIN scopes[i]
      /\ \A j \in DOMAIN scopes : j > i => name \notin DOMAIN scopes[j]
  BY <1>1, <1>5
<1> DEFINE Innermost(m) == /\ name \in DOMAIN scopes[m]
                           /\ \A j \in DOMAIN scopes : j > m => name \notin DOMAIN scopes[j]
           found == CHOOSE m \in DOMAIN scopes : Innermost(m)
<1>7. found \in DOMAIN scopes /\ Innermost(found)
  <2>1. \E m \in DOMAIN scopes : Innermost(m)
    BY <1>6
  <2> HIDE DEF Innermost
  <2>2. QED
    BY <2>1
<1>8. Lookup(name) = scopes[found][name]
  BY DEF Lookup, LookupTable!Resolve
<1> HIDE DEF found
<1>9. QED
  BY <1>7, <1>8

-----------------------------------------------------------------------------
(* The invariant: scopes, deferred equations and work are about nodes of   *)
(* the program and about cells.                                            *)

SymbolsOver(D) == [node : AllNodes, type : TypesOver(D)]
ScopesOver(D) == UNION {[bound -> SymbolsOver(D)] : bound \in SUBSET Names}

Deferrals(D) == [do : {"unify"}, l : D, r : D, index : Ids, stated : {TRUE}]
Lists == [limit : Nat, room : Ids]

\* What the walk has on the agenda.
Work(D) ==
  {Undefined}
  \cup [do : {"unify"}, l : D, r : D, index : Nat, stated : {TRUE}]
  \cup [do : {"member"}, l : D, f : D, index : Ids]
  \cup [do : {"leave"}, node : Nat]
  \cup [do : {"visit", "finish", "conclude"}, node : AllNodes]

Placed(s) ==
  \A i \in DOMAIN s : s[i].do \in {"visit", "finish", "conclude"} => s[i].node \in AllNodes

CheckInv ==
  /\ HasShape(program) /\ Len(Nodes) + 1 <= Len(types)
  /\ phase \in {"idle", "generate", "solve"}
  /\ input \in 0 .. Len(program.inputs) /\ (phase # "idle" => input > 0)
  /\ failed \subseteq 1 .. input
  /\ scopes \in Seq(ScopesOver(DOMAIN types)) /\ scopes # <<>>
  /\ deferred \in Seq(Deferrals(DOMAIN types))
  /\ teq_list \in Lists /\ teq_list.limit >= MaxTeqList
  /\ Placed(agenda)
  /\ phase = "idle" => Idle /\ (failed = {} => ~error_flag)

\* The tasks come before the rest of the work.
Continues(tasks) == agenda' = tasks \o Rest

\* What the walk may do.
Walks ==
  /\ phase = "generate" /\ ~Idle /\ ~Unifying
  /\ HasShape(program') /\ AllNodes' = AllNodes /\ Len(program'.inputs) = Len(program.inputs)
  /\ types' \in Seq(TypesOver(DOMAIN types')) /\ DOMAIN types \subseteq DOMAIN types'
  /\ scopes' \in Seq(ScopesOver(DOMAIN types')) /\ scopes' # <<>>
  /\ deferred' \in Seq(Deferrals(DOMAIN types'))
  /\ teq_list' \in Lists /\ teq_list'.limit >= MaxTeqList
  /\ agenda' \in Seq(Work(DOMAIN types'))
  /\ error_flag' \in BOOLEAN /\ (error_flag => error_flag')
  /\ UNCHANGED <<input, phase, failed, env, posted, lapses>>

LEMMA WorkIsTasks == ASSUME NEW D, HasShape(program) PROVE Work(D) \subseteq Tasks(D)
<1>1. AllNodes \subseteq Nat
  BY DEF HasShape, Nodes, AllNodes
<1>2. QED
  BY <1>1 DEF Work, Tasks, EquationsOver, CallersTasks

LEMMA MoreSymbols ==
  ASSUME NEW D, NEW E, D \subseteq E
  PROVE  Seq(ScopesOver(D)) \subseteq Seq(ScopesOver(E))
<1>1. SymbolsOver(D) \subseteq SymbolsOver(E)
  BY MoreTypes DEF SymbolsOver
<1>2. ScopesOver(D) \subseteq ScopesOver(E)
  BY <1>1 DEF ScopesOver
<1>3. QED
  BY <1>2, SeqMonotonic

LEMMA MoreDeferrals ==
  ASSUME NEW D, NEW E, D \subseteq E
  PROVE  Seq(Deferrals(D)) \subseteq Seq(Deferrals(E))
<1>1. Deferrals(D) \subseteq Deferrals(E)
  BY DEF Deferrals
<1>2. QED
  BY <1>1, SeqMonotonic

LEMMA MoreWork ==
  ASSUME NEW D, NEW E, D \subseteq E
  PROVE  Seq(Work(D)) \subseteq Seq(Work(E))
<1>1. Work(D) \subseteq Work(E)
  BY DEF Work
<1>2. QED
  BY <1>1, SeqMonotonic

\* The cells and the nodes.
LEMMA CellFacts ==
  ASSUME UnifyInv, CheckInv
  PROVE  /\ types \in Seq(TypesOver(DOMAIN types))
         /\ Len(types) \in Nat /\ DOMAIN types = 1 .. Len(types)
         /\ \A c \in DOMAIN types : types[c] \in TypesOver(DOMAIN types)
         /\ AllNodes = 1 .. Len(Nodes) /\ Len(Nodes) \in Nat
         /\ AllNodes \subseteq DOMAIN types /\ AllNodes \subseteq Ids /\ BoolCell \in DOMAIN types
         /\ IsFiniteSet(AllNodes)
<1>1. types \in Seq(TypesOver(DOMAIN types))
  BY DEF UnifyInv
<1>2. Len(types) \in Nat /\ DOMAIN types = 1 .. Len(types)
      /\ \A c \in DOMAIN types : types[c] \in TypesOver(DOMAIN types)
  BY <1>1
<1>3. AllNodes = 1 .. Len(Nodes) /\ Len(Nodes) \in Nat
  BY DEF CheckInv, HasShape, Nodes, AllNodes
<1>4. AllNodes \subseteq DOMAIN types /\ AllNodes \subseteq Ids /\ BoolCell \in DOMAIN types
  BY <1>2, <1>3 DEF CheckInv, BoolCell, Ids
<1>5. IsFiniteSet(AllNodes)
  BY <1>3, FS_Interval
<1>6. QED
  BY <1>1, <1>2, <1>3, <1>4, <1>5

\* A node and its children.
LEMMA NodeFacts ==
  ASSUME CheckInv, NEW n \in AllNodes
  PROVE  /\ Nodes[n].kids \in Seq(AllNodes) /\ Nodes[n].name \in STRING
         /\ Len(Nodes[n].kids) \in Nat /\ DOMAIN Nodes[n].kids = 1 .. Len(Nodes[n].kids)
         /\ \A i \in DOMAIN Nodes[n].kids : kid(n, i) \in AllNodes
         /\ Nodes[n].kids # <<>> => 1 \in DOMAIN Nodes[n].kids /\ LastKid(n) \in AllNodes
<1>1. Nodes[n].kids \in Seq(AllNodes) /\ Nodes[n].name \in STRING
  <2> DEFINE Kinds == [tag : STRING, op : STRING, name : STRING, kids : Seq(AllNodes)]
  <2>1. Nodes \in Seq(Kinds)
    BY DEF CheckInv, HasShape, Nodes, AllNodes
  <2> HIDE DEF Kinds
  <2>2. Nodes[n] \in Kinds
    BY <2>1 DEF AllNodes
  <2>3. QED
    BY <2>2 DEF Kinds
<1>2. Len(Nodes[n].kids) \in Nat /\ DOMAIN Nodes[n].kids = 1 .. Len(Nodes[n].kids)
      /\ \A i \in DOMAIN Nodes[n].kids : kid(n, i) \in AllNodes
  BY <1>1 DEF kid
<1>3. Nodes[n].kids # <<>> => Len(Nodes[n].kids) > 0
  BY <1>1
<1>4. Nodes[n].kids # <<>> => 1 \in DOMAIN Nodes[n].kids /\ LastKid(n) \in AllNodes
  BY <1>1, <1>2, <1>3 DEF LastKid, Last, kid
<1>5. QED
  BY <1>1, <1>2, <1>4

LEMMA ShapeFacts ==
  ASSUME CheckInv, NEW n \in AllNodes
  PROVE  /\ Nodes[n].tag = "binop" =>
              Len(Nodes[n].kids) = 2 /\ Nodes[n].op \in {"arith", "compare", "arm"}
         /\ Nodes[n].tag \in {"unop", "assignment", "match", "list", "index", "member", "method",
                              "fn", "extern"} => Nodes[n].kids # <<>>
         /\ Nodes[n].tag = "assignment" => Len(Nodes[n].kids) \in {1, 2}
         /\ Nodes[n].tag = "if" => Len(Nodes[n].kids) >= 2
         /\ Nodes[n].tag = "match" =>
              \A i \in 2 .. Len(Nodes[n].kids) : Nodes[kid(n, i)].tag = "binop"
         /\ Nodes[n].tag = "method" => Nodes[kid(n, 1)].tag = "member"
         /\ Nodes[n].tag = "struct" =>
              \A i \in DOMAIN Nodes[n].kids : Nodes[kid(n, i)].kids # <<>>
         /\ Nodes[n].tag \in {"extern", "declaration", "assignment", "type"} =>
              Nodes[n].name \in Names
         /\ Nodes[n].tag = "fn" => Nodes[n].name \in Names \cup {Anonymous}
<1>1. Nodes[n].tag = "assignment" => Len(Nodes[n].kids) \in {1, 2} /\ Nodes[n].kids # <<>>
  <2>1. Nodes[n].tag = "assignment" => Len(Nodes[n].kids) \in {1, 2}
    BY DEF CheckInv, HasShape, NodeHasShape, Nodes, AllNodes
  <2>2. Nodes[n].kids = <<>> => Len(Nodes[n].kids) = 0
    OBVIOUS
  <2>3. QED
    BY <2>1, <2>2
<1>2. QED
  BY <1>1 DEF CheckInv, HasShape, NodeHasShape, Nodes, AllNodes, kid

LEMMA WorkFacts ==
  ASSUME UnifyInv, CheckInv, DerivedInv, ~Idle
  PROVE  /\ Rest \in Seq(Work(DOMAIN types)) /\ Task \in Tasks(DOMAIN types)
         /\ Task.do \in {"visit", "finish", "conclude"} => Task.node \in AllNodes
<1>1. agenda \in Seq(Tasks(DOMAIN types)) /\ agenda # <<>>
  BY DEF UnifyInv, Idle
<1>2. Task \in Tasks(DOMAIN types) /\ Rest \in Seq(Tasks(DOMAIN types))
      /\ Task = agenda[1] /\ 1 \in DOMAIN agenda
      /\ \A i \in DOMAIN Rest : Rest[i] = agenda[i + 1] /\ i + 1 \in DOMAIN agenda
  BY <1>1, HeadTailProperties DEF Task, Rest
<1>3. \A i \in DOMAIN Rest : Rest[i] \in Work(DOMAIN types)
  <2> SUFFICES ASSUME NEW i \in DOMAIN Rest PROVE Rest[i] \in Work(DOMAIN types)
    OBVIOUS
  <2>1. /\ Rest[i] \in Tasks(DOMAIN types)
        /\ Rest[i].do = "unify" => Rest[i].stated
        /\ Rest[i].do \in {"visit", "finish", "conclude"} => Rest[i].node \in AllNodes
    BY <1>2 DEF DerivedInv, Given, CheckInv, Placed
  <2>2. QED
    BY <2>1 DEF Tasks, EquationsOver, CallersTasks, Undefined, Work
<1>4. Rest \in Seq(Work(DOMAIN types))
  <2>1. Rest = [i \in 1 .. Len(Rest) |-> Rest[i]] /\ Len(Rest) \in Nat /\ DOMAIN Rest = 1 .. Len(Rest)
    BY <1>2
  <2>2. QED
    BY <1>3, <2>1
<1>5. Task.do \in {"visit", "finish", "conclude"} => Task.node \in AllNodes
  BY <1>2 DEF CheckInv, Placed
<1>6. QED
  BY <1>2, <1>4, <1>5

-----------------------------------------------------------------------------
(* Steps of the walk.                                                      *)

LEMMA TaskFacts ==
  ASSUME NEW D
  PROVE  /\ \A n \in AllNodes : {Visit(n), Finish(n), Conclude(n)} \subseteq Work(D)
         /\ \A l, r \in D : Equate(l, r) \in Work(D)
         /\ \A l, r \in D, i \in Ids : EquateMember(l, r, i) \in Work(D)
         /\ LeaveScope \in Work(D) /\ Undefined \in Work(D)
<1>1. \A n \in AllNodes : {Visit(n), Finish(n), Conclude(n)} \subseteq Work(D)
  <2> TAKE n \in AllNodes
  <2>1. Visit(n) \in Work(D)
    BY DEF Visit, Work
  <2>2. Finish(n) \in Work(D)
    BY DEF Finish, Work
  <2>3. Conclude(n) \in Work(D)
    BY DEF Conclude, Work
  <2>4. QED
    BY <2>1, <2>2, <2>3
<1>2. \A l, r \in D : Equate(l, r) \in Work(D)
  BY DEF Equate, Equation, Work
<1>3. \A l, r \in D, i \in Ids : EquateMember(l, r, i) \in Work(D)
  BY DEF EquateMember, Work
<1>4. LeaveScope \in Work(D) /\ Undefined \in Work(D)
  BY DEF LeaveScope, Work
<1>5. QED
  BY <1>1, <1>2, <1>3, <1>4

\* The node the walk is at.
LEMMA ThisNode ==
  ASSUME UnifyInv, CheckInv, DerivedInv, NEW do \in {"visit", "finish", "conclude"}, NEW tag,
         At(do, tag)
  PROVE  /\ phase = "generate" /\ ~Idle /\ ~Unifying
         /\ Task.node \in AllNodes /\ Nodes[Task.node].tag = tag
BY WorkFacts DEF At, Unifying

LEMMA Walking ==
  ASSUME UnifyInv, CheckInv, DerivedInv, phase = "generate", ~Idle, ~Unifying,
         types' \in Seq(TypesOver(DOMAIN types')), DOMAIN types \subseteq DOMAIN types',
         scopes' \in Seq(ScopesOver(DOMAIN types')), scopes' # <<>>,
         NEW tasks \in Seq(Work(DOMAIN types')), Continues(tasks),
         error_flag' \in BOOLEAN, error_flag => error_flag', OnlyWalks
  PROVE  Walks
<1> DEFINE D == DOMAIN types
           E == DOMAIN types'
<1>1. Rest \in Seq(Work(D))
  BY WorkFacts
<1>2. Rest \in Seq(Work(E)) /\ tasks \in Seq(Work(E))
  BY <1>1, MoreWork
<1>3. agenda' \in Seq(Work(E))
  <2> HIDE DEF E
  <2>1. tasks \o Rest \in Seq(Work(E))
    BY <1>2, Joined
  <2>2. QED
    BY <2>1 DEF Continues
<1>4. deferred' \in Seq(Deferrals(E))
  <2>1. deferred' = deferred /\ deferred \in Seq(Deferrals(D))
    BY DEF OnlyWalks, inputVars, CheckInv
  <2>2. QED
    BY <2>1, MoreDeferrals
<1>5. UNCHANGED <<program, input, phase, deferred, teq_list, failed, env, posted, lapses>>
  BY DEF OnlyWalks, inputVars
<1>6. HasShape(program') /\ AllNodes' = AllNodes /\ Len(program'.inputs) = Len(program.inputs)
  BY <1>5 DEF CheckInv, AllNodes, Nodes
<1>7. QED
  BY <1>3, <1>4, <1>5, <1>6 DEF Walks, CheckInv

\* New cells, the scopes as they are.
LEMMA CellsWalk ==
  ASSUME UnifyInv, CheckInv, DerivedInv, phase = "generate", ~Idle, ~Unifying,
         types' \in Seq(TypesOver(DOMAIN types')), DOMAIN types \subseteq DOMAIN types',
         NEW tasks \in Seq(Work(DOMAIN types')), Continues(tasks),
         UNCHANGED <<scopes, error_flag>>, OnlyWalks
  PROVE  Walks
<1>1. scopes' \in Seq(ScopesOver(DOMAIN types')) /\ scopes' # <<>>
  BY MoreSymbols DEF CheckInv
<1>2. error_flag' \in BOOLEAN /\ (error_flag => error_flag')
  BY DEF UnifyInv
<1>3. QED
  BY <1>1, <1>2, Walking

LEMMA StillWalks ==
  ASSUME UnifyInv, CheckInv, DerivedInv, phase = "generate", ~Idle, ~Unifying,
         NEW tasks \in Seq(Work(DOMAIN types)), Continues(tasks),
         UNCHANGED <<scopes, types, error_flag>>, OnlyWalks
  PROVE  Walks
<1>1. types' \in Seq(TypesOver(DOMAIN types')) /\ DOMAIN types \subseteq DOMAIN types'
  BY CellFacts
<1>2. tasks \in Seq(Work(DOMAIN types'))
  OBVIOUS
<1>3. QED
  BY <1>1, <1>2, CellsWalk

LEMMA ExpressionsWalk ==
  ASSUME UnifyInv, CheckInv, DerivedInv,
         \/ VisitLiteral \/ VisitBinop \/ EquateOperands \/ EquateResult \/ VisitUnop
  PROVE  Walks
<1> DEFINE n == Task.node
           W == Work(DOMAIN types)
<1>1. CASE VisitLiteral
  <2>1. phase = "generate" /\ ~Idle /\ ~Unifying
    BY <1>1, ThisNode DEF VisitLiteral
  <2>2. <<>> \in Seq(Work(DOMAIN types))
    OBVIOUS
  <2>3. QED
    BY <1>1, <2>1, <2>2, StillWalks DEF VisitLiteral, Walk, Saying, Continues
<1>2. CASE VisitBinop \/ EquateOperands \/ EquateResult
  <2>1. /\ phase = "generate" /\ ~Idle /\ ~Unifying
        /\ n \in AllNodes /\ Nodes[n].tag = "binop"
    BY <1>2, ThisNode DEF VisitBinop, EquateOperands, EquateResult
  <2>2. kid(n, 1) \in AllNodes /\ kid(n, 2) \in AllNodes
        /\ Nodes[n].op \in {"arith", "compare", "arm"}
    BY <2>1, NodeFacts, ShapeFacts
  <2>3. {n, kid(n, 1), kid(n, 2), BoolCell} \subseteq DOMAIN types
    BY <2>1, <2>2, CellFacts
  <2>4. /\ {Visit(kid(n, 1)), Visit(kid(n, 2)), Finish(n), Conclude(n)} \subseteq W
        /\ \A l, r \in {n, kid(n, 1), kid(n, 2), BoolCell} : Equate(l, r) \in W
    BY <2>1, <2>2, <2>3, TaskFacts
  <2> HIDE DEF W, n
  <2>5. CASE VisitBinop
    <3>1. <<Visit(kid(n, 1)), Visit(kid(n, 2)), Finish(n)>> \in Seq(W)
      BY <2>4
    <3>2. QED
      BY <2>1, <2>5, <3>1, StillWalks DEF VisitBinop, n, W, Walk, Saying, Continues
  <2>6. CASE EquateOperands
    <3> DEFINE equations == IF IsVar(types[kid(n, 1)]) THEN <<Equate(kid(n, 1), kid(n, 2))>>
                            ELSE IF IsVar(types[kid(n, 2)]) THEN <<Equate(kid(n, 2), kid(n, 1))>>
                            ELSE <<>>
    <3>1. equations \in Seq(W) /\ <<Conclude(n)>> \in Seq(W)
      BY <2>4
    <3>2. Continues(equations \o <<Conclude(n)>>)
      BY <2>6 DEF EquateOperands, n, Walk, Saying, Continues
    <3> HIDE DEF equations
    <3>3. equations \o <<Conclude(n)>> \in Seq(W)
      BY <3>1
    <3>4. QED
      BY <2>1, <2>6, <3>2, <3>3, StillWalks DEF EquateOperands, W, Walk, Saying, Continues
  <2>7. CASE EquateResult
    <3>1. PICK result \in {BoolCell, kid(n, 1), kid(n, 2)} : Continues(<<Equate(n, result)>>)
      BY <2>2, <2>7 DEF EquateResult, n, Walk, Saying, Continues
    <3>2. <<Equate(n, result)>> \in Seq(W)
      BY <2>4
    <3>3. QED
      BY <2>1, <2>7, <3>1, <3>2, StillWalks DEF EquateResult, W, Walk, Saying, Continues
  <2>8. QED
    BY <1>2, <2>5, <2>6, <2>7
<1>3. CASE VisitUnop
  <2>1. /\ phase = "generate" /\ ~Idle /\ ~Unifying
        /\ n \in AllNodes /\ Nodes[n].tag = "unop"
    BY <1>3, ThisNode DEF VisitUnop
  <2>2. {n, kid(n, 1), BoolCell} \subseteq DOMAIN types
    BY <2>1, NodeFacts, ShapeFacts, CellFacts
  <2>3. Equate(kid(n, 1), BoolCell) \in W /\ Equate(n, BoolCell) \in W
    BY <2>2, TaskFacts
  <2> HIDE DEF W, n
  <2>4. <<Equate(kid(n, 1), BoolCell), Equate(n, BoolCell)>> \in Seq(W) /\ <<>> \in Seq(W)
    BY <2>3
  <2>5. QED
    BY <1>3, <2>1, <2>4, StillWalks DEF VisitUnop, W, n, Walk, Saying, Continues
<1>4. QED
  BY <1>1, <1>2, <1>3

-----------------------------------------------------------------------------
(* Cells and scopes that a step adds or changes.                           *)

LEMMA MadeCells ==
  ASSUME UnifyInv, CheckInv, NEW cells, DOMAIN cells = DOMAIN types,
         cells = [c \in DOMAIN types |-> cells[c]],
         \A c \in DOMAIN types : cells[c] \in TypesOver(DOMAIN types)
  PROVE  cells \in Seq(TypesOver(DOMAIN types)) /\ Len(cells) = Len(types)
<1> DEFINE T == TypesOver(DOMAIN types)
<1>1. DOMAIN types = 1 .. Len(types) /\ Len(types) \in Nat
  BY CellFacts
<1> HIDE DEF T
<1>2. cells \in [1 .. Len(types) -> T]
  BY <1>1 DEF T
<1>3. cells \in Seq(T) /\ Len(cells) = Len(types)
  BY <1>1, <1>2
<1>4. QED
  BY <1>3 DEF T

LEMMA ChangedCell ==
  ASSUME UnifyInv, CheckInv, NEW c \in DOMAIN types, NEW t \in TypesOver(DOMAIN types)
  PROVE  /\ [types EXCEPT ![c] = t] \in Seq(TypesOver(DOMAIN types))
         /\ Len([types EXCEPT ![c] = t]) = Len(types)
BY CellFacts, MadeCells

LEMMA MoreCells ==
  ASSUME UnifyInv, CheckInv, NEW cells \in Seq(TypesOver(DOMAIN types)), Len(cells) = Len(types),
         NEW m \in Nat, NEW s \in Seq(TypesOver(1 .. Len(types) + m)), Len(s) = m,
         types' = cells \o s
  PROVE  /\ types' \in Seq(TypesOver(DOMAIN types')) /\ DOMAIN types \subseteq DOMAIN types'
         /\ DOMAIN types' = 1 .. Len(types) + m
<1> DEFINE E == 1 .. Len(types) + m
           D == DOMAIN types
           S == TypesOver(D)
           T == TypesOver(E)
<1>1. Len(types) \in Nat /\ D = 1 .. Len(types)
  BY CellFacts
<1>2. D \subseteq E
  BY <1>1
<1>3. cells \in Seq(S) /\ s \in Seq(T) /\ Len(s) = m /\ Len(cells) = Len(types)
  OBVIOUS
<1> HIDE DEF S, T, D, E
<1>4. S \subseteq T
  BY <1>2, MoreTypes DEF S, T
<1>5. cells \in Seq(T)
  BY <1>3, <1>4, SeqMonotonic
<1>6. cells \o s \in Seq(T) /\ Len(cells \o s) = Len(cells) + Len(s)
  BY <1>3, <1>5, Joined
<1>7. types' \in Seq(T) /\ Len(types') = Len(types) + m
  BY <1>3, <1>6
<1>8. DOMAIN types' = E
  BY <1>1, <1>7 DEF E
<1>9. QED
  BY <1>2, <1>7, <1>8 DEF T, E, D

LEMMA OneCellMore ==
  ASSUME UnifyInv, CheckInv, NEW cells \in Seq(TypesOver(DOMAIN types)), Len(cells) = Len(types),
         NEW t \in TypesOver(1 .. Len(types) + 1), types' = Append(cells, t)
  PROVE  /\ types' \in Seq(TypesOver(DOMAIN types')) /\ DOMAIN types \subseteq DOMAIN types'
         /\ DOMAIN types' = 1 .. Len(types) + 1 /\ Len(types) + 1 \in DOMAIN types'
<1> DEFINE s == <<t>>
           n == Len(types)
<1>1. s \in Seq(TypesOver(1 .. n + 1)) /\ Len(s) = 1
  OBVIOUS
<1>2. types' = cells \o s
  OBVIOUS
<1> HIDE DEF s
<1>3. /\ types' \in Seq(TypesOver(DOMAIN types')) /\ DOMAIN types \subseteq DOMAIN types'
      /\ DOMAIN types' = 1 .. n + 1
  BY <1>1, <1>2, MoreCells
<1>4. n \in Nat
  BY CellFacts
<1> HIDE DEF n
<1>5. n + 1 \in 1 .. n + 1
  BY <1>4
<1>6. QED
  BY <1>3, <1>5 DEF n

LEMMA AppendJoins ==
  ASSUME NEW X, NEW s \in Seq(X), NEW r \in Seq(X), NEW t \in X
  PROVE  Append(s \o r, t) = s \o Append(r, t)
OBVIOUS

LEMMA CompoundCells ==
  ASSUME UnifyInv, CheckInv, NEW cells \in Seq(TypesOver(DOMAIN types)), Len(cells) = Len(types),
         NEW members \in Seq(TypesOver(DOMAIN types)), NEW m \in Nat, Len(members) = m,
         NEW t \in TypesOver(1 .. Len(types) + m + 1), types' = Append(cells \o members, t)
  PROVE  /\ types' \in Seq(TypesOver(DOMAIN types')) /\ DOMAIN types \subseteq DOMAIN types'
         /\ DOMAIN types' = 1 .. Len(types) + m + 1
         /\ Len(types) + m + 1 \in DOMAIN types'
<1> DEFINE s == Append(members, t)
           D == DOMAIN types
           S == TypesOver(D)
           n == Len(types)
           T == TypesOver(1 .. n + (m + 1))
<1>1. n \in Nat /\ D = 1 .. n
  BY CellFacts
<1>2. t \in T
  <2>1. n + m + 1 = n + (m + 1)
    BY <1>1
  <2>2. QED
    BY <2>1
<1>3. S \subseteq T
  <2>1. D \subseteq 1 .. n + (m + 1)
    BY <1>1
  <2>2. QED
    BY <2>1, MoreTypes
<1>4. cells \in Seq(S) /\ members \in Seq(S)
  OBVIOUS
<1> HIDE DEF S, T, n, D
<1>5. cells \in Seq(T) /\ members \in Seq(T)
  BY <1>3, <1>4, SeqMonotonic
<1>6. s \in Seq(T) /\ Len(s) = m + 1
  BY <1>2, <1>5
<1>7. cells \o s = Append(cells \o members, t)
  BY <1>2, <1>5, AppendJoins
<1> HIDE DEF s
<1>8. types' = cells \o s
  BY <1>7
<1>81. m + 1 \in Nat /\ s \in Seq(TypesOver(1 .. Len(types) + (m + 1)))
  BY <1>6 DEF T, n
<1>82. /\ types' \in Seq(TypesOver(DOMAIN types')) /\ DOMAIN types \subseteq DOMAIN types'
      /\ DOMAIN types' = 1 .. n + (m + 1)
  BY <1>6, <1>8, <1>81, MoreCells DEF n
<1>9. 1 .. n + (m + 1) = 1 .. n + m + 1 /\ n + m + 1 \in 1 .. n + m + 1
  BY <1>1
<1>10. QED
  BY <1>82, <1>9 DEF n

LEMMA LookupTypes ==
  ASSUME UnifyInv, CheckInv, NEW name, InScope(name)
  PROVE  Lookup(name).node \in AllNodes /\ Lookup(name).type \in TypesOver(DOMAIN types)
<1> DEFINE X == ScopesOver(DOMAIN types)
<1>1. scopes \in Seq(X)
  BY DEF CheckInv
<1> HIDE DEF X
<1>2. PICK i \in DOMAIN scopes : name \in DOMAIN scopes[i] /\ Lookup(name) = scopes[i][name]
  BY <1>1, LookupFinds
<1>3. scopes[i] \in X
  BY <1>1
<1>4. scopes[i][name] \in SymbolsOver(DOMAIN types)
  BY <1>2, <1>3 DEF X, ScopesOver
<1>5. QED
  BY <1>2, <1>4 DEF SymbolsOver

LEMMA BoundScopes ==
  ASSUME UnifyInv, CheckInv, NEW E, DOMAIN types \subseteq E, NEW name \in Names,
         NEW symbol \in SymbolsOver(E)
  PROVE  LET bound == [scopes EXCEPT ![Len(scopes)] = LookupTable!Bound(@, name, symbol)]
         IN  bound \in Seq(ScopesOver(E)) /\ bound # <<>>
<1> DEFINE X == ScopesOver(E)
           s == scopes[Len(scopes)]
           b == LookupTable!Bound(s, name, symbol)
<1>1. scopes \in Seq(X) /\ scopes # <<>>
  BY MoreSymbols DEF CheckInv
<1> HIDE DEF X
<1>2. Len(scopes) \in Nat /\ Len(scopes) \in DOMAIN scopes /\ DOMAIN scopes = 1 .. Len(scopes)
  BY <1>1
<1>3. s \in X
  BY <1>1, <1>2
<1>4. DOMAIN s \in SUBSET Names /\ s \in [DOMAIN s -> SymbolsOver(E)]
  BY <1>3 DEF X, ScopesOver
<1>5. b = [x \in DOMAIN s \cup {name} |-> IF x = name THEN symbol ELSE s[x]]
  BY DEF LookupTable!Bound
<1>6. b \in X
  <2> HIDE DEF s
  <2>1. b \in [DOMAIN s \cup {name} -> SymbolsOver(E)]
    BY <1>4, <1>5
  <2> HIDE DEF b
  <2>2. DOMAIN s \cup {name} \in SUBSET Names
    BY <1>4
  <2>3. QED
    BY <2>1, <2>2 DEF X, ScopesOver
<1> HIDE DEF b
<1>7. [scopes EXCEPT ![Len(scopes)] = b] \in Seq(X) /\ [scopes EXCEPT ![Len(scopes)] = b] # <<>>
  BY <1>1, <1>2, <1>6
<1>8. QED
  BY <1>7 DEF b, s, X

\* The type expressions below some nodes.
LEMMA BelowStays ==
  ASSUME UnifyInv, CheckInv, NEW n \in AllNodes
  PROVE  Below(n) \in SUBSET AllNodes
<1> DEFINE next == [m \in AllNodes |-> Range(Nodes[m].kids)]
<1>1. \A m \in AllNodes : next[m] \subseteq AllNodes
  BY NodeFacts DEF Range
<1>2. IsFiniteSet(AllNodes)
  BY CellFacts
<1> HIDE DEF next
<1>3. Spanned(n, next) \in SUBSET AllNodes
  BY <1>1, <1>2, SpannedStays
<1>4. QED
  BY <1>3 DEF Below, next

LEMMA DenotedTypes ==
  ASSUME UnifyInv, CheckInv, NEW name, Denotes(name)
  PROVE  Denoted(name) \in TypesOver(DOMAIN types)
<1>1. CASE name \in DOMAIN BuiltIn
  <2>1. BuiltIn[name] \in {Ground("int"), Ground("num"), Ground("str")}
    BY <1>1 DEF BuiltIn
  <2>2. BuiltIn[name] \in TypesOver(DOMAIN types)
    BY <2>1 DEF TypesOver, GroundTags
  <2>3. QED
    BY <1>1, <2>2 DEF Denoted
<1>2. CASE name \notin DOMAIN BuiltIn
  BY <1>2, LookupTypes DEF Denotes, Denoted
<1>3. QED
  BY <1>1, <1>2

LEMMA FieldsAreNames ==
  ASSUME CheckInv, NEW n \in AllNodes
  PROVE  FieldsOf(n) \in Seq(STRING) /\ Len(FieldsOf(n)) = Len(Nodes[n].kids)
<1>1. \A i \in 1 .. Len(Nodes[n].kids) : Nodes[kid(n, i)].name \in STRING
  BY NodeFacts
<1>2. DOMAIN Nodes[n].kids = 1 .. Len(Nodes[n].kids) /\ Len(Nodes[n].kids) \in Nat
  BY NodeFacts
<1>3. FieldsOf(n) \in [1 .. Len(Nodes[n].kids) -> STRING]
      /\ DOMAIN FieldsOf(n) = 1 .. Len(Nodes[n].kids)
  BY <1>1, <1>2 DEF FieldsOf
<1>4. QED
  BY <1>2, <1>3

LEMMA MembersAreCells ==
  ASSUME UnifyInv, CheckInv, NEW n \in AllNodes, Nodes[n].tag = "struct"
  PROVE  /\ \A i \in DOMAIN Nodes[n].kids : kid(kid(n, i), 1) \in AllNodes
         /\ Struct([i \in DOMAIN Nodes[n].kids |-> kid(kid(n, i), 1)], FieldsOf(n))
              \in TypesOver(DOMAIN types)
<1> DEFINE members == [i \in DOMAIN Nodes[n].kids |-> kid(kid(n, i), 1)]
           m == Len(Nodes[n].kids)
           D == DOMAIN types
<1>1. \A i \in DOMAIN Nodes[n].kids : kid(kid(n, i), 1) \in AllNodes
  <2> TAKE i \in DOMAIN Nodes[n].kids
  <2>1. kid(n, i) \in AllNodes /\ Nodes[kid(n, i)].kids # <<>>
    BY NodeFacts, ShapeFacts
  <2>2. QED
    BY <2>1, NodeFacts
<1>2. DOMAIN Nodes[n].kids = 1 .. m /\ m \in Nat
  BY NodeFacts
<1>3. AllNodes \subseteq D
  BY CellFacts
<1> HIDE DEF D, m
<1>4. members \in [1 .. m -> D]
  BY <1>1, <1>2, <1>3
<1>5. members \in Seq(D) /\ Len(members) = m
  BY <1>2, <1>4
<1>6. FieldsOf(n) \in Seq(STRING) /\ Len(FieldsOf(n)) = m
  BY FieldsAreNames DEF m
<1> HIDE DEF members
<1>7. Struct(members, FieldsOf(n)) \in TypesOver(D)
  BY <1>5, <1>6 DEF Struct, Compound, TypesOver
<1>8. QED
  BY <1>1, <1>7 DEF members, D

LEMMA ComputedTypes ==
  ASSUME UnifyInv, CheckInv, NEW expressions \in SUBSET AllNodes,
         \A e \in expressions : Computable(e)
  PROVE  /\ Computed(expressions) \in Seq(TypesOver(DOMAIN types))
         /\ Len(Computed(expressions)) = Len(types)
         /\ \A c \in DOMAIN types : Computed(expressions)[c] \in TypesOver(DOMAIN types)
<1> DEFINE nodes == UNION {Below(e) : e \in expressions}
           known == Computed(expressions)
           T == TypesOver(DOMAIN types)
<1>1. nodes \in SUBSET AllNodes
  BY BelowStays
<1>2. \A n \in nodes : Nodes[n].tag = "identifier" => Denotes(Nodes[n].name)
  BY DEF Computable
<1> DEFINE Value(n) ==
             CASE Nodes[n].tag = "identifier" -> Denoted(Nodes[n].name)
               [] Nodes[n].tag = "tuple" -> Tuple(Nodes[n].kids)
               [] Nodes[n].tag = "struct" ->
                    Struct([i \in DOMAIN Nodes[n].kids |-> kid(kid(n, i), 1)], FieldsOf(n))
               [] Nodes[n].tag = "unop" -> Pointer(kid(n, 1))
               [] Nodes[n].tag = "index" -> Array(kid(n, 1))
               [] OTHER -> types[n]
<1>3. known = [c \in DOMAIN types |-> IF c \in nodes THEN Value(c) ELSE types[c]]
  BY DEF Computed
<1>4. \A n \in nodes : Value(n) \in T
  <2> TAKE n \in nodes
  <2>1. n \in AllNodes
    BY <1>1
  <2>2. CASE Nodes[n].tag = "identifier"
    BY <1>2, <2>2, DenotedTypes
  <2>3. CASE Nodes[n].tag = "tuple"
    <3>1. Nodes[n].kids \in Seq(DOMAIN types)
      BY <2>1, NodeFacts, CellFacts, SeqMonotonic
    <3>2. Tuple(Nodes[n].kids) \in T
      BY <3>1 DEF Tuple, Compound, TypesOver
    <3>3. QED
      BY <2>3, <3>2
  <2>4. CASE Nodes[n].tag = "struct"
    BY <2>1, <2>4, MembersAreCells
  <2>5. CASE Nodes[n].tag \in {"unop", "index"}
    <3>1. kid(n, 1) \in DOMAIN types
      BY <2>1, <2>5, NodeFacts, ShapeFacts, CellFacts
    <3>2. Pointer(kid(n, 1)) \in T /\ Array(kid(n, 1)) \in T
      BY <3>1 DEF Pointer, Array, Compound, TypesOver
    <3>3. QED
      BY <2>5, <3>2
  <2>6. CASE Nodes[n].tag \notin {"identifier", "tuple", "struct", "unop", "index"}
    BY <2>1, <2>6, CellFacts
  <2>7. QED
    BY <2>2, <2>3, <2>4, <2>5, <2>6
<1>5. \A c \in DOMAIN types : types[c] \in T
  BY CellFacts
<1> HIDE DEF nodes, Value, T
<1>6. DOMAIN known = DOMAIN types /\ known = [c \in DOMAIN types |-> known[c]]
      /\ \A c \in DOMAIN types : known[c] \in T
  BY <1>3, <1>4, <1>5
<1> HIDE DEF known
<1>7. known \in Seq(T) /\ Len(known) = Len(types)
  BY <1>6, MadeCells DEF T
<1>8. QED
  BY <1>6, <1>7 DEF known, T

\* Types of cells made from types of cells.
LEMMA CellsOf ==
  ASSUME UnifyInv, CheckInv, NEW t \in TypesOver(DOMAIN types)
  PROVE  /\ t.members \in Seq(DOMAIN types)
         /\ \A i \in DOMAIN t.members :
              t.members[i] \in DOMAIN types /\ types[t.members[i]] \in TypesOver(DOMAIN types)
         /\ t.members # <<>> => 1 \in DOMAIN t.members /\ Head(t.members) = t.members[1]
                                /\ Last(t.members) \in DOMAIN types
<1>1. t.members \in Seq(DOMAIN types)
  BY TypeIsType
<1>3. \A i \in DOMAIN t.members : t.members[i] \in DOMAIN types
  BY <1>1
<1>4. \A c \in DOMAIN types : types[c] \in TypesOver(DOMAIN types)
  BY CellFacts
<1>5. t.members # <<>> =>
        /\ 1 \in DOMAIN t.members /\ Head(t.members) = t.members[1]
        /\ Last(t.members) \in DOMAIN types
  <2> SUFFICES ASSUME t.members # <<>>
               PROVE  /\ 1 \in DOMAIN t.members /\ Head(t.members) = t.members[1]
                      /\ Last(t.members) \in DOMAIN types
    OBVIOUS
  <2>1. Len(t.members) \in Nat /\ DOMAIN t.members = 1 .. Len(t.members) /\ Len(t.members) > 0
    BY <1>1
  <2>2. Len(t.members) \in DOMAIN t.members /\ 1 \in DOMAIN t.members
    BY <2>1
  <2>3. QED
    BY <1>1, <1>3, <2>2 DEF Last
<1>6. QED
  BY <1>1, <1>3, <1>4, <1>5

\* A new cell, and an equation on it.
LEMMA NewCellWalks ==
  ASSUME UnifyInv, CheckInv, DerivedInv, phase = "generate", ~Idle, ~Unifying,
         NEW cells \in Seq(TypesOver(DOMAIN types)), Len(cells) = Len(types),
         NEW t \in TypesOver(1 .. Len(types) + 1), types' = Append(cells, t),
         NEW l \in 1 .. Len(types) + 1, NEW r \in 1 .. Len(types) + 1, Continues(<<Equate(l, r)>>),
         UNCHANGED <<scopes, error_flag>>, OnlyWalks
  PROVE  Walks
<1> DEFINE E == DOMAIN types'
           W == Work(E)
<1>1. /\ types' \in Seq(TypesOver(DOMAIN types')) /\ DOMAIN types \subseteq DOMAIN types'
      /\ E = 1 .. Len(types) + 1
  BY OneCellMore
<1> HIDE DEF E
<1>2. Equate(l, r) \in W
  BY <1>1, TaskFacts
<1> HIDE DEF W
<1>3. <<Equate(l, r)>> \in Seq(W)
  BY <1>2
<1>4. QED
  BY <1>1, <1>3, CellsWalk DEF W, E

\* The same on a copy of a type that is there.
LEMMA CopyWalks ==
  ASSUME UnifyInv, CheckInv, DerivedInv, phase = "generate", ~Idle, ~Unifying,
         NEW t \in TypesOver(DOMAIN types), types' = Append(types, t),
         NEW n \in DOMAIN types,
         Continues(<<Equate(n, Len(types) + 1)>>) \/ Continues(<<Equate(Len(types) + 1, n)>>),
         UNCHANGED <<scopes, error_flag>>, OnlyWalks
  PROVE  Walks
<1> DEFINE m == Len(types)
           D == DOMAIN types
<1>1. m \in Nat /\ D = 1 .. m /\ types \in Seq(TypesOver(DOMAIN types))
  BY CellFacts
<1> HIDE DEF m, D
<1>2. D \subseteq 1 .. m + 1 /\ n \in 1 .. m + 1 /\ m + 1 \in 1 .. m + 1
  BY <1>1 DEF D
<1>3. t \in TypesOver(1 .. m + 1)
  BY <1>2, MoreTypes DEF D
<1>4. QED
  BY <1>1, <1>2, <1>3, NewCellWalks DEF m

\* New types for the cells there are.
LEMMA ChangeWalks ==
  ASSUME UnifyInv, CheckInv, DerivedInv, phase = "generate", ~Idle, ~Unifying,
         types' \in Seq(TypesOver(DOMAIN types)), Len(types') = Len(types),
         NEW tasks \in Seq(Work(DOMAIN types)), Continues(tasks),
         UNCHANGED <<scopes, error_flag>>, OnlyWalks
  PROVE  Walks
<1> DEFINE T == TypesOver(DOMAIN types)
<1> HIDE DEF T
<1>1. types' \in Seq(T) /\ Len(types') = Len(types)
  BY DEF T
<1>2. DOMAIN types' = DOMAIN types
  BY <1>1, CellFacts
<1>3. types' \in Seq(TypesOver(DOMAIN types')) /\ DOMAIN types \subseteq DOMAIN types'
      /\ tasks \in Seq(Work(DOMAIN types'))
  BY <1>1, <1>2 DEF T
<1>4. QED
  BY <1>3, CellsWalk

LEMMA NamesWalk ==
  ASSUME UnifyInv, CheckInv, DerivedInv,
         VisitIdentifier \/ VisitAssignment \/ Reassign \/ VisitDeclaration \/ VisitIndex
  PROVE  Walks
<1> DEFINE n == Task.node
           W == Work(DOMAIN types)
<1>1. CASE VisitIdentifier
  <2>1. /\ phase = "generate" /\ ~Idle /\ ~Unifying
        /\ n \in AllNodes /\ Nodes[n].tag = "identifier"
    BY <1>1, ThisNode DEF VisitIdentifier
  <2>2. n \in DOMAIN types
    BY <2>1, CellFacts
  <2>3. CASE InScope(Nodes[n].name)
    <3>1. Lookup(Nodes[n].name).type \in TypesOver(DOMAIN types)
      BY <2>3, LookupTypes
    <3>2. QED
      BY <1>1, <2>1, <2>2, <2>3, <3>1, CopyWalks DEF VisitIdentifier, Walk, Saying, Continues
  <2>4. CASE ~InScope(Nodes[n].name)
    <3>1. <<>> \in Seq(Work(DOMAIN types))
      OBVIOUS
    <3>2. QED
      BY <1>1, <2>1, <2>4, <3>1, StillWalks DEF VisitIdentifier, Walk, Saying, Continues
  <2>5. QED
    BY <2>3, <2>4
<1>2. CASE VisitAssignment \/ VisitIndex
  <2>1. /\ phase = "generate" /\ ~Idle /\ ~Unifying
        /\ n \in AllNodes /\ Nodes[n].tag \in {"assignment", "index"}
    BY <1>2, ThisNode DEF VisitAssignment, VisitIndex
  <2>2. kid(n, 1) \in AllNodes
    BY <2>1, NodeFacts, ShapeFacts
  <2>3. Visit(kid(n, 1)) \in W /\ Finish(n) \in W
    BY <2>1, <2>2, TaskFacts
  <2> HIDE DEF W, n
  <2>4. <<Visit(kid(n, 1)), Finish(n)>> \in Seq(W)
    BY <2>3
  <2>5. QED
    BY <1>2, <2>1, <2>4, StillWalks DEF VisitAssignment, VisitIndex, W, n, Walk, Saying, Continues
<1>3. CASE Reassign
  <2>1. /\ phase = "generate" /\ ~Idle /\ ~Unifying
        /\ n \in AllNodes /\ Nodes[n].tag = "assignment"
    BY <1>3, ThisNode DEF Reassign
  <2>2. kid(n, 1) \in DOMAIN types
    BY <2>1, NodeFacts, ShapeFacts, CellFacts
  <2>3. Lookup(Nodes[n].name).type \in TypesOver(DOMAIN types)
    BY <1>3, LookupTypes DEF Reassign, Walk, Saying, Continues
  <2>4. QED
    BY <1>3, <2>1, <2>2, <2>3, CopyWalks DEF Reassign, Walk, Saying, Continues
<1>4. CASE VisitDeclaration
  <2>1. /\ phase = "generate" /\ ~Idle /\ ~Unifying
        /\ n \in AllNodes /\ Nodes[n].tag = "declaration"
    BY <1>4, ThisNode DEF VisitDeclaration
  <2>2. Finish(n) \in W /\ n \in DOMAIN types
    BY <2>1, TaskFacts, CellFacts
  <2>3. CASE Nodes[n].kids = <<>>
    <3> HIDE DEF W, n
    <3>1. <<Finish(n)>> \in Seq(W)
      BY <2>2
    <3>2. QED
      BY <1>4, <2>1, <2>3, <3>1, StillWalks DEF VisitDeclaration, W, n, Walk, Saying, Continues
  <2>4. CASE Nodes[n].kids # <<>>
    <3> DEFINE e == kid(n, 1)
    <3>1. e \in AllNodes /\ e \in DOMAIN types
      BY <2>1, <2>4, NodeFacts, CellFacts
    <3>2. Computable(e) /\ types' = Computed({e})
      BY <1>4, <2>4 DEF VisitDeclaration, Walk, Saying, Continues
    <3>3. types' \in Seq(TypesOver(DOMAIN types)) /\ Len(types') = Len(types)
      BY <3>1, <3>2, ComputedTypes
    <3>4. Equate(n, e) \in W
      BY <2>2, <3>1, TaskFacts
    <3>5. Continues(<<Equate(n, e), Finish(n)>>)
      BY <1>4, <2>4 DEF VisitDeclaration, Walk, Saying, Continues
    <3> HIDE DEF W, n, e
    <3>6. <<Equate(n, e), Finish(n)>> \in Seq(W)
      BY <2>2, <3>4
    <3>7. QED
      BY <1>4, <2>1, <3>3, <3>5, <3>6, ChangeWalks DEF VisitDeclaration, W, Walk, Saying, Continues
  <2>5. QED
    BY <2>3, <2>4
<1>5. QED
  BY <1>1, <1>2, <1>3, <1>4

\* A name bound in the innermost scope.
LEMMA BindingWalks ==
  ASSUME UnifyInv, CheckInv, DerivedInv, phase = "generate", ~Idle, ~Unifying,
         types' \in Seq(TypesOver(DOMAIN types')), DOMAIN types \subseteq DOMAIN types',
         NEW name \in Names, NEW m \in AllNodes, NEW t \in TypesOver(DOMAIN types'),
         LookupTable!Bind(name, Symbol(m, t)),
         NEW tasks \in Seq(Work(DOMAIN types')), Continues(tasks),
         UNCHANGED error_flag, OnlyWalks
  PROVE  Walks
<1> DEFINE E == DOMAIN types'
           symbol == Symbol(m, t)
<1>1. symbol \in SymbolsOver(E)
  BY DEF Symbol, SymbolsOver
<1>2. scopes' = [scopes EXCEPT ![Len(scopes)] = LookupTable!Bound(@, name, symbol)]
  BY DEF LookupTable!Bind
<1> HIDE DEF symbol
<1>3. scopes' \in Seq(ScopesOver(E)) /\ scopes' # <<>>
  BY <1>1, <1>2, BoundScopes
<1>4. error_flag' \in BOOLEAN /\ (error_flag => error_flag')
  BY DEF UnifyInv
<1>5. QED
  BY <1>3, <1>4, Walking

LEMMA MappedSequence ==
  ASSUME NEW X, NEW m \in Nat, NEW f, DOMAIN f = 1 .. m, f = [i \in DOMAIN f |-> f[i]],
         \A i \in 1 .. m : f[i] \in X
  PROVE  f \in Seq(X) /\ Len(f) = m
<1>1. f \in [1 .. m -> X]
  OBVIOUS
<1>2. QED
  BY <1>1

LEMMA ChangedElement ==
  ASSUME NEW X, NEW s \in Seq(X), NEW i \in DOMAIN s, NEW x \in X
  PROVE  /\ [s EXCEPT ![i] = x] \in Seq(X) /\ Len([s EXCEPT ![i] = x]) = Len(s)
         /\ \A j \in DOMAIN s : [s EXCEPT ![i] = x][j] \in X
<1> DEFINE f == [s EXCEPT ![i] = x]
<1>1. DOMAIN s = 1 .. Len(s) /\ Len(s) \in Nat /\ \A j \in 1 .. Len(s) : s[j] \in X
  OBVIOUS
<1>2. DOMAIN f = 1 .. Len(s) /\ f = [j \in DOMAIN f |-> f[j]] /\ \A j \in 1 .. Len(s) : f[j] \in X
  BY <1>1
<1> HIDE DEF f
<1>3. f \in Seq(X) /\ Len(f) = Len(s)
  BY <1>1, <1>2, MappedSequence
<1>4. QED
  BY <1>1, <1>2, <1>3 DEF f

LEMMA AnnotatedTypes ==
  ASSUME UnifyInv, CheckInv, NEW n \in AllNodes, NEW e \in AllNodes, Computable(e)
  PROVE  /\ Annotated(n, e) \in Seq(TypesOver(DOMAIN types))
         /\ Len(Annotated(n, e)) = Len(types)
         /\ \A c \in DOMAIN types : Annotated(n, e)[c] \in TypesOver(DOMAIN types)
<1> DEFINE known == Computed({e})
           T == TypesOver(DOMAIN types)
<1>1. /\ known \in Seq(T) /\ Len(known) = Len(types)
      /\ \A c \in DOMAIN types : known[c] \in T
  BY ComputedTypes
<1>2. n \in DOMAIN types /\ e \in DOMAIN types /\ DOMAIN types = 1 .. Len(types)
  BY CellFacts
<1>3. Annotated(n, e) = [known EXCEPT ![n] = known[e]]
  BY DEF Annotated
<1> HIDE DEF known, T
<1>4. DOMAIN known = DOMAIN types
  BY <1>1, <1>2
<1>5. /\ [known EXCEPT ![n] = known[e]] \in Seq(T)
      /\ Len([known EXCEPT ![n] = known[e]]) = Len(known)
      /\ \A c \in DOMAIN types : [known EXCEPT ![n] = known[e]][c] \in T
  BY <1>1, <1>2, <1>4, ChangedElement
<1>6. QED
  BY <1>1, <1>3, <1>5 DEF T

LEMMA DeclarationsWalk ==
  ASSUME UnifyInv, CheckInv, DerivedInv, Declare \/ DeclareType
  PROVE  Walks
<1> DEFINE n == Task.node
           name == Nodes[n].name
           D == DOMAIN types
<1>1. /\ phase = "generate" /\ ~Idle /\ ~Unifying
      /\ n \in AllNodes /\ Nodes[n].tag \in {"declaration", "type"}
  BY ThisNode DEF Declare, DeclareType
<1>2. name \in Names /\ n \in D
  BY <1>1, ShapeFacts, CellFacts
<1>3. /\ Continues(<<>>) /\ UNCHANGED error_flag /\ OnlyWalks
  BY DEF Declare, DeclareType, Walk, Saying, Continues
<1>4. /\ types \in Seq(TypesOver(D)) /\ types[n] \in TypesOver(D)
      /\ Nameless \in TypesOver(D) /\ DOMAIN types = 1 .. Len(types) /\ Len(types) \in Nat
  <2>1. Nameless \in TypesOver(D)
    BY DEF Nameless, TypesOver
  <2>2. QED
    BY <1>2, <2>1, CellFacts
<1>5. <<>> \in Seq(Work(DOMAIN types'))
  OBVIOUS
<1> HIDE DEF n, name, D
<1>6. CASE /\ types' \in Seq(TypesOver(D)) /\ DOMAIN types' = D
           /\ \E t \in TypesOver(D) : LookupTable!Bind(name, Symbol(n, t))
  <2>1. PICK t \in TypesOver(D) : LookupTable!Bind(name, Symbol(n, t))
    BY <1>6
  <2>2. types' \in Seq(TypesOver(DOMAIN types')) /\ DOMAIN types \subseteq DOMAIN types'
        /\ t \in TypesOver(DOMAIN types')
    BY <1>6 DEF D
  <2>3. QED
    BY <1>1, <1>2, <1>3, <1>5, <2>1, <2>2, BindingWalks
<1>7. CASE UNCHANGED <<types, scopes>>
  <2>1. <<>> \in Seq(Work(DOMAIN types))
    OBVIOUS
  <2>2. QED
    BY <1>1, <1>3, <1>7, <2>1, StillWalks
<1>8. CASE Declare
  <2>1. types' = types /\ LookupTable!Bind(name, Symbol(n, types[n]))
    BY <1>8 DEF Declare, Insert, n, name, Walk, Saying, Continues
  <2>2. QED
    BY <1>4, <1>6, <2>1 DEF D
<1>9. CASE DeclareType
  <2>1. CASE Nodes[n].kids = <<>> /\ ~InScope(name)
    <3>1. types' = types /\ LookupTable!Bind(name, Symbol(n, Nameless))
      BY <1>9, <2>1 DEF DeclareType, n, name, Walk, Saying, Continues
    <3>2. QED
      BY <1>4, <1>6, <3>1 DEF D
  <2>2. CASE Nodes[n].kids # <<>> /\ ~InScope(name)
    <3>1. /\ Computable(kid(n, 1)) /\ types' = Annotated(n, kid(n, 1))
          /\ LookupTable!Bind(name, Symbol(n, types'[n]))
      BY <1>9, <2>2 DEF DeclareType, n, name, Walk, Saying, Continues
    <3>2. kid(n, 1) \in AllNodes
      BY <1>1, <2>2, NodeFacts
    <3>3. types' \in Seq(TypesOver(D)) /\ Len(types') = Len(types) /\ types'[n] \in TypesOver(D)
      BY <1>1, <1>2, <3>1, <3>2, AnnotatedTypes DEF D
    <3>4. DOMAIN types' = D
      BY <1>4, <3>3 DEF D
    <3>5. QED
      BY <1>6, <3>1, <3>3, <3>4
  <2>3. CASE InScope(name)
    <3>1. UNCHANGED <<types, scopes>>
      BY <1>9, <2>3 DEF DeclareType, n, name, Walk, Saying, Continues
    <3>2. QED
      BY <1>7, <3>1
  <2>4. QED
    BY <2>1, <2>2, <2>3
<1>10. QED
  BY <1>8, <1>9

LEMMA NewNameWalks ==
  ASSUME UnifyInv, CheckInv, DerivedInv, AssignNew
  PROVE  Walks
<1> DEFINE n == Task.node
           e == kid(n, 1)
           name == Nodes[n].name
           D == DOMAIN types
           T == TypesOver(D)
           annotated == IF Len(Nodes[n].kids) = 1 THEN types ELSE Annotated(n, kid(n, 2))
<1>1. /\ phase = "generate" /\ ~Idle /\ ~Unifying
      /\ n \in AllNodes /\ Nodes[n].tag = "assignment"
  BY ThisNode DEF AssignNew
<1>2. name \in Names /\ e \in AllNodes /\ n \in D /\ e \in D
  BY <1>1, NodeFacts, ShapeFacts, CellFacts
<1>3. types \in Seq(T) /\ types[e] \in T /\ D = 1 .. Len(types) /\ Len(types) \in Nat
  BY <1>2, CellFacts
<1>4. annotated \in Seq(T) /\ Len(annotated) = Len(types) /\ annotated[n] \in T
  <2>1. CASE Len(Nodes[n].kids) = 1
    BY <1>2, <1>3, <2>1, CellFacts
  <2>2. CASE Len(Nodes[n].kids) = 2
    <3>1. kid(n, 2) \in AllNodes
      BY <1>1, <2>2, NodeFacts
    <3>2. Computable(kid(n, 2))
      BY <2>2 DEF AssignNew, Walk, Saying, Continues
    <3>3. QED
      BY <1>1, <1>2, <2>2, <3>1, <3>2, AnnotatedTypes
  <2>3. QED
    BY <1>1, <2>1, <2>2, ShapeFacts
<1>5. LookupTable!Bind(name, Symbol(e, types[e])) /\ UNCHANGED error_flag /\ OnlyWalks
  BY DEF AssignNew, Insert, Walk, Saying, Continues
<1>6. \/ types' = [annotated EXCEPT ![e] = annotated[n]] /\ Continues(<<>>)
      \/ types' = Append(annotated, types[e]) /\ Continues(<<Equate(n, Len(types) + 1)>>)
  BY DEF AssignNew, Walk, Saying, Continues
<1> HIDE DEF n, e, name, annotated, T
<1>7. CASE types' = [annotated EXCEPT ![e] = annotated[n]] /\ Continues(<<>>)
  <2>1. DOMAIN annotated = D
    BY <1>3, <1>4
  <2>2. types' \in Seq(T) /\ Len(types') = Len(types)
    BY <1>2, <1>4, <1>7, <2>1, ChangedElement
  <2>3. DOMAIN types' = D
    BY <1>3, <2>2
  <2>4. types' \in Seq(TypesOver(DOMAIN types')) /\ DOMAIN types \subseteq DOMAIN types'
        /\ types[e] \in TypesOver(DOMAIN types')
    BY <1>3, <2>2, <2>3 DEF T
  <2>5. <<>> \in Seq(Work(DOMAIN types'))
    OBVIOUS
  <2>6. QED
    BY <1>1, <1>2, <1>5, <1>7, <2>4, <2>5, BindingWalks
<1>8. CASE types' = Append(annotated, types[e]) /\ Continues(<<Equate(n, Len(types) + 1)>>)
  <2>1. D \subseteq 1 .. Len(types) + 1
    BY <1>3
  <2>2. types[e] \in TypesOver(1 .. Len(types) + 1)
    BY <1>3, <2>1, MoreTypes DEF T
  <2>3. /\ types' \in Seq(TypesOver(DOMAIN types')) /\ DOMAIN types \subseteq DOMAIN types'
        /\ DOMAIN types' = 1 .. Len(types) + 1 /\ Len(types) + 1 \in DOMAIN types'
    BY <1>4, <1>8, <2>2, OneCellMore DEF T
  <2>4. Equate(n, Len(types) + 1) \in Work(DOMAIN types')
    BY <1>2, <2>3, TaskFacts
  <2>5. <<Equate(n, Len(types) + 1)>> \in Seq(Work(DOMAIN types'))
    BY <2>4
  <2>6. types[e] \in TypesOver(DOMAIN types')
    BY <2>2, <2>3
  <2>7. QED
    BY <1>1, <1>2, <1>5, <1>8, <2>3, <2>5, <2>6, BindingWalks
<1>9. QED
  BY <1>6, <1>7, <1>8

-----------------------------------------------------------------------------
(* Control flow, blocks and compound values.                               *)

LEMMA ControlWalks ==
  ASSUME UnifyInv, CheckInv, DerivedInv, VisitIf \/ VisitMatch
  PROVE  Walks
<1> DEFINE n == Task.node
           W == Work(DOMAIN types)
<1>1. /\ phase = "generate" /\ ~Idle /\ ~Unifying
      /\ n \in AllNodes /\ Nodes[n].tag \in {"if", "match"}
  BY ThisNode DEF VisitIf, VisitMatch
<1>2. /\ \A i \in DOMAIN Nodes[n].kids : kid(n, i) \in AllNodes
      /\ DOMAIN Nodes[n].kids = 1 .. Len(Nodes[n].kids) /\ Len(Nodes[n].kids) \in Nat
  BY <1>1, NodeFacts
<1>3. /\ AllNodes \subseteq DOMAIN types /\ BoolCell \in DOMAIN types
      /\ \A m \in AllNodes : Visit(m) \in W
      /\ \A l, r \in AllNodes \cup {BoolCell} : Equate(l, r) \in W
  BY CellFacts, TaskFacts
<1>4. CASE VisitIf
  <2> DEFINE branches == IF Len(Nodes[n].kids) = 2 THEN <<>>
                         ELSE <<Visit(kid(n, 3)), Equate(kid(n, 3), kid(n, 2))>>
             before == <<Visit(kid(n, 1)), Equate(kid(n, 1), BoolCell),
                         Visit(kid(n, 2)), Equate(n, kid(n, 2))>>
  <2>1. Nodes[n].tag = "if"
    BY <1>4, ThisNode DEF VisitIf
  <2>2. Len(Nodes[n].kids) >= 2
    BY <1>1, <2>1, ShapeFacts
  <2>3. kid(n, 1) \in AllNodes /\ kid(n, 2) \in AllNodes
        /\ (Len(Nodes[n].kids) # 2 => kid(n, 3) \in AllNodes)
    <3> DEFINE m == Len(Nodes[n].kids)
    <3> HIDE DEF m
    <3>1. m \in Nat /\ m >= 2 /\ DOMAIN Nodes[n].kids = 1 .. m
      BY <1>2, <2>2 DEF m
    <3>2. 1 \in 1 .. m /\ 2 \in 1 .. m /\ (m # 2 => 3 \in 1 .. m)
      BY <3>1
    <3>3. QED
      BY <1>2, <3>1, <3>2 DEF m
  <2>4. Continues(before \o branches)
    BY <1>4 DEF VisitIf, Walk, Saying, Continues
  <2> HIDE DEF W, n
  <2>5. before \in Seq(W)
    BY <1>1, <1>3, <2>3
  <2>6. branches \in Seq(W)
    <3>1. CASE Len(Nodes[n].kids) = 2
      BY <3>1
    <3>2. CASE Len(Nodes[n].kids) # 2
      <4>1. Visit(kid(n, 3)) \in W /\ Equate(kid(n, 3), kid(n, 2)) \in W
        BY <1>3, <2>3, <3>2
      <4>2. QED
        BY <3>2, <4>1
    <3>3. QED
      BY <3>1, <3>2
  <2> HIDE DEF before, branches
  <2>7. before \o branches \in Seq(W)
    BY <2>5, <2>6
  <2>8. QED
    BY <1>1, <1>4, <2>4, <2>7, StillWalks DEF VisitIf, W, Walk, Saying, Continues
<1>5. CASE VisitMatch
  <2> DEFINE candidate == kid(n, 1)
             arm(i) == kid(n, i + 1)
             arms == [i \in 1 .. Len(Nodes[n].kids) - 1 |->
                        <<Visit(arm(i)), Equate(n, arm(i)), Equate(candidate, kid(arm(i), 1))>>]
             m == Len(Nodes[n].kids) - 1
  <2>1. Nodes[n].tag = "match"
    BY <1>5, ThisNode DEF VisitMatch
  <2>2. m \in Nat /\ candidate \in AllNodes
    BY <1>1, <1>2, <2>1, NodeFacts, ShapeFacts
  <2>3. \A i \in 1 .. m : arms[i] \in Seq(W)
    <3> TAKE i \in 1 .. m
    <3>1. i + 1 \in 2 .. Len(Nodes[n].kids) /\ i + 1 \in DOMAIN Nodes[n].kids
      BY <1>2, <2>2
    <3>2. arm(i) \in AllNodes /\ Nodes[arm(i)].tag = "binop"
      BY <1>1, <1>2, <2>1, <3>1, ShapeFacts
    <3>3. kid(arm(i), 1) \in AllNodes
      BY <3>2, NodeFacts, ShapeFacts
    <3>4. Visit(arm(i)) \in W /\ Equate(n, arm(i)) \in W /\ Equate(candidate, kid(arm(i), 1)) \in W
      BY <1>1, <1>3, <2>2, <3>2, <3>3
    <3> HIDE DEF W, arm, candidate, n
    <3>5. <<Visit(arm(i)), Equate(n, arm(i)), Equate(candidate, kid(arm(i), 1))>> \in Seq(W)
      BY <3>4
    <3>6. QED
      BY <3>5 DEF n, m, arm, candidate
  <2>4. DOMAIN arms = 1 .. m /\ arms = [i \in DOMAIN arms |-> arms[i]]
    OBVIOUS
  <2>5. Continues(<<Visit(candidate)>> \o FlattenSeq(arms))
    BY <1>5 DEF VisitMatch, Walk, Saying, Continues
  <2>6. Visit(candidate) \in W
    BY <1>3, <2>2
  <2> HIDE DEF W, arms, n, candidate, m
  <2>7. arms \in Seq(Seq(W))
    BY <2>2, <2>3, <2>4, MappedSequence
  <2>8. <<Visit(candidate)>> \in Seq(W) /\ FlattenSeq(arms) \in Seq(W)
    BY <2>6, <2>7, FlattenJoins
  <2>9. <<Visit(candidate)>> \o FlattenSeq(arms) \in Seq(W)
    BY <2>8, Joined
  <2>10. QED
    BY <1>1, <1>5, <2>5, <2>9, StillWalks DEF VisitMatch, W, Walk, Saying, Continues
<1>6. QED
  BY <1>4, <1>5

\* The children of a node, or what is in their place, then the node again.
LEMMA PartsWalk ==
  ASSUME NEW n \in AllNodes, NEW m \in Nat, NEW parts, DOMAIN parts = 1 .. m,
         parts = [i \in DOMAIN parts |-> parts[i]],
         NEW W, \A i \in 1 .. m : parts[i] \in W, NEW last \in Seq(W)
  PROVE  parts \o last \in Seq(W)
<1>1. parts \in Seq(W)
  BY MappedSequence
<1>2. QED
  BY <1>1, Joined

LEMMA MemberNodes ==
  ASSUME UnifyInv, CheckInv, NEW n \in AllNodes, Nodes[n].tag \in {"tuple", "struct"}
  PROVE  \A i \in DOMAIN Nodes[n].kids : Member(n, i) \in AllNodes
BY MembersAreCells, NodeFacts DEF Member

LEMMA ListsWalk ==
  ASSUME UnifyInv, CheckInv, DerivedInv, VisitList \/ VisitMembers \/ FinishList
  PROVE  Walks
<1> DEFINE n == Task.node
           W == Work(DOMAIN types)
           m == Len(Nodes[n].kids)
<1>1. /\ phase = "generate" /\ ~Idle /\ ~Unifying /\ n \in AllNodes
      /\ VisitList \/ FinishList => Nodes[n].tag = "list"
      /\ VisitMembers => Nodes[n].tag \in {"tuple", "struct"}
  BY ThisNode DEF VisitList, FinishList, VisitMembers
<1>2. /\ \A i \in DOMAIN Nodes[n].kids : kid(n, i) \in AllNodes
      /\ DOMAIN Nodes[n].kids = 1 .. m /\ m \in Nat
  BY <1>1, NodeFacts
<1>3. /\ \A c \in AllNodes : Visit(c) \in W
      /\ Finish(n) \in W
  BY <1>1, TaskFacts
<1>4. CASE VisitList
  <2> DEFINE parts == [i \in DOMAIN Nodes[n].kids |-> Visit(kid(n, i))]
  <2>1. DOMAIN parts = 1 .. m /\ parts = [i \in DOMAIN parts |-> parts[i]]
        /\ \A i \in 1 .. m : parts[i] \in W
    BY <1>2, <1>3
  <2>2. Continues(parts \o <<Finish(n)>>)
    BY <1>4 DEF VisitList, Walk, Saying, Continues
  <2> HIDE DEF W, n, m, parts
  <2>3. <<Finish(n)>> \in Seq(W)
    BY <1>3
  <2>4. parts \o <<Finish(n)>> \in Seq(W)
    BY <1>1, <1>2, <2>1, <2>3, PartsWalk
  <2>5. QED
    BY <1>1, <1>4, <2>2, <2>4, StillWalks DEF VisitList, W, Walk, Saying, Continues
<1>5. CASE VisitMembers
  <2> DEFINE parts == [i \in DOMAIN Nodes[n].kids |-> Visit(Member(n, i))]
  <2>1. DOMAIN parts = 1 .. m /\ parts = [i \in DOMAIN parts |-> parts[i]]
        /\ \A i \in 1 .. m : parts[i] \in W
    BY <1>1, <1>2, <1>3, <1>5, MemberNodes
  <2>2. Continues(parts \o <<Finish(n)>>)
    BY <1>5 DEF VisitMembers, Walk, Saying, Continues
  <2> HIDE DEF W, n, m, parts
  <2>3. <<Finish(n)>> \in Seq(W)
    BY <1>3
  <2>4. parts \o <<Finish(n)>> \in Seq(W)
    BY <1>1, <1>2, <2>1, <2>3, PartsWalk
  <2>5. QED
    BY <1>1, <1>5, <2>2, <2>4, StillWalks DEF VisitMembers, W, Walk, Saying, Continues
<1>6. CASE FinishList
  <2>1. LastKid(n) \in DOMAIN types /\ n \in DOMAIN types
    BY <1>1, <1>6, NodeFacts, ShapeFacts, CellFacts
  <2>2. types[LastKid(n)] \in TypesOver(DOMAIN types)
    BY <2>1, CellFacts
  <2>3. types' = [types EXCEPT ![n] = types[LastKid(n)]]
    BY <1>6 DEF FinishList, Walk, Saying, Continues
  <2>4. types' \in Seq(TypesOver(DOMAIN types)) /\ Len(types') = Len(types)
    BY <2>1, <2>2, <2>3, ChangedCell
  <2>5. <<>> \in Seq(W)
    OBVIOUS
  <2>6. QED
    BY <1>1, <1>6, <2>4, <2>5, ChangeWalks DEF FinishList, Walk, Saying, Continues
<1>7. QED
  BY <1>4, <1>5, <1>6

\* A compound type over copies of types, and an equation on it.
LEMMA CompoundWalks ==
  ASSUME UnifyInv, CheckInv, DerivedInv, phase = "generate", ~Idle, ~Unifying,
         NEW known \in Seq(TypesOver(DOMAIN types)), Len(known) = Len(types),
         NEW m \in Nat, NEW members \in Seq(TypesOver(DOMAIN types)), Len(members) = m,
         NEW n \in AllNodes, NEW t, types' = Append(known \o members, t),
         \/ t = Fn([i \in DOMAIN members |-> Len(types) + i])
         \/ t = Tuple([i \in DOMAIN members |-> Len(types) + i])
         \/ \E fields \in Seq(STRING) :
              Len(fields) = m /\ t = Struct([i \in DOMAIN members |-> Len(types) + i], fields),
         Continues(<<Equate(n, Len(types) + Len(members) + 1)>>),
         UNCHANGED <<scopes, error_flag>>, OnlyWalks
  PROVE  Walks
<1> DEFINE size == Len(types)
           cells == [i \in DOMAIN members |-> size + i]
           E == 1 .. size + m + 1
<1>1. size \in Nat /\ DOMAIN types = 1 .. size /\ n \in DOMAIN types
  BY CellFacts
<1>2. DOMAIN members = 1 .. m
  OBVIOUS
<1>3. DOMAIN cells = 1 .. m /\ cells = [i \in DOMAIN cells |-> cells[i]]
      /\ \A i \in 1 .. m : cells[i] \in E
  BY <1>1, <1>2
<1> HIDE DEF cells, E
<1>4. cells \in Seq(E) /\ Len(cells) = m
  BY <1>3, MappedSequence
<1>5. t \in TypesOver(E)
  <2>1. CASE t = Fn(cells)
    BY <1>4, <2>1 DEF Fn, Compound, TypesOver
  <2>2. CASE t = Tuple(cells)
    BY <1>4, <2>2 DEF Tuple, Compound, TypesOver
  <2>3. CASE \E fields \in Seq(STRING) : Len(fields) = m /\ t = Struct(cells, fields)
    <3>1. PICK fields \in Seq(STRING) : Len(fields) = m /\ t = Struct(cells, fields)
      BY <2>3
    <3>2. Struct(cells, fields) \in TypesOver(E)
      BY <1>4, <3>1 DEF Struct, Compound, TypesOver
    <3>3. QED
      BY <3>1, <3>2
  <2>4. QED
    BY <2>1, <2>2, <2>3 DEF cells
<1>6. /\ types' \in Seq(TypesOver(DOMAIN types')) /\ DOMAIN types \subseteq DOMAIN types'
      /\ DOMAIN types' = 1 .. size + m + 1 /\ size + m + 1 \in DOMAIN types'
  BY <1>5, CompoundCells DEF E
<1>7. Equate(n, size + m + 1) \in Work(DOMAIN types')
  BY <1>1, <1>6, TaskFacts
<1>8. <<Equate(n, size + m + 1)>> \in Seq(Work(DOMAIN types'))
  BY <1>7
<1>9. Continues(<<Equate(n, size + m + 1)>>)
  OBVIOUS
<1>10. QED
  BY <1>6, <1>8, <1>9, CellsWalk

LEMMA MembersWalk ==
  ASSUME UnifyInv, CheckInv, DerivedInv, FinishMembers \/ FinishFunction
  PROVE  Walks
<1> DEFINE n == Task.node
           m == Len(Nodes[n].kids)
           T == TypesOver(DOMAIN types)
<1>1. /\ phase = "generate" /\ ~Idle /\ ~Unifying /\ n \in AllNodes
      /\ FinishMembers => Nodes[n].tag \in {"tuple", "struct"}
  BY ThisNode DEF FinishMembers, FinishFunction
<1>2. /\ \A i \in DOMAIN Nodes[n].kids : kid(n, i) \in DOMAIN types
      /\ DOMAIN Nodes[n].kids = 1 .. m /\ m \in Nat /\ AllNodes \subseteq DOMAIN types
  BY <1>1, NodeFacts, CellFacts
<1>3. \A c \in DOMAIN types : types[c] \in T
  BY CellFacts
<1>4. CASE FinishMembers
  <2> DEFINE members == [i \in DOMAIN Nodes[n].kids |-> types[Member(n, i)]]
             cells == [i \in DOMAIN members |-> Len(types) + i]
             t == IF Nodes[n].tag = "tuple" THEN Tuple(cells) ELSE Struct(cells, FieldsOf(n))
  <2>1. DOMAIN members = 1 .. m /\ members = [i \in DOMAIN members |-> members[i]]
        /\ \A i \in 1 .. m : members[i] \in T
    BY <1>1, <1>2, <1>3, <1>4, MemberNodes
  <2>2. FieldsOf(n) \in Seq(STRING) /\ Len(FieldsOf(n)) = m
    BY <1>1, FieldsAreNames
  <2>3. types' = Append(types \o members, t) /\ Continues(<<Equate(n, Len(types) + Len(members) + 1)>>)
    BY <1>4 DEF FinishMembers, Walk, Saying, Continues
  <2>4. \/ t = Tuple(cells)
        \/ \E fields \in Seq(STRING) : Len(fields) = m /\ t = Struct(cells, fields)
    BY <2>2
  <2>5. types \in Seq(T)
    BY CellFacts
  <2> HIDE DEF members, m, n, t, T
  <2>6. members \in Seq(T) /\ Len(members) = m
    BY <1>2, <2>1, MappedSequence
  <2>7. QED
    BY <1>1, <1>2, <1>4, <2>3, <2>4, <2>5, <2>6, CompoundWalks DEF FinishMembers, T, Walk, Saying, Continues
<1>5. CASE FinishFunction
  <2> DEFINE members == [i \in DOMAIN Nodes[n].kids |-> types[kid(n, i)]]
             cells == [i \in DOMAIN members |-> Len(types) + i]
             t == Fn(cells)
  <2>1. DOMAIN members = 1 .. m /\ members = [i \in DOMAIN members |-> members[i]]
        /\ \A i \in 1 .. m : members[i] \in T
    BY <1>2, <1>3
  <2>3. types' = Append(types \o members, t) /\ Continues(<<Equate(n, Len(types) + Len(members) + 1)>>)
    BY <1>5 DEF FinishFunction, Walk, Saying, Continues
  <2>4. t = Fn(cells)
    OBVIOUS
  <2>5. types \in Seq(T)
    BY CellFacts
  <2> HIDE DEF members, m, n, t, T
  <2>6. members \in Seq(T) /\ Len(members) = m
    BY <1>2, <2>1, MappedSequence
  <2>7. QED
    BY <1>1, <1>2, <1>5, <2>3, <2>4, <2>5, <2>6, CompoundWalks DEF FinishFunction, T, Walk, Saying, Continues
<1>6. QED
  BY <1>4, <1>5

LEMMA StructsHaveFields ==
  ASSUME NEW D, NEW t \in TypesOver(D), NEW name, name \in Range(t.fields)
  PROVE  /\ DOMAIN t.fields = 1 .. Len(t.fields) /\ Len(t.fields) \in Nat
         /\ t.members \in Seq(D) /\ Len(t.members) = Len(t.fields)
<1>1. t.fields # <<>>
  BY DEF Range
<1>2. /\ t \in [tag : {"fn", "tuple", "struct", "array", "ptr"}, name : {0},
                members : Seq(D), fields : Seq(STRING)]
      /\ t.tag = "struct" /\ Len(t.fields) = Len(t.members)
  BY <1>1 DEF TypesOver, Var, Ground
<1>3. t.fields \in Seq(STRING) /\ t.members \in Seq(D)
  BY <1>2
<1>4. QED
  BY <1>2, <1>3

LEMMA MemberTypes ==
  ASSUME UnifyInv, CheckInv, NEW m \in AllNodes, ObjectInScope(m), HasMember(m)
  PROVE  MemberType(m) \in TypesOver(DOMAIN types)
<1> DEFINE D == DOMAIN types
           T == TypesOver(D)
           object == ObjectType(m)
           t == StructType(m)
           name == Nodes[m].name
           Named(i) == t.fields[i] = name /\ \A j \in 1 .. i - 1 : t.fields[j] # name
           found == CHOOSE i \in DOMAIN t.fields : Named(i)
<1>1. object \in T
  BY LookupTypes DEF ObjectInScope, ObjectType
<1>2. t \in T
  <2>1. CASE object.tag = "ptr"
    <3>1. Len(object.members) = 1 /\ object.members \in Seq(D)
      BY <1>1, <2>1 DEF TypesOver, Var, Ground, GroundTags
    <3>2. 1 \in DOMAIN object.members
      BY <3>1
    <3>3. types[object.members[1]] \in T
      BY <1>1, <3>2, CellsOf
    <3>4. QED
      BY <2>1, <3>3 DEF StructType
  <2>2. CASE object.tag # "ptr"
    BY <1>1, <2>2 DEF StructType
  <2>3. QED
    BY <2>1, <2>2
<1>3. name \in Range(t.fields)
  BY DEF HasMember
<1> HIDE DEF t, T, D, object
<1>4. /\ DOMAIN t.fields = 1 .. Len(t.fields) /\ Len(t.fields) \in Nat
      /\ t.members \in Seq(D) /\ Len(t.members) = Len(t.fields)
  BY <1>2, <1>3, StructsHaveFields DEF T
<1>5. \E i \in DOMAIN t.fields : Named(i)
  <2> DEFINE S == {i \in DOMAIN t.fields : t.fields[i] = name}
             k == Len(t.fields)
  <2>1. PICK i \in 1 .. k : i \in S
    BY <1>3, <1>4 DEF Range
  <2> HIDE DEF S, k
  <2>2. k \in Nat /\ k \in Int /\ 1 \in Int
    BY <1>4 DEF k
  <2>3. PICK j \in 1 .. k : j \in S /\ \A l \in 1 .. j - 1 : l \notin S
    BY <2>1, <2>2, FirstPlace
  <2>4. \A l \in 1 .. j - 1 : l \in DOMAIN t.fields
    BY <1>4, <2>2, <2>3 DEF k
  <2>5. QED
    BY <2>3, <2>4 DEF S
<1> HIDE DEF Named
<1>6. found \in DOMAIN t.fields
  BY <1>5
<1>7. MemberType(m) = types[t.members[found]]
  BY DEF MemberType, MemberCell, Named, t
<1> HIDE DEF found
<1>8. t.members[found] \in D
  BY <1>4, <1>6
<1>9. QED
  BY <1>7, <1>8, CellFacts DEF D

LEMMA AccessWalks ==
  ASSUME UnifyInv, CheckInv, DerivedInv, FinishIndex \/ VisitMemberAccess \/ VisitMethodCall
  PROVE  Walks
<1> DEFINE n == Task.node
           T == TypesOver(DOMAIN types)
<1>1. /\ phase = "generate" /\ ~Idle /\ ~Unifying /\ n \in AllNodes
      /\ FinishIndex => Nodes[n].tag = "index"
      /\ VisitMethodCall => Nodes[n].tag = "method"
  BY ThisNode DEF FinishIndex, VisitMemberAccess, VisitMethodCall
<1>2. n \in DOMAIN types /\ <<>> \in Seq(Work(DOMAIN types))
  BY <1>1, CellFacts
<1>3. CASE FinishIndex
  <2> DEFINE object == types[kid(n, 1)]
  <2>1. kid(n, 1) \in DOMAIN types
    BY <1>1, <1>3, NodeFacts, ShapeFacts, CellFacts
  <2>2. object \in T
    BY <2>1, CellFacts
  <2>3. object.members # <<>> /\ types' = [types EXCEPT ![n] = types[Head(object.members)]]
    BY <1>3 DEF FinishIndex, Walk, Saying, Continues
  <2> HIDE DEF object
  <2>4. types[Head(object.members)] \in T
    BY <2>2, <2>3, CellsOf
  <2>5. types' \in Seq(T) /\ Len(types') = Len(types)
    BY <1>2, <2>3, <2>4, ChangedCell
  <2>6. QED
    BY <1>1, <1>2, <1>3, <2>5, ChangeWalks DEF FinishIndex, Walk, Saying, Continues
<1>4. CASE VisitMemberAccess
  <2>1. CASE /\ ObjectInScope(n) /\ HasMember(n) /\ types' = Append(types, MemberType(n))
             /\ Continues(<<Equate(n, Len(types) + 1)>>)
    <3>1. MemberType(n) \in T
      BY <1>1, <2>1, MemberTypes
    <3>2. QED
      BY <1>1, <1>2, <1>4, <2>1, <3>1, CopyWalks DEF VisitMemberAccess, Walk, Saying, Continues
  <2>2. CASE Continues(<<>>) /\ UNCHANGED types
    BY <1>1, <1>2, <1>4, <2>2, StillWalks DEF VisitMemberAccess, Walk, Saying, Continues
  <2>3. QED
    BY <1>4, <2>1, <2>2 DEF VisitMemberAccess, Walk, Saying, Continues
<1>5. CASE VisitMethodCall
  <2> DEFINE m == kid(n, 1)
             t == MemberType(m)
  <2>1. m \in AllNodes
    BY <1>1, <1>5, NodeFacts, ShapeFacts
  <2>2. CASE /\ ObjectInScope(m) /\ HasMember(m) /\ t.members # <<>>
             /\ types' = Append(types, types[Last(t.members)])
             /\ Continues(<<Equate(n, Len(types) + 1)>>)
    <3>1. t \in T
      BY <2>1, <2>2, MemberTypes
    <3>2. types[Last(t.members)] \in T
      <4> HIDE DEF t
      <4>1. Last(t.members) \in DOMAIN types
        BY <2>2, <3>1, CellsOf
      <4>2. QED
        BY <4>1, CellFacts
    <3>3. QED
      BY <1>1, <1>2, <1>5, <2>2, <3>2, CopyWalks DEF VisitMethodCall, Walk, Saying, Continues
  <2>3. CASE Continues(<<>>) /\ UNCHANGED types
    BY <1>1, <1>2, <1>5, <2>3, StillWalks DEF VisitMethodCall, Walk, Saying, Continues
  <2>4. QED
    BY <1>5, <2>2, <2>3 DEF VisitMethodCall, Walk, Saying, Continues
<1>6. QED
  BY <1>3, <1>4, <1>5

LEMMA ArrayWalks ==
  ASSUME UnifyInv, CheckInv, DerivedInv, VisitArray
  PROVE  Walks
<1> DEFINE n == Task.node
           elements == Nodes[n].kids
           size == Len(types)
           m == Len(elements)
<1>1. /\ phase = "generate" /\ ~Idle /\ ~Unifying /\ n \in AllNodes
  BY ThisNode DEF VisitArray
<1>2. /\ \A i \in DOMAIN elements : elements[i] \in AllNodes
      /\ DOMAIN elements = 1 .. m /\ m \in Nat
  BY <1>1, NodeFacts DEF kid
<1>3. CASE elements = <<>>
  <2>1. <<>> \in Seq(Work(DOMAIN types))
    OBVIOUS
  <2>2. QED
    BY <1>1, <1>3, <2>1, StillWalks DEF VisitArray, Walk, Saying, Continues
<1>4. CASE elements # <<>>
  <2> DEFINE parts == [i \in DOMAIN elements |->
                         IF i = 1 THEN <<Visit(elements[1])>>
                         ELSE <<Visit(elements[i]), Equate(elements[i], elements[1])>>]
             W == Work(DOMAIN types')
  <2>1. types' = Append(types, Array(elements[1])) /\ Continues(FlattenSeq(parts) \o <<Equate(n, size + 1)>>)
        /\ UNCHANGED <<scopes, error_flag>> /\ OnlyWalks
    BY <1>4 DEF VisitArray, Walk, Saying, Continues
  <2>2. size \in Nat /\ DOMAIN types = 1 .. size /\ types \in Seq(TypesOver(DOMAIN types))
        /\ AllNodes \subseteq DOMAIN types
    BY CellFacts
  <2>3. elements[1] \in AllNodes
    BY <1>1, <1>4, NodeFacts DEF kid
  <2>4. Array(elements[1]) \in TypesOver(1 .. size + 1)
    <3>1. elements[1] \in 1 .. size + 1
      BY <2>2, <2>3
    <3> HIDE DEF elements, size
    <3>2. QED
      BY <3>1 DEF Array, Compound, TypesOver
  <2>5. /\ types' \in Seq(TypesOver(DOMAIN types')) /\ DOMAIN types \subseteq DOMAIN types'
        /\ size + 1 \in DOMAIN types'
    BY <2>1, <2>2, <2>4, OneCellMore
  <2>6. /\ \A c \in AllNodes : Visit(c) \in W
        /\ \A l, r \in AllNodes : Equate(l, r) \in W
        /\ Equate(n, size + 1) \in W
    BY <1>1, <2>2, <2>5, TaskFacts
  <2>7. \A i \in 1 .. m : parts[i] \in Seq(W)
    <3> TAKE i \in 1 .. m
    <3>1. Visit(elements[1]) \in W /\ Visit(elements[i]) \in W
          /\ Equate(elements[i], elements[1]) \in W
      BY <1>2, <2>3, <2>6
    <3>2. parts[i] = IF i = 1 THEN <<Visit(elements[1])>>
                     ELSE <<Visit(elements[i]), Equate(elements[i], elements[1])>>
      BY <1>2
    <3> HIDE DEF W, elements, parts, m, n
    <3>3. QED
      BY <3>1, <3>2
  <2>8. DOMAIN parts = 1 .. m /\ parts = [i \in DOMAIN parts |-> parts[i]]
    BY <1>2
  <2> HIDE DEF W, parts, elements, n, size, m
  <2>9. parts \in Seq(Seq(W))
    BY <1>2, <2>7, <2>8, MappedSequence
  <2>10. FlattenSeq(parts) \in Seq(W) /\ <<Equate(n, size + 1)>> \in Seq(W)
    BY <2>6, <2>9, FlattenJoins
  <2>11. FlattenSeq(parts) \o <<Equate(n, size + 1)>> \in Seq(W)
    BY <2>10, Joined
  <2>12. QED
    BY <1>1, <2>1, <2>5, <2>11, CellsWalk DEF W
<1>5. QED
  BY <1>3, <1>4

-----------------------------------------------------------------------------
(* Functions.                                                              *)

LEMMA InnerScope ==
  ASSUME NEW E, NEW s \in Seq(ScopesOver(E))
  PROVE  Append(s, LookupTable!Empty) \in Seq(ScopesOver(E)) /\ Append(s, LookupTable!Empty) # <<>>
<1> DEFINE X == ScopesOver(E)
<1>1. LookupTable!Empty \in X
  <2>1. LookupTable!Empty \in [{} -> SymbolsOver(E)]
    BY DEF LookupTable!Empty
  <2>2. QED
    BY <2>1 DEF ScopesOver
<1> HIDE DEF X
<1>2. s \in Seq(X)
  BY DEF X
<1> DEFINE e == LookupTable!Empty
<1> HIDE DEF e
<1>3. Append(s, e) \in Seq(X) /\ Append(s, e) # <<>>
  BY <1>1, <1>2 DEF e
<1>4. QED
  BY <1>3 DEF X, e

LEMMA EnterWalks ==
  ASSUME UnifyInv, CheckInv, DerivedInv, EnterFunction \/ EnterExtern
  PROVE  Walks
<1> DEFINE n == Task.node
           name == Nodes[n].name
           D == DOMAIN types
           W == Work(D)
           symbol == Symbol(n, types[n])
           bound == [scopes EXCEPT ![Len(scopes)] = LookupTable!Bound(@, name, symbol)]
           outer == IF EnterFunction /\ name = Anonymous THEN scopes ELSE bound
           m == IF EnterFunction THEN Len(Nodes[n].kids) ELSE Parameters(n)
           parts == [i \in 1 .. m |-> Visit(kid(n, i))]
           last == <<LeaveScope, Finish(n)>>
<1>1. /\ phase = "generate" /\ ~Idle /\ ~Unifying /\ n \in AllNodes
      /\ EnterFunction => Nodes[n].tag = "fn"
      /\ EnterExtern => Nodes[n].tag = "extern"
  BY ThisNode DEF EnterFunction, EnterExtern
<1>2. /\ \A i \in DOMAIN Nodes[n].kids : kid(n, i) \in AllNodes
      /\ DOMAIN Nodes[n].kids = 1 .. Len(Nodes[n].kids) /\ Len(Nodes[n].kids) \in Nat
      /\ Nodes[n].kids # <<>> /\ Nodes[n].kids \in Seq(AllNodes)
  BY <1>1, NodeFacts, ShapeFacts
<1>3. /\ (EnterFunction => name \in Names \cup {Anonymous}) /\ (EnterExtern => name \in Names)
      /\ symbol \in SymbolsOver(D)
  <2>1. n \in D /\ types[n] \in TypesOver(D)
    BY <1>1, CellFacts
  <2>2. QED
    BY <1>1, <2>1, ShapeFacts DEF Symbol, SymbolsOver
<1>4. EnterFunction \/ EnterExtern => ~(EnterFunction /\ EnterExtern)
  BY <1>1
<1>5. scopes' = Append(outer, LookupTable!Empty)
  BY <1>4 DEF EnterFunction, EnterExtern, Walk, Saying, Continues
<1>6. Continues(parts \o last)
  BY <1>2, <1>4 DEF EnterFunction, EnterExtern, Walk, Saying, Continues
<1>7. m \in Nat /\ m <= Len(Nodes[n].kids)
  <2> DEFINE kids == Nodes[n].kids
  <2> HIDE DEF kids
  <2>1. kids \in Seq(AllNodes) /\ kids # <<>>
    BY <1>2 DEF kids
  <2>2. Len(kids) \in Nat /\ Len(kids) > 0
    BY <2>1
  <2>3. m = Len(kids) \/ m = Len(kids) - 1
    BY DEF Parameters, kids
  <2> HIDE DEF m
  <2>4. QED
    BY <2>2, <2>3 DEF kids
<1>8. \A i \in 1 .. m : parts[i] \in W
  <2> TAKE i \in 1 .. m
  <2>1. i \in DOMAIN Nodes[n].kids
    BY <1>2, <1>7
  <2>2. kid(n, i) \in AllNodes
    BY <1>2, <2>1
  <2>3. Visit(kid(n, i)) \in W
    BY <2>2, TaskFacts
  <2> HIDE DEF W, n, m
  <2>4. QED
    BY <2>3
<1>9. LeaveScope \in W /\ Finish(n) \in W
  BY <1>1, TaskFacts
<1>10. DOMAIN parts = 1 .. m /\ parts = [i \in DOMAIN parts |-> parts[i]]
  OBVIOUS
<1>11. /\ UNCHANGED <<types, error_flag>> /\ OnlyWalks
  BY DEF EnterFunction, EnterExtern, Walk, Saying, Continues
<1>12. outer \in Seq(ScopesOver(D))
  <2>1. scopes \in Seq(ScopesOver(D))
    BY DEF CheckInv
  <2>2. CASE name \in Names
    <3>1. bound \in Seq(ScopesOver(D))
      BY <1>3, <2>2, BoundScopes
    <3> HIDE DEF bound
    <3>2. QED
      BY <2>1, <3>1
  <2>3. CASE name \notin Names
    BY <1>3, <2>1, <2>3
  <2>4. QED
    BY <2>2, <2>3
<1> HIDE DEF W, D, n, m, parts, last, outer
<1>13. last \in Seq(W)
  BY <1>9 DEF last
<1>14. parts \o last \in Seq(W)
  BY <1>1, <1>7, <1>8, <1>10, <1>13, PartsWalk
<1>15. scopes' \in Seq(ScopesOver(D)) /\ scopes' # <<>>
  BY <1>5, <1>12, InnerScope
<1>16. types' \in Seq(TypesOver(DOMAIN types')) /\ DOMAIN types \subseteq DOMAIN types'
       /\ DOMAIN types' = D
  BY <1>11, CellFacts DEF D
<1>17. error_flag' \in BOOLEAN /\ (error_flag => error_flag')
  BY <1>11 DEF UnifyInv
<1>18. QED
  BY <1>1, <1>6, <1>11, <1>14, <1>15, <1>16, <1>17, Walking DEF W

LEMMA ExitWalks ==
  ASSUME UnifyInv, CheckInv, DerivedInv, ExitScope \/ CallUnknown
  PROVE  Walks
<1>1. /\ phase = "generate" /\ ~Idle /\ ~Unifying
  BY ThisNode DEF ExitScope, CallUnknown, Unifying
<1>2. /\ UNCHANGED types /\ OnlyWalks /\ Continues(<<>>)
  BY DEF ExitScope, CallUnknown, Walk, Saying, Continues
<1>3. types' \in Seq(TypesOver(DOMAIN types')) /\ DOMAIN types \subseteq DOMAIN types'
      /\ DOMAIN types' = DOMAIN types
  BY <1>2, CellFacts
<1>4. <<>> \in Seq(Work(DOMAIN types'))
  OBVIOUS
<1>5. scopes' \in Seq(ScopesOver(DOMAIN types)) /\ scopes' # <<>>
  <2> DEFINE X == ScopesOver(DOMAIN types)
  <2>1. scopes \in Seq(X) /\ scopes # <<>>
    BY DEF CheckInv
  <2> HIDE DEF X
  <2>2. CASE LookupTable!Exit
    <3>1. Len(scopes) > 1 /\ scopes' = SubSeq(scopes, 1, Len(scopes) - 1)
      BY <2>2 DEF LookupTable!Exit
    <3>2. Len(scopes) \in Nat /\ Len(scopes') = Len(scopes) - 1 /\ scopes' \in Seq(X)
      BY <2>1, <3>1
    <3>3. Len(scopes') # 0
      <4>1. Len(scopes) > 1
        BY <3>1
      <4>2. QED
        BY <3>2, <4>1
    <3>4. scopes' # <<>>
      <4>1. scopes' = <<>> => Len(scopes') = 0
        OBVIOUS
      <4>2. QED
        BY <3>3, <4>1
    <3>5. QED
      BY <3>2, <3>4 DEF X
  <2>3. CASE UNCHANGED scopes
    BY <2>1, <2>3 DEF X
  <2>4. QED
    BY <2>2, <2>3 DEF ExitScope, CallUnknown, Walk, Saying, Continues
<1>6. error_flag' \in BOOLEAN /\ (error_flag => error_flag')
  BY DEF UnifyInv, ExitScope, CallUnknown, Walk, Saying, Continues
<1>7. QED
  BY <1>1, <1>2, <1>3, <1>4, <1>5, <1>6, Walking

LEMMA ExternWalks ==
  ASSUME UnifyInv, CheckInv, DerivedInv, FinishExtern
  PROVE  Walks
<1> DEFINE n == Task.node
           m == Len(Nodes[n].kids)
           T == TypesOver(DOMAIN types)
           S == {PartAnnotation(n, i) : i \in DOMAIN Nodes[n].kids}
           known == Computed(S)
           members == [i \in DOMAIN Nodes[n].kids |-> known[PartAnnotation(n, i)]]
<1>1. /\ phase = "generate" /\ ~Idle /\ ~Unifying /\ n \in AllNodes
  BY ThisNode DEF FinishExtern
<1>2. /\ \A i \in DOMAIN Nodes[n].kids : kid(n, i) \in AllNodes
      /\ DOMAIN Nodes[n].kids = 1 .. m /\ m \in Nat /\ AllNodes \subseteq DOMAIN types
  BY <1>1, NodeFacts, CellFacts
<1>3. PartsComputable(n)
  BY DEF FinishExtern, Walk, Saying, Continues
<1>4. \A i \in DOMAIN Nodes[n].kids :
        PartAnnotation(n, i) \in AllNodes /\ Computable(PartAnnotation(n, i))
  <2> TAKE i \in DOMAIN Nodes[n].kids
  <2>1. i \in Nat /\ i >= 1 /\ kid(n, i) \in AllNodes
    BY <1>2
  <2>2. CASE i > Parameters(n)
    BY <1>3, <2>1, <2>2 DEF PartAnnotation, PartsComputable
  <2>3. CASE ~(i > Parameters(n))
    <3>1. Parameters(n) = m - 1
      BY DEF Parameters
    <3>2. i \in 1 .. Parameters(n)
      BY <1>2, <2>1, <2>3, <3>1
    <3>3. Nodes[kid(n, i)].kids # <<>>
      BY <1>3, <3>2 DEF PartsComputable
    <3>4. kid(kid(n, i), 1) \in AllNodes
      BY <2>1, <3>3, NodeFacts
    <3>5. QED
      BY <1>3, <2>3, <3>4 DEF PartAnnotation, PartsComputable
  <2>4. QED
    BY <2>2, <2>3
<1>5. S \in SUBSET AllNodes /\ \A e \in S : Computable(e)
  BY <1>4
<1>6. known \in Seq(T) /\ Len(known) = Len(types) /\ \A c \in DOMAIN types : known[c] \in T
  <2> HIDE DEF S
  <2>1. QED
    BY <1>5, ComputedTypes
<1>7. DOMAIN members = 1 .. m /\ members = [i \in DOMAIN members |-> members[i]]
  BY <1>2
<1>8. \A i \in 1 .. m : members[i] \in T
  <2> HIDE DEF known, T
  <2>1. QED
    BY <1>2, <1>4, <1>6
<1>9. types' = Append(known \o members, Fn([i \in DOMAIN members |-> Len(types) + i]))
      /\ Continues(<<Equate(n, Len(types) + Len(members) + 1)>>)
  BY DEF FinishExtern, Walk, Saying, Continues
<1> HIDE DEF members, m, n, T, known
<1>10. members \in Seq(T) /\ Len(members) = m
  BY <1>2, <1>7, <1>8, MappedSequence
<1> DEFINE t == Fn([i \in DOMAIN members |-> Len(types) + i])
<1>11. UNCHANGED <<scopes, error_flag>> /\ OnlyWalks
  BY DEF FinishExtern, Walk, Saying, Continues
<1>12. t = Fn([i \in DOMAIN members |-> Len(types) + i]) /\ types' = Append(known \o members, t)
  BY <1>9
<1> HIDE DEF t
<1>13. QED
  BY <1>1, <1>2, <1>6, <1>9, <1>10, <1>11, <1>12, CompoundWalks DEF T

-----------------------------------------------------------------------------
(* Calls.                                                                  *)

LEMMA ArgumentTasks ==
  ASSUME UnifyInv, CheckInv, NEW D, AllNodes \subseteq D, NEW n \in AllNodes, NEW f \in D
  PROVE  Arguments(n, f) \in Seq(Work(D))
<1> DEFINE W == Work(D)
           m == Len(Nodes[n].kids)
           parts == [i \in DOMAIN Nodes[n].kids |->
                       <<Visit(kid(n, i)), EquateMember(kid(n, i), f, i)>>]
<1>1. DOMAIN Nodes[n].kids = 1 .. m /\ m \in Nat
      /\ \A i \in DOMAIN Nodes[n].kids : kid(n, i) \in AllNodes
  BY NodeFacts
<1>2. \A i \in 1 .. m : parts[i] \in Seq(W)
  <2> TAKE i \in 1 .. m
  <2>1. kid(n, i) \in AllNodes /\ kid(n, i) \in D /\ i \in Ids
    BY <1>1 DEF Ids
  <2>2. Visit(kid(n, i)) \in W /\ EquateMember(kid(n, i), f, i) \in W
    BY <2>1, TaskFacts
  <2>3. parts[i] = <<Visit(kid(n, i)), EquateMember(kid(n, i), f, i)>>
    BY <1>1
  <2> HIDE DEF W, parts
  <2>4. QED
    BY <2>2, <2>3
<1>3. DOMAIN parts = 1 .. m /\ parts = [i \in DOMAIN parts |-> parts[i]]
  BY <1>1
<1>4. Arguments(n, f) = FlattenSeq(parts)
  BY DEF Arguments
<1> HIDE DEF W, m, parts
<1>5. parts \in Seq(Seq(W))
  BY <1>1, <1>2, <1>3, MappedSequence
<1>6. FlattenSeq(parts) \in Seq(W)
  BY <1>5, FlattenJoins
<1>7. QED
  BY <1>4, <1>6 DEF W

LEMMA CalleeFacts ==
  ASSUME UnifyInv, CheckInv, NEW name, InScope(name), IsFunction(Lookup(name).node)
  PROVE  /\ Lookup(name).node \in AllNodes /\ Lookup(name).type \in TypesOver(DOMAIN types)
         /\ Parameters(Lookup(name).node) \in Nat
<1> DEFINE c == Lookup(name).node
           kids == Nodes[c].kids
<1>1. c \in AllNodes /\ Lookup(name).type \in TypesOver(DOMAIN types)
  BY LookupTypes
<1>2. kids # <<>> /\ kids \in Seq(AllNodes)
  BY <1>1, NodeFacts, ShapeFacts DEF IsFunction
<1> HIDE DEF kids
<1>3. Len(kids) - 1 \in Nat
  BY <1>2
<1>4. QED
  BY <1>1, <1>3 DEF kids, Parameters

LEMMA CallWalks ==
  ASSUME UnifyInv, CheckInv, DerivedInv, VisitCall
  PROVE  Walks
<1> DEFINE n == Task.node
           f == Len(types) + 1
           name == Nodes[n].name
           arity == Parameters(Callee(n))
           E == DOMAIN types'
           W == Work(E)
           last == IF Len(Nodes[n].kids) > arity THEN <<>> ELSE <<EquateMember(n, f, arity + 1)>>
<1>1. /\ phase = "generate" /\ ~Idle /\ ~Unifying /\ n \in AllNodes
  BY ThisNode DEF VisitCall
<1>2. /\ Lookup(name).type \in TypesOver(DOMAIN types) /\ arity \in Nat
  BY CalleeFacts DEF VisitCall, Callee, Walk, Saying, Continues
<1>3. types' = Append(types, Lookup(name).type) /\ Continues(Arguments(n, f) \o last)
      /\ UNCHANGED <<scopes, error_flag>> /\ OnlyWalks
  BY DEF VisitCall, Walk, Saying, Continues
<1>4. Len(types) \in Nat /\ DOMAIN types = 1 .. Len(types) /\ types \in Seq(TypesOver(DOMAIN types))
      /\ AllNodes \subseteq DOMAIN types
  BY CellFacts
<1>5. Lookup(name).type \in TypesOver(1 .. Len(types) + 1)
  <2>1. DOMAIN types \subseteq 1 .. Len(types) + 1
    BY <1>4
  <2>2. QED
    BY <1>2, <2>1, MoreTypes
<1>6. /\ types' \in Seq(TypesOver(DOMAIN types')) /\ DOMAIN types \subseteq DOMAIN types'
      /\ f \in E
  BY <1>3, <1>4, <1>5, OneCellMore
<1>7. AllNodes \subseteq E /\ n \in E
  BY <1>1, <1>4, <1>6
<1>8. Arguments(n, f) \in Seq(W)
  BY <1>1, <1>6, <1>7, ArgumentTasks
<1>9. EquateMember(n, f, arity + 1) \in W
  <2>1. arity + 1 \in Ids
    BY <1>2 DEF Ids
  <2>2. QED
    BY <1>6, <1>7, <2>1, TaskFacts
<1> HIDE DEF W, E, n, f, arity
<1>10. last \in Seq(W)
  BY <1>9
<1>11. Arguments(n, f) \o last \in Seq(W)
  BY <1>8, <1>10, Joined
<1>12. QED
  BY <1>1, <1>3, <1>6, <1>11, CellsWalk DEF W, E

LEMMA PartlyWalks ==
  ASSUME UnifyInv, CheckInv, DerivedInv, CallPartly
  PROVE  Walks
<1> DEFINE n == Task.node
           size == Len(types)
           f == size + 1
           m == Len(Nodes[n].kids)
           args == 1 .. m
           name == Nodes[n].name
           arity == Parameters(Callee(n))
           E == 1 .. size + 1 + m
           T == TypesOver(E)
           W == Work(E)
           t == Lookup(name).type
           fn == Fn([i \in args |-> f + i])
           rest == [i \in args |-> Var(f + i)]
           first == [i \in args |-> EquateMember(f + i, f, arity + 2 - i)]
<1>1. /\ phase = "generate" /\ ~Idle /\ ~Unifying /\ n \in AllNodes
  BY ThisNode DEF CallPartly
<1>2. /\ t \in TypesOver(DOMAIN types) /\ arity \in Nat
  BY CalleeFacts DEF CallPartly, Callee, Walk, Saying, Continues
<1>3. m \in Nat /\ DOMAIN Nodes[n].kids = args /\ m < arity
  BY <1>1, NodeFacts DEF CallPartly, Walk, Saying, Continues
<1>4. /\ types' = Append([types EXCEPT ![n] = fn], t) \o rest /\ Continues(first \o Arguments(n, f))
      /\ UNCHANGED <<scopes, error_flag>> /\ OnlyWalks
  BY <1>3 DEF CallPartly, Walk, Saying, Continues
<1>5. /\ size \in Nat /\ DOMAIN types = 1 .. size /\ types \in Seq(TypesOver(DOMAIN types))
      /\ AllNodes \subseteq DOMAIN types
  BY CellFacts
<1>6. DOMAIN types \subseteq E /\ f \in E /\ n \in DOMAIN types /\ n \in E
  <2> HIDE DEF n, size, m
  <2>1. DOMAIN types \subseteq E /\ f \in E
    BY <1>3, <1>5
  <2>2. n \in DOMAIN types
    BY <1>1, <1>5
  <2>3. QED
    BY <2>1, <2>2
<1>7. types \in Seq(T) /\ t \in T
  <2>1. TypesOver(DOMAIN types) \subseteq T
    BY <1>6, MoreTypes
  <2> HIDE DEF T
  <2>2. QED
    BY <1>2, <1>5, <2>1, SeqMonotonic
<1>8. \A i \in args : f + i \in E /\ f + i \in Nat
  BY <1>3, <1>5
<1>9. fn \in T
  <2> DEFINE members == [i \in args |-> f + i]
  <2>1. DOMAIN members = args /\ members = [i \in DOMAIN members |-> members[i]]
        /\ \A i \in args : members[i] \in E
    BY <1>8
  <2> HIDE DEF members, E
  <2>2. members \in Seq(E)
    BY <1>3, <2>1, MappedSequence
  <2>3. Fn(members) \in TypesOver(E)
    BY <2>2 DEF Fn, Compound, TypesOver
  <2>4. QED
    BY <2>3 DEF members
<1>10. rest \in Seq(T) /\ Len(rest) = m
  <2>1. \A i \in args : Var(f + i) \in T
    BY <1>8 DEF TypesOver
  <2>2. DOMAIN rest = args /\ rest = [i \in DOMAIN rest |-> rest[i]] /\ \A i \in args : rest[i] = Var(f + i)
    OBVIOUS
  <2> HIDE DEF rest, T, f
  <2>3. QED
    BY <1>3, <2>1, <2>2, MappedSequence
<1>11. DOMAIN first = args /\ first = [i \in DOMAIN first |-> first[i]]
       /\ \A i \in args : first[i] \in W
  <2>1. ASSUME NEW i \in args PROVE first[i] \in W
    <3>1. arity + 2 - i \in Ids
      BY <1>2, <1>3 DEF Ids
    <3>2. EquateMember(f + i, f, arity + 2 - i) \in W
      BY <1>6, <1>8, <3>1, TaskFacts
    <3>3. first[i] = EquateMember(f + i, f, arity + 2 - i)
      OBVIOUS
    <3>4. QED
      BY <3>2, <3>3
  <2>2. DOMAIN first = args /\ first = [i \in DOMAIN first |-> first[i]]
    OBVIOUS
  <2> HIDE DEF first, W
  <2>3. QED
    BY <2>1, <2>2
<1>12. Arguments(n, f) \in Seq(W)
  <2>1. AllNodes \subseteq E
    BY <1>5, <1>6
  <2>2. QED
    BY <1>1, <1>6, <2>1, ArgumentTasks
<1> HIDE DEF T, W, fn, t, rest, first, n, f
<1>13. [types EXCEPT ![n] = fn] \in Seq(T) /\ Len([types EXCEPT ![n] = fn]) = size
  BY <1>6, <1>7, <1>9, ChangedElement
<1> DEFINE changed == [types EXCEPT ![n] = fn]
<1> HIDE DEF changed
<1>14. changed \in Seq(T) /\ Len(changed) = size
  BY <1>13 DEF changed
<1> DEFINE longer == Append(changed, t)
<1>15. longer \in Seq(T) /\ Len(longer) = size + 1
  BY <1>7, <1>14
<1> HIDE DEF longer
<1>16. longer \o rest \in Seq(T) /\ Len(longer \o rest) = size + 1 + m
  <2>1. longer \o rest \in Seq(T) /\ Len(longer \o rest) = Len(longer) + Len(rest)
    BY <1>10, <1>15, Joined
  <2>2. QED
    BY <1>10, <1>15, <2>1
<1>17. types' \in Seq(T) /\ Len(types') = size + 1 + m
  BY <1>4, <1>16 DEF changed, longer
<1>18. DOMAIN types' = E
  BY <1>3, <1>5, <1>17
<1>19. first \in Seq(W)
  BY <1>3, <1>11, MappedSequence
<1>20. first \o Arguments(n, f) \in Seq(W)
  BY <1>12, <1>19, Joined
<1> HIDE DEF E
<1>21. /\ types' \in Seq(TypesOver(DOMAIN types')) /\ DOMAIN types \subseteq DOMAIN types'
       /\ first \o Arguments(n, f) \in Seq(Work(DOMAIN types'))
  BY <1>6, <1>17, <1>18, <1>20 DEF T, W
<1>22. QED
  BY <1>1, <1>4, <1>21, CellsWalk

\* A call that is rewritten is still a call, of nodes of the program.
LEMMA RewrittenCall ==
  ASSUME HasShape(program), NEW n \in AllNodes, Nodes[n].tag = "call",
         NEW name \in STRING, NEW args \in Seq(AllNodes),
         program' = [program EXCEPT !.nodes[n].name = name, !.nodes[n].kids = args]
  PROVE  HasShape(program') /\ AllNodes' = AllNodes /\ Len(program'.inputs) = Len(program.inputs)
<1> DEFINE D == DOMAIN program.nodes
           Kinds == [tag : STRING, op : STRING, name : STRING, kids : Seq(D)]
           old == program.nodes
           new == [program.nodes EXCEPT ![n].name = name, ![n].kids = args]
<1>1. program \in [nodes : Seq(Kinds), inputs : Seq(D)] /\ n \in D /\ args \in Seq(D)
  BY DEF HasShape, AllNodes, Nodes
<1> HIDE DEF Kinds
<1>2. old \in Seq(Kinds) /\ program.inputs \in Seq(D) /\ old[n] \in Kinds
      /\ D = 1 .. Len(old) /\ Len(old) \in Nat /\ \A m \in D : old[m] \in Kinds
  BY <1>1
<1>3. program' = [program EXCEPT !.nodes = new]
  BY <1>1
<1>4. /\ new[n] = [old[n] EXCEPT !.name = name, !.kids = args]
      /\ \A m \in D : m # n => new[m] = old[m]
      /\ DOMAIN new = D /\ new = [m \in DOMAIN new |-> new[m]]
  BY <1>1
<1>5. new[n] \in Kinds /\ new[n].tag = "call" /\ new[n].kids = args /\ new[n].name = name
  <2>1. old[n] \in [tag : STRING, op : STRING, name : STRING, kids : Seq(D)] /\ old[n].tag = "call"
    BY <1>2 DEF Kinds, Nodes
  <2> HIDE DEF new
  <2>2. QED
    BY <1>1, <1>4, <2>1 DEF Kinds
<1> HIDE DEF new
<1>6. program'.nodes = new /\ program'.inputs = program.inputs
      /\ program' \in [nodes : Seq(Kinds), inputs : Seq(D)] /\ \A m \in D : new[m] \in Kinds
  <2>1. \A m \in 1 .. Len(old) : new[m] \in Kinds
    <3> HIDE DEF old, D
    <3>1. \A m \in D : new[m] \in Kinds
      BY <1>2, <1>4, <1>5
    <3>2. QED
      BY <1>2, <3>1
  <2>2. new \in Seq(Kinds)
    BY <1>2, <1>4, <2>1, MappedSequence
  <2>3. \A m \in D : new[m] \in Kinds
    BY <1>2, <2>1
  <2>4. QED
    BY <1>1, <1>3, <2>2, <2>3
<1>7. \A m \in D : new[m].tag = old[m].tag /\ (m # n => new[m] = old[m])
  BY <1>4, <1>5 DEF Nodes
<1>8. \A m \in D : \A i \in DOMAIN new[m].kids : new[m].kids[i] \in D
  <2> TAKE m \in D
  <2>1. new[m] \in Kinds
    BY <1>1, <1>6
  <2>2. new[m].kids \in Seq(D)
    BY <2>1 DEF Kinds
  <2>3. QED
    BY <2>2
<1>9. ASSUME NEW m \in D, m # n
      PROVE  \A i \in DOMAIN old[m].kids : old[m].kids[i] \in D
  BY <1>4, <1>8, <1>9
<1>10. ASSUME NEW m \in D
       PROVE  NodeHasShape(new, m)
  <2>1. CASE m = n
    BY <1>5, <2>1 DEF NodeHasShape
  <2>2. CASE m # n
    <3>1. new[m] = old[m]
      BY <1>4, <2>2
    <3> DEFINE parts == old[m].kids
    <3>0. NodeHasShape(old, m)
      BY DEF HasShape
    <3>2. /\ old[m].tag = "match" => \A i \in 2 .. Len(parts) : old[parts[i]].tag = "binop"
          /\ old[m].tag = "method" => old[parts[1]].tag = "member" /\ parts # <<>>
          /\ old[m].tag = "struct" => \A i \in DOMAIN parts :
               old[parts[i]].tag \in {"assignment", "declaration"} /\ old[parts[i]].kids # <<>>
      BY <3>0 DEF NodeHasShape
    <3>3. parts \in Seq(D)
      <4>1. old[m] \in Kinds
        BY <1>2
      <4>2. QED
        BY <4>1 DEF Kinds
    <3>4. /\ \A i \in DOMAIN parts : parts[i] \in D
          /\ \A i \in 2 .. Len(parts) : parts[i] \in D
          /\ parts # <<>> => parts[1] \in D
      BY <3>3
    <3>5. \A i \in DOMAIN parts : old[parts[i]].tag \in {"assignment", "declaration"} => parts[i] # n
      BY DEF Nodes
    <3>6. /\ old[m].tag = "match" => \A i \in 2 .. Len(parts) : new[parts[i]].tag = "binop"
          /\ old[m].tag = "method" => new[parts[1]].tag = "member"
          /\ old[m].tag = "struct" => \A i \in DOMAIN parts :
               new[parts[i]].tag \in {"assignment", "declaration"} /\ new[parts[i]].kids # <<>>
      BY <1>7, <3>2, <3>4, <3>5
    <3> HIDE DEF parts
    <3>7. QED
      BY <3>0, <3>1, <3>6 DEF NodeHasShape, parts
  <2>3. QED
    BY <2>1, <2>2
<1>11. HasShape(program')
  <2>1. DOMAIN program'.nodes = D
    BY <1>4, <1>6
  <2>2. /\ program' \in [nodes : Seq([tag : STRING, op : STRING, name : STRING,
                                     kids : Seq(DOMAIN program'.nodes)]),
                         inputs : Seq(DOMAIN program'.nodes)]
    BY <1>6, <2>1 DEF Kinds
  <2>3. \A m \in DOMAIN program'.nodes : NodeHasShape(program'.nodes, m)
    BY <1>6, <1>10, <2>1
  <2> HIDE DEF D
  <2>4. QED
    BY <2>2, <2>3 DEF HasShape
<1>12. QED
  BY <1>4, <1>6, <1>11 DEF AllNodes, Nodes

LEMMA CurriedWalks ==
  ASSUME UnifyInv, CheckInv, DerivedInv, CallCurried
  PROVE  Walks
<1> DEFINE n == Task.node
           c == Callee(n)
           args == Nodes[c].kids \o Nodes[n].kids
           W == Work(DOMAIN types)
<1>1. /\ phase = "generate" /\ ~Idle /\ ~Unifying /\ n \in AllNodes /\ Nodes[n].tag = "call"
  BY ThisNode DEF CallCurried
<1>2. CASE UNCHANGED program /\ Continues(<<>>)
  <2>1. UNCHANGED <<scopes, types, error_flag>> /\ OnlyWalks
    BY <1>2 DEF CallCurried, OnlyWalks, inputVars, Walk, Saying, Continues
  <2>2. <<>> \in Seq(W)
    OBVIOUS
  <2>3. QED
    BY <1>1, <1>2, <2>1, <2>2, StillWalks
<1>3. CASE /\ program' = [program EXCEPT !.nodes[n].name = Nodes[c].name, !.nodes[n].kids = args]
           /\ Continues(<<Visit(n)>>)
  <2>1. c \in AllNodes
    BY LookupTypes DEF CallCurried, Callee, Walk, Saying, Continues
  <2>2. Nodes[c].name \in STRING /\ Nodes[c].kids \in Seq(AllNodes) /\ Nodes[n].kids \in Seq(AllNodes)
    BY <1>1, <2>1, NodeFacts
  <2>3. args \in Seq(AllNodes)
    BY <2>2, Joined
  <2>4. HasShape(program)
    BY DEF CheckInv
  <2> HIDE DEF args, c, n
  <2>5. HasShape(program') /\ AllNodes' = AllNodes /\ Len(program'.inputs) = Len(program.inputs)
    BY <1>1, <1>3, <2>2, <2>3, <2>4, RewrittenCall
  <2>6. UNCHANGED <<scopes, types, error_flag, input, phase, deferred, teq_list, failed, env,
                    posted, lapses>>
    BY DEF CallCurried, Walk, Saying, Continues
  <2>7. Rest \in Seq(W) /\ Visit(n) \in W
    BY <1>1, WorkFacts, TaskFacts
  <2> HIDE DEF W
  <2>8. agenda' \in Seq(W)
    BY <1>3, <2>7 DEF Continues
  <2>9. /\ types \in Seq(TypesOver(DOMAIN types)) /\ error_flag \in BOOLEAN
        /\ scopes \in Seq(ScopesOver(DOMAIN types)) /\ scopes # <<>>
        /\ deferred \in Seq(Deferrals(DOMAIN types)) /\ teq_list \in Lists /\ teq_list.limit >= MaxTeqList
    BY DEF UnifyInv, CheckInv
  <2>10. /\ types' \in Seq(TypesOver(DOMAIN types')) /\ DOMAIN types \subseteq DOMAIN types'
         /\ agenda' \in Seq(Work(DOMAIN types'))
         /\ scopes' \in Seq(ScopesOver(DOMAIN types')) /\ scopes' # <<>>
         /\ deferred' \in Seq(Deferrals(DOMAIN types'))
    BY <2>5, <2>6, <2>8, <2>9 DEF W, ScopesOver, SymbolsOver, Work
  <2>11. QED
    BY <1>1, <2>5, <2>6, <2>9, <2>10 DEF Walks
<1>4. QED
  BY <1>2, <1>3 DEF CallCurried, Walk, Saying, Continues

\* The list of deferred equations always has room for the next one that fits.
LEMMA GrownList ==
  ASSUME CheckInv
  PROVE  Grown \in Lists /\ Grown.limit >= MaxTeqList
<1> DEFINE length == Len(deferred) + 1
           limit == teq_list.limit
           room == (24 * length + limit) \div 24
<1>1. length \in Nat /\ length >= 1
  BY DEF CheckInv
<1>2. teq_list \in Lists /\ limit \in Nat /\ MaxTeqList \in Nat /\ limit >= MaxTeqList
  BY ListAssumption DEF CheckInv, Lists
<1> HIDE DEF length
<1>3. room \in Ids
  <2> HIDE DEF limit
  <2>1. 24 * length + limit \in Nat /\ 24 * length + limit >= 24
    BY <1>1, <1>2
  <2> DEFINE bytes == 24 * length + limit
  <2> HIDE DEF bytes
  <2>2. bytes \in Nat /\ bytes >= 24
    BY <2>1 DEF bytes
  <2>3. bytes \div 24 \in Nat \ {0}
    BY <2>2
  <2>4. QED
    BY <2>3 DEF Ids, bytes
<1>4. Grown = IF length < limit THEN teq_list ELSE [limit |-> limit + 8, room |-> room]
  BY DEF Grown, EquationSize, length
<1> HIDE DEF limit, room
<1>5. limit + 8 \in Nat /\ limit + 8 >= MaxTeqList
  BY <1>2
<1>6. CASE length < limit
  BY <1>2, <1>4, <1>6 DEF limit
<1>7. CASE ~(length < limit)
  BY <1>3, <1>4, <1>5, <1>7 DEF Lists
<1>8. QED
  BY <1>6, <1>7

LEMMA PushWalks ==
  ASSUME UnifyInv, CheckInv, DerivedInv, PushIndexed
  PROVE  Walks
<1> DEFINE f == Task.f
           w == Follow(types[f])
           copy == Len(types) + 1
           equation == Equation(Task.l, copy, Task.index, TRUE)
           D == DOMAIN types
           E == DOMAIN types'
           W == Work(E)
           t == IF IsVar(w) THEN w ELSE types[f]
           cells == [types EXCEPT ![f] = w]
<1>1. phase = "generate" /\ ~Idle /\ Task.do = "member" /\ ~Unifying
  BY DEF PushIndexed, Unifying, Walk, Saying, Continues
<1>2. Task.l \in D /\ f \in D /\ Task.index \in Ids
  <2>1. Task \in Tasks(D)
    BY <1>1, WorkFacts
  <2>2. QED
    BY <1>1, <2>1 DEF Tasks, EquationsOver, CallersTasks, Undefined
<1>3. types[f] \in TypesOver(D) /\ Len(types) \in Nat /\ D = 1 .. Len(types)
  BY <1>2, CellFacts
<1>4. w \in TypesOver(D)
  BY <1>3, FollowTypes
<1>5. cells \in Seq(TypesOver(D)) /\ Len(cells) = Len(types)
  BY <1>2, <1>4, ChangedCell
<1>6. t \in TypesOver(1 .. Len(types) + 1)
  <2>1. D \subseteq 1 .. Len(types) + 1
    BY <1>3
  <2>2. QED
    BY <1>3, <1>4, <2>1, MoreTypes
<1>7. types' = Append(cells, t)
  BY DEF PushIndexed, Walk, Saying, Continues
<1> HIDE DEF t, cells, w
<1>8. types' \in Seq(TypesOver(DOMAIN types')) /\ DOMAIN types \subseteq DOMAIN types'
      /\ DOMAIN types' = 1 .. Len(types) + 1 /\ copy \in DOMAIN types'
  BY <1>5, <1>6, <1>7, OneCellMore
<1>9. equation \in Deferrals(E) /\ equation \in W
  <2>1. Task.l \in E /\ copy \in E /\ Task.index \in Nat
    BY <1>2, <1>8 DEF Ids
  <2> HIDE DEF E
  <2>2. equation \in Deferrals(E)
    BY <1>2, <2>1 DEF Equation, Deferrals
  <2>3. equation \in Work(E)
    BY <2>1 DEF Equation, Work
  <2>4. QED
    BY <2>2, <2>3
<1>10. /\ Rest \in Seq(W) /\ Undefined \in W
  <2>1. Rest \in Seq(Work(D))
    BY <1>1, WorkFacts
  <2>2. QED
    BY <1>8, <2>1, MoreWork, TaskFacts
<1>11. deferred \in Seq(Deferrals(E)) /\ scopes \in Seq(ScopesOver(E)) /\ scopes # <<>>
       /\ error_flag \in BOOLEAN
  BY <1>8, MoreDeferrals, MoreSymbols DEF CheckInv, UnifyInv
<1>12. /\ HasShape(program) /\ teq_list \in Lists /\ teq_list.limit >= MaxTeqList
       /\ Grown \in Lists /\ Grown.limit >= MaxTeqList
  BY GrownList DEF CheckInv
<1>13. UNCHANGED <<program, input, phase, failed, scopes, env, error_flag, posted, lapses>>
  BY DEF PushIndexed, Walk, Saying, Continues
<1>14. HasShape(program') /\ AllNodes' = AllNodes /\ Len(program'.inputs) = Len(program.inputs)
  BY <1>12, <1>13 DEF AllNodes, Nodes
<1>15. /\ deferred' = Append(deferred, equation) \/ deferred' = deferred
       /\ teq_list' = Grown \/ teq_list' = teq_list
       /\ agenda' = Rest \/ agenda' = <<Undefined>> \/ agenda' = <<equation>> \o Rest
  <2>1. Continues(<<>>) => agenda' = Rest
    <3>1. <<>> \o Rest = Rest
      BY <1>10
    <3>2. QED
      BY <3>1 DEF Continues
  <2>2. QED
    BY <2>1 DEF PushIndexed, Continues, w, Walk, Saying, Continues
<1> HIDE DEF equation, W, E
<1>16. deferred' \in Seq(Deferrals(E))
  BY <1>9, <1>11, <1>15
<1>17. agenda' \in Seq(W)
  <2>1. <<equation>> \in Seq(W) /\ <<Undefined>> \in Seq(W)
    BY <1>9, <1>10
  <2>2. <<equation>> \o Rest \in Seq(W)
    BY <1>10, <2>1, Joined
  <2>3. QED
    BY <1>10, <1>15, <2>1, <2>2
<1>18. QED
  BY <1>1, <1>8, <1>11, <1>12, <1>13, <1>14, <1>15, <1>16, <1>17 DEF Walks, W, E

LEMMA LeavingWalks ==
  ASSUME UnifyInv, CheckInv, DerivedInv, LeaveC
  PROVE  Walks
<1>1. phase = "generate" /\ ~Idle /\ ~Unifying
  BY DEF LeaveC, NoSuchType, NoSuchMember, NoSuchFunction, At, Unifying
<1>2. UNCHANGED <<scopes, types, error_flag>> /\ OnlyWalks /\ agenda' = <<Undefined>>
  BY DEF LeaveC
<1>3. UNCHANGED <<program, input, phase, deferred, teq_list, failed, env, posted, lapses>>
  BY <1>2 DEF OnlyWalks, inputVars
<1>4. /\ types \in Seq(TypesOver(DOMAIN types)) /\ error_flag \in BOOLEAN /\ HasShape(program)
      /\ scopes \in Seq(ScopesOver(DOMAIN types)) /\ scopes # <<>>
      /\ deferred \in Seq(Deferrals(DOMAIN types)) /\ teq_list \in Lists /\ teq_list.limit >= MaxTeqList
  BY DEF UnifyInv, CheckInv
<1>5. AllNodes' = AllNodes
  BY <1>3 DEF AllNodes, Nodes
<1>6. agenda' \in Seq(Work(DOMAIN types))
  <2>1. Undefined \in Work(DOMAIN types)
    BY TaskFacts
  <2>2. QED
    BY <1>2, <2>1
<1>7. /\ types' \in Seq(TypesOver(DOMAIN types')) /\ DOMAIN types \subseteq DOMAIN types'
      /\ agenda' \in Seq(Work(DOMAIN types'))
      /\ scopes' \in Seq(ScopesOver(DOMAIN types')) /\ scopes' # <<>>
      /\ deferred' \in Seq(Deferrals(DOMAIN types'))
  BY <1>2, <1>3, <1>4, <1>5, <1>6 DEF ScopesOver, SymbolsOver, Work
<1>8. QED
  BY <1>1, <1>2, <1>3, <1>4, <1>5, <1>7 DEF Walks

LEMMA GenerateWalks ==
  ASSUME UnifyInv, CheckInv, DerivedInv, GenerateEquations
  PROVE  Walks
BY ExpressionsWalk, NamesWalk, DeclarationsWalk, NewNameWalks, ControlWalks, ListsWalk,
   MembersWalk, AccessWalks, ArrayWalks, EnterWalks, ExitWalks, ExternWalks, CallWalks,
   PartlyWalks, CurriedWalks, PushWalks, LeavingWalks DEF GenerateEquations

-----------------------------------------------------------------------------
(* What a step of the walk preserves.                                      *)

\* If every input so far was accepted, every equation is solved, or about to be.
AcceptedInv == lapses = {} /\ failed = {} /\ ~error_flag => AllSolved

CheckerInv == UnifyInv /\ AcyclicInv /\ DerivedInv /\ CheckInv /\ AcceptedInv

LEMMA WorkIsGiven ==
  ASSUME NEW D, NEW s \in Seq(Work(D))
  PROVE  Given(s) /\ Placed(s)
<1>1. \A i \in DOMAIN s : s[i] \in Work(D)
  OBVIOUS
<1>2. \A t \in Work(D) : /\ t.do = "unify" => t.stated
                         /\ t.do \in {"visit", "finish", "conclude"} => t.node \in AllNodes
  <2> TAKE t \in Work(D)
  <2>1. CASE t \in {Undefined} \cup [do : {"leave"}, node : Nat]
    BY <2>1 DEF Undefined
  <2>2. CASE t \in [do : {"unify"}, l : D, r : D, index : Nat, stated : {TRUE}]
    BY <2>2
  <2>3. CASE t \in [do : {"member"}, l : D, f : D, index : Ids]
    BY <2>3
  <2>4. CASE t \in [do : {"visit", "finish", "conclude"}, node : AllNodes]
    BY <2>4
  <2>5. QED
    BY <2>1, <2>2, <2>3, <2>4 DEF Work
<1>3. QED
  BY <1>1, <1>2 DEF Given, Placed

LEMMA WalkPreserves ==
  ASSUME CheckerInv, Walks
  PROVE  CheckerInv'
<1>1. /\ UnifyInv /\ AcyclicInv /\ DerivedInv /\ CheckInv /\ AcceptedInv
      /\ phase = "generate" /\ ~Idle /\ ~Unifying
      /\ HasShape(program') /\ AllNodes' = AllNodes /\ Len(program'.inputs) = Len(program.inputs)
      /\ types' \in Seq(TypesOver(DOMAIN types')) /\ DOMAIN types \subseteq DOMAIN types'
      /\ scopes' \in Seq(ScopesOver(DOMAIN types')) /\ scopes' # <<>>
      /\ deferred' \in Seq(Deferrals(DOMAIN types'))
      /\ teq_list' \in Lists /\ teq_list'.limit >= MaxTeqList
      /\ agenda' \in Seq(Work(DOMAIN types'))
      /\ error_flag' \in BOOLEAN /\ (error_flag => error_flag')
      /\ UNCHANGED <<input, phase, failed, env, posted, lapses>>
  BY DEF CheckerInv, Walks
<1>2. agenda' \in Seq(Tasks(DOMAIN types')) /\ Given(agenda') /\ Placed(agenda')
  <2>1. HasShape(program)
    BY <1>1 DEF CheckInv
  <2>2. QED
    BY <1>1, <2>1, WorkIsTasks, WorkIsGiven, SeqMonotonic
<1>3. UnifyInv'
  <2>1. /\ IsFiniteSet(DOMAIN env) /\ DOMAIN env \subseteq Nat
        /\ env \in [DOMAIN env -> TypesOver(DOMAIN types)]
        /\ lapses \subseteq AllLapses
    BY <1>1 DEF UnifyInv
  <2>2. TypesOver(DOMAIN types) \subseteq TypesOver(DOMAIN types')
    BY <1>1, MoreTypes
  <2>3. env \in [DOMAIN env -> TypesOver(DOMAIN types')]
    BY <2>1, <2>2
  <2>4. QED
    BY <1>1, <1>2, <2>1, <2>3 DEF UnifyInv
<1>4. AcyclicInv'
  BY <1>1 DEF AcyclicInv
<1>5. DerivedInv' /\ ~Pending'
  BY <1>2, <1>3, GivenStays
<1>6. AcceptedInv'
  <2> SUFFICES ASSUME lapses' = {}, failed' = {}, ~error_flag' PROVE AllSolved'
    BY DEF AcceptedInv
  <2>1. AllSolved
    BY <1>1 DEF AcceptedInv
  <2>2. Plain
    BY <1>1, <1>2 DEF Plain, Pending
  <2>3. QED
    BY <1>5, <2>1, <2>2, PlainSolves
<1>7. CheckInv'
  <2>1. /\ Len(Nodes) + 1 <= Len(types) /\ input \in 0 .. Len(program.inputs)
        /\ input > 0 /\ failed \subseteq 1 .. input
    BY <1>1 DEF CheckInv
  <2>2. Len(Nodes') + 1 <= Len(types')
    <3>1. /\ Len(Nodes) \in Nat /\ Len(types) \in Nat /\ DOMAIN types = 1 .. Len(types)
          /\ AllNodes = 1 .. Len(Nodes)
      BY <1>1, CellFacts
    <3>2. Len(Nodes') \in Nat /\ AllNodes' = 1 .. Len(Nodes')
      BY <1>1 DEF HasShape, Nodes, AllNodes
    <3>3. Len(types') \in Nat /\ DOMAIN types' = 1 .. Len(types')
      BY <1>1
    <3>4. Len(Nodes') = Len(Nodes)
      BY <1>1, <3>1, <3>2
    <3>5. Len(types) \in 1 .. Len(types')
      BY <1>1, <2>1, <3>1, <3>3
    <3>6. QED
      BY <2>1, <3>1, <3>3, <3>4, <3>5
  <2>3. /\ phase' = "generate" /\ input' \in 0 .. Len(program'.inputs) /\ input' > 0
        /\ failed' \subseteq 1 .. input'
    BY <1>1, <2>1
  <2>4. scopes' \in Seq(ScopesOver(DOMAIN types)') /\ deferred' \in Seq(Deferrals(DOMAIN types)')
    BY <1>1 DEF ScopesOver, SymbolsOver, Deferrals
  <2>5. Placed(agenda)'
    BY <1>1, <1>2 DEF Placed
  <2>6. QED
    BY <1>1, <2>2, <2>3, <2>4, <2>5 DEF CheckInv
<1>8. QED
  BY <1>3, <1>4, <1>5, <1>6, <1>7 DEF CheckerInv

-----------------------------------------------------------------------------
(* The steps of unify.                                                     *)

LEMMA PlacedJoined ==
  ASSUME NEW X, NEW s \in Seq(X), NEW r \in Seq(X), Placed(s), Placed(r)
  PROVE  Placed(s \o r)
<1>1. /\ s \o r \in Seq(X) /\ Len(s \o r) = Len(s) + Len(r)
      /\ \A i \in 1 .. Len(s) : (s \o r)[i] = s[i]
      /\ \A i \in 1 .. Len(r) : (s \o r)[Len(s) + i] = r[i]
  BY Joined
<1>2. ASSUME NEW i \in DOMAIN (s \o r), (s \o r)[i].do \in {"visit", "finish", "conclude"}
      PROVE  (s \o r)[i].node \in AllNodes
  <2>1. CASE i \in 1 .. Len(s)
    BY <1>1, <1>2, <2>1 DEF Placed
  <2>2. CASE i \notin 1 .. Len(s)
    <3>1. i - Len(s) \in 1 .. Len(r) /\ Len(s) + (i - Len(s)) = i
      BY <1>1, <2>2
    <3>2. QED
      BY <1>1, <1>2, <3>1 DEF Placed
  <2>3. QED
    BY <2>1, <2>2
<1>3. QED
  BY <1>1, <1>2 DEF Placed

\* unify puts only equations on the agenda.
LEMMA StepPlaces ==
  ASSUME UnifyInv, UnifyStep, Placed(agenda)
  PROVE  Placed(agenda')
<1> DEFINE D == DOMAIN types
<1>1. Unifying /\ Rest \in Seq(Tasks(D)) /\ agenda \in Seq(Tasks(D)) /\ agenda # <<>>
  <2>1. Unifying
    BY DEF UnifyStep, UnifyMember, Swap, Mismatch, UnifyGround, UnifyFns, UnifyCompound,
           UnifyVarFn, UnifySameVar, UnifyVars, BindingVar
  <2>2. QED
    BY <2>1, TaskAtHand DEF UnifyInv, Unifying, Idle
<1>2. Placed(Rest)
  <2>1. \A i \in DOMAIN Rest : i + 1 \in DOMAIN agenda /\ Rest[i] = agenda[i + 1]
    BY <1>1, HeadTailProperties DEF Rest
  <2>2. QED
    BY <2>1 DEF Placed
<1>3. ASSUME NEW l, NEW r, NEW stated PROVE Placed(<<Equation(l, r, 0, stated)>> \o Rest)
  <2> DEFINE e == Equation(l, r, 0, stated)
             X == Tasks(D) \cup {e}
  <2>1. Rest \in Seq(X) /\ e \in X
    BY <1>1, SeqMonotonic
  <2>2. e.do = "unify"
    BY DEF Equation
  <2> HIDE DEF X, e
  <2>3. <<e>> \in Seq(X) /\ Placed(<<e>>)
    BY <2>1, <2>2 DEF Placed
  <2>4. Placed(<<e>> \o Rest)
    BY <1>2, <2>1, <2>3, PlacedJoined
  <2>5. QED
    BY <2>4 DEF e
<1>4. Placed(<<Undefined>>)
  BY DEF Placed, Undefined
<1>5. CASE UnifyMember
  <2>1. \/ agenda' = Rest \/ agenda' = <<Undefined>>
        \/ \E l, r, stated : agenda' = <<Equation(l, r, 0, stated)>> \o Rest
    BY <1>5 DEF UnifyMember
  <2>2. QED
    BY <1>2, <1>3, <1>4, <2>1
<1>6. CASE Swap \/ Mismatch \/ UnifyGround \/ UnifyCompound
  <2>1. \/ agenda' = Rest \/ agenda' = <<Undefined>>
        \/ \E l, r, stated : agenda' = <<Equation(l, r, 0, stated)>> \o Rest
    BY <1>6 DEF Swap, Mismatch, UnifyGround, UnifyCompound
  <2>2. QED
    BY <1>2, <1>3, <1>4, <2>1
<1>7. CASE UnifyVarFn \/ UnifySameVar \/ UnifyVars
  <2>1. \/ agenda' = Rest
        \/ \E l, r, stated : agenda' = <<Equation(l, r, 0, stated)>> \o Rest
    BY <1>7 DEF UnifyVarFn, UnifySameVar, UnifyVars, ThenOldBinding
  <2>2. QED
    BY <1>2, <1>3, <2>1
<1>8. CASE UnifyFns
  <2> DEFINE n == Len(types)
             arity == Len(Left.members)
             s == [i \in 1 .. arity |-> Equation(n + i, n + arity + i, 0, Task.stated)]
             X == Range(s) \cup Tasks(D)
  <2>1. agenda' = Rest \/ agenda' = s \o Rest
    BY <1>8 DEF UnifyFns
  <2>2. arity \in Nat
    <3>1. Left.members \in Seq(D)
      BY <1>1, TaskAtHand, TypeIsType
    <3>2. QED
      BY <3>1
  <2>3. s \in Seq(X) /\ \A i \in DOMAIN s : s[i].do = "unify"
    <3>1. \A i \in 1 .. arity : s[i].do = "unify"
      BY DEF Equation
    <3>2. s = [i \in DOMAIN s |-> s[i]] /\ DOMAIN s = 1 .. arity /\ \A i \in 1 .. arity : s[i] \in X
      BY DEF Range
    <3> HIDE DEF s, X, arity
    <3>3. QED
      BY <2>2, <3>1, <3>2, MappedSequence
  <2>4. Rest \in Seq(X)
    BY <1>1, SeqMonotonic
  <2> HIDE DEF s, X
  <2>5. Placed(s)
    BY <2>3 DEF Placed
  <2>6. Placed(s \o Rest)
    BY <1>2, <2>3, <2>4, <2>5, PlacedJoined
  <2>7. QED
    BY <1>2, <2>1, <2>6
<1>9. QED
  BY <1>5, <1>6, <1>7, <1>8 DEF UnifyStep

LEMMA UnifyPreserves ==
  ASSUME CheckerInv, UnifyTypes
  PROVE  CheckerInv'
<1>1. /\ UnifyInv /\ AcyclicInv /\ DerivedInv /\ CheckInv /\ AcceptedInv /\ UnifyStep
      /\ UNCHANGED <<program, input, phase, deferred, teq_list, failed, scopes>>
  BY DEF CheckerInv, UnifyTypes, inputVars
<1>2. Unifies /\ UnifyInv'
  BY <1>1, StepUnifies, InvStays
<1>3. AcyclicInv'
  BY <1>1, <1>2, RanksStay
<1>4. DerivedInv'
  BY <1>1, <1>2, StepDerives
<1>5. AcceptedInv'
  <2> SUFFICES ASSUME lapses' = {}, failed' = {}, ~error_flag' PROVE AllSolved'
    BY DEF AcceptedInv
  <2>1. lapses = {} /\ failed = {} /\ ~error_flag
    BY <1>1, <1>2, ErrorsStay DEF Unifies
  <2>2. AllSolved
    BY <1>1, <2>1 DEF AcceptedInv
  <2>3. QED
    BY <1>1, <1>2, <2>2, StepSolves
<1>6. ~Idle
  BY <1>1 DEF UnifyStep, UnifyMember, Swap, Mismatch, UnifyGround, UnifyFns, UnifyCompound,
              UnifyVarFn, UnifySameVar, UnifyVars, BindingVar, Unifying
<1>7. CheckInv'
  <2>1. DOMAIN types \subseteq DOMAIN types' /\ types' \in Seq(TypesOver(DOMAIN types'))
    BY <1>2 DEF Unifies
  <2>2. AllNodes' = AllNodes /\ Len(Nodes') = Len(Nodes)
    BY <1>1 DEF AllNodes, Nodes
  <2>3. phase # "idle"
    BY <1>1, <1>6 DEF CheckInv
  <2>4. scopes' \in Seq(ScopesOver(DOMAIN types')) /\ deferred' \in Seq(Deferrals(DOMAIN types'))
    BY <1>1, <2>1, MoreSymbols, MoreDeferrals DEF CheckInv
  <2>5. scopes' \in Seq(ScopesOver(DOMAIN types)') /\ deferred' \in Seq(Deferrals(DOMAIN types)')
    BY <2>2, <2>4 DEF ScopesOver, SymbolsOver, Deferrals
  <2>6. Placed(agenda)'
    <3>1. Placed(agenda')
      BY <1>1, StepPlaces DEF CheckInv
    <3>2. QED
      BY <2>2, <3>1 DEF Placed
  <2>7. Len(Nodes') + 1 <= Len(types')
    <3>1. /\ Len(Nodes) \in Nat /\ Len(types) \in Nat /\ DOMAIN types = 1 .. Len(types)
      BY <1>1, CellFacts
    <3>2. Len(types') \in Nat /\ DOMAIN types' = 1 .. Len(types')
      BY <2>1
    <3>3. Len(Nodes) + 1 <= Len(types)
      BY <1>1 DEF CheckInv
    <3>4. Len(types) \in 1 .. Len(types')
      BY <2>1, <3>1, <3>2, <3>3
    <3>5. QED
      BY <2>2, <3>1, <3>2, <3>3, <3>4
  <2>8. QED
    BY <1>1, <2>3, <2>5, <2>6, <2>7 DEF CheckInv
<1>8. QED
  BY <1>2, <1>3, <1>4, <1>5, <1>7 DEF CheckerInv

-----------------------------------------------------------------------------
(* typecheck_in_ctx around the walk and the deferred equations.            *)

\* A step that posts nothing and leaves nothing half done.
LEMMA QuietSolves ==
  ASSUME CheckerInv, ~Pending, ~Pending', Given(agenda'), UNCHANGED <<env, posted, lapses>>,
         lapses' = {} /\ failed' = {} /\ ~error_flag' => AllSolved
  PROVE  AcceptedInv'
<1>1. Plain
  BY DEF Plain
<1>2. QED
  BY <1>1, PlainSolves DEF AcceptedInv

LEMMA StartPreserves ==
  ASSUME CheckerInv, StartInput
  PROVE  CheckerInv'
<1> DEFINE root == program.inputs[input']
           D == DOMAIN types
<1>1. /\ UnifyInv /\ AcyclicInv /\ DerivedInv /\ CheckInv /\ AcceptedInv
      /\ phase = "idle" /\ input < Len(program.inputs)
      /\ input' = input + 1 /\ phase' = "generate" /\ error_flag' = FALSE /\ deferred' = <<>>
      /\ teq_list' = [teq_list EXCEPT !.room = teq_list.limit]
      /\ agenda' = <<Visit(root)>>
      /\ UNCHANGED <<program, failed, scopes, types, env, posted, lapses>>
  BY DEF CheckerInv, StartInput
<1>2. Idle /\ (failed = {} => ~error_flag) /\ input \in 0 .. Len(program.inputs) /\ HasShape(program)
      /\ failed \subseteq 1 .. input
  BY <1>1 DEF CheckInv
<1>3. root \in AllNodes /\ input' \in 0 .. Len(program.inputs) /\ input' > 0
      /\ failed' \subseteq 1 .. input'
  <2>1. program.inputs \in Seq(AllNodes) /\ Len(program.inputs) \in Nat
    BY <1>2 DEF HasShape, AllNodes, Nodes
  <2>2. input' \in 1 .. Len(program.inputs) /\ input \in Nat
    BY <1>1, <1>2, <2>1
  <2>3. \A i \in 1 .. Len(program.inputs) : program.inputs[i] \in AllNodes
    BY <2>1
  <2> HIDE DEF AllNodes
  <2>4. 1 .. input \subseteq 1 .. input'
    BY <1>1, <2>2
  <2>5. QED
    BY <1>1, <1>2, <2>1, <2>2, <2>3, <2>4
<1>4. agenda' \in Seq(Work(D)) /\ agenda' \in Seq(Tasks(D)) /\ Given(agenda') /\ Placed(agenda')
  <2>1. Visit(root) \in Work(D)
    BY <1>3, TaskFacts
  <2> HIDE DEF root
  <2>2. agenda' \in Seq(Work(D))
    BY <1>1, <2>1
  <2>3. QED
    BY <1>2, <2>2, WorkIsTasks, WorkIsGiven, SeqMonotonic
<1>5. UnifyInv' /\ AcyclicInv'
  BY <1>1, <1>4 DEF UnifyInv, AcyclicInv
<1>6. DerivedInv' /\ ~Pending'
  BY <1>4, <1>5, GivenStays
<1>7. AcceptedInv'
  <2>1. ~Pending
    BY <1>2 DEF Pending, Unifying
  <2>2. lapses' = {} /\ failed' = {} => AllSolved
    BY <1>1, <1>2 DEF AcceptedInv
  <2>3. QED
    BY <1>1, <1>4, <1>6, <2>1, <2>2, QuietSolves
<1>8. CheckInv'
  <2>1. AllNodes' = AllNodes /\ Len(Nodes') = Len(Nodes)
    BY <1>1 DEF AllNodes, Nodes
  <2>2. scopes' \in Seq(ScopesOver(DOMAIN types)') /\ deferred' \in Seq(Deferrals(DOMAIN types)')
        /\ Placed(agenda)'
    <3>1. ScopesOver(DOMAIN types)' = ScopesOver(DOMAIN types)
      BY <1>1, <2>1 DEF ScopesOver, SymbolsOver
    <3>2. QED
      BY <1>1, <1>4, <2>1, <3>1 DEF CheckInv, Placed
  <2>3. teq_list' \in Lists /\ teq_list'.limit >= MaxTeqList
    <3>1. teq_list \in Lists /\ teq_list.limit >= MaxTeqList /\ MaxTeqList \in Nat \ {0}
      BY <1>1, ListAssumption DEF CheckInv
    <3>2. teq_list.limit \in Ids
      BY <3>1 DEF Lists, Ids
    <3>3. QED
      BY <1>1, <3>1, <3>2 DEF Lists
  <2>4. QED
    BY <1>1, <1>2, <1>3, <2>1, <2>2, <2>3 DEF CheckInv
<1>9. QED
  BY <1>5, <1>6, <1>7, <1>8 DEF CheckerInv

LEMMA SolvePreserves ==
  ASSUME CheckerInv, SolveDeferred
  PROVE  CheckerInv'
<1> DEFINE D == DOMAIN types
<1>1. /\ UnifyInv /\ AcyclicInv /\ DerivedInv /\ CheckInv /\ AcceptedInv
      /\ phase = "generate" /\ Idle /\ phase' = "solve" /\ agenda' = deferred
      /\ UNCHANGED <<program, input, deferred, teq_list, failed, scopes, types, env, error_flag,
                     posted, lapses>>
  BY DEF CheckerInv, SolveDeferred
<1>2. agenda' \in Seq(Work(D)) /\ agenda' \in Seq(Tasks(D)) /\ Given(agenda') /\ Placed(agenda')
  <2>1. Deferrals(D) \subseteq Work(D)
    BY DEF Deferrals, Work, Ids
  <2>2. agenda' \in Seq(Work(D)) /\ HasShape(program)
    BY <1>1, <2>1, SeqMonotonic DEF CheckInv
  <2>3. QED
    BY <2>2, WorkIsTasks, WorkIsGiven, SeqMonotonic
<1>3. UnifyInv' /\ AcyclicInv'
  BY <1>1, <1>2 DEF UnifyInv, AcyclicInv
<1>4. DerivedInv' /\ ~Pending'
  BY <1>2, <1>3, GivenStays
<1>5. AcceptedInv'
  <2>1. ~Pending
    BY <1>1 DEF Pending, Unifying
  <2>2. lapses' = {} /\ failed' = {} /\ ~error_flag' => AllSolved
    BY <1>1 DEF AcceptedInv
  <2>3. QED
    BY <1>1, <1>2, <1>4, <2>1, <2>2, QuietSolves
<1>6. CheckInv'
  BY <1>1, <1>2 DEF CheckInv, AllNodes, Nodes, ScopesOver, SymbolsOver, Placed
<1>7. QED
  BY <1>3, <1>4, <1>5, <1>6 DEF CheckerInv

LEMMA ReportPreserves ==
  ASSUME CheckerInv, ReportErrors
  PROVE  CheckerInv'
<1>1. /\ UnifyInv /\ AcyclicInv /\ DerivedInv /\ CheckInv
      /\ phase = "solve" /\ Idle /\ phase' = "idle" /\ failed' = failed \cup {input}
      /\ UNCHANGED <<program, input, deferred, teq_list, scopes, types, env, agenda, error_flag,
                     posted, lapses>>
  BY DEF CheckerInv, ReportErrors, unifyVars
<1>2. UnifyInv' /\ AcyclicInv'
  BY <1>1 DEF UnifyInv, AcyclicInv
<1>3. DerivedInv'
  BY <1>1, NothingUnsolved
<1>4. AcceptedInv'
  BY <1>1 DEF AcceptedInv
<1>5. CheckInv'
  <2>1. input \in 1 .. input /\ failed \subseteq 1 .. input
    BY <1>1 DEF CheckInv
  <2>2. QED
    BY <1>1, <2>1 DEF CheckInv, Idle, AllNodes, Nodes, ScopesOver, SymbolsOver, Placed
<1>6. QED
  BY <1>2, <1>3, <1>4, <1>5 DEF CheckerInv

LEMMA UpdatePreserves ==
  ASSUME CheckerInv, UpdateTypes
  PROVE  CheckerInv'
<1> DEFINE D == DOMAIN types
           T == TypesOver(D)
<1>1. /\ UnifyInv /\ AcyclicInv /\ DerivedInv /\ CheckInv /\ AcceptedInv
      /\ phase = "solve" /\ Idle /\ ~error_flag /\ phase' = "idle"
      /\ \A c \in D : types'[c] = Follow(types[c]) \/ types'[c] = types[c]
      /\ DOMAIN types' = D /\ types' = [c \in D |-> types'[c]]
      /\ UNCHANGED <<program, input, deferred, teq_list, failed, scopes, env, agenda, error_flag,
                     posted, lapses>>
  BY DEF CheckerInv, UpdateTypes
<1>2. \A c \in D : types'[c] \in T
  BY <1>1, CellFacts, FollowTypes
<1>3. types' \in Seq(T) /\ Len(types') = Len(types)
  <2> DEFINE cells == types'
  <2>1. DOMAIN cells = DOMAIN types /\ cells = [c \in DOMAIN types |-> cells[c]]
        /\ \A c \in DOMAIN types : cells[c] \in TypesOver(DOMAIN types)
    BY <1>1, <1>2
  <2> HIDE DEF cells
  <2>2. cells \in Seq(TypesOver(DOMAIN types)) /\ Len(cells) = Len(types)
    BY <1>1, <2>1, MadeCells
  <2>3. QED
    BY <2>2 DEF cells
<1>4. UnifyInv' /\ AcyclicInv'
  BY <1>1, <1>3 DEF UnifyInv, AcyclicInv
<1>5. DerivedInv' /\ ~Pending /\ ~Pending' /\ Given(agenda')
  BY <1>1 DEF DerivedInv, Pending, Unifying, Idle, Given
<1>6. AcceptedInv'
  <2>1. lapses' = {} /\ failed' = {} /\ ~error_flag' => AllSolved
    BY <1>1 DEF AcceptedInv
  <2>2. QED
    BY <1>1, <1>5, <2>1, QuietSolves
<1>7. CheckInv'
  BY <1>1, <1>3 DEF CheckInv, Idle, AllNodes, Nodes, ScopesOver, SymbolsOver, Placed, Deferrals
<1>8. QED
  BY <1>4, <1>5, <1>6, <1>7 DEF CheckerInv

LEMMA StutterPreserves ==
  ASSUME CheckerInv, UNCHANGED vars
  PROVE  CheckerInv'
<1>1. UNCHANGED <<scopes, program, input, phase, deferred, teq_list, failed, types, env, agenda,
                  error_flag, posted, lapses>>
  BY DEF vars, inputVars, unifyVars
<1>2. UnifyInv' /\ AcyclicInv'
  BY <1>1 DEF CheckerInv, UnifyInv, AcyclicInv
<1>3. DerivedInv' /\ AcceptedInv'
  BY <1>1, NothingUnsolved DEF CheckerInv, AcceptedInv
<1>4. CheckInv'
  BY <1>1 DEF CheckerInv, CheckInv, Idle, AllNodes, Nodes, ScopesOver, SymbolsOver, Placed
<1>5. QED
  BY <1>2, <1>3, <1>4 DEF CheckerInv

LEMMA InitChecks == Init => CheckerInv
<1> SUFFICES ASSUME Init PROVE CheckerInv
  OBVIOUS
<1> DEFINE m == Len(Nodes)
           s == [n \in AllNodes |-> NewType(Nodes, n)]
           T == TypesOver(DOMAIN types)
<1>1. HasShape(program) /\ agenda = <<>> /\ NothingUnified
  BY ProgramsHaveShape DEF Init
<1>2. AllNodes = 1 .. m /\ m \in Nat
  BY <1>1 DEF HasShape, AllNodes, Nodes
<1>3. \A n \in 1 .. m : NewType(Nodes, n) \in T
  BY DEF NewType, TypesOver
<1>4. Ground("bool") \in T
  BY DEF TypesOver, GroundTags
<1>5. s \in Seq(T) /\ Len(s) = m
  <2>1. DOMAIN s = 1 .. m /\ s = [n \in DOMAIN s |-> s[n]] /\ \A n \in 1 .. m : s[n] \in T
    BY <1>2, <1>3
  <2> HIDE DEF s, T, m
  <2>2. QED
    BY <1>2, <2>1, MappedSequence
<1>6. types = s \o <<Ground("bool")>>
  BY DEF Init
<1> HIDE DEF s, T
<1>7. types \in Seq(T) /\ Len(types) = m + 1
  BY <1>2, <1>4, <1>5, <1>6
<1>8. types \in Seq(Range(types)) /\ \A c \in DOMAIN types : IsType(types[c])
  <2>1. \A c \in DOMAIN types : types[c] \in T
    BY <1>7
  <2>2. types = [c \in 1 .. m + 1 |-> types[c]] /\ DOMAIN types = 1 .. m + 1
    BY <1>2, <1>7
  <2>3. types \in Seq(Range(types))
    BY <1>2, <2>2 DEF Range
  <2>4. QED
    BY <2>1, <2>3, TypeIsType DEF T
<1>9. UnifyInv /\ AcyclicInv
  BY <1>1, <1>8, StartUnifies
<1>10. DerivedInv
  BY <1>1 DEF DerivedInv, Idle
<1>11. AcceptedInv
  BY <1>1 DEF AcceptedInv, AllSolved, Pending, Unifying, Idle, NothingUnified
<1>12. CheckInv
  <2>1. scopes \in Seq(ScopesOver(DOMAIN types)) /\ scopes # <<>>
    <3>1. scopes = Append(<<>>, LookupTable!Empty) /\ <<>> \in Seq(ScopesOver(DOMAIN types))
      BY DEF Init
    <3>2. QED
      BY <3>1, InnerScope
  <2>2. teq_list \in Lists /\ teq_list.limit >= MaxTeqList
    BY ListAssumption DEF Init, Lists, Ids
  <2>3. Placed(agenda) /\ deferred \in Seq(Deferrals(DOMAIN types))
    BY <1>1 DEF Placed, Init
  <2>4. phase = "idle" /\ input = 0 /\ failed = {} /\ error_flag = FALSE /\ Idle
    BY <1>1 DEF Init, NothingUnified, Idle
  <2>5. Len(program.inputs) \in Nat
    BY <1>1 DEF HasShape
  <2>6. m + 1 <= Len(types)
    BY <1>2, <1>7
  <2>7. QED
    BY <1>1, <2>1, <2>2, <2>3, <2>4, <2>5, <2>6 DEF CheckInv
<1>13. QED
  BY <1>9, <1>10, <1>11, <1>12 DEF CheckerInv

LEMMA CheckerHolds == Spec => []CheckerInv
<1>1. Init => CheckerInv
  BY InitChecks
<1>2. CheckerInv /\ [Next]_vars => CheckerInv'
  <2> SUFFICES ASSUME CheckerInv, [Next]_vars PROVE CheckerInv'
    OBVIOUS
  <2>1. CASE GenerateEquations
    BY <2>1, GenerateWalks, WalkPreserves DEF CheckerInv
  <2>2. CASE Hang \/ SpinOutside
    BY <2>2, StutterPreserves DEF Hang, Spin, SpinOutside, vars
  <2>3. QED
    BY <2>1, <2>2, StartPreserves, SolvePreserves, ReportPreserves, UpdatePreserves,
       UnifyPreserves, StutterPreserves DEF Next
<1>3. QED
  BY <1>1, <1>2, PTL DEF Spec

-----------------------------------------------------------------------------
(* The theorems.                                                           *)

\* Type correctness: for any programs, whatever their equations, names stay bound to
\* nodes and to types whose members are cells, deferred equations stay about cells, and
\* the list of deferred equations keeps its least size (typecheck_in_ctx,
\* generate_equations, push_to_list).
THEOREM CheckerTypesOK == Spec => []TypeOK
<1>1. CheckerInv => TypeOK
  <2> SUFFICES ASSUME CheckerInv PROVE TypeOK
    OBVIOUS
  <2> DEFINE D == DOMAIN types
  <2>1. UnifyInv /\ CheckInv
    BY DEF CheckerInv
  <2>2. UnifyTypeOK
    BY <2>1, InvTypes
  <2>3. \A i \in DOMAIN scopes : \A name \in DOMAIN scopes[i] :
          /\ name \in Names
          /\ scopes[i][name].node \in AllNodes /\ IsType(scopes[i][name].type)
    <3> SUFFICES ASSUME NEW i \in DOMAIN scopes, NEW name \in DOMAIN scopes[i]
                 PROVE  /\ name \in Names
                        /\ scopes[i][name].node \in AllNodes /\ IsType(scopes[i][name].type)
      OBVIOUS
    <3> DEFINE X == ScopesOver(D)
    <3>1. scopes \in Seq(X)
      BY <2>1 DEF CheckInv
    <3> HIDE DEF X
    <3>2. scopes[i] \in X
      BY <3>1
    <3>3. name \in Names /\ scopes[i][name] \in SymbolsOver(D)
      BY <3>2 DEF X, ScopesOver
    <3>4. QED
      BY <3>3, TypeIsType DEF SymbolsOver
  <2>4. \A i \in DOMAIN deferred :
          {deferred[i].l, deferred[i].r} \subseteq D /\ deferred[i].index \in Ids
    <3> TAKE i \in DOMAIN deferred
    <3>1. deferred[i] \in Deferrals(D)
      <4>1. deferred \in Seq(Deferrals(D))
        BY <2>1 DEF CheckInv
      <4>2. QED
        BY <4>1
    <3>2. QED
      BY <3>1 DEF Deferrals
  <2>5. teq_list.limit >= MaxTeqList /\ teq_list.room > 0
    BY <2>1 DEF CheckInv, Lists, Ids
  <2>6. QED
    BY <2>1, <2>2, <2>3, <2>4, <2>5 DEF TypeOK, CheckInv
<1>2. QED
  BY <1>1, CheckerHolds, PTL

\* If every input of a session is accepted and unify did not lapse, the environment
\* solves every equation of the session, those of earlier inputs and the deferred ones
\* included (typecheck_in_ctx, unify).
THEOREM AcceptedSolves == Spec => []AcceptedIsSolved
<1>1. CheckerInv => AcceptedIsSolved
  <2> SUFFICES ASSUME CheckerInv, Settled
               PROVE  \A e \in posted : Solution(e[1]) = Solution(e[2])
    BY DEF AcceptedIsSolved
  <2>1. phase = "idle" /\ failed = {} /\ lapses = {}
    BY DEF Settled
  <2>2. Idle /\ ~error_flag
    BY <2>1 DEF CheckerInv, CheckInv
  <2>3. AllSolved /\ ~Pending
    BY <2>1, <2>2 DEF CheckerInv, AcceptedInv, Pending, Unifying
  <2>4. \A term : Eventual(term) = Solution(term)
    BY <2>3 DEF Eventual
  <2>5. QED
    BY <2>3, <2>4 DEF AllSolved
<1>2. QED
  BY <1>1, CheckerHolds, PTL

=============================================================================
