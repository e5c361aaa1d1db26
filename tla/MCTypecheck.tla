---------------------------- MODULE MCTypecheck ----------------------------
(***************************************************************************)
(* Families of small programs for the type checker.  MaxCells bounds the   *)
(* cells, which only a program that entangles a variable can allocate      *)
(* without end.                                                            *)
(***************************************************************************)
EXTENDS Typecheck, Trees

CONSTANTS MaxCells, MaxEquations

-----------------------------------------------------------------------------
(* Families of programs.                                                   *)

Leaves == {One, Text, Id("x"), Id("y")}
Simple == Leaves \cup {Binop(op, l, r) : op \in {"compare", "arith"}, l, r \in Leaves}

\* Functions of two parameters whose body combines two expressions.
Bodies ==
  { Program(<<Lambda("f", <<Param("x"), Param("y")>>, Block(<<a, b>>))>>) :
      a \in Simple, b \in Leaves \cup {Binop("compare", Id("x"), Id("y"))}
                             \cup {Binop("arith", l, r) : l \in {Id("x"), Id("y")}, r \in Leaves} }

\* Functions with a conditional.
Conditionals ==
  { Program(<<Lambda("f", <<Param("x"), Param("y")>>, If(c, t, e))>>) :
      c \in Simple, t, e \in Leaves }
  \cup
  { Program(<<Lambda("f", <<Param("x"), Param("y")>>, Block(<<When(c, t), Id("x")>>))>>) :
      c, t \in Leaves }

\* Inputs of a session that declare a name, assign to it and use it.
Sessions ==
  { Program(<<d, Let("x", a), Let("y", b), c>>) :
      d \in {Param("x"), Typed(Id("int"), "x")}, a \in Leaves, b \in {Text, Id("x")}, c \in Simple }

\* Recursive functions, called from outside.
Calls ==
  { Program(<<Lambda("f", <<Param("x")>>,
                     If(Binop("compare", Id("x"), One), t, Call("f", <<a>>))),
              Call(g, <<b>>), Call("f", <<One>>)>>) :
      t, a \in {One, Text, Id("x")}, b \in {One, Text, Call("f", <<One>>)}, g \in {"f", "g"} }

Matches ==
  { Program(<<Lambda("m", <<Param("x"), Param("y")>>,
                     Match(Id("x"), <<Arm(One, a), Arm(p, b)>>))>>) :
      a, b \in Leaves \cup {Bang(Id("x"))}, p \in {One, Text, Id("_")} }

\* Sums of numbers of both types, with and without an operand of unknown type.
Numbers == {One, Half}

Sums ==
  { Program(<<Let("x", a), Binop("arith", Binop("arith", b, c), d),
              Lambda("f", <<Param("y")>>, Binop("arith", Binop("arith", Id("y"), b), c))>>) :
      a, c \in Numbers, b, d \in Numbers \cup {Id("x")} }

\* Structs with an annotation, without one and in a function, and their members.
Field(type, name) == Typed(Id(type), name)
Pair == StructTree(<<Field("int", "a"), Field("str", "b")>>)
Values ==
  {StructTree(<<Let("a", One), Let("b", Text)>>), StructTree(<<Let("b", One), Let("a", Id("y"))>>),
   TupleTree(<<One, Text>>), TupleTree(<<One>>), Id("x")}

Uses == {MemberTree("x", "a"), MemberTree("y", "b"), MemberTree("x", "c"), Call("f", <<Id("x")>>),
         IndexTree(Id("x")), MemberTree("z", "a")}

Structs ==
  { Program(<<TypeTree("P", t), d, Lambda("f", <<Typed(Id("P"), "y")>>, u), v>>) :
      t \in {<<Pair>>, <<TupleTree(<<Id("int"), Id("str")>>)>>, <<PointerTree(Pair)>>, <<>>},
      d \in {Let("x", e) : e \in Values} \cup {LetTyped(Id("P"), "x", e) : e \in Values},
      u \in Uses, v \in {MemberTree("x", "a"), MemberTree("x", "c"), Call("f", <<Id("x")>>)} }
  \cup
  { Program(<<Lambda("f", <<Param("x"), Param("y")>>,
                     Block(<<Let("s", StructTree(<<Let("a", Id("x")), Let("b", b)>>)),
                             Binop("arith", MemberTree("s", m), e)>>)),
              Call("f", <<c, One>>)>>) :
      b \in {Id("y"), One}, m \in {"a", "b"}, e, c \in {One, Half, Text, Id("y")} }

\* Arrays and their elements, in arrays and functions.
Elements == {One, Text, Id("x"), Id("y"), ArrayTree(<<One>>), ArrayTree(<<Text>>)}

Arrays ==
  { Program(<<Lambda("f", <<Param("x"), Param("y")>>, Block(<<ArrayTree(<<a, b>>), c>>)),
              Let("z", ArrayTree(<<One, d>>)), IndexTree(Id("z"))>>) :
      a, b \in Elements, c \in {Id("y"), Binop("arith", Id("x"), One)},
      d \in {One, Text, Call("f", <<One, One>>)} }
  \cup
  { Program(<<Lambda("f", <<Param("x")>>, IndexTree(e))>>) :
      e \in Elements \cup {TupleTree(<<Id("x"), One>>), Call("f", <<One>>)} }

\* Functions applied in two and in three parts, with too few arguments and too many.
Given == {<<One>>, <<One, Text>>, <<Id("x")>>, <<>>}

Parts ==
  { Program(<<Lambda("f", <<Param("x"), Param("y"), Param("z")>>, body),
              Let("x", Half), Let("g", Call("f", a)), Let("h", Call("g", b)), Call(k, c)>>) :
      body \in {Id("x"), Binop("arith", Id("y"), One), Binop("compare", Id("x"), Id("z"))},
      a, b \in Given,
      c \in {<<One>>, <<Id("x"), Text>>, <<One, One, One, One>>, <<One, Id("x"), Half, One, One>>},
      k \in {"f", "g", "h", "x"} }

\* External functions, pointers, and functions in structs.
Externs ==
  { Program(<<TypeTree("P", <<Pair>>),
              Extern("e", <<p>>, t), Let("x", Call("e", a)), u, v>>) :
      p \in {Field("int", "y"), Field("P", "y"), Param("y")},
      t \in {Id("int"), PointerTree(Id("P")), IndexTree(Id("str")), Id("Q")},
      a \in {<<One>>, <<Text>>, <<>>}, u \in Uses,
      v \in {MemberTree("x", "a"), Call("f", <<Id("x")>>)} }

Methods ==
  { Program(<<Let("s", StructTree(<<Let("a", f), Let("b", One)>>)), Let("y", MethodTree("s", m, <<One>>)),
              Binop("arith", Id("y"), MemberTree("s", "b"))>>) :
      f \in {Lambda(Anonymous, <<Param("x")>>, b) : b \in {One, Text, Id("x")}} \cup {Text, Id("x")},
      m \in {"a", "b", "c"} }

\* Recursive functions that defer more equations than the list has room for.
Deferrals ==
  { Program(<<Lambda("f", <<Param("x")>>,
                     Binop("arith", Call("f", <<a>>), Binop("arith", Call("f", <<b>>), c))),
              Call("f", <<One>>)>>) :
      a, b \in {One, Half, Id("x")}, c \in {One, Call("f", <<One>>)} }

\* A program that is accepted though its equations have no solution.
Rebinding ==
  { Program(<<Lambda("f", <<Param("x")>>,
                     Binop("compare", Id("x"), Binop("compare", Id("x"), One)))>>) }

AllPrograms ==
  Bodies \cup Conditionals \cup Sessions \cup Calls \cup Matches \cup Sums \cup
  Structs \cup Arrays \cup Parts \cup Externs \cup Methods \cup Deferrals

AllNames == {"x", "y", "z", "f", "g", "h", "m", "e", "s", "a", "b", "P", "_"}

-----------------------------------------------------------------------------
(* Unification on its own: lists of equations between type variables,      *)
(* constants and types made of them, or between one of these and the first *)
(* member of another.  Every occurrence of a type has a cell of its own,   *)
(* as the identifiers of a program have, and the variables' own cells come *)
(* first.  No input comes with a list: the states are those of UnifyInit.  *)

NoProgram == [nodes |-> <<>>, inputs |-> <<>>]

Shared == <<Var(1), Var(2), Var(3), Ground("int"), Ground("str")>>

\* Functions between three variables and two constants; arrays and tuples of two
\* variables; and one type of each kind.
Functions == {Var(1), Var(2), Var(3), Ground("int"), Fn(<<1, 4>>), Fn(<<2, 3>>)}

Tuples == {Var(1), Var(2), Tuple(<<1, 4>>), Array(2)}

Kinds ==
  {Var(1), Var(2), Ground("int"), Tuple(<<1, 4>>), Tuple(<<2>>), Struct(<<1, 5>>, <<"a", "b">>),
   Array(2), Pointer(1), Fn(<<1, 4>>)}

Equations(terms, indices) == {e \in terms \X terms \X indices : e[3] # 0 => e[2].tag \notin GroundTags}

\* The lists of several begin with a variable: one of two constructors that comes
\* first changes no binding.
EquationLists ==
  LET of(equations, longest) ==
        {list \in UNION {[1 .. n -> equations] : n \in 1 .. longest} :
           Len(list) > 1 => IsVar(list[1][1])}
  IN  of(Equations(Functions, {0}), MaxEquations)
      \cup of(Equations(Tuples, {0}), MaxEquations)
      \cup of(Equations(Kinds, {0, 1}), MaxEquations - 1)

InitLists ==
  /\ program = NoProgram /\ input = 0 /\ phase = "idle" /\ failed = {}
  /\ scopes = <<LookupTable!Empty>>
  /\ deferred = <<>> /\ teq_list = [limit |-> MaxTeqList, room |-> MaxTeqList]
  /\ \E list \in EquationLists :
       /\ types = Shared \o [k \in 1 .. 2 * Len(list) |->
                               IF k % 2 = 1 THEN list[(k + 1) \div 2][1] ELSE list[k \div 2][2]]
       /\ agenda = [i \in DOMAIN list |->
                      Equation(Len(Shared) + 2 * i - 1, Len(Shared) + 2 * i, list[i][3], TRUE)]
  /\ given = {<<Cell(c), types[c]>> : c \in DOMAIN types} \cup {Said(e) : e \in Range(agenda)}
  /\ NothingUnified

MCInit == Init \/ InitLists

-----------------------------------------------------------------------------

MCNext ==
  \/ StartInput
  \/ GenerateEquations
  \/ SolveDeferred
  \/ ReportErrors
  \/ UpdateTypes
  \/ UnifyTypes /\ Len(types') <= MaxCells
  \/ Hang
  \/ SpinOutside

MCSpec == MCInit /\ [][MCNext]_vars /\ WF_vars(MCNext)

=============================================================================
