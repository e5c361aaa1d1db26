----------------------------- MODULE MCSession -----------------------------
(***************************************************************************)
(* Families of small sessions.  Variables are x and y, functions f and g,  *)
(* each of one parameter.                                                  *)
(***************************************************************************)
EXTENDS Session, Trees

Plus(e) == Tree("plus", "", "", <<e>>)
Fun(name, param, body) == Lambda(name, <<Param(param)>>, body)

Exprs == {One, Id("x"), Id("y"), Plus(Id("x")), Call("f", <<Id("x")>>), Call("g", <<One>>)}

Lets == {Let(v, e) : v \in {"x", "y"}, e \in {One, Id("x"), Call("g", <<Id("y")>>)}}

Inner == {Fun("g", p, b) : p \in {"x", "y"}, b \in {Id("x"), Plus(Id("y")), Call("f", <<One>>)}}

Branches == {If(One, a, b) : a, b \in {Id("x"), Let("y", One), Block(<<Let("y", Id("x")), Id("y")>>)}}
            \cup {When(One, Id("x"))}

Statements == Exprs \cup Lets \cup Inner \cup Branches \cup {Param("y")}

\* A file that defines a function of two statements and calls it.
Nested ==
  { Program(<<Block(<<Fun("f", "x", Block(<<a, b>>)), Call("f", <<One>>)>>)>>) :
      a, b \in Statements }

\* Three inputs of one statement each.
Lines ==
  { Program(<<a, b, c>>) : a, b, c \in
      {Let("x", One), Let("y", Id("x")), Plus(Id("y")), Call("f", <<Id("x")>>),
       Fun("f", "y", Plus(Id("y"))), Fun("f", "x", Id("y")), Param("x")} }

\* A file of three statements.
Files ==
  { Program(<<Block(<<a, b, c>>)>>) : a, b, c \in Exprs \cup Lets \cup Inner }

\* Names of functions used as values, and a variable that has one of them.
Shared ==
  { Program(<<Block(<<Fun("f", "x", Block(<<a, b>>)), c, d>>)>>) :
      a, b \in {Fun("g", "y", Id("f")), Id("g"), Id("f")},
      c, d \in {Let("g", One), Id("g"), Plus(Id("g")), Call("g", <<One>>), Param("g")} }

\* A function of two parameters around a function of one.
Captures ==
  { Program(<<Block(<<Lambda("f", <<Param("x"), Param("y")>>,
                             Block(<<Fun("g", "z", b), c>>))>>)>>) :
      b \in {Id("x"), Id("y"), Id("z"), Plus(Id("y"))}, c \in {Id("y"), Call("g", <<Id("y")>>)} }

\* A match in a function or a file, whose arms bind names; the rest uses them.
Matches ==
  LET match(p, a, b) == Match(Id("x"), <<Arm(p, a), Arm(One, b)>>)
      arms == {Id("x"), Id("y"), Let("x", One), Block(<<Let("y", Id("x")), Id("y")>>)}
  IN  { Program(<<Block(<<Fun("f", "x", Block(<<match(p, a, b), c>>)), Call("f", <<One>>)>>)>>) :
          p \in {One, Id("y")}, a, b \in arms, c \in {Id("y"), Let("y", One)} }
      \cup
      { Program(<<Block(<<Let("x", One), match(p, a, b), c>>), Id("y")>>) :
          p \in {One, Let("y", One)}, a, b \in arms, c \in {Id("y"), Let("y", One)} }

\* External functions, in a line, a file or a function, and what has their names.
Externs ==
  LET external == Extern("f", <<Param("x")>>, One)
      uses == {Call("f", <<One>>), Id("f"), Let("f", One), Fun("g", "x", Call("f", <<Id("x")>>)),
               Fun("f", "y", Id("y")), external, Id("x")}
  IN  {Program(<<external, a, b>>) : a, b \in uses}
      \cup {Program(<<Block(<<external, a, b>>), Call("g", <<One>>)>>) : a, b \in uses}
      \cup {Program(<<Block(<<Fun("g", "x", Block(<<external, a>>)), b>>)>>) : a, b \in uses}

AllSessions ==
  Nested \cup Lines \cup Files \cup Shared \cup Captures \cup Matches \cup Externs

\* A nested function that uses the parameter of the function around it.
Closures ==
  { Program(<<Fun("f", "x", Block(<<Fun("g", "y", Id("x")), Call("g", <<One>>)>>))>>) }

\* A recursive function and a call of it.
Recursions ==
  { Program(<<Block(<<Fun("f", "x", If(Id("x"), One, Plus(Call("f", <<Id("x")>>)))),
                      Call("f", <<One>>)>>)>>),
    Program(<<Block(<<Fun("f", "x", Call("f", <<Id("x")>>)), Call("f", <<One>>)>>)>>) }

\* Two variables defined in one line each, then used.
TwoLines == { Program(<<Let("x", One), Let("y", One), Id("y")>>) }

=============================================================================
