------------------------------ MODULE MCParser ------------------------------
(***************************************************************************)
(* Texts for the parser: those of trees, and all short texts over small    *)
(* alphabets, which are mostly wrong.                                      *)
(***************************************************************************)
EXTENDS Parser, Grammar

-----------------------------------------------------------------------------
(* Trees.                                                                  *)

Name(letter) == Tree("IDENTIFIER", <<letter>>, <<>>)
X == Name("x")   Y == Name("y")   Z == Name("z")   N == Name("n")
One == Tree("INTEGER", <<"1">>, <<>>)
Half == Tree("NUMBER", <<"0", ".", "1">>, <<>>)
Path(chars) == Tree("STRING", chars, <<>>)

BinOp(op, a, b) == Tree("BINOP", <<op>>, <<a, b>>)
UnOp(op, a) == Tree("UNOP", <<op>>, <<a>>)
Tuple(items) == Tree("TUPLE", <<>>, items)
Call(f, items) == Tree("CALL", <<>>, <<f, Tuple(items)>>)
At(a, i) == Tree("INDEX_ACCESS", <<>>, <<a, i>>)
Dot(a, letter) == Tree("MEMBER_ACCESS", <<letter>>, <<a>>)
If(c, a, b) == Tree("IF_ELSE", <<>>, <<c, a, b>>)
Let(letter, e) == Tree("ASSIGNMENT", <<letter>>, <<NULL, e>>)
LetTyped(type, letter, e) == Tree("ASSIGNMENT", <<letter>>, <<type, e>>)
Declare(type, letter) == Tree("SYMBOL_DECLARATION", <<letter>>, <<type>>)
Fn(word, params, rtype, b) == Tree("FN_DECLARATION", word, <<Proto(rtype, params), b>>)
List(items) == Tree("STATEMENT_LIST", <<>>, items)

OpSample == {"LT", "PIPE", "PLUS", "EQUALITY", "STAR"}
AllOps == UNION {Levels[level] : level \in 4 .. 8} \ {"QUESTION"}

\* One operator of each kind over a and b; over one of these and another operand; over two.
Over(a, b) ==
  {BinOp(op, a, b) : op \in OpSample} \cup
  {UnOp("MINUS", a), Call(a, <<b>>), At(a, b), Dot(a, "y"), If(a, b, Z)}
Simple == Over(X, Y)
Nested ==
  UNION {Over(e, Z) \cup Over(Z, e) \cup {If(Z, N, e)} : e \in Simple} \cup
  {BinOp(op, a, b) : op \in OpSample, a \in Simple, b \in Simple} \cup
  {BinOp(op, X, One) : op \in AllOps} \cup {UnOp(op, X) : op \in {"BANG", "AMPERSAND"}}

Listed2 ==
  {Tuple(<<>>), Tuple(<<X, Y>>), Tuple(<<X, Let("y", One), Z>>),
   Tree("ARRAY", <<>>, <<>>), Tree("ARRAY", <<>>, <<X, Half>>),
   Tree("STRUCT", <<>>, <<Let("x", One), Let("y", Z)>>),
   Call(X, <<>>), Call(X, <<Y, Tuple(<<One, Z>>)>>), Call(Call(X, <<Y>>), <<Z>>),
   Tree("CALL", <<>>, <<X, Tree("STRUCT", <<>>, <<Let("x", One)>>)>>),
   At(X, Tuple(<<Y, Z>>)), At(X, At(Y, Z)), Path(<<"x", " ", "#">>), Path(<<>>)}

Bodies == {NULL, X, BinOp("PLUS", X, One), List(<<Let("y", X), Call(N, <<Y>>)>>),
           List(<<If(X, One, NULL), Y>>), If(X, List(<<Y, Z>>), One)}
Params == {<<>>, <<Declare(NULL, "x")>>, <<Declare(N, "x"), Declare(UnOp("AMPERSAND", N), "y")>>,
           <<Declare(N, "x"), Tree("VAR_ARG", <<>>, <<>>)>>}
Types == {NULL, N, UnOp("AMPERSAND", N)}
Functions2 == {Fn(<<"z">>, params, type, b) : params \in Params, type \in Types, b \in Bodies}

Matches ==
  {Tree("MATCH", <<>>, <<c, type>> \o arms) :
     c \in {X, BinOp("PLUS", X, One)}, type \in {NULL, N},
     arms \in {<<BinOp("PIPE", One, X), BinOp("PIPE", Name("_"), Y)>>,
               <<X, If(X, Y, Z), BinOp("PIPE", Tuple(<<X, Y>>), BinOp("STAR", N, One))>>}}

Declarations ==
  {Declare(NULL, "x"), Declare(N, "x"), LetTyped(N, "x", One), LetTyped(N, "x", If(X, Y, Z)),
   Let("x", Let("y", Z)), Let("x", UnOp("AMPERSAND", Y)), Call(X, <<Fn(<<>>, <<>>, NULL, X)>>),
   Tree("MEMBER_ASSIGNMENT", <<"y">>, <<X, One>>),
   Tree("MEMBER_ASSIGNMENT", <<"y">>, <<Dot(X, "z"), BinOp("PLUS", X, One)>>),
   Tree("FN_DECLARATION", <<"z">>, <<Proto(N, <<Declare(N, "x")>>)>>),
   Tree("TYPE_DECLARATION", <<"n">>, <<N>>), Tree("TYPE_DECLARATION", <<"n">>, <<Tuple(<<X, Y>>)>>),
   Tree("TYPE_DECLARATION", <<"n">>, <<Proto(N, <<Declare(N, "x")>>)>>),
   Tree("TYPE_DECLARATION", <<"n">>, <<Tree("STRUCT", <<>>, <<Declare(N, "x"), Declare(NULL, "y")>>)>>),
   Tree("IMPORT", <<"x">>, <<>>), Tree("IMPORT_LIB", <<"x", ".", "so">>, <<>>)}

Expressions == Simple \cup Nested \cup Listed2
Statements == Expressions \cup Functions2 \cup Matches \cup Declarations \cup
              {Let("x", e) : e \in Simple \cup Listed2 \cup Matches}

\* A statement of each kind, for programs of two and three.
Sample == {X, BinOp("PLUS", X, One), If(X, Y, Z), Call(X, <<Y>>), Let("x", One), LetTyped(N, "x", One),
           Tree("IMPORT", <<"x">>, <<>>), Tree("TYPE_DECLARATION", <<"n">>, <<N>>),
           Fn(<<"z">>, <<Declare(NULL, "x")>>, NULL, X), Call(X, <<Fn(<<>>, <<>>, NULL, X)>>),
           CHOOSE m \in Matches : TRUE, List(<<X, Y>>), Tuple(<<X, Y>>)}
Programs == {<<s>> : s \in Statements} \cup Sample \X Sample

Written == {[text |-> WriteStatements(p, style) \o end, written |-> p] :
              p \in Programs, style \in {1, 2}, end \in {<<>>, <<"\n">>}}

\* Statements with a comment after them, as tests/parse_test.c writes some.
Commented(ends) == {[text |-> WriteStatement(s, style) \o <<" ", "#", "(">> \o end, written |-> <<s>>] :
                      s \in Sample, style \in {1, 2}, end \in ends}

-----------------------------------------------------------------------------
(* Short texts.                                                            *)

Short(alphabet, n) == UNION {[1 .. k -> alphabet] : k \in 0 .. n}

ShortTexts ==
  Short({"x", "=", "(", ")", "{", "}", "\n"}, 4) \cup
  Short({"x", "[", "]", ",", "\n"}, 4) \cup
  Short({"let", "type", "import", "x", "=", "fn", " "}, 3) \cup
  Short({"\"", "\\", "n", "#", " ", "\n"}, 4) \cup
  Short({"0", ".", "-", ">", "=", "x"}, 4) \cup
  Short({"!", "=", "&", "<", ">", "|", "x"}, 3)

\* Texts that start as a construct does.
Starts ==
  {<<"fn", "(">>, <<"fn", "(", ")">>, <<"let", " ", "x", "=">>, <<"if", "(", "x", ")">>, <<"if", "(", "x">>,
   <<"match", " ", "x", "\n", "|">>, <<"match", " ", "x", "\n", "|", "x", "\n", "|">>,
   <<"let", " ", "x", "=", "extern">>, <<"type", " ", "x", "=">>, <<"struct", "(">>,
   <<"import", "\"", "x", "\"">>, <<"x", "?", "x">>, <<"x", ".">>, <<"match">>, <<"return">>,
   <<"{", "x", "\n">>, <<"fn", "(", ".", ".", ".">>, <<"if">>, <<"struct">>, <<"let">>}
Continued == {start \o rest : start \in Starts, rest \in Short({"x", "=", ",", ":", ")", "{", "}", "\n", "fn"}, 2)}

MCInputs ==
  Written \cup Commented({<<"\n">>, <<"\n", "\n">>}) \cup
  {[text |-> t, written |-> <<>>] : t \in ShortTexts \cup Continued}

\* Comments that the end of the text ends.
MCComments == Commented({<<>>})

\* Comparisons for equality in and over other operators.
MCEqualities ==
  {[text |-> Write(e, 1, 1), written |-> <<e>>] :
     e \in {BinOp("EQUALITY", X, BinOp(op, Y, Z)) : op \in {"PLUS", "STAR"}} \cup
          {BinOp(op, BinOp("EQUALITY", X, Y), Z) : op \in {"PLUS", "STAR"}}}

-----------------------------------------------------------------------------
(* What other files of the repository say of these texts.                  *)

\* tests/parse_test.c:248 has the test TEST_PARSE("(1,2,3.5) # (tuple)", 1, ...): a
\* statement with a comment after it, to which no newline is needed, is read as that
\* statement (scan_token).
CommentsAreSkipped == phase # "overrun" /\ (phase = "done" => body = written)

\* parse_expression.h:11 has "PREC_EQUALITY,   // == !=" below comparisons, -> and sums:
\* what is written with the parentheses these levels ask for is read as it was meant.
EqualityIsBelowSums == phase = "done" => body = written

-----------------------------------------------------------------------------
(* What is read of a text that was not written from trees.                 *)

\* An input that is accepted without a message has all its names and literals in the
\* tree, in their order, unless the parser had one of the lapses.
NothingIsLost ==
  phase = "done" /\ ~complained /\ lapses = {} =>
    SelectSeq(Words(body), LAMBDA w : w # <<>>) =
    [i \in DOMAIN SelectSeq(tokens, LAMBDA t : t.type \in DOMAIN LiteralTags /\ t.word # <<>>) |->
       SelectSeq(tokens, LAMBDA t : t.type \in DOMAIN LiteralTags /\ t.word # <<>>)[i].word]

=============================================================================
