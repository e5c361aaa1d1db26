------------------------------ MODULE Grammar -------------------------------
(***************************************************************************)
(* How programs are written: the text of a tree, with parentheses only     *)
(* where precedences ask for them.  It is what the parser is compared      *)
(* with, and is used by the model checker only.                            *)
(*                                                                         *)
(* A closing brace takes the end of its line with it, and so does the last *)
(* arm of a match; a statement after them starts on the line after that.   *)
(***************************************************************************)
EXTENDS ParseTrees

CONSTANT EqualityOperands   \* the level an operand of == and != is written for

\* The operators, from the weakest: the levels of parse_expression.h, with the operators
\* it names (% and ?: are not among them; rules in parse_expression.c puts them at 7).
Levels == <<
  {"ASSIGNMENT"}, {}, {}, {"EQUALITY", "NOT_EQUAL"}, {"LT", "GT", "LTE", "GTE"}, {"PIPE"},
  {"PLUS", "MINUS", "MODULO", "QUESTION"}, {"STAR", "SLASH"}, {"UNARY"}, {"CALL"}, {"PRIMARY"} >>
LevelOf(operator) == CHOOSE level \in DOMAIN Levels : operator \in Levels[level]

\* The rules put == and != at 7 too.  With operands written for that level and the whole
\* for level 4, a text has parentheses wherever the header and the rules do not agree.
OperandLevel(operator) ==
  IF operator \in {"EQUALITY", "NOT_EQUAL"} THEN EqualityOperands ELSE LevelOf(operator)

Spelling ==
  [LT |-> <<"<">>, GT |-> <<">">>, LTE |-> <<"<", "=">>, GTE |-> <<">", "=">>,
   PIPE |-> <<"-", ">">>, PLUS |-> <<"+">>, MINUS |-> <<"-">>, MODULO |-> <<"%">>,
   EQUALITY |-> <<"=", "=">>, NOT_EQUAL |-> <<"!", "=">>, STAR |-> <<"*">>,
   SLASH |-> <<"/">>, BANG |-> <<"!">>, AMPERSAND |-> <<"&">>]

\* The level of a tree, and whether what follows it would become part of it.
Level(t) ==
  CASE t.tag = "BINOP" -> LevelOf(t.word[1])
    [] t.tag = "UNOP" -> LevelOf("UNARY")
    [] t.tag = "IF_ELSE" -> LevelOf("QUESTION")
    [] t.tag \in {"ASSIGNMENT", "MEMBER_ASSIGNMENT"} -> LevelOf("ASSIGNMENT")
    [] t.tag \in {"CALL", "INDEX_ACCESS", "MEMBER_ACCESS"} -> LevelOf("CALL")
    [] OTHER -> LevelOf("PRIMARY")

RECURSIVE IsOpen(_)
IsOpen(t) ==
  \/ t.tag \in {"IF_ELSE", "MATCH"}
  \/ t.tag = "BINOP" /\ IsOpen(t.kids[2])

Joined(texts, separator) ==
  FoldLeftDomain(LAMBDA acc, i : acc \o (IF i = 1 THEN <<>> ELSE separator) \o texts[i],
                 <<>>, texts)

\* Texts of trees.  Style 1 is the short one: a ? b : c, x = 1.  Style 2 has if and let.
RECURSIVE Write(_, _, _)
RECURSIVE WriteStatements(_, _)

Bare(t, style) ==
  LET own == IF t.tag = "BINOP" THEN OperandLevel(t.word[1]) ELSE Level(t)
      Left(kid) == IF IsOpen(kid) THEN Write(kid, 12, style) ELSE Write(kid, own, style)
      Right(kid) == Write(kid, own + 1, style)
      All(kids) == Joined([i \in DOMAIN kids |-> Write(kids[i], 1, style)], <<",">>)
      Body(body) == <<"{">> \o WriteStatements(IF body = NULL THEN <<>>
                                               ELSE IF body.tag = "STATEMENT_LIST" THEN body.kids
                                               ELSE <<body>>, style) \o <<"}">>
      Typed(type) == IF type = NULL THEN <<>> ELSE Write(type, 2, style) \o <<" ">>
      Prototype(p) == <<"(">> \o All(Tail(p.kids)) \o <<")">> \o
                      (IF p.kids[1] = NULL THEN <<>> ELSE <<" ">> \o Write(p.kids[1], 1, style))
      kid == t.kids
  IN
  CASE t.tag \in {"IDENTIFIER", "INTEGER", "NUMBER", "BOOL"} -> t.word
    [] t.tag = "STRING" -> <<"\"">> \o t.word \o <<"\"">>
    [] t.tag = "VAR_ARG" -> <<".", ".", ".">>
    [] t.tag = "UNOP" -> Spelling[t.word[1]] \o Write(kid[1], Level(t), style)
    [] t.tag = "BINOP" -> Left(kid[1]) \o Spelling[t.word[1]] \o Right(kid[2])
    [] t.tag = "CALL" -> Left(kid[1]) \o <<"(">> \o All(kid[2].kids) \o <<")">>
    [] t.tag = "INDEX_ACCESS" ->
         Left(kid[1]) \o <<"[">>
           \o (IF kid[2].tag = "TUPLE" THEN All(kid[2].kids) ELSE Write(kid[2], 1, style)) \o <<"]">>
    [] t.tag = "MEMBER_ACCESS" -> Left(kid[1]) \o <<".">> \o t.word
    [] t.tag = "MEMBER_ASSIGNMENT" ->
         Write(kid[1], LevelOf("CALL"), style) \o <<".">> \o t.word \o <<"=">> \o Right(kid[2])
    [] t.tag = "ASSIGNMENT" -> Typed(kid[1]) \o t.word \o <<"=">> \o Right(kid[2])
    [] t.tag = "SYMBOL_DECLARATION" -> Typed(kid[1]) \o t.word
    [] t.tag = "TUPLE" -> <<"(">> \o All(kid) \o <<")">>
    [] t.tag = "ARRAY" -> <<"[">> \o All(kid) \o <<"]">>
    [] t.tag = "STRUCT" ->
         (IF kid # <<>> /\ kid[1].tag = "ASSIGNMENT" THEN <<>> ELSE <<"struct">>)
           \o <<"(">> \o All(kid) \o <<")">>
    [] t.tag = "STATEMENT_LIST" -> Body(t) \o <<"\n">>
    [] t.tag = "IF_ELSE" ->
         IF style = 1 /\ kid[3] # NULL
         THEN Left(kid[1]) \o <<"?">> \o Write(kid[2], 1, style) \o <<":">> \o Write(kid[3], 1, style)
         ELSE <<"if", "(">> \o Write(kid[1], 1, style) \o <<")">> \o Body(kid[2])
                \o (IF kid[3] = NULL THEN <<>> ELSE <<"else">> \o Body(kid[3])) \o <<"\n">>
    [] t.tag = "MATCH" ->
         <<"match", " ">> \o Write(kid[1], LevelOf("PIPE"), style)
           \o (IF kid[2] = NULL THEN <<>> ELSE <<"-", ">">> \o Write(kid[2], LevelOf("PIPE") + 1, style))
           \o <<"\n">> \o Joined([i \in 1 .. Len(kid) - 2 |-> <<"|">> \o Write(kid[i + 2], 1, style)
                                                                 \o <<"\n">>], <<>>)
    [] t.tag = "FN_DECLARATION" ->
         (IF Len(kid) = 1 THEN <<"extern", " ">> ELSE <<>>) \o <<"fn">> \o Prototype(kid[1])
           \o (IF Len(kid) = 1 THEN <<>> ELSE Body(kid[2]) \o <<"\n">>)
    [] t.tag = "TYPE_DECLARATION" ->
         <<"type", " ">> \o t.word \o <<"=">>
           \o (IF kid[1].tag = "FN_PROTOTYPE" THEN <<"fn">> \o Prototype(kid[1])
               ELSE Write(kid[1], 1, style))
    [] t.tag \in {"IMPORT", "IMPORT_LIB"} -> <<"import", " ", "\"">> \o t.word \o <<"\"">>

Write(t, level, style) ==
  IF Level(t) < level /\ ~(t.tag = "IF_ELSE" /\ (style = 2 \/ t.kids[3] = NULL) /\ level < 12)
  THEN <<"(">> \o Bare(t, style) \o <<")">> ELSE Bare(t, style)

\* Declarations, and assignments in the second style, start with "let"; a named function
\* always does.
WriteStatement(s, style) ==
  CASE s.tag = "FN_DECLARATION" /\ s.word # <<>> ->
         <<"let", " ">> \o s.word \o <<"=">> \o Write(s, 1, style)
    [] s.tag = "SYMBOL_DECLARATION" -> <<"let", " ">> \o Write(s, 1, style)
    [] s.tag = "ASSIGNMENT" ->
         IF style = 1 /\ s.kids[1] = NULL THEN Write(s, 1, style)
         ELSE <<"let", " ">> \o Write([s EXCEPT !.kids[2] = NULL, !.tag = "SYMBOL_DECLARATION"], 1, style)
                \o <<"=">> \o Write(s.kids[2], 1, style)
    [] OTHER -> Write(s, 1, style)

WriteStatements(statements, style) ==
  Joined([i \in DOMAIN statements |-> WriteStatement(statements[i], style)], <<"\n">>)

-----------------------------------------------------------------------------
\* The names and literals of trees, as they are read from left to right.
RECURSIVE Words(_)
Words(trees) ==
  LET Word(t) == IF t.word = <<>> THEN <<>> ELSE <<t.word>>
      WordsOfTree(t) ==
        CASE t.tag \in {"UNOP", "BINOP"} -> Words(t.kids)
          [] t.tag \in {"ASSIGNMENT", "SYMBOL_DECLARATION", "MEMBER_ACCESS", "MEMBER_ASSIGNMENT"} ->
               Words(<<t.kids[1]>>) \o Word(t) \o Words(Tail(t.kids))
          [] t.tag = "FN_PROTOTYPE" -> Words(Tail(t.kids)) \o Words(<<t.kids[1]>>)
          [] OTHER -> Word(t) \o Words(t.kids)
  IN  FlattenSeq([i \in DOMAIN trees |-> WordsOfTree(trees[i])])

=============================================================================
