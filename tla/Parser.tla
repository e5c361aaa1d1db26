------------------------------- MODULE Parser -------------------------------
(***************************************************************************)
(* The parser (parse/*.c): recursive descent and precedence climbing over  *)
(* the tokens of one input.  A call in progress is a record of calls,      *)
(* innermost first: where the function goes on, and its locals; value is   *)
(* what the last call returned.  The parser is one token ahead (current)   *)
(* of the one it works on (previous).                                      *)
(*                                                                         *)
(* Trees are records of a tag, a word (name, operator or literal) and      *)
(* children; NULL is a tree too.  Undefined behaviour (NULL read, garbage  *)
(* taken for a name and copied, a missing rule called) ends the model.     *)
(***************************************************************************)
EXTENDS Scanner, ParseTrees

CONSTANT Inputs   \* the inputs: a text, and the statements it was written from,
                  \* or <<>> when nothing is known of it

\* A text is a string of characters.
ASSUME InputsAssumption == \A input \in Inputs : input.text \in Seq(Range(input.text))

VARIABLES
  at,          \* scanner.current
  previous,    \* parser.previous
  current,     \* parser.current
  calls,       \* the calls in progress
  value,       \* the result of the last call
  body,        \* the statements of the input so far
  phase,       \* "parse", "done", or how it ended: "undefined", "uninitialised", "overrun"
  written,     \* history: the statements the text was written from
  tokens,      \* history: the tokens scanned
  complained,  \* history: an error message has been printed
  lapses       \* history: what the parser let pass without a message

vars == <<text, at, previous, current, calls, value, body, phase, written,
          tokens, complained, lapses>>

-----------------------------------------------------------------------------
(* Nodes.                                                                  *)

Leaf(token) == Tree(LiteralTags[token.type], token.word, <<>>)

\* The first field of a node, read as a name.  Of some nodes it is a name, of others a
\* pointer to something else, and of the rest a number.
NamedTags == {"IDENTIFIER", "ASSIGNMENT", "SYMBOL_DECLARATION", "TYPE_DECLARATION",
              "STRING", "IMPORT", "IMPORT_LIB"}
PointerTags == {"CALL", "INDEX_ACCESS", "MEMBER_ACCESS", "MEMBER_ASSIGNMENT", "IF_ELSE",
                "MATCH", "FN_DECLARATION"}
NameIn(t) == IF t.tag \in NamedTags THEN t.word ELSE <<"garbage">>
CanBeCopied(t) == t.tag \in NamedTags \/ (t.tag \in PointerTags /\ t.kids[1] # NULL)

-----------------------------------------------------------------------------
(* Calls.                                                                  *)

Frame == Head(calls)
Running(place) == phase = "parse" /\ Frame.go = place
Is(type) == current.type = type

Go(place) == [go |-> place]
Precedence(prec) == [go |-> "precedence", prec |-> prec]
Expression == Precedence(1)   \* parse_expression
Block == [go |-> "block", items |-> <<>>]

\* The function goes on with these calls, the first one first; it returns; it goes on
\* with a value of its own.
Do(frames) == calls' = frames \o Tail(calls) /\ UNCHANGED value
Return(t) == calls' = Tail(calls) /\ value' = t
Give(t, frame) == calls' = <<frame>> \o Tail(calls) /\ value' = t

Silent == UNCHANGED <<complained, lapses>>
Complain == complained' = TRUE /\ UNCHANGED lapses
Lapse(what) == lapses' = lapses \cup {what} /\ UNCHANGED complained
LapseIf(condition, what) == IF condition THEN Lapse(what) ELSE Silent

\* advance(), and a step without it.
Advance ==
  /\ \E token \in {scan_token(at)} :
       /\ current' = token
       /\ at' = token.next
       /\ tokens' = Append(tokens, token)
       /\ phase' = IF token.next = 0 THEN "overrun" ELSE phase
  /\ previous' = current
  /\ UNCHANGED <<text, written, body>>
Stay == UNCHANGED <<text, written, at, previous, current, body, phase, tokens>>

AdvanceIf(condition) == IF condition THEN Advance ELSE Stay

\* The parser does what C leaves undefined.
Undefined ==
  /\ phase' = "undefined"
  /\ UNCHANGED <<text, written, at, previous, current, calls, value, body, tokens,
                 complained, lapses>>

\* A list that collects what is not NULL.
Collected == IF value = NULL THEN Frame.items ELSE Append(Frame.items, value)
With(items, place) == [Frame EXCEPT !.items = items, !.go = place]

-----------------------------------------------------------------------------
(* Expressions: precedence climbing.                                       *)

Unary == 9

\* The precedence of a token as an infix operator.
Rule(type) ==
  CASE type \in {"LP", "LEFT_SQ", "DOT"} -> 10
    [] type \in {"SLASH", "STAR"} -> 8
    [] type \in {"MINUS", "PLUS", "EQUALITY", "NOT_EQUAL", "MODULO", "QUESTION"} -> 7
    [] type = "PIPE" -> 6
    [] type \in {"LT", "GT", "LTE", "GTE"} -> 5
    [] type \in {"ASSIGNMENT", "IDENTIFIER"} -> 1
    [] OTHER -> 0

\* The prefix rule, chosen by the token before; Loop is where its result goes.
Prefix(types) == Running("prefix") /\ previous.type \in types
Loop == [go |-> "infix", prec |-> Frame.prec]

\* Blank lines are skipped; that the input has ended is noticed only before them.
EnterPrecedence ==
  /\ phase = "parse" /\ Frame.go \in {"precedence", "skip"}
  /\ \/ Is("EOF") /\ Frame.go = "precedence" /\ Return(NULL) /\ Stay
     \/ Is("NL") /\ Do(<<[Frame EXCEPT !.go = "skip"]>>) /\ Advance
     \/ /\ ~Is("NL") /\ (Is("EOF") => Frame.go = "skip")
        /\ Do(<<[Frame EXCEPT !.go = "prefix"]>>) /\ Advance
  /\ Silent

PrefixTypes == DOMAIN LiteralTags \cup
  {"MINUS", "BANG", "AMPERSAND", "LP", "LEFT_SQ", "LEFT_BRACE", "fn", "if", "match", "struct"}

\* (Faulty form, for the mutation runs: without the message.)
NoPrefixSilent ==
  /\ Running("prefix") /\ previous.type \notin PrefixTypes
  /\ Return(NULL) /\ Stay /\ Silent

\* No expression starts so: a message, and NULL, which the caller takes as a result.
NoPrefix ==
  /\ Running("prefix") /\ previous.type \notin PrefixTypes
  /\ Return(NULL) /\ Stay /\ Complain

Literal == Prefix(DOMAIN LiteralTags) /\ Give(Leaf(previous), Loop) /\ Stay /\ Silent

parse_unary ==
  /\ \/ /\ Prefix({"MINUS", "BANG", "AMPERSAND"})
        /\ Do(<<Precedence(Unary), [go |-> "unary", op |-> previous.type], Loop>>)
     \/ Running("unary") /\ Return(Tree("UNOP", <<Frame.op>>, <<value>>))
  /\ Stay /\ Silent

Infix ==
  /\ Running("infix")
  /\ IF Frame.prec <= Rule(current.type)
     THEN Do(<<[go |-> "infix_rule", left |-> value], Frame>>) /\ Advance
     ELSE Return(value) /\ Stay
  /\ Silent

\* A name after an operand: it has a precedence but no infix rule.
NoInfix == Running("infix_rule") /\ previous.type = "IDENTIFIER" /\ Undefined

BinaryOperators == {"DOT", "MINUS", "PLUS", "EQUALITY", "NOT_EQUAL", "MODULO", "SLASH", "STAR",
                    "PIPE", "ASSIGNMENT", "LT", "GT", "LTE", "GTE"}

Binary(ops) == Running("binary") /\ Frame.op \in ops

\* (Faulty form, for the mutation runs: the operand on the right is parsed at the
\* operator's own level.)
EnterBinaryAtLevel ==
  /\ Running("infix_rule") /\ previous.type \in BinaryOperators
  /\ Do(<<Precedence(Rule(previous.type)),
          [go |-> "binary", op |-> previous.type, left |-> Frame.left]>>)
  /\ Stay /\ Silent

EnterBinary ==
  /\ Running("infix_rule") /\ previous.type \in BinaryOperators
  /\ Do(<<Precedence(Rule(previous.type) + 1),
          [go |-> "binary", op |-> previous.type, left |-> Frame.left]>>)
  /\ Stay /\ Silent

Operator ==
  /\ Binary(BinaryOperators \ {"DOT", "ASSIGNMENT"})
  /\ Return(Tree("BINOP", <<Frame.op>>, <<Frame.left, value>>)) /\ Stay /\ Silent

\* The member is copied as a name, whatever it is.
Member ==
  /\ Binary({"DOT"})
  /\ \/ ~CanBeCopied(value) /\ Undefined
     \/ /\ CanBeCopied(value)
        /\ Return(IF value.tag = "ASSIGNMENT"
                  THEN Tree("MEMBER_ASSIGNMENT", value.word, <<Frame.left, value.kids[2]>>)
                  ELSE Tree("MEMBER_ACCESS", NameIn(value), <<Frame.left>>))
        /\ LapseIf(value.tag \notin {"IDENTIFIER", "ASSIGNMENT"}, "target") /\ Stay

\* The target of an assignment is taken for a name, whatever it is: a = b = c assigns
\* c to a.
Assign ==
  /\ Binary({"ASSIGNMENT"})
  /\ \/ Frame.left = NULL /\ Undefined
     \/ /\ Frame.left # NULL
        /\ Return(IF Frame.left.tag = "MEMBER_ACCESS"
                  THEN Tree("MEMBER_ASSIGNMENT", Frame.left.word, <<Frame.left.kids[1], value>>)
                  ELSE Tree("ASSIGNMENT", NameIn(Frame.left), <<NULL, value>>))
        /\ LapseIf(Frame.left.tag \notin {"IDENTIFIER", "MEMBER_ACCESS"}, "target") /\ Stay

-----------------------------------------------------------------------------
(* Lists between brackets.  At the end of the input the members are NULL   *)
(* and the closing bracket never comes.                                    *)

Members(closer, lines) == [go |-> "members", closer |-> closer, lines |-> lines, items |-> <<>>]

\* A list in parentheses is a struct when its first member is an assignment.
Listed(closer, items) ==
  Tree(IF closer = "RP" /\ items # <<>> /\ items[1].tag = "ASSIGNMENT" THEN "STRUCT" ELSE "TUPLE",
       <<>>, items)
Single(t) == IF Len(t.kids) = 1 THEN t.kids[1] ELSE t

NextMember ==
  /\ Running("members") /\ Silent
  /\ IF Is(Frame.closer) THEN Return(Listed(Frame.closer, Frame.items)) /\ Advance
     ELSE Do(<<Expression, [Frame EXCEPT !.go = "member"]>>) /\ AdvanceIf(Frame.lines /\ Is("NL"))

EndMember ==
  /\ Running("member") /\ Silent
  /\ Do(<<With(Collected, "after_member")>>) /\ AdvanceIf(Is("COMMA"))

AfterMember ==
  /\ Running("after_member") /\ Silent
  /\ Do(<<[Frame EXCEPT !.go = "members"]>>) /\ AdvanceIf(Frame.lines /\ Is("NL"))

parse_grouping ==
  /\ \/ Prefix({"LP"}) /\ Do(<<Members("RP", TRUE), Go("grouping"), Loop>>)
     \/ Running("grouping") /\ Return(Single(value))
  /\ Stay /\ Silent

parse_array ==
  /\ \/ Prefix({"LEFT_SQ"}) /\ Do(<<Members("RIGHT_SQ", TRUE), Go("array"), Loop>>)
     \/ Running("array") /\ Return([value EXCEPT !.tag = "ARRAY"])
  /\ Stay /\ Silent

parse_call ==
  /\ \/ /\ Running("infix_rule") /\ previous.type = "LP"
        /\ Do(<<Members("RP", TRUE), [Frame EXCEPT !.go = "call"]>>)
     \/ Running("call") /\ Return(Tree("CALL", <<>>, <<Frame.left, value>>))
  /\ Stay /\ Silent

parse_index_access ==
  /\ \/ /\ Running("infix_rule") /\ previous.type = "LEFT_SQ"
        /\ Do(<<Members("RIGHT_SQ", FALSE), [Frame EXCEPT !.go = "index"]>>)
     \/ Running("index") /\ Return(Tree("INDEX_ACCESS", <<>>, <<Frame.left, Single(value)>>))
  /\ Stay /\ Silent

-----------------------------------------------------------------------------
(* Blocks.                                                                 *)

\* (Faulty form, for the mutation runs: the end of the input is not looked for.)
NextInBlockForEver ==
  /\ Running("block") /\ Silent
  /\ \/ Is("RIGHT_BRACE") /\ Do(<<[Frame EXCEPT !.go = "block_end"]>>) /\ Advance
     \/ Is("NL") /\ Do(<<Frame>>) /\ Advance
     \/ /\ ~Is("RIGHT_BRACE") /\ ~Is("NL")
        /\ Do(<<Go("statement"), [Frame EXCEPT !.go = "push"]>>) /\ Stay

\* parse_scoped_block, and parse_fn_body after its brace.  Statements of a block that
\* is not closed are dropped.
NextInBlock ==
  /\ Running("block")
  /\ \/ Is("RIGHT_BRACE") /\ Do(<<[Frame EXCEPT !.go = "block_end"]>>) /\ Advance /\ Silent
     \/ Is("EOF") /\ Return(NULL) /\ Stay /\ Lapse("unclosed")
     \/ Is("NL") /\ Do(<<Frame>>) /\ Advance /\ Silent
     \/ /\ ~Is("RIGHT_BRACE") /\ ~Is("EOF") /\ ~Is("NL")
        /\ Do(<<Go("statement"), [Frame EXCEPT !.go = "push"]>>) /\ Stay /\ Silent

\* (Faulty form, for the mutation runs: the list always has one element.)
PushOver ==
  /\ Running("push") /\ Stay /\ Silent
  /\ Do(<<With(IF value = NULL THEN Frame.items ELSE <<value>>, "block")>>)

\* statements_push
Push == Running("push") /\ Do(<<With(Collected, "block")>>) /\ Stay /\ Silent

\* The token after the brace is passed over as well, whatever it is: a newline, an
\* "else", or part of what follows.
EndBlock ==
  /\ Running("block_end")
  /\ Return(IF Frame.items = <<>> THEN NULL
            ELSE Single(Tree("STATEMENT_LIST", <<>>, Frame.items)))
  /\ Advance
  /\ LapseIf(current.type \notin {"NL", "EOF", "else"}, "swallowed")

parse_scoped_block == Prefix({"LEFT_BRACE"}) /\ Do(<<Block, Loop>>) /\ Stay /\ Silent

parse_fn_body ==
  /\ Running("body") /\ Silent
  /\ IF Is("LEFT_BRACE") THEN Do(<<Block>>) /\ Advance ELSE Return(NULL) /\ Stay

-----------------------------------------------------------------------------
(* Conditionals and match.                                                 *)

\* A condition that is not closed is dropped without a message.
if_expression ==
  \/ /\ Prefix({"if"})
     /\ IF Is("LP") THEN Do(<<Expression, Go("condition"), Loop>>) /\ Advance /\ Silent
        ELSE Give(NULL, Loop) /\ Stay /\ Complain
  \/ /\ Running("condition")
     /\ IF Is("RP")
        THEN Do(<<Go("body"), [go |-> "otherwise", left |-> value]>>) /\ Advance /\ Silent
        ELSE Return(NULL) /\ Stay /\ Lapse("unclosed")
  \/ /\ Running("otherwise") /\ Stay /\ Silent
     /\ Do(<<Go("body"), [go |-> "conditional", left |-> Frame.left, then |-> value]>>)
  \/ /\ Running("conditional") /\ Stay /\ Silent
     /\ Return(Tree("IF_ELSE", <<>>, <<Frame.left, Frame.then, value>>))

parse_ternary ==
  \/ /\ Running("infix_rule") /\ previous.type = "QUESTION" /\ Stay /\ Silent
     /\ Do(<<Expression, [Frame EXCEPT !.go = "ternary"]>>)
  \/ /\ Running("ternary")
     /\ IF Is("COLON")
        THEN /\ Do(<<Expression, [go |-> "conditional", left |-> Frame.left, then |-> value]>>)
             /\ Advance /\ Silent
        ELSE Return(NULL) /\ Stay /\ Complain

\* What comes after a top-level -> is the type of the result.
EnterMatch ==
  \/ Prefix({"match"}) /\ Do(<<Expression, Go("candidate"), Loop>>) /\ Stay /\ Silent
  \/ Running("candidate") /\ value = NULL /\ Undefined
  \/ /\ Running("candidate") /\ value # NULL
     /\ Do(<<[go |-> "arms", items |-> <<>>, last |-> NULL,
              head |-> IF IsPipe(value) THEN value.kids ELSE <<value, NULL>>]>>)
     /\ AdvanceIf(Is("NL")) /\ Silent

\* A single arm stands for the whole match.
NextArm ==
  /\ Running("arms")
  /\ \/ Is("BAR") /\ Do(<<Expression, [Frame EXCEPT !.go = "arm"]>>) /\ Advance /\ Silent
     \/ /\ ~Is("BAR") /\ Stay
        /\ \/ Frame.items = <<>> /\ Return(NULL) /\ Complain
           \/ Len(Frame.items) = 1 /\ Return(Frame.last) /\ Lapse("single arm")
           \/ /\ Len(Frame.items) > 1 /\ Silent
              /\ Return(Tree("MATCH", <<>>, Frame.head \o Frame.items))

EndArm ==
  /\ Running("arm") /\ Silent
  /\ Do(<<[With(Collected, "arms") EXCEPT !.last = value]>>) /\ AdvanceIf(Is("NL"))

-----------------------------------------------------------------------------
(* Functions, prototypes and struct types.                                 *)

Prototype == Go("prototype")

\* A prototype: its result type, then its parameters.
Proto(rtype, items) == Tree("FN_PROTOTYPE", <<>>, <<rtype>> \o items)

EnterPrototype ==
  /\ Running("prototype")
  /\ IF Is("LP") THEN Do(<<[go |-> "parameters", items |-> <<>>]>>) /\ Advance /\ Silent
     ELSE Return(NULL) /\ Stay /\ Complain

NextParameter ==
  /\ Running("parameters") /\ Silent
  /\ \/ Is("RP") /\ Do(<<[Frame EXCEPT !.go = "result_type"]>>) /\ Advance
     \/ Is("TRIPLE_DOT") /\ Do(<<[Frame EXCEPT !.go = "dots"]>>) /\ Advance
     \/ /\ ~Is("RP") /\ ~Is("TRIPLE_DOT")
        /\ Do(<<Go("let"), [Frame EXCEPT !.go = "parameter"]>>) /\ Stay

\* The dots must be last; otherwise the token after them is passed over.
VariableArguments ==
  /\ Running("dots")
  /\ IF Is("RP")
     THEN Give(Tree("VAR_ARG", <<>>, <<>>), [Frame EXCEPT !.go = "parameter"]) /\ Stay /\ Silent
     ELSE Return(NULL) /\ Advance /\ Complain

EndParameter ==
  /\ Running("parameter") /\ Silent
  /\ Do(<<With(Collected, "parameters")>>) /\ AdvanceIf(Is("COMMA"))

ResultType ==
  /\ \/ /\ Running("result_type") /\ Is("AMPERSAND") /\ Stay
        /\ Do(<<Expression, [Frame EXCEPT !.go = "result_is"]>>)
     \/ /\ Running("result_type") /\ ~Is("AMPERSAND") /\ AdvanceIf(Is("IDENTIFIER"))
        /\ Return(Proto(IF Is("IDENTIFIER") THEN Leaf(current) ELSE NULL, Frame.items))
     \/ Running("result_is") /\ Return(Proto(value, Frame.items)) /\ Stay
  /\ Silent

parse_function ==
  \/ Prefix({"fn"}) /\ Do(<<Prototype, Go("function"), Loop>>) /\ Stay /\ Silent
  \/ /\ Running("function")
     /\ \/ value = NULL /\ Return(NULL) /\ Stay /\ Silent
        \/ /\ value # NULL /\ Is("LEFT_BRACE")
           /\ Do(<<Block, [go |-> "function_end", proto |-> value]>>) /\ Advance /\ Silent
        \/ value # NULL /\ ~Is("LEFT_BRACE") /\ Return(NULL) /\ Stay /\ Complain
  \/ /\ Running("function_end") /\ Stay /\ Silent
     /\ Return(Tree("FN_DECLARATION", <<>>, <<Frame.proto, value>>))

\* The function that failed to parse is named all the same.
parse_named_function ==
  /\ Running("named")
  /\ \/ value = NULL /\ Undefined
     \/ value # NULL /\ Return([value EXCEPT !.word = Frame.name]) /\ Stay /\ Silent

\* The token after "extern" is passed over unseen.
parse_extern_function ==
  /\ \/ /\ Running("extern") /\ Advance /\ LapseIf(~Is("fn"), "swallowed")
        /\ Do(<<Prototype, [Frame EXCEPT !.go = "extern_end"]>>)
     \/ /\ Running("extern_end") /\ Stay /\ Silent
        /\ Return(Tree("FN_DECLARATION", Frame.name, <<value>>))

parse_struct ==
  \/ /\ Prefix({"struct"})
     /\ IF Is("LP") THEN Do(<<[go |-> "fields", items |-> <<>>], Loop>>) /\ Advance /\ Silent
        ELSE Give(NULL, Loop) /\ Stay /\ Complain
  \/ /\ phase = "parse" /\ Frame.go \in {"fields", "field"} /\ Silent
     /\ \/ Is("RP") /\ Return(Tree("STRUCT", <<>>, Frame.items)) /\ Advance
        \/ Is("NL") /\ Frame.go = "fields" /\ Do(<<[Frame EXCEPT !.go = "field"]>>) /\ Advance
        \/ /\ ~Is("RP") /\ (Is("NL") => Frame.go = "field")
           /\ Do(<<Go("let"), [Frame EXCEPT !.go = "field_end"]>>) /\ Stay
  \/ /\ Running("field_end") /\ Silent
     /\ Do(<<With(Collected, "fields")>>) /\ AdvanceIf(Is("COMMA"))

-----------------------------------------------------------------------------
(* Statements.                                                             *)

\* parse_statement.  "return" yields nothing and is not passed over, so that whoever
\* asked for a statement meets it again.
Statement ==
  /\ Running("statement") /\ Silent
  /\ \/ Is("NL") /\ Return(NULL) /\ Advance
     \/ Is("return") /\ Return(NULL) /\ Stay
     \/ \E keyword \in {"let", "type", "import"} : Is(keyword) /\ Do(<<Go(keyword)>>) /\ Advance
     \/ /\ current.type \notin {"NL", "return", "let", "type", "import"}
        /\ Do(<<Expression>>) /\ Stay

Or == 2

\* let_statement: of a declaration, an assignment, or a parameter.  What is first may be
\* the type or the name.
let_statement ==
  \/ Running("let") /\ Do(<<Precedence(Or), Go("let_type")>>) /\ Stay /\ Silent
  \/ /\ Running("let_type")
     /\ \/ value = NULL /\ ~Is("IDENTIFIER") /\ Undefined
        \/ /\ value.tag = "IDENTIFIER" /\ Is("ASSIGNMENT") /\ Advance /\ Silent
           /\ Do(<<[go |-> "assignment", name |-> value.word]>>)
        \/ /\ Is("IDENTIFIER") /\ Advance /\ Silent
           /\ Do(<<[go |-> "let_name", name |-> current.word, type |-> value]>>)
        \/ /\ value # NULL /\ ~Is("IDENTIFIER")
           /\ ~(value.tag = "IDENTIFIER" /\ Is("ASSIGNMENT"))
           /\ Return(Tree("SYMBOL_DECLARATION", NameIn(value), <<NULL>>)) /\ Stay
           /\ LapseIf(value.tag # "IDENTIFIER", "target")
  \/ /\ Running("let_name") /\ Silent
     /\ IF Is("ASSIGNMENT") THEN Do(<<Expression, [Frame EXCEPT !.go = "let_value"]>>) /\ Advance
        ELSE Return(Tree("SYMBOL_DECLARATION", Frame.name, <<Frame.type>>)) /\ Stay
  \/ /\ Running("let_value") /\ Silent /\ Stay
     /\ Return(Tree("ASSIGNMENT", Frame.name, <<Frame.type, value>>))

assignment_statement ==
  /\ \/ /\ Running("assignment") /\ Is("extern") /\ Advance
        /\ Do(<<[Frame EXCEPT !.go = "extern"]>>)
     \/ /\ Running("assignment") /\ Is("fn") /\ Advance
        /\ Do(<<Prototype, Go("function"), [Frame EXCEPT !.go = "named"]>>)
     \/ /\ Running("assignment") /\ ~Is("extern") /\ ~Is("fn") /\ Stay
        /\ Do(<<Expression, [Frame EXCEPT !.go = "assigned"]>>)
     \/ /\ Running("assigned") /\ Stay
        /\ Return(Tree("ASSIGNMENT", Frame.name, <<NULL, value>>))
  /\ Silent

type_declaration ==
  \/ /\ Running("type")
     /\ IF Is("IDENTIFIER")
        THEN Do(<<[go |-> "type_name", name |-> current.word]>>) /\ Advance /\ Silent
        ELSE Return(NULL) /\ Stay /\ Complain
  \/ /\ Running("type_name")
     /\ IF Is("ASSIGNMENT") THEN Do(<<[Frame EXCEPT !.go = "type_value"]>>) /\ Advance /\ Silent
        ELSE Return(Tree("TYPE_DECLARATION", Frame.name, <<NULL>>)) /\ Stay /\ Complain
  \/ /\ Running("type_value") /\ Silent /\ AdvanceIf(Is("fn"))
     /\ Do(<<IF Is("fn") THEN Prototype ELSE Expression, [Frame EXCEPT !.go = "type_is"]>>)
  \/ /\ Running("type_is") /\ Stay /\ Silent
     /\ Return(Tree("TYPE_DECLARATION", Frame.name, <<value>>))

has_extension(path, extension) == IsSuffix(extension, path)

\* The token after the path is passed over, whatever it is.
import_module ==
  \/ /\ Running("import")
     /\ IF Is("STRING")
        THEN Do(<<[go |-> "import_end", name |-> current.word]>>) /\ Advance /\ Silent
        ELSE Return(NULL) /\ Stay /\ Complain
  \/ /\ Running("import_end") /\ Advance /\ LapseIf(~Is("NL") /\ ~Is("EOF"), "swallowed")
     /\ Return(Tree(IF has_extension(Frame.name, <<".", "so">>) THEN "IMPORT_LIB" ELSE "IMPORT",
                    Frame.name, <<>>))

-----------------------------------------------------------------------------
(* The input.                                                              *)

\* parse: the first token is scanned.
Init ==
  /\ \E input \in Inputs : text = input.text /\ written = input.written
  /\ \E token \in {scan_token(1)} :
       /\ current = token
       /\ at = token.next
       /\ tokens = <<token>>
       /\ phase = IF token.next = 0 THEN "overrun" ELSE "parse"
  /\ previous = Token("START", 0, 1, <<>>)
  /\ calls = <<Go("main")>>
  /\ value = NULL
  /\ body = <<>>
  /\ complained = FALSE
  /\ lapses = {}

\* rec_parse of the main node.  An empty input has no body at all, and the statement
\* list of another is used as malloc returned it: empty, if the memory was zero.
EnterMain ==
  /\ Running("main")
  /\ \/ ~Is("EOF") /\ Do(<<Go("program")>>) /\ Stay /\ Silent
     \/ /\ phase' = "uninitialised"
        /\ UNCHANGED <<text, written, at, previous, current, calls, value, body, tokens,
                       complained, lapses>>

\* rec_parse of the statement list.
NextStatement ==
  /\ Running("program") /\ Silent
  /\ \/ /\ Is("EOF") /\ phase' = "done"
        /\ UNCHANGED <<text, written, at, previous, current, calls, value, body, tokens>>
     \/ ~Is("EOF") /\ Do(<<Go("statement"), Go("program_push")>>) /\ Stay

\* (Faulty form, for the mutation runs: NULL is pushed too.)
PushAnyStatement ==
  /\ Running("program_push") /\ Silent
  /\ Do(<<Go("program")>>)
  /\ body' = Append(body, value)
  /\ UNCHANGED <<text, written, at, previous, current, phase, tokens>>

\* statements_push
PushStatement ==
  /\ Running("program_push") /\ Silent
  /\ Do(<<Go("program")>>)
  /\ body' = IF value = NULL THEN body ELSE Append(body, value)
  /\ UNCHANGED <<text, written, at, previous, current, phase, tokens>>

ParseExpression ==
  \/ EnterPrecedence \/ NoPrefix \/ Literal \/ parse_unary
  \/ Infix \/ NoInfix \/ EnterBinary \/ Operator \/ Member \/ Assign
  \/ NextMember \/ EndMember \/ AfterMember
  \/ parse_grouping \/ parse_array \/ parse_call \/ parse_index_access
  \/ NextInBlock \/ Push \/ EndBlock \/ parse_scoped_block \/ parse_fn_body
  \/ if_expression \/ parse_ternary \/ EnterMatch \/ NextArm \/ EndArm

ParseStatement ==
  \/ EnterPrototype \/ NextParameter \/ VariableArguments \/ EndParameter \/ ResultType
  \/ parse_function \/ parse_named_function \/ parse_extern_function \/ parse_struct
  \/ Statement \/ let_statement \/ assignment_statement \/ type_declaration \/ import_module
  \/ EnterMain \/ NextStatement \/ PushStatement

Next == ParseExpression \/ ParseStatement

Spec == Init /\ [][Next]_vars /\ WF_vars(Next)

-----------------------------------------------------------------------------
(* Properties.                                                             *)

Phases == {"parse", "done", "undefined", "uninitialised", "overrun"}
Places == {"main", "program", "program_push", "statement", "let", "let_type", "let_name",
  "let_value", "assignment", "assigned", "extern", "extern_end", "named", "type", "type_name",
  "type_value", "type_is", "import", "import_end", "precedence", "skip", "prefix", "infix",
  "infix_rule", "binary", "unary", "members", "member", "after_member", "grouping", "array",
  "call", "index", "block", "push", "block_end", "body", "condition", "otherwise",
  "conditional", "ternary", "candidate", "arms", "arm", "prototype", "parameters", "dots",
  "parameter", "result_type", "result_is", "function", "function_end", "fields", "field",
  "field_end"}

\* The scanner is in the text, at its NUL, or one step past it; statements are trees.
TypeOK ==
  /\ at \in 0 .. End + 1
  /\ phase \in Phases
  /\ \A i \in DOMAIN calls : calls[i].go \in Places
  /\ current = Last(tokens)
  /\ NULL \notin Range(body)
  /\ complained \in BOOLEAN
  /\ lapses \subseteq {"target", "unclosed", "swallowed", "single arm"}

(* The scanner.                                                            *)

SkipTo(i, j) == SubSeq(text, i, j - 1)
IsComment(chars) == chars # <<>> /\ chars[1] = "#" /\ "\n" \notin Range(chars)

\* Between two tokens there are only blanks and, after them, a comment: no character of
\* the text is passed over, and none is in two tokens; every token but the last has one
\* (the steps of scan_token).
TokensTileTheText ==
  Len(tokens) > 1 /\ at # 0 =>
    LET gap == SkipTo(tokens[Len(tokens) - 1].next, current.from)
    IN  /\ tokens[Len(tokens) - 1].next <= current.from
        /\ current.type # "EOF" => current.from < at
        /\ \E k \in 0 .. Len(gap) :
             /\ \A j \in 1 .. k : gap[j] \in Blanks
             /\ k = Len(gap) \/ IsComment(SubSeq(gap, k + 1, Len(gap)))

\* A token is as long as it can be, whatever the order of the matchers: no longer symbol
\* is there, no word or number goes on, and a keyword is a whole word.
TokensAreLongest ==
  at # 0 /\ current.type \notin {"EOF", "ERROR", "STRING"} =>
    LET lexeme == SkipTo(current.from, at)
        GoesOnWith(chars) == at < End /\ text[at] \in chars
    IN  /\ \A k \in DOMAIN Symbols :
             Len(Symbols[k].lexeme) > Len(lexeme) => ~IsAt(Symbols[k].lexeme, current.from)
        /\ current.type \in Keywords \cup {"IDENTIFIER"} => ~GoesOnWith(Letters \cup Digits)
        /\ current.type \in {"INTEGER", "NUMBER"} => ~GoesOnWith(Digits \cup {"."})
        /\ current.type \in Keywords => lexeme = <<current.type>>

\* What a character is part of, given the one before it.
ModeAfter(mode, c) ==
  IF mode = "string" THEN IF c = Quote THEN "code" ELSE "string"
  ELSE IF mode = "comment" THEN IF c = "\n" THEN "code" ELSE "comment"
  ELSE IF c = Quote THEN "string"
  ELSE IF c = "#" THEN "comment"
  ELSE IF c \in Blanks THEN "blank"
  ELSE "code"

\* Where the text ends, read character by character.
ModeAtEnd ==
  LET mode[i \in 0 .. Len(text)] ==
        IF i = 0 THEN "code" ELSE ModeAfter(mode[i - 1], text[i])
  IN  mode[Len(text)]

\* The scanner leaves no text but one that ends in a string, in a comment or in blanks,
\* read character by character from its start (seek_char, and the step over the NUL in
\* scan_token).
OverrunsHaveCause == phase = "overrun" => ModeAtEnd # "code"

(* The parser.                                                             *)

\* What was written from trees, with parentheses only where precedences ask for them, is
\* read as these trees, without a message.
WrittenIsRead ==
  written # <<>> =>
    /\ phase \notin {"undefined", "overrun"}
    /\ ~complained /\ lapses = {}
    /\ phase = "done" => body = written

Type(k) == IF k \in DOMAIN tokens THEN tokens[k].type ELSE "START"
OperandEnds == DOMAIN LiteralTags \cup {"RP", "RIGHT_SQ", "RIGHT_BRACE"}

\* A name right after an operand: it has a precedence, but no infix rule.  A brace and a
\* match pass over the end of the line, so that the name may be on the next one.
NameAfterOperand(k) ==
  /\ Type(k) = "IDENTIFIER"
  /\ \/ Type(k - 1) \in OperandEnds
     \/ Type(k - 2) = "RIGHT_BRACE"
     \/ Type(k - 1) = "NL" /\ \E j \in 1 .. k : Type(j) = "BAR"

\* The parser reads NULL or calls a rule that is not there only after a message or a
\* lapse, when the text ends too early, after a block that is empty, at a name after an
\* operand, or at a member that is no name.
UndefinedHasCause ==
  phase = "undefined" =>
    \/ complained \/ lapses # {} \/ Is("EOF")
    \/ \E k \in DOMAIN tokens :
         \/ NameAfterOperand(k)
         \/ Type(k) = "LEFT_BRACE" /\ Type(k + 1) \in {"NL", "RIGHT_BRACE"}
         \/ Type(k) = "DOT" /\ Type(k + 1) # "IDENTIFIER"

\* The brackets open at the end, read one by one: one that closes another kind is passed over.
Closes == [RP |-> "LP", RIGHT_SQ |-> "LEFT_SQ", RIGHT_BRACE |-> "LEFT_BRACE"]
OpenBrackets ==
  FoldLeft(LAMBDA open, token :
             IF token.type \in {"LP", "LEFT_SQ", "LEFT_BRACE"} THEN <<token.type>> \o open
             ELSE IF token.type \in DOMAIN Closes /\ open # <<>> /\ open[1] = Closes[token.type]
             THEN Tail(open) ELSE open,
           <<>>, tokens)
BracketIsOpen == Range(OpenBrackets) \cap {"LP", "LEFT_SQ"} # {}

\* The parser ends on every text, but for three kinds: one that ends with a bracket open,
\* whose members are asked for for ever; one where it passed over the bracket, with a
\* message or after a brace; and one with "return" where a statement is expected.
Returns ==
  <>(\/ phase # "parse"
     \/ Is("EOF") /\ (BracketIsOpen \/ complained \/ "swallowed" \in lapses)
     \/ Running("statement") /\ Is("return"))

=============================================================================
