----------------------------- MODULE ParseTrees -----------------------------
(***************************************************************************)
(* What the parser builds (ast.h): records of a tag, a word (a name, a     *)
(* literal or an operator) and children.  NULL is a tree of its own.       *)
(***************************************************************************)
EXTENDS Integers, SequencesExt

Tree(tag, word, kids) == [tag |-> tag, word |-> word, kids |-> kids]
NULL == Tree("NULL", <<>>, <<>>)

\* The literals, and the tags of their trees.
LiteralTags == [INTEGER |-> "INTEGER", NUMBER |-> "NUMBER", STRING |-> "STRING",
                true |-> "BOOL", false |-> "BOOL", IDENTIFIER |-> "IDENTIFIER"]

IsPipe(t) == t.tag = "BINOP" /\ t.word = <<"PIPE">>

=============================================================================
