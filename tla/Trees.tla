------------------------------- MODULE Trees -------------------------------
(***************************************************************************)
(* Small programs written as trees, and their numbering in preorder.       *)
(***************************************************************************)
EXTENDS Syntax

Tree(tag, op, name, kids) == [tag |-> tag, op |-> op, name |-> name, kids |-> kids]

RECURSIVE Size(_)
Size(t) ==
  LET upto[i \in 0 .. Len(t.kids)] == IF i = 0 THEN 1 ELSE upto[i - 1] + Size(t.kids[i])
  IN  upto[Len(t.kids)]

RECURSIVE Numbered(_, _)
Numbered(t, n) ==
  LET first[i \in 1 .. Len(t.kids) + 1] ==
        IF i = 1 THEN n + 1 ELSE first[i - 1] + Size(t.kids[i - 1])
      below[i \in 0 .. Len(t.kids)] ==
        IF i = 0 THEN <<>> ELSE below[i - 1] \o Numbered(t.kids[i], first[i])
  IN  <<Node(t.tag, t.op, t.name, [i \in DOMAIN t.kids |-> first[i]])>> \o below[Len(t.kids)]

Literal(tag) == Tree(tag, "", "", <<>>)
Id(name) == Tree("identifier", "", name, <<>>)
Binop(op, l, r) == Tree("binop", op, "", <<l, r>>)
Bang(e) == Tree("unop", "!", "", <<e>>)
Let(name, e) == Tree("assignment", "", name, <<e>>)
Param(name) == Tree("declaration", "", name, <<>>)
If(c, t, e) == Tree("if", "", "", <<c, t, e>>)
When(c, t) == Tree("if", "", "", <<c, t>>)
Match(e, arms) == Tree("match", "", "", <<e>> \o arms)
Arm(pattern, e) == Binop("arm", pattern, e)
Block(statements) == Tree("list", "", "", statements)
Lambda(name, params, body) == Tree("fn", "", name, params \o <<body>>)
Call(name, args) == Tree("call", "", name, args)

\* Types and their values.
Typed(type, name) == Tree("declaration", "", name, <<type>>)
LetTyped(type, name, e) == Tree("assignment", "", name, <<e, type>>)
TypeTree(name, expressions) == Tree("type", "", name, expressions)
TupleTree(members) == Tree("tuple", "", "", members)
StructTree(members) == Tree("struct", "", "", members)
ArrayTree(elements) == Tree("array", "", "", elements)
PointerTree(e) == Tree("unop", "&", "", <<e>>)
IndexTree(e) == Tree("index", "", "", <<e, Literal("int")>>)
MemberTree(object, name) == Tree("member", "", name, <<Id(object)>>)
MethodTree(object, name, args) == Tree("method", "", "", <<MemberTree(object, name)>> \o args)
Extern(name, params, result) == Tree("extern", "", name, params \o <<result>>)

One == Literal("int")
Text == Literal("str")
Half == Literal("num")

\* The inputs of a session, each a list of statements (parse.c).
Program(inputs) ==
  LET trees == [i \in DOMAIN inputs |->
                  IF inputs[i].tag = "list" THEN inputs[i] ELSE Block(<<inputs[i]>>)]
      root[i \in 1 .. Len(trees) + 1] ==
        IF i = 1 THEN 1 ELSE root[i - 1] + Size(trees[i - 1])
  IN  [nodes |-> FlattenSeq([i \in DOMAIN trees |-> Numbered(trees[i], root[i])]),
       inputs |-> [i \in DOMAIN trees |-> root[i]]]

=============================================================================
