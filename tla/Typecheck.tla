----------------------------- MODULE Typecheck -----------------------------
(***************************************************************************)
(* The type checker of one session (typecheck.c).  generate_equations      *)
(* walks the syntax tree of an input and posts type equations, which are   *)
(* unified at once; equations on the members of a type not known yet wait  *)
(* until the walk is over.  The names in scope and the environment of type *)
(* variables survive from one input to the next.                           *)
(*                                                                         *)
(* The cell with the number of a node is the node's type field.  The       *)
(* symbol table is the stack of scopes that GenericSymbolTable implements. *)
(***************************************************************************)
EXTENDS Unify, Syntax

CONSTANTS
  Names,       \* identifiers
  MaxTeqList   \* the size of the list of deferred equations, MAX_TEQ_LIST, at the start

VARIABLES
  input,      \* how many of its inputs have been started
  phase,      \* of typecheck_in_ctx: "idle", "generate" or "solve"
  scopes,     \* ctx->symbol_table: the AST copies the names are bound to
  deferred,   \* ctx->type_equations
  teq_list,   \* the static MAX_TEQ_LIST, and how many equations the list has room for
  failed      \* history: the inputs for which typecheck_in_ctx returned 1

\* A node has the children that the type checker reads (ast.h): no block is empty, an
\* arm of a match is a pair, and a member of a struct has an expression or a type.
NodeHasShape(nodes, n) ==
  LET tag == nodes[n].tag
      parts == nodes[n].kids
  IN  /\ tag = "binop" => Len(parts) = 2 /\ nodes[n].op \in {"arith", "compare", "arm"}
      /\ tag \in {"unop", "match", "list", "index", "member", "method", "fn", "extern"} =>
           parts # <<>>
      /\ tag = "assignment" => Len(parts) \in {1, 2}
      /\ tag = "if" => Len(parts) >= 2
      /\ tag = "match" => \A i \in 2 .. Len(parts) : nodes[parts[i]].tag = "binop"
      /\ tag = "method" => nodes[parts[1]].tag = "member"
      /\ tag = "struct" => \A i \in DOMAIN parts :
           nodes[parts[i]].tag \in {"assignment", "declaration"} /\ nodes[parts[i]].kids # <<>>
      /\ tag \in {"fn", "extern", "declaration", "assignment", "type"} =>
           nodes[n].name \in IF tag = "fn" THEN Names \cup {Anonymous} ELSE Names

HasShape(p) ==
  /\ p \in [nodes : Seq([tag : STRING, op : STRING, name : STRING, kids : Seq(DOMAIN p.nodes)]),
            inputs : Seq(DOMAIN p.nodes)]
  /\ \A n \in DOMAIN p.nodes : NodeHasShape(p.nodes, n)

ASSUME ProgramsHaveShape == \A p \in Programs : HasShape(p)

\* The list has room for an equation.
ASSUME ListAssumption == MaxTeqList \in Nat \ {0}

inputVars == <<program, input, phase, deferred, teq_list, failed>>
vars == <<scopes, inputVars, unifyVars>>

\* What a step of the walk leaves alone.
OnlyWalks == UNCHANGED <<inputVars, env, posted, lapses>>

-----------------------------------------------------------------------------
(* The cells of a program.                                                 *)

\* The parser gives the type of a literal with it, and a type variable of its
\* own to every other node (ast_new).
NewType(nodes, n) == IF nodes[n].tag \in GroundTags THEN Ground(nodes[n].tag) ELSE Var(n)

\* The static Bool of typecheck.c has a cell too.
BoolCell == Len(Nodes) + 1

-----------------------------------------------------------------------------
(* Scopes.                                                                 *)

Symbol(n, t) == [node |-> n, type |-> t]
Symbols ==
  [node : Nat,
   type : [tag : STRING, name : Nat, members : Seq(Nat), fields : Seq(Names)]]

LookupTable == INSTANCE Scopes WITH
                 Keys <- Names,
                 Values <- Symbols,
                 Overwrites <- TRUE

InScope(name) == LookupTable!Visible(name)
Lookup(name) == LookupTable!Resolve(name)

\* What the type of a symbol is a copy of, for the history.
Meant(name) == IF Lookup(name).type = Nameless THEN Nameless ELSE Cell(Lookup(name).node)

\* AST_table_insert: a copy of the node, with its type as it is now.
Insert(name, n) == LookupTable!Bind(name, Symbol(n, types[n]))

-----------------------------------------------------------------------------
(* The walk.  A task of the walk is a node to visit, the rest of the work  *)
(* on a node whose children are visited, or the end of a scope.            *)

Visit(n) == [do |-> "visit", node |-> n]
Finish(n) == [do |-> "finish", node |-> n]
Conclude(n) == [do |-> "conclude", node |-> n]
LeaveScope == [do |-> "leave", node |-> 0]

\* push_type_equation_index: l is the index-th member of the type in cell f.
EquateMember(l, f, index) == [do |-> "member", l |-> l, f |-> f, index |-> index]

At(do, tag) == phase = "generate" /\ ~Idle /\ Task.do = do /\ Nodes[Task.node].tag = tag

\* The equations among the tasks are said, and so are the facts about the cells that
\* are written: what the types in them are, or which cells they are copies of.
Saying(facts, tasks) ==
  /\ agenda' = tasks \o Rest
  /\ given' = given \cup facts \cup {Said(e) : e \in {t \in Range(tasks) : t.do = "unify"}}

Walk(tasks) == Saying({}, tasks)

CopyOf(c, d) == <<Cell(c), Cell(d)>>
Holds(c, t) == <<Cell(c), t>>

VisitLiteral ==
  /\ \E tag \in GroundTags : At("visit", tag)
  /\ Walk(<<>>)
  /\ UNCHANGED <<scopes, types, error_flag>> /\ OnlyWalks

\* Both operands, then the equation between them, then the one on the result.
VisitBinop ==
  /\ At("visit", "binop")
  /\ Walk(<<Visit(kid(Task.node, 1)), Visit(kid(Task.node, 2)), Finish(Task.node)>>)
  /\ UNCHANGED <<scopes, types, error_flag>> /\ OnlyWalks

\* The operands are equated only if one of their types is unknown, so that
\* numbers of different types can be mixed.
EquateOperands ==
  LET n == Task.node
      l == kid(n, 1)
      r == kid(n, 2)
  IN  /\ At("finish", "binop")
      /\ Walk((IF IsVar(types[l]) THEN <<Equate(l, r)>>
               ELSE IF IsVar(types[r]) THEN <<Equate(r, l)>>
               ELSE <<>>) \o <<Conclude(n)>>)
      /\ UNCHANGED <<scopes, types, error_flag>> /\ OnlyWalks

NumericTags == {"int", "num"}

\* (Faulty form, for the mutation runs: the left operand gives the type.)
EquateResultLeft ==
  LET n == Task.node
  IN  /\ At("conclude", "binop")
      /\ Walk(<<Equate(n, IF Nodes[n].op = "compare" THEN BoolCell
                          ELSE IF Nodes[n].op = "arm" THEN kid(n, 2) ELSE kid(n, 1))>>)
      /\ UNCHANGED <<scopes, types, error_flag>> /\ OnlyWalks

\* The result is Bool for a comparison, the right side for an arm of a match;
\* the wider type for two numbers, otherwise the left side.
EquateResult ==
  LET n == Task.node
      l == kid(n, 1)
      r == kid(n, 2)
      result == CASE Nodes[n].op = "compare" -> BoolCell
                  [] Nodes[n].op = "arm" -> r
                  [] Nodes[n].op = "arith" ->
                       IF types[l].tag = "int" /\ types[r].tag = "num" THEN r ELSE l
  IN  /\ At("conclude", "binop")
      /\ Walk(<<Equate(n, result)>>)
      /\ UNCHANGED <<scopes, types, error_flag>> /\ OnlyWalks

\* Only the ! operator posts equations; no operand is walked.
VisitUnop ==
  LET n == Task.node
  IN  /\ At("visit", "unop")
      /\ Walk(IF Nodes[n].op = "!" THEN <<Equate(kid(n, 1), BoolCell), Equate(n, BoolCell)>>
              ELSE <<>>)
      /\ UNCHANGED <<scopes, types, error_flag>> /\ OnlyWalks

\* (Faulty form, for the mutation runs: the equation is on a copy that is gone
\* when it is unified.)
VisitIdentifierOnLostCopy ==
  LET n == Task.node
  IN  /\ At("visit", "identifier")
      /\ Walk(IF InScope(Nodes[n].name) THEN <<Equate(n, Len(types) + 1)>> ELSE <<>>)
      /\ UNCHANGED <<scopes, types, error_flag>> /\ OnlyWalks

\* A copy of the type the name was bound with; nothing when it is not in scope.
VisitIdentifier ==
  LET n == Task.node
      name == Nodes[n].name
  IN  /\ At("visit", "identifier")
      /\ \/ /\ InScope(name)
            /\ types' = Append(types, Lookup(name).type)
            /\ Saying({<<Cell(Len(types) + 1), Meant(name)>>}, <<Equate(n, Len(types) + 1)>>)
         \/ /\ ~InScope(name)
            /\ Walk(<<>>)
            /\ UNCHANGED types
      /\ UNCHANGED <<scopes, error_flag>> /\ OnlyWalks

-----------------------------------------------------------------------------
(* Type expressions.                                                       *)

BuiltIn == [int |-> Ground("int"), double |-> Ground("num"), str |-> Ground("str")]

\* lookup_explicit_type returns nothing in particular for any other name; one in
\* scope need not be that of a type.
Denotes(name) == name \in DOMAIN BuiltIn \/ InScope(name)
Denoted(name) == IF name \in DOMAIN BuiltIn THEN BuiltIn[name] ELSE Lookup(name).type

FieldsOf(n) == [i \in DOMAIN Nodes[n].kids |-> Nodes[kid(n, i)].name]

Computable(e) == \A n \in Below(e) : Nodes[n].tag = "identifier" => Denotes(Nodes[n].name)

\* compute_type_expression: the cells of the nodes of a type expression stand for
\* the memory allocated for the parts of the type.
Computed(expressions) ==
  LET nodes == UNION {Below(e) : e \in expressions}
      value(n) ==
        CASE Nodes[n].tag = "identifier" -> Denoted(Nodes[n].name)
          [] Nodes[n].tag = "tuple" -> Tuple(Nodes[n].kids)
          [] Nodes[n].tag = "struct" ->
               Struct([i \in DOMAIN Nodes[n].kids |-> kid(kid(n, i), 1)], FieldsOf(n))
          [] Nodes[n].tag = "unop" -> Pointer(kid(n, 1))
          [] Nodes[n].tag = "index" -> Array(kid(n, 1))
          [] OTHER -> types[n]
  IN  [c \in DOMAIN types |-> IF c \in nodes THEN value(c) ELSE types[c]]

\* What is said of these cells.
Expressed(expressions) ==
  LET value(n) ==
        IF Nodes[n].tag = "identifier" /\ Nodes[n].name \notin DOMAIN BuiltIn
        THEN Meant(Nodes[n].name) ELSE Computed(expressions)[n]
  IN  {<<Cell(n), value(n)>> : n \in UNION {Below(e) : e \in expressions}}

\* The type of node n is that of expression e.
Annotated(n, e) == LET known == Computed({e}) IN [known EXCEPT ![n] = known[e]]

\* A type is declared once.
DeclareType ==
  LET n == Task.node
      name == Nodes[n].name
  IN  /\ At("visit", "type")
      /\ \/ /\ InScope(name)
            /\ Walk(<<>>)
            /\ UNCHANGED <<types, scopes>>
         \/ /\ ~InScope(name) /\ Nodes[n].kids = <<>>
            /\ LookupTable!Bind(name, Symbol(n, Nameless))
            /\ Walk(<<>>)
            /\ UNCHANGED types
         \/ /\ ~InScope(name) /\ Nodes[n].kids # <<>> /\ Computable(kid(n, 1))
            /\ types' = Annotated(n, kid(n, 1))
            /\ LookupTable!Bind(name, Symbol(n, types'[n]))
            /\ Saying(Expressed({kid(n, 1)}) \cup {CopyOf(n, kid(n, 1))}, <<>>)
      /\ UNCHANGED error_flag /\ OnlyWalks

-----------------------------------------------------------------------------
(* Declarations and assignments.                                           *)

\* A declaration is bound once the equation of its annotation is unified.
VisitDeclaration ==
  LET n == Task.node
  IN  /\ At("visit", "declaration")
      /\ \/ /\ Nodes[n].kids = <<>>
            /\ Walk(<<Finish(n)>>)
            /\ UNCHANGED types
         \/ /\ Nodes[n].kids # <<>> /\ Computable(kid(n, 1))
            /\ types' = Computed({kid(n, 1)})
            /\ Saying(Expressed({kid(n, 1)}), <<Equate(n, kid(n, 1)), Finish(n)>>)
      /\ UNCHANGED <<scopes, error_flag>> /\ OnlyWalks

Declare ==
  LET n == Task.node
  IN  /\ At("finish", "declaration")
      /\ Insert(Nodes[n].name, n)
      /\ Walk(<<>>)
      /\ UNCHANGED <<types, error_flag>> /\ OnlyWalks

VisitAssignment ==
  /\ At("visit", "assignment")
  /\ Walk(<<Visit(kid(Task.node, 1)), Finish(Task.node)>>)
  /\ UNCHANGED <<scopes, types, error_flag>> /\ OnlyWalks

\* A name in any scope is reassigned: the equation is on a copy of its type.
Reassign ==
  LET n == Task.node
      name == Nodes[n].name
  IN  /\ At("finish", "assignment")
      /\ InScope(name)
      /\ types' = Append(types, Lookup(name).type)
      /\ Saying({<<Cell(Len(types) + 1), Meant(name)>>}, <<Equate(Len(types) + 1, kid(n, 1))>>)
      /\ UNCHANGED <<scopes, error_flag>> /\ OnlyWalks

\* A new name is bound to the expression, not to the assignment, whose own type
\* is the annotation if it has one.  An expression that is a tuple where the
\* annotation is a struct becomes the struct, but only after the name is bound.
AssignNew ==
  LET n == Task.node
      e == kid(n, 1)
      annotated == IF Len(Nodes[n].kids) = 1 THEN types
                   ELSE Annotated(n, kid(n, 2))
      said == IF Len(Nodes[n].kids) = 1 THEN {}
              ELSE Expressed({kid(n, 2)}) \cup {CopyOf(n, kid(n, 2))}
  IN  /\ At("finish", "assignment")
      /\ ~InScope(Nodes[n].name)
      /\ Len(Nodes[n].kids) = 2 => Computable(kid(n, 2))
      /\ Insert(Nodes[n].name, e)
      /\ IF annotated[n].tag = "struct" /\ types[e].tag = "tuple"
         THEN /\ types' = [annotated EXCEPT ![e] = annotated[n]]
              /\ Saying(said, <<>>)
         ELSE /\ types' = Append(annotated, types[e])
              /\ Saying(said \cup {CopyOf(Len(types) + 1, e)}, <<Equate(n, Len(types) + 1)>>)
      /\ UNCHANGED error_flag /\ OnlyWalks

-----------------------------------------------------------------------------
(* Control flow and blocks.                                                *)

VisitIf ==
  LET n == Task.node
      branches == IF Len(Nodes[n].kids) = 2 THEN <<>>
                  ELSE <<Visit(kid(n, 3)), Equate(kid(n, 3), kid(n, 2))>>
  IN  /\ At("visit", "if")
      /\ Walk(<<Visit(kid(n, 1)), Equate(kid(n, 1), BoolCell),
                Visit(kid(n, 2)), Equate(n, kid(n, 2))>> \o branches)
      /\ UNCHANGED <<scopes, types, error_flag>> /\ OnlyWalks

\* Every arm is a binop of its pattern and its result.
VisitMatch ==
  LET n == Task.node
      candidate == kid(n, 1)
      arm(i) == kid(n, i + 1)
  IN  /\ At("visit", "match")
      /\ Walk(<<Visit(candidate)>> \o
              FlattenSeq([i \in 1 .. Len(Nodes[n].kids) - 1 |->
                            <<Visit(arm(i)), Equate(n, arm(i)),
                              Equate(candidate, kid(arm(i), 1))>>]))
      /\ UNCHANGED <<scopes, types, error_flag>> /\ OnlyWalks

VisitList ==
  LET n == Task.node
  IN  /\ At("visit", "list")
      /\ Walk([i \in DOMAIN Nodes[n].kids |-> Visit(kid(n, i))] \o <<Finish(n)>>)
      /\ UNCHANGED <<scopes, types, error_flag>> /\ OnlyWalks

\* The type of a block is the type its last statement has by now.
FinishList ==
  LET n == Task.node
  IN  /\ At("finish", "list")
      /\ types' = [types EXCEPT ![n] = types[LastKid(n)]]
      /\ Saying({CopyOf(n, LastKid(n))}, <<>>)
      /\ UNCHANGED <<scopes, error_flag>> /\ OnlyWalks

-----------------------------------------------------------------------------
(* Compound values.                                                        *)

\* The node whose type is that of the i-th member of the tuple or struct n: of a
\* struct only the expressions are walked, not the assignments they are in.
Member(n, i) == IF Nodes[n].tag = "struct" THEN kid(kid(n, i), 1) ELSE kid(n, i)

VisitMembers ==
  LET n == Task.node
  IN  /\ \E tag \in {"tuple", "struct"} : At("visit", tag)
      /\ Walk([i \in DOMAIN Nodes[n].kids |-> Visit(Member(n, i))] \o <<Finish(n)>>)
      /\ UNCHANGED <<scopes, types, error_flag>> /\ OnlyWalks

\* The type is built on copies of the types the members have by now.
FinishMembers ==
  LET n == Task.node
      size == Len(types)
      members == [i \in DOMAIN Nodes[n].kids |-> types[Member(n, i)]]
      cells == [i \in DOMAIN members |-> size + i]
      whole == IF Nodes[n].tag = "tuple" THEN Tuple(cells) ELSE Struct(cells, FieldsOf(n))
  IN  /\ \E tag \in {"tuple", "struct"} : At("finish", tag)
      /\ types' = Append(types \o members, whole)
      /\ Saying({CopyOf(size + i, Member(n, i)) : i \in DOMAIN members}
                \cup {Holds(size + Len(members) + 1, whole)},
                <<Equate(n, size + Len(members) + 1)>>)
      /\ UNCHANGED <<scopes, error_flag>> /\ OnlyWalks

\* Every element is equated with the first, whose own cell the array's type
\* points at.
VisitArray ==
  LET n == Task.node
      elements == Nodes[n].kids
      array == Len(types) + 1
  IN  /\ At("visit", "array")
      /\ \/ /\ elements = <<>>
            /\ Walk(<<>>)
            /\ UNCHANGED types
         \/ /\ elements # <<>>
            /\ types' = Append(types, Array(elements[1]))
            /\ Saying({Holds(array, Array(elements[1]))},
                      FlattenSeq([i \in DOMAIN elements |->
                                    IF i = 1 THEN <<Visit(elements[1])>>
                                    ELSE <<Visit(elements[i]), Equate(elements[i], elements[1])>>])
                      \o <<Equate(n, array)>>)
      /\ UNCHANGED <<scopes, error_flag>> /\ OnlyWalks

VisitIndex ==
  /\ At("visit", "index")
  /\ Walk(<<Visit(kid(Task.node, 1)), Finish(Task.node)>>)
  /\ UNCHANGED <<scopes, types, error_flag>> /\ OnlyWalks

\* The type of an element is assigned, not equated: it is the type the first part
\* of the object's type has by now, whatever the index.
FinishIndex ==
  LET n == Task.node
      object == types[kid(n, 1)]
  IN  /\ At("finish", "index")
      /\ object.tag # "ptr" /\ object.members # <<>>
      /\ types' = [types EXCEPT ![n] = types[Head(object.members)]]
      /\ Saying({CopyOf(n, Head(object.members))}, <<>>)
      /\ UNCHANGED <<scopes, error_flag>> /\ OnlyWalks

\* The object of the member access m is an identifier, and its type is that of the
\* symbol: while that is a variable, the name of the variable is looked up.
ObjectInScope(m) == InScope(Nodes[kid(m, 1)].name)
ObjectType(m) == Lookup(Nodes[kid(m, 1)].name).type

\* The struct an object is or points at, and its first member of the name in m.
StructType(m) ==
  IF ObjectType(m).tag = "ptr" THEN types[ObjectType(m).members[1]] ELSE ObjectType(m)

HasMember(m) == Nodes[m].name \in Range(StructType(m).fields)

\* (Faulty form, for the mutation runs: whatever the name.)
MemberCellFirst(m) == Head(StructType(m).members)

MemberCell(m) ==
  LET fields == StructType(m).fields
      i == CHOOSE i \in DOMAIN fields :
             fields[i] = Nodes[m].name /\ \A j \in 1 .. i - 1 : fields[j] # Nodes[m].name
  IN  StructType(m).members[i]

MemberType(m) == types[MemberCell(m)]

\* Nothing happens when the object is not in scope, has no members or none of this
\* name.  For a pointer to a struct, the members are counted by what is in the place
\* of the length, and the search may be over before it has begun.
VisitMemberAccess ==
  LET n == Task.node
      found == ObjectInScope(n) /\ HasMember(n)
  IN  /\ At("visit", "member")
      /\ ObjectInScope(n) => ~IsVar(ObjectType(n))
      /\ \/ /\ found
            /\ types' = Append(types, MemberType(n))
            /\ Saying({CopyOf(Len(types) + 1, MemberCell(n))}, <<Equate(n, Len(types) + 1)>>)
         \/ /\ found => ObjectType(n).tag = "ptr"
            /\ Walk(<<>>)
            /\ UNCHANGED types
      /\ UNCHANGED <<scopes, error_flag>> /\ OnlyWalks

\* A call of a member: no argument is walked, and nothing happens when the object
\* is not in scope or the type of the member is not a function's.
VisitMethodCall ==
  LET n == Task.node
      m == kid(n, 1)
  IN  /\ At("visit", "method")
      /\ \/ /\ ~ObjectInScope(m)
            /\ Walk(<<>>)
            /\ UNCHANGED types
         \/ /\ ObjectInScope(m) /\ ObjectType(m).tag = "struct" /\ HasMember(m)
            /\ MemberType(m).tag # "fn"
            /\ Walk(<<>>)
            /\ UNCHANGED types
         \/ /\ ObjectInScope(m) /\ ObjectType(m).tag = "struct" /\ HasMember(m)
            /\ MemberType(m).tag = "fn" /\ MemberType(m).members # <<>>
            /\ types' = Append(types, types[Last(MemberType(m).members)])
            /\ Saying({CopyOf(Len(types) + 1, Last(MemberType(m).members))},
                      <<Equate(n, Len(types) + 1)>>)
      /\ UNCHANGED <<scopes, error_flag>> /\ OnlyWalks

-----------------------------------------------------------------------------
(* Functions.                                                              *)

\* A named function is bound outside, before its type is known, and its
\* parameters and body are walked in a scope of their own.
EnterFunction ==
  LET n == Task.node
      symbol == Symbol(n, types[n])
      top == Len(scopes)
  IN  /\ At("visit", "fn")
      /\ scopes' = Append(IF Nodes[n].name = Anonymous THEN scopes
                          ELSE [scopes EXCEPT ![top] =
                                  LookupTable!Bound(@, Nodes[n].name, symbol)],
                          LookupTable!Empty)
      /\ Walk([i \in DOMAIN Nodes[n].kids |-> Visit(kid(n, i))]
              \o <<LeaveScope, Finish(n)>>)
      /\ UNCHANGED <<types, error_flag>> /\ OnlyWalks

ExitScope ==
  /\ phase = "generate" /\ ~Idle /\ Task.do = "leave"
  /\ LookupTable!Exit
  /\ Walk(<<>>)
  /\ UNCHANGED <<types, error_flag>> /\ OnlyWalks

\* (Faulty form, for the mutation runs: the length is that of the parameters.)
FinishFunctionWithoutResult ==
  LET n == Task.node
      size == Len(types)
      members == [i \in 1 .. Parameters(n) |-> types[kid(n, i)]]
  IN  /\ At("finish", "fn")
      /\ types' = Append(types \o members, Fn([i \in DOMAIN members |-> size + i]))
      /\ Saying({CopyOf(size + i, kid(n, i)) : i \in DOMAIN members}
                \cup {Holds(size + Len(members) + 1, Fn([i \in DOMAIN members |-> size + i]))},
                <<Equate(n, size + Len(members) + 1)>>)
      /\ UNCHANGED <<scopes, error_flag>> /\ OnlyWalks

\* The function type is built on copies of the types of the parameters and of
\* the body.
FinishFunction ==
  LET n == Task.node
      size == Len(types)
      members == [i \in DOMAIN Nodes[n].kids |-> types[kid(n, i)]]
  IN  /\ At("finish", "fn")
      /\ types' = Append(types \o members, Fn([i \in DOMAIN members |-> size + i]))
      /\ Saying({CopyOf(size + i, kid(n, i)) : i \in DOMAIN members}
                \cup {Holds(size + Len(members) + 1, Fn([i \in DOMAIN members |-> size + i]))},
                <<Equate(n, size + Len(members) + 1)>>)
      /\ UNCHANGED <<scopes, error_flag>> /\ OnlyWalks

\* An external function is bound in the same way; its last child is the type of its
\* result.
EnterExtern ==
  LET n == Task.node
      top == Len(scopes)
  IN  /\ At("visit", "extern")
      /\ scopes' = Append([scopes EXCEPT ![top] =
                             LookupTable!Bound(@, Nodes[n].name, Symbol(n, types[n]))],
                          LookupTable!Empty)
      /\ Walk([i \in 1 .. Parameters(n) |-> Visit(kid(n, i))] \o <<LeaveScope, Finish(n)>>)
      /\ UNCHANGED <<types, error_flag>> /\ OnlyWalks

PartAnnotation(n, i) == IF i > Parameters(n) THEN kid(n, i) ELSE kid(kid(n, i), 1)

PartsComputable(n) ==
  /\ \A i \in 1 .. Parameters(n) : Nodes[kid(n, i)].kids # <<>>
  /\ \A i \in DOMAIN Nodes[n].kids : Computable(PartAnnotation(n, i))

\* Its type is computed from the annotations alone, outside of its scope.
FinishExtern ==
  LET n == Task.node
      parts == DOMAIN Nodes[n].kids
      known == Computed({PartAnnotation(n, i) : i \in parts})
      members == [i \in parts |-> known[PartAnnotation(n, i)]]
      type == Fn([i \in DOMAIN members |-> Len(types) + i])
  IN  /\ At("finish", "extern")
      /\ PartsComputable(n)
      /\ types' = Append(known \o members, type)
      /\ Saying(Expressed({PartAnnotation(n, i) : i \in parts})
                \cup {CopyOf(Len(types) + i, PartAnnotation(n, i)) : i \in parts}
                \cup {Holds(Len(types) + Len(members) + 1, type)},
                <<Equate(n, Len(types) + Len(members) + 1)>>)
      /\ UNCHANGED <<scopes, error_flag>> /\ OnlyWalks

-----------------------------------------------------------------------------
(* Calls.                                                                  *)

Callee(n) == Lookup(Nodes[n].name).node
IsFunction(f) == Nodes[f].tag \in {"fn", "extern"}

\* A name in no scope is the one thing the walk itself reports.
CallUnknown ==
  /\ At("visit", "call")
  /\ ~InScope(Nodes[Task.node].name)
  /\ error_flag' = TRUE
  /\ Walk(<<>>)
  /\ UNCHANGED <<scopes, types>> /\ OnlyWalks

\* (Faulty form, for the mutation runs: the parameters are taken from the end.)
ArgumentsReversed(n, f) ==
  FlattenSeq([i \in DOMAIN Nodes[n].kids |->
                <<Visit(kid(n, i)), EquateMember(kid(n, i), f, Parameters(Callee(n)) + 1 - i)>>])

\* Every argument is walked and equated with its parameter, the call with the
\* result.  All these equations are on one copy of the function's type, in f.
Arguments(n, f) ==
  FlattenSeq([i \in DOMAIN Nodes[n].kids |->
                <<Visit(kid(n, i)), EquateMember(kid(n, i), f, i)>>])

\* With more arguments than parameters the call is not equated with anything.
VisitCall ==
  LET n == Task.node
      f == Len(types) + 1
      arity == Parameters(Callee(n))
  IN  /\ At("visit", "call")
      /\ InScope(Nodes[n].name) /\ IsFunction(Callee(n))
      /\ Len(Nodes[n].kids) >= arity
      /\ types' = Append(types, Lookup(Nodes[n].name).type)
      /\ Saying({<<Cell(f), Meant(Nodes[n].name)>>},
                Arguments(n, f) \o IF Len(Nodes[n].kids) > arity THEN <<>>
                                   ELSE <<EquateMember(n, f, arity + 1)>>)
      /\ UNCHANGED <<scopes, error_flag>> /\ OnlyWalks

\* With fewer, its type is a function of new variables, as many as there are
\* arguments, the first of which is the result, the second the last parameter ...
CallPartly ==
  LET n == Task.node
      f == Len(types) + 1
      arity == Parameters(Callee(n))
      args == DOMAIN Nodes[n].kids
  IN  /\ At("visit", "call")
      /\ InScope(Nodes[n].name) /\ IsFunction(Callee(n))
      /\ Len(Nodes[n].kids) < arity
      /\ types' = Append([types EXCEPT ![n] = Fn([i \in args |-> f + i])],
                         Lookup(Nodes[n].name).type)
                  \o [i \in args |-> Var(f + i)]
      /\ Saying({<<Cell(f), Meant(Nodes[n].name)>>, Holds(n, Fn([i \in args |-> f + i]))}
                \cup {Holds(f + i, Var(f + i)) : i \in args},
                [i \in args |-> EquateMember(f + i, f, arity + 2 - i)] \o Arguments(n, f))
      /\ UNCHANGED <<scopes, error_flag>> /\ OnlyWalks

\* A call of a name bound to such a call c becomes, in the tree, a call of c's
\* function with the arguments of both, which is walked in its place: the
\* arguments of c are walked again.
CallCurried ==
  LET n == Task.node
      c == Callee(n)
      args == Nodes[c].kids \o Nodes[n].kids
  IN  /\ At("visit", "call")
      /\ InScope(Nodes[n].name) /\ Nodes[c].tag = "call"
      /\ \/ /\ ~InScope(Nodes[c].name)
            /\ Walk(<<>>)
            /\ UNCHANGED program
         \/ /\ InScope(Nodes[c].name) /\ IsFunction(Callee(c))
            /\ Len(args) <= Parameters(Callee(c))
            /\ program' = [program EXCEPT !.nodes[n].name = Nodes[c].name,
                                          !.nodes[n].kids = args]
            /\ Walk(<<Visit(n)>>)
      /\ UNCHANGED <<scopes, types, error_flag, input, phase, deferred, teq_list, failed, env,
                     posted, lapses>>

EquationSize == 24   \* sizeof(TypeEquation)

\* push_to_list: the list is made larger when its length reaches the limit, by bytes
\* that are counted as equations.
Grown ==
  LET length == Len(deferred) + 1
  IN  IF length < teq_list.limit THEN teq_list
      ELSE [limit |-> teq_list.limit + 8,
            room |-> (EquationSize * length + teq_list.limit) \div EquationSize]

\* The equation keeps a copy of the function's type, which is then followed in
\* place: unify follows the copy again, unless the type is unknown so far, when
\* the equation is deferred.
PushIndexed ==
  LET f == Task.f
      w == Follow(types[f])
      copy == Len(types) + 1
      equation == Equation(Task.l, copy, Task.index, TRUE)
  IN  /\ phase = "generate" /\ ~Idle /\ Task.do = "member"
      /\ Ends(types[f])
      /\ \/ /\ IsVar(w)
            /\ types' = Append([types EXCEPT ![f] = w], w)
            /\ deferred' = Append(deferred, equation)
            /\ teq_list' = Grown
            /\ agenda' = IF Len(deferred') <= teq_list'.room THEN Rest ELSE <<Undefined>>
         \/ /\ ~IsVar(w)
            /\ types' = Append([types EXCEPT ![f] = w], types[f])
            /\ agenda' = <<equation>> \o Rest
            /\ UNCHANGED <<deferred, teq_list>>
      /\ given' = given \cup {CopyOf(copy, f), Said(equation)}
      /\ UNCHANGED <<program, input, phase, failed, scopes, env, error_flag, posted, lapses>>

-----------------------------------------------------------------------------
(* Where C says nothing about what happens: an annotation that names no type, a *)
(* part of a type that has none, a call of something that is no function.   *)

NoSuchType ==
  LET n == Task.node
  IN  \/ At("visit", "type") /\ ~InScope(Nodes[n].name) /\ Nodes[n].kids # <<>>
         /\ ~Computable(kid(n, 1))
      \/ At("visit", "declaration") /\ Nodes[n].kids # <<>> /\ ~Computable(kid(n, 1))
      \/ At("finish", "assignment") /\ ~InScope(Nodes[n].name) /\ Len(Nodes[n].kids) = 2
         /\ ~Computable(kid(n, 2))
      \/ At("finish", "extern") /\ ~PartsComputable(n)

NoSuchMember ==
  LET n == Task.node
      m == kid(n, 1)
  IN  \/ At("finish", "index") /\ (types[m].tag = "ptr" \/ types[m].members = <<>>)
      \/ At("visit", "member") /\ ObjectInScope(n) /\ ObjectType(n).tag = "ptr"
         /\ StructType(n).tag = "struct" /\ ~HasMember(n)
      \/ At("visit", "method") /\ ObjectInScope(m) /\ ~IsVar(ObjectType(m))
         /\ (ObjectType(m).tag = "struct" /\ HasMember(m) =>
              MemberType(m).tag = "fn" /\ MemberType(m).members = <<>>)

NoSuchFunction ==
  LET n == Task.node
      c == Callee(n)
  IN  /\ At("visit", "call")
      /\ InScope(Nodes[n].name) /\ ~IsFunction(c)
      /\ \/ Nodes[c].tag # "call"
         \/ /\ InScope(Nodes[c].name)
            /\ \/ ~IsFunction(Callee(c))
               \/ Len(Nodes[c].kids) + Len(Nodes[n].kids) > Parameters(Callee(c))

LeaveC ==
  /\ NoSuchType \/ NoSuchMember \/ NoSuchFunction
  /\ agenda' = <<Undefined>>
  /\ UNCHANGED <<scopes, types, error_flag, given>> /\ OnlyWalks

-----------------------------------------------------------------------------
(* typecheck_in_ctx, once for every input.                                 *)

\* (Faulty form, for the mutation runs: the errors of earlier inputs are kept.)
StartInputWithErrors ==
  /\ phase = "idle" /\ input < Len(program.inputs)
  /\ input' = input + 1
  /\ phase' = "generate"
  /\ deferred' = <<>>
  /\ teq_list' = [teq_list EXCEPT !.room = teq_list.limit]
  /\ agenda' = <<Visit(program.inputs[input'])>>
  /\ UNCHANGED <<program, failed, scopes, types, env, error_flag, given, posted, lapses>>

StartInput ==
  /\ phase = "idle" /\ input < Len(program.inputs)
  /\ input' = input + 1
  /\ phase' = "generate"
  /\ error_flag' = FALSE
  /\ deferred' = <<>>
  /\ teq_list' = [teq_list EXCEPT !.room = teq_list.limit]
  /\ agenda' = <<Visit(program.inputs[input'])>>
  /\ UNCHANGED <<program, failed, scopes, types, env, given, posted, lapses>>

\* (Faulty form, for the mutation runs: the errors of the walk are forgotten.)
SolveDeferredAfresh ==
  /\ phase = "generate" /\ Idle
  /\ phase' = "solve"
  /\ agenda' = deferred
  /\ error_flag' = FALSE
  /\ UNCHANGED <<program, input, deferred, teq_list, failed, scopes, types, env, given, posted, lapses>>

\* The walk is over: the deferred equations are unified in order.
SolveDeferred ==
  /\ phase = "generate" /\ Idle
  /\ phase' = "solve"
  /\ agenda' = deferred
  /\ UNCHANGED <<program, input, deferred, teq_list, failed, scopes, types, env, error_flag,
                 given, posted, lapses>>

ReportErrors ==
  /\ phase = "solve" /\ Idle /\ error_flag
  /\ phase' = "idle"
  /\ failed' = failed \cup {input}
  /\ UNCHANGED <<program, input, deferred, teq_list, scopes, unifyVars>>

\* update_expression_types visits these cells: what it reaches of the tree of the
\* input, and the members of the types of its functions.
UpdatesBelow ==
  [n \in AllNodes |->
     CASE Nodes[n].tag \in {"array", "struct", "index", "type", "declaration"} -> {}
       [] Nodes[n].tag = "assignment" -> {kid(n, 1)}
       [] Nodes[n].tag = "extern" -> Range(Front(Nodes[n].kids))
       [] OTHER -> Range(Nodes[n].kids)]

Updated ==
  LET nodes == Spanned(program.inputs[input], UpdatesBelow)
  IN  nodes \cup UNION {Range(types[n].members) : n \in {m \in nodes : IsFunction(m)}}

UpdateTypes ==
  LET cells == Updated
  IN  /\ phase = "solve" /\ Idle /\ ~error_flag
      /\ \A c \in cells : Ends(types[c])
      /\ types' = [c \in DOMAIN types |-> IF c \in cells THEN Follow(types[c]) ELSE types[c]]
      /\ phase' = "idle"
      /\ UNCHANGED <<program, input, deferred, teq_list, failed, scopes, env, agenda, error_flag,
                     given, posted, lapses>>

\* The member access being visited, on its own or in a call.
AskedFor ==
  (IF At("visit", "member") THEN {Task.node} ELSE {})
  \cup (IF At("visit", "method") THEN {kid(Task.node, 1)} ELSE {})

\* follow_links on a cycle, outside unify, and the search for the type of an object
\* by the name of a variable, which no scope has.
SpinOutside ==
  /\ \/ phase = "generate" /\ ~Idle /\ Task.do = "member" /\ ~Ends(types[Task.f])
     \/ \E m \in AskedFor : ObjectInScope(m) /\ IsVar(ObjectType(m))
     \/ phase = "solve" /\ Idle /\ ~error_flag /\ \E c \in Updated : ~Ends(types[c])
  /\ UNCHANGED vars

\* A step of unify, in either phase.
UnifyTypes == UnifyStep /\ UNCHANGED <<inputVars, scopes>>

Hang == Spin /\ UNCHANGED <<inputVars, scopes>>

-----------------------------------------------------------------------------

Init ==
  /\ program \in Programs
  /\ input = 0
  /\ phase = "idle"
  /\ scopes = <<LookupTable!Empty>>
  /\ deferred = <<>>
  /\ teq_list = [limit |-> MaxTeqList, room |-> MaxTeqList]
  /\ failed = {}
  /\ types = [n \in AllNodes |-> NewType(Nodes, n)] \o <<Ground("bool")>>
  /\ agenda = <<>>
  /\ given = {Holds(c, types[c]) : c \in DOMAIN types}
  /\ NothingUnified

GenerateEquations ==
  \/ VisitLiteral
  \/ VisitBinop
  \/ EquateOperands
  \/ EquateResult
  \/ VisitUnop
  \/ VisitIdentifier
  \/ VisitDeclaration
  \/ Declare
  \/ VisitAssignment
  \/ Reassign
  \/ AssignNew
  \/ VisitIf
  \/ VisitMatch
  \/ VisitList
  \/ FinishList
  \/ EnterFunction
  \/ ExitScope
  \/ FinishFunction
  \/ EnterExtern
  \/ FinishExtern
  \/ DeclareType
  \/ VisitMembers
  \/ FinishMembers
  \/ VisitArray
  \/ VisitIndex
  \/ FinishIndex
  \/ VisitMemberAccess
  \/ VisitMethodCall
  \/ CallUnknown
  \/ VisitCall
  \/ CallPartly
  \/ CallCurried
  \/ PushIndexed
  \/ LeaveC

Next ==
  \/ StartInput
  \/ GenerateEquations
  \/ SolveDeferred
  \/ ReportErrors
  \/ UpdateTypes
  \/ UnifyTypes
  \/ Hang
  \/ SpinOutside

\* The code is sequential: it runs as long as it has a step to take.
Spec == Init /\ [][Next]_vars /\ WF_vars(Next)

-----------------------------------------------------------------------------
(* What the type checker promises.                                         *)

\* Type invariant: the names in scope are bound to nodes of the program and to
\* types whose members are cells, and the deferred equations are about members
\* of cells that exist.
TypeOK ==
  /\ UnifyTypeOK
  /\ phase \in {"idle", "generate", "solve"}
  /\ input \in 0 .. Len(program.inputs) /\ failed \subseteq 1 .. input
  /\ \A i \in DOMAIN scopes : \A name \in DOMAIN scopes[i] :
       /\ name \in Names
       /\ scopes[i][name].node \in AllNodes /\ IsType(scopes[i][name].type)
  /\ \A i \in DOMAIN deferred :
       /\ {deferred[i].l, deferred[i].r} \subseteq DOMAIN types
       /\ deferred[i].index \in Ids
  /\ teq_list.limit >= MaxTeqList /\ teq_list.room > 0

Finished == phase = "idle" /\ input = Len(program.inputs)

\* The nodes that bind a name.
Binders(name) ==
  {b \in AllNodes : /\ Nodes[b].name = name
                    /\ Nodes[b].tag \in {"fn", "extern", "declaration", "assignment", "type"}}

\* What the type checker was doing when it met undefined behaviour, or went on for
\* ever, in the words of the program: a name where a type is expected that no type
\* has; a part of a type asked for that it lacks, or of a type not known; a call of
\* something that is no function of the program, or with two arguments too many (one
\* if the function is applied in parts).
Annotations(n) ==
  CASE Nodes[n].tag \in {"declaration", "type"} -> Range(Nodes[n].kids)
    [] Nodes[n].tag = "assignment" -> Range(Tail(Nodes[n].kids))
    [] Nodes[n].tag = "extern" -> {LastKid(n)}
    [] OTHER -> {}

MisnamesType(n) ==
  \/ \E e \in Annotations(n) : \E m \in Below(e) :
       /\ Nodes[m].tag = "identifier" /\ Nodes[m].name \notin DOMAIN BuiltIn
       /\ \A b \in Binders(Nodes[m].name) : Nodes[b].tag = "type" => b >= n
  \/ /\ Nodes[n].tag = "extern"
     /\ \E i \in 1 .. Parameters(n) : Nodes[kid(n, i)].kids = <<>>

HasExpression(type) ==
  \E t \in Binders(type) : Nodes[t].tag = "type" /\ Nodes[t].kids # <<>>

HasStruct(name) ==
  \E b \in Binders(name) : Nodes[b].kids # <<>> /\
    \/ Nodes[b].tag = "assignment" /\ Nodes[kid(b, 1)].tag = "struct"
    \/ Nodes[b].tag = "declaration" /\ HasExpression(Nodes[kid(b, 1)].name)

MisusesType(n) ==
  \/ Nodes[n].tag = "index" /\ Nodes[kid(n, 1)].tag \notin {"array", "tuple", "struct"}
  \/ Nodes[n].tag = "member" /\ ~HasStruct(Nodes[kid(n, 1)].name)
  \/ Nodes[n].tag = "method"

MisusesFunction(n) ==
  /\ Nodes[n].tag = "call"
  /\ \E b \in Binders(Nodes[n].name) :
       IF IsFunction(b) THEN Len(Nodes[n].kids) > Parameters(b) + 1
       ELSE ~ \E f \in AllNodes :
                /\ IsFunction(f) /\ Nodes[b].tag = "assignment"
                /\ Nodes[kid(b, 1)].tag = "call" /\ Nodes[kid(b, 1)].name = Nodes[f].name
                /\ Len(Nodes[kid(b, 1)].kids) + Len(Nodes[n].kids) <= Parameters(f)

\* Undefined behaviour has a cause the program shows: two tuples or structs of one
\* length are equated (unify_compound_types), the list of deferred equations is at
\* its limit (push_to_list), or the program says something that has no meaning.
UndefinedHasCause ==
  Stopped =>
    \/ \E e \in posted : e[1] = e[2] /\ e[1].tag \in {"tuple", "struct"}
    \/ Len(deferred) > MaxTeqList
    \/ \E n \in AllNodes : MisnamesType(n) \/ MisusesType(n) \/ MisusesFunction(n)

\* Every input of the session gets an answer: the walk, the unifications it
\* starts and the final update of the types come to an end, unless behaviour is
\* undefined, a member is asked of something whose type need not be known, or unify
\* related a variable to itself or to a type made of it (typecheck_in_ctx).
Returns ==
  <>(\/ Finished
     \/ Stopped
     \/ \E m \in AskedFor : ~HasStruct(Nodes[kid(m, 1)].name)
     \/ lapses \cap {"entangled", "occurs"} # {})

\* What was said about the i-th input: the facts that mention its nodes, or what other
\* such facts mention.  Constants are mentioned by unrelated inputs.
SaidOf(i) ==
  LET mentions(t) == IF t.tag \in GroundTags \/ t = Cell(BoolCell) THEN {}
                     ELSE {t} \cup {Cell(c) : c \in Range(t.members)}
      terms(e) == mentions(e[1]) \cup mentions(e[2])
      reach[facts \in SUBSET given] ==
        LET known == UNION {terms(e) : e \in facts}
            more == {e \in given : terms(e) \cap known # {}}
        IN  IF more = facts THEN facts ELSE reach[more]
      nodes == {Cell(n) : n \in NodesOf(i)}
  IN  reach[{e \in given : terms(e) \cap nodes # {}}] \cup {Holds(BoolCell, Ground("bool"))}

UnknownCall(i) == \E n \in NodesOf(i) : Nodes[n].tag = "call" /\ Binders(Nodes[n].name) = {}

\* An input is rejected only if what was said about it has no solution, or it calls a
\* name that nothing binds: no error is left from an input before it, raised by the
\* order of the walk, or found in what unify made of copies, parts and bindings.
RejectedIsIllTyped ==
  phase = "idle" /\ Idle /\ error_flag =>
    IF input = 0 THEN ~Solvable(given) ELSE UnknownCall(input) \/ ~Solvable(SaidOf(input))

\* Every input so far was accepted, and unify had nothing to answer for.
Settled == phase = "idle" /\ Idle /\ ~error_flag /\ failed = {} /\ lapses = {}

\* If every input is accepted, the environment solves every equation unified,
\* those of earlier inputs and the deferred ones included, unless unify lapsed.
AcceptedIsSolved == Settled => \A e \in posted : Solution(e[1]) = Solution(e[2])

\* If every input is accepted, the types of the session can be reconciled.
AcceptedIsWellTyped == Finished /\ failed = {} => Solvable(given)

\* The nodes of the inputs so far that the walk visits.
Walked ==
  LET into == [n \in AllNodes |->
                 CASE Nodes[n].tag \in {"unop", "type", "declaration", "member", "method"} -> {}
                   [] Nodes[n].tag \in {"assignment", "index"} -> {kid(n, 1)}
                   [] Nodes[n].tag = "struct" -> {Member(n, i) : i \in DOMAIN Nodes[n].kids}
                   [] Nodes[n].tag = "extern" -> Range(Front(Nodes[n].kids))
                   [] OTHER -> Range(Nodes[n].kids)]
  IN  UNION {Spanned(program.inputs[i], into) : i \in 1 .. input}

\* Arithmetic on numbers gives the wider of their types, also when one of them was
\* unknown when the equation on the result was made, at the end of an accepted
\* session (_max_type and the binop case of generate_equations).
ArithmeticWidens ==
  Settled =>
    \A n \in Walked :
      LET operands == {types[kid(n, 1)].tag, types[kid(n, 2)].tag}
      IN  Nodes[n].tag = "binop" /\ Nodes[n].op = "arith" /\ operands \subseteq NumericTags
          => types[n].tag = IF "num" \in operands THEN "num" ELSE "int"

SameType(c, d) == Term(Follow(types[c])) = Term(Follow(types[d]))

\* In an accepted session a call fits its function: the arguments have the types of
\* the parameters and the call that of the result, through the variables, deferred
\* equations and functions applied in parts that led there (typecheck_ast_call).
CallsFit ==
  Settled =>
    \A n \in Walked, f \in AllNodes :
      Nodes[n].tag = "call" /\ Binders(Nodes[n].name) = {f} /\ IsFunction(f) =>
        /\ \A i \in DOMAIN Nodes[n].kids \cap 1 .. Parameters(f) :
             SameType(kid(n, i), kid(f, i))
        /\ Len(Nodes[n].kids) = Parameters(f) => SameType(n, LastKid(f))

\* In an accepted session the parts of compound values have their types: a member
\* that of the field of its name in the one struct the object is, the elements of an
\* array all the same one, also when it became known later.
StructOf(b) ==
  IF Nodes[b].tag = "assignment" THEN {kid(b, 1)}
  ELSE {kid(t, 1) : t \in {t \in Binders(Nodes[kid(b, 1)].name) :
                             Nodes[t].tag = "type" /\ Nodes[t].kids # <<>>}}

\* Node n comes after what binder b binds, in the functions b is in.
SeesBinder(n, b) ==
  /\ n > b /\ n \notin Below(b)
  /\ \A f \in AllNodes : IsFunction(f) /\ b \in Below(f) => n \in Below(f)

PartsHaveTheirTypes ==
  Settled =>
    \A n \in Walked :
      /\ Nodes[n].tag = "array" => \A e \in Range(Nodes[n].kids) : SameType(e, kid(n, 1))
      /\ Nodes[n].tag = "member" =>
           \A b \in Binders(Nodes[kid(n, 1)].name) :
             /\ Binders(Nodes[kid(n, 1)].name) = {b} /\ Nodes[b].kids # <<>>
             /\ SeesBinder(n, b)
             => \A s \in StructOf(b) : Nodes[s].tag = "struct" =>
                  \A i \in DOMAIN Nodes[s].kids :
                    /\ FieldsOf(s)[i] = Nodes[n].name
                    /\ \A j \in 1 .. i - 1 : FieldsOf(s)[j] # Nodes[n].name
                    => SameType(n, kid(kid(s, i), 1))

=============================================================================
