------------------------------ MODULE Session ------------------------------
(***************************************************************************)
(* A session of the compiler, as names see it (runner.c).  Every input is  *)
(* walked by two passes, each with a symbol table of its own that survives *)
(* from input to input: the type checker binds a name to a node of the     *)
(* syntax tree, code generation binds it to a variable, a parameter or a   *)
(* function of the LLVM module.  The passes open scopes at different       *)
(* places, bind names at different moments and treat a second binding of a *)
(* name differently; the module says what each use of a name is taken for  *)
(* by either of them.                                                      *)
(*                                                                         *)
(* Types are left out (module Typecheck has them): an input may be         *)
(* rejected, and a function found invalid by LLVM, for reasons that are    *)
(* not names.  Every variable, parameter and result is an integer, and     *)
(* every call has as many arguments as the function called has parameters. *)
(* A NULL that codegen hands to LLVM as an operand is undefined behaviour, *)
(* where the model stops.                                                  *)
(***************************************************************************)
EXTENDS Syntax

VARIABLES
  input,       \* how many inputs have been read
  mode,        \* "lines", "file" or "compile": see Modes
  phase,       \* "idle", "check", "generate", "exited" or "undefined"
  agenda,      \* the rest of the work of the pass, next task first
  checked,     \* tcheck_symbol_table: scopes of names bound to nodes
  table,       \* symbol_table: scopes of names bound to symbols
  holders,     \* the LLVM module: the function or global that has each name
  building,    \* the functions code is being generated for, innermost first
  invalid,     \* functions that LLVMVerifyFunction will refuse
  values,      \* results of codegen not used yet, the last first; TRUE: not NULL
  unknown,     \* _typecheck_error_flag, as far as names set it
  rejected,    \* history: the inputs the type checker rejected
  meant,       \* history: what a use was bound to when it was type-checked
  read         \* history: what the code generated for a use reads or calls

tables == <<checked, table, holders>>
work == <<building, invalid, values>>
history == <<rejected, meant, read>>
session == <<program, input, mode>>
vars == <<session, phase, agenda, tables, work, unknown, history>>

\* Every node has the children its tag asks for (ast.h), and an input is a list.
HasParts(p) ==
  /\ \A n \in DOMAIN p.nodes :
       LET parts == p.nodes[n].kids
           tag == p.nodes[n].tag
       IN  /\ tag \in {"plus", "assignment", "match", "fn", "extern"} => Len(parts) >= 1
           /\ tag = "if" => Len(parts) >= 2
           /\ tag = "match" => \A i \in 2 .. Len(parts) : Len(p.nodes[parts[i]].kids) = 2
  /\ \A i \in DOMAIN p.inputs : p.nodes[p.inputs[i]].tag = "list"

\* Programs are what the parser makes of the inputs.
ASSUME ProgramsAreTrees == \A p \in Programs : InPreorder(p) /\ HasParts(p)

-----------------------------------------------------------------------------
(* The two tables.                                                         *)

\* What code generation binds a name to.  node declares it, index is the place
\* of a parameter and owner the function whose code allocates a local.
Symbol(kind, node, index, owner) ==
  [kind |-> kind, node |-> node, index |-> index, owner |-> owner]

Kinds == {"global", "local", "param", "self", "function"}
Symbols == [kind : Kinds, node : Nat, index : Nat, owner : Nat]

Checked == INSTANCE Scopes WITH
             scopes <- checked, Keys <- STRING, Values <- Nat, Overwrites <- TRUE

Table == INSTANCE Scopes WITH
           scopes <- table, Keys <- STRING, Values <- Symbols, Overwrites <- FALSE

\* (Faulty form, for the mutation runs: frame 0 is left too.)
ExitAnyScope(scopes) == Front(scopes)

\* The frame index is -1 before the first input is generated, and exit_scope
\* never leaves frame 0.
EnterScope(scopes) == Append(scopes, Table!Empty)
ExitScope(scopes) == IF Len(scopes) > 1 THEN Front(scopes) ELSE scopes

InsertInto(scopes, name, symbol) ==
  [scopes EXCEPT ![Len(scopes)] = Table!Bound(@, name, symbol)]

-----------------------------------------------------------------------------
(* Tasks of the passes.                                                    *)

DoTask(do, n) == [do |-> do, node |-> n]
Check(n) == DoTask("check", n)
Gen(n) == DoTask("gen", n)

Task == Head(agenda)
This == Task.node
This_name == Nodes[This].name
Then(tasks) == agenda' = tasks \o Tail(agenda)
OnKids(do, n) == [i \in DOMAIN Nodes[n].kids |-> DoTask(do, kid(n, i))]

Doing(in, do) == phase = in /\ agenda # <<>> /\ Task.do = do
At(in, do, tag) == Doing(in, do) /\ Nodes[This].tag = tag

Extended(f, x, y) == [z \in DOMAIN f \cup {x} |-> IF z = x THEN y ELSE f[z]]

-----------------------------------------------------------------------------
(* Type checking (generate_equations), as far as names are concerned.      *)

OnlyChecks == UNCHANGED <<session, phase, table, holders, work, rejected, read>>

\* Nodes that mention no name of their own: their children, in order.
CheckInner ==
  /\ Doing("check", "check")
  /\ Nodes[This].tag \in {"int", "plus", "if", "match", "binop", "list"}
  /\ Then(OnKids("check", This))
  /\ UNCHANGED <<checked, unknown, meant>> /\ OnlyChecks

\* A name that is not in scope is not an error.
CheckIdentifier ==
  /\ At("check", "check", "identifier")
  /\ meant' = IF Checked!Visible(This_name)
              THEN Extended(meant, This, Checked!Resolve(This_name)) ELSE meant
  /\ Then(<<>>)
  /\ UNCHANGED <<checked, unknown>> /\ OnlyChecks

\* A function that is not in scope is one, and the arguments are not walked.
CheckCall ==
  /\ At("check", "check", "call")
  /\ \/ /\ Checked!Visible(This_name)
        /\ meant' = Extended(meant, This, Checked!Resolve(This_name))
        /\ Then(OnKids("check", This))
        /\ UNCHANGED unknown
     \/ /\ ~Checked!Visible(This_name)
        /\ unknown' = TRUE
        /\ Then(<<>>)
        /\ UNCHANGED meant
  /\ UNCHANGED checked /\ OnlyChecks

\* let x: bound anew in the scope it stands in.
CheckDeclaration ==
  /\ At("check", "check", "declaration")
  /\ Checked!Bind(This_name, This)
  /\ Then(<<>>)
  /\ UNCHANGED <<unknown, meant>> /\ OnlyChecks

\* let x = e: the expression first; a name of any scope is reassigned.
CheckAssignment ==
  /\ At("check", "check", "assignment")
  /\ Then(<<Check(kid(This, 1)), DoTask("bind", This)>>)
  /\ UNCHANGED <<checked, unknown, meant>> /\ OnlyChecks

BindAssigned ==
  /\ Doing("check", "bind")
  /\ IF Checked!Visible(This_name) THEN UNCHANGED checked ELSE Checked!Bind(This_name, This)
  /\ Then(<<>>)
  /\ UNCHANGED <<unknown, meant>> /\ OnlyChecks

\* A function is bound before its body is walked, in a scope of its own.
CheckFunction ==
  /\ At("check", "check", "fn")
  /\ checked' = EnterScope(IF This_name = Anonymous THEN checked
                           ELSE [checked EXCEPT ![Len(checked)] =
                                   Checked!Bound(@, This_name, This)])
  /\ Then(OnKids("check", This) \o <<DoTask("leave", This)>>)
  /\ UNCHANGED <<unknown, meant>> /\ OnlyChecks

\* So is an external one, which has no body.
CheckExtern ==
  /\ At("check", "check", "extern")
  /\ checked' = EnterScope([checked EXCEPT ![Len(checked)] =
                               Checked!Bound(@, This_name, This)])
  /\ Then(Front(OnKids("check", This)) \o <<DoTask("leave", This)>>)
  /\ UNCHANGED <<unknown, meant>> /\ OnlyChecks

LeaveFunction ==
  /\ Doing("check", "leave")
  /\ checked' = ExitScope(checked)
  /\ Then(<<>>)
  /\ UNCHANGED <<unknown, meant>> /\ OnlyChecks

TypeCheck ==
  \/ CheckInner
  \/ CheckIdentifier
  \/ CheckCall
  \/ CheckDeclaration
  \/ CheckAssignment
  \/ BindAssigned
  \/ CheckFunction
  \/ CheckExtern
  \/ LeaveFunction

-----------------------------------------------------------------------------
(* Code generation (codegen).  Every call of codegen leaves one result in  *)
(* values.                                                                 *)

OnlyGenerates == UNCHANGED <<session, phase, checked, unknown, rejected, meant>>

Function == Head(building)          \* whose code is being generated
Result == Head(values)
Return(value) == values' = <<value>> \o values
Replace(n, value) == values' = <<value>> \o SubSeq(values, n + 1, Len(values))
Visible == Table!Visible(This_name)
Sym == Table!Resolve(This_name)

\* LLVM gives a new function or global its name unless the module has one of
\* that name.
AddToModule(name, n) ==
  IF name = Anonymous \/ name \in DOMAIN holders THEN holders ELSE Extended(holders, name, n)

\* LLVMGetNamedFunction, with the symbol to fall back on.
FunctionNamed(name) ==
  IF name \in DOMAIN holders /\ Nodes[holders[name]].tag \in {"fn", "extern", "list"}
  THEN holders[name] ELSE Sym.node

\* The node a use of the name reads.  A parameter is an index into those of the
\* function being built, and a function under construction the one being built;
\* functions and globals are looked up in the module by their names.
Reads ==
  CASE Sym.kind = "param" -> kid(Function, Sym.index)
    [] Sym.kind = "self" -> Function
    [] Sym.kind = "function" -> FunctionNamed(This_name)
    [] OTHER -> Sym.node

\* LLVMGetNamedGlobal finds nothing: a function has the name.
NoSuchGlobal == Sym.kind = "global" /\ holders[This_name] # Sym.node

\* The program is given up to undefined behaviour.
Undefined ==
  /\ phase' = "undefined"
  /\ UNCHANGED <<session, agenda, tables, work, unknown, history>>

GenLiteral ==
  /\ At("generate", "gen", "int")
  /\ Return(TRUE)
  /\ Then(<<>>)
  /\ UNCHANGED <<table, holders, building, invalid, read>> /\ OnlyGenerates

\* codegen_identifier.  A local of another function makes this one invalid.
GenIdentifier ==
  /\ At("generate", "gen", "identifier")
  /\ \/ /\ Visible /\ ~NoSuchGlobal
        /\ Sym.kind = "param" => Sym.index <= Parameters(Function)
        /\ read' = Extended(read, This, Reads)
        /\ invalid' = IF Sym.kind = "local" /\ Sym.owner # Function
                      THEN invalid \cup {Function} ELSE invalid
        /\ Return(TRUE)
     \/ /\ Visible => NoSuchGlobal
        /\ Return(FALSE)
        /\ UNCHANGED <<read, invalid>>
  /\ Then(<<>>)
  /\ UNCHANGED <<table, holders, building>> /\ OnlyGenerates

\* LLVMGetParam past the parameters of the function.
GenMissingParam ==
  /\ At("generate", "gen", "identifier")
  /\ Visible /\ Sym.kind = "param" /\ Sym.index > Parameters(Function)
  /\ Undefined

\* e + 1: codegen_binop on integers.
GenOperand ==
  /\ At("generate", "gen", "plus")
  /\ Then(<<Gen(kid(This, 1)), DoTask("add", This)>>)
  /\ UNCHANGED <<table, holders, work, read>> /\ OnlyGenerates

\* An operand, the expression of an assignment: used without a NULL check.
GenUse ==
  /\ Doing("generate", "add") \/ Doing("generate", "store")
  /\ \/ /\ Result
        /\ Then(<<>>)
        /\ UNCHANGED <<table, holders, work, read>> /\ OnlyGenerates
     \/ ~Result /\ Undefined

\* A list gives the last result that is not NULL.
GenList ==
  /\ At("generate", "gen", "list")
  /\ Then(OnKids("gen", This) \o <<DoTask("list", This)>>)
  /\ UNCHANGED <<table, holders, work, read>> /\ OnlyGenerates

EndList ==
  LET n == Len(Nodes[This].kids)
  IN  /\ Doing("generate", "list")
      /\ Replace(n, \E i \in 1 .. n : values[i])
      /\ Then(<<>>)
      /\ UNCHANGED <<table, holders, building, invalid, read>> /\ OnlyGenerates

-----------------------------------------------------------------------------
(* Variables (codegen_symbol).                                             *)

\* A name of any scope is stored to.  The store makes a function invalid that
\* does not own the variable; a parameter is not a variable, and its new value
\* is not even generated.
Reassign ==
  /\ At("generate", "gen", "assignment")
  /\ Visible
  /\ \/ /\ Sym.kind \in {"global", "local"}
        /\ invalid' = IF Sym.kind = "local" /\ Sym.owner # Function
                      THEN invalid \cup {Function} ELSE invalid
        /\ Then(<<Gen(kid(This, 1)), DoTask("store", This)>>)
        /\ UNCHANGED values
     \/ /\ Sym.kind \in {"param", "self", "function"}
        /\ Return(FALSE)
        /\ Then(<<>>)
        /\ UNCHANGED invalid
  /\ UNCHANGED <<table, holders, building, read>> /\ OnlyGenerates

\* A new variable, global in frame 0.
IsGlobal == Len(table) = 1
Variable == Symbol(IF IsGlobal THEN "global" ELSE "local", This, 0, Function)
NewVariable ==
  /\ table' = InsertInto(table, This_name, Variable)
  /\ holders' = IF IsGlobal THEN AddToModule(This_name, This) ELSE holders

\* The name is bound before its expression is generated.
AssignNew ==
  /\ At("generate", "gen", "assignment")
  /\ ~Visible
  /\ NewVariable
  /\ Then(<<Gen(kid(This, 1)), DoTask("store", This)>>)
  /\ UNCHANGED <<work, read>> /\ OnlyGenerates

\* let x: a name of any scope is reassigned here too, and there is no expression
\* to generate.
GenDeclaration ==
  /\ At("generate", "gen", "declaration")
  /\ \/ /\ ~Visible
        /\ NewVariable
        /\ Return(TRUE)
        /\ Then(<<>>)
        /\ UNCHANGED <<building, invalid, read>> /\ OnlyGenerates
     \/ /\ Visible /\ Sym.kind \in {"param", "self", "function"}
        /\ Return(FALSE)
        /\ Then(<<>>)
        /\ UNCHANGED <<table, holders, building, invalid, read>> /\ OnlyGenerates
     \/ Visible /\ Sym.kind \in {"global", "local"} /\ Undefined

-----------------------------------------------------------------------------
(* Conditionals (codegen_if_else): a scope for each branch, which the type *)
(* checker does not open.                                                  *)

GenIf ==
  /\ At("generate", "gen", "if")
  /\ Then(<<Gen(kid(This, 1)), DoTask("branch", This)>>)
  /\ UNCHANGED <<table, holders, work, read>> /\ OnlyGenerates

GenThen ==
  /\ Doing("generate", "branch")
  /\ \/ /\ Result
        /\ values' = Tail(values)
        /\ table' = EnterScope(table)
        /\ Then(<<Gen(kid(This, 2)), DoTask("else", This)>>)
     \/ /\ ~Result
        /\ Then(<<>>)
        /\ UNCHANGED <<table, values>>
  /\ UNCHANGED <<holders, building, invalid, read>> /\ OnlyGenerates

\* (Faulty form, for the mutation runs: the scope of the first branch is not left.)
GenElseInside ==
  /\ Doing("generate", "else")
  /\ Result /\ Len(Nodes[This].kids) = 3
  /\ table' = EnterScope(table)
  /\ values' = Tail(values)
  /\ Then(<<Gen(kid(This, 3)), DoTask("join", This)>>)
  /\ UNCHANGED <<holders, building, invalid, read>> /\ OnlyGenerates

\* A branch without a value leaves the blocks of the function unfinished; the
\* value of an else branch that is missing is not initialised.
GenElse ==
  /\ Doing("generate", "else")
  /\ \/ /\ ~Result
        /\ table' = ExitScope(table)
        /\ invalid' = invalid \cup {Function}
        /\ Then(<<>>)
        /\ UNCHANGED <<holders, building, values, read>> /\ OnlyGenerates
     \/ /\ Result /\ Len(Nodes[This].kids) = 3
        /\ table' = EnterScope(ExitScope(table))
        /\ values' = Tail(values)
        /\ Then(<<Gen(kid(This, 3)), DoTask("join", This)>>)
        /\ UNCHANGED <<holders, building, invalid, read>> /\ OnlyGenerates
     \/ Result /\ Len(Nodes[This].kids) = 2 /\ Undefined

JoinBranches ==
  /\ Doing("generate", "join")
  /\ \/ /\ Result
        /\ table' = ExitScope(table)
        /\ Then(<<>>)
        /\ UNCHANGED <<holders, work, read>> /\ OnlyGenerates
     \/ ~Result /\ Undefined

-----------------------------------------------------------------------------
(* Matches (codegen_match): a scope for the result of each arm.  The last  *)
(* arm is taken whatever its pattern is, which is not generated.           *)

GenMatch ==
  LET arms == Tail(Nodes[This].kids)
  IN  /\ At("generate", "gen", "match")
      /\ Then(<<Gen(kid(This, 1))>>
              \o [i \in DOMAIN arms |-> DoTask(IF i < Len(arms) THEN "arm" ELSE "enter", arms[i])]
              \o <<DoTask("matched", This)>>)
      /\ UNCHANGED <<table, holders, work, read>> /\ OnlyGenerates

GenPattern ==
  /\ Doing("generate", "arm")
  /\ Then(<<Gen(kid(This, 1)), DoTask("test", This), DoTask("enter", This)>>)
  /\ UNCHANGED <<table, holders, work, read>> /\ OnlyGenerates

\* match_predicate, of the candidate and the pattern.
TestArm ==
  /\ Doing("generate", "test")
  /\ \/ /\ values[1] /\ values[2]
        /\ values' = Tail(values)
        /\ Then(<<>>)
        /\ UNCHANGED <<table, holders, building, invalid, read>> /\ OnlyGenerates
     \/ ~(values[1] /\ values[2]) /\ Undefined

EnterArm ==
  /\ Doing("generate", "enter")
  /\ table' = EnterScope(table)
  /\ Then(<<Gen(kid(This, 2)), DoTask("result", This)>>)
  /\ UNCHANGED <<holders, work, read>> /\ OnlyGenerates

\* The result is stored without a NULL check.
LeaveArm ==
  /\ Doing("generate", "result")
  /\ \/ /\ Result
        /\ table' = ExitScope(table)
        /\ values' = Tail(values)
        /\ Then(<<>>)
        /\ UNCHANGED <<holders, building, invalid, read>> /\ OnlyGenerates
     \/ ~Result /\ Undefined

EndMatch ==
  /\ Doing("generate", "matched")
  /\ Replace(1, TRUE)
  /\ Then(<<>>)
  /\ UNCHANGED <<table, holders, building, invalid, read>> /\ OnlyGenerates

-----------------------------------------------------------------------------
(* Functions (codegen_function, codegen_call).                             *)

DeleteFunction(f) == Restrict(holders, {name \in DOMAIN holders : holders[name] # f})

\* The parameter of function f that has a name: of two, the first.
ParameterNamed(f, name) ==
  CHOOSE i \in 1 .. Parameters(f) :
    /\ Nodes[kid(f, i)].name = name
    /\ \A j \in 1 .. i - 1 : Nodes[kid(f, j)].name # name

ParameterNames(f) == {Nodes[kid(f, i)].name : i \in 1 .. Parameters(f)}

ParameterScope(f) ==
  [name \in ParameterNames(f) |->
    LET i == ParameterNamed(f, name) IN Symbol("param", kid(f, i), i, f)]

Self(f) == Symbol("self", f, 0, f)

\* (Faulty form, for the mutation runs: the function is counted as a parameter.)
WithParametersShifted(scopes, f) ==
  LET shifted == [name \in ParameterNames(f) |->
                   [ParameterScope(f)[name] EXCEPT !.index = @ + 1]]
  IN  Append(scopes, Table!Bound(shifted, Nodes[f].name, Self(f)))

\* (Faulty form, for the mutation runs: the parameters are bound in the scope
\* around the function.)
WithParametersOutside(scopes, f) ==
  LET around == ParameterScope(f) @@ Last(scopes)
  IN  Append(Front(scopes) \o <<around>>, Table!Bound(Table!Empty, Nodes[f].name, Self(f)))

\* A scope with the parameters in order, then the function itself.
WithParameters(scopes, f) ==
  Append(scopes, Table!Bound(ParameterScope(f), Nodes[f].name, Self(f)))

GenFunction ==
  /\ At("generate", "gen", "fn")
  /\ holders' = AddToModule(This_name, This)
  /\ table' = WithParameters(table, This)
  /\ building' = <<This>> \o building
  /\ Then(<<Gen(LastKid(This)), DoTask("end", This)>>)
  /\ UNCHANGED <<invalid, values, read>> /\ OnlyGenerates

\* (Faulty form, for the mutation runs: the function is bound in its own scope.)
EndFunctionInside ==
  /\ Doing("generate", "end")
  /\ \E valid \in {FALSE, Result /\ This \notin invalid} :
      /\ table' = ExitScope(InsertInto(table, This_name, Symbol("function", This, 0, This)))
      /\ holders' = IF valid THEN holders ELSE DeleteFunction(This)
      /\ invalid' = IF valid THEN invalid ELSE invalid \cup {This}
      /\ building' = Tail(building)
      /\ Replace(1, valid)
      /\ Then(<<>>)
      /\ UNCHANGED read /\ OnlyGenerates

\* (Faulty form, for the mutation runs: the function is bound whatever LLVM finds.)
EndFunctionUnverified ==
  /\ Doing("generate", "end")
  /\ \E valid \in {FALSE, Result /\ This \notin invalid} :
      /\ table' = InsertInto(ExitScope(table), This_name, Symbol("function", This, 0, This))
      /\ holders' = IF valid THEN holders ELSE DeleteFunction(This)
      /\ invalid' = IF valid THEN invalid ELSE invalid \cup {This}
      /\ building' = Tail(building)
      /\ Replace(1, valid)
      /\ Then(<<>>)
      /\ UNCHANGED read /\ OnlyGenerates

\* A function is bound, in the scope around it, once its body is generated and
\* found valid; it is deleted otherwise.  LLVM may find it invalid for the types
\* of its values too.
EndFunction ==
  /\ Doing("generate", "end")
  /\ \E valid \in {FALSE, Result /\ This \notin invalid} :
      /\ table' = IF valid /\ This_name # Anonymous
                  THEN InsertInto(ExitScope(table), This_name, Symbol("function", This, 0, This))
                  ELSE ExitScope(table)
      /\ holders' = IF valid THEN holders ELSE DeleteFunction(This)
      /\ invalid' = IF valid THEN invalid ELSE invalid \cup {This}
      /\ building' = Tail(building)
      /\ Replace(1, valid)
      /\ Then(<<>>)
      /\ UNCHANGED read /\ OnlyGenerates

\* codegen_extern_function: bound at once, in the scope it stands in.
GenExtern ==
  /\ At("generate", "gen", "extern")
  /\ holders' = AddToModule(This_name, This)
  /\ table' = InsertInto(table, This_name, Symbol("function", This, 0, This))
  /\ Return(TRUE)
  /\ Then(<<>>)
  /\ UNCHANGED <<building, invalid, read>> /\ OnlyGenerates

\* Only functions that are complete can be called, and the module is asked for
\* the function by its name first.
GenCall ==
  /\ At("generate", "gen", "call")
  /\ \/ /\ Visible /\ Sym.kind = "function"
        /\ read' = Extended(read, This, FunctionNamed(This_name))
        /\ Then(OnKids("gen", This) \o <<DoTask("call", This)>>)
        /\ UNCHANGED values
     \/ /\ Visible => Sym.kind # "function"
        /\ Return(FALSE)
        /\ Then(<<>>)
        /\ UNCHANGED read
  /\ UNCHANGED <<table, holders, building, invalid>> /\ OnlyGenerates

EndCall ==
  LET n == Len(Nodes[This].kids)
  IN  /\ Doing("generate", "call")
      /\ \/ /\ \A i \in 1 .. n : values[i]
            /\ Replace(n, TRUE)
            /\ Then(<<>>)
            /\ UNCHANGED <<table, holders, building, invalid, read>> /\ OnlyGenerates
         \/ (\E i \in 1 .. n : ~values[i]) /\ Undefined

Generate ==
  \/ GenLiteral
  \/ GenIdentifier
  \/ GenMissingParam
  \/ GenOperand
  \/ GenUse
  \/ GenList
  \/ EndList
  \/ Reassign
  \/ AssignNew
  \/ GenDeclaration
  \/ GenIf
  \/ GenThen
  \/ GenElse
  \/ JoinBranches
  \/ GenMatch
  \/ GenPattern
  \/ TestArm
  \/ EnterArm
  \/ LeaveArm
  \/ EndMatch
  \/ GenFunction
  \/ EndFunction
  \/ GenExtern
  \/ GenCall
  \/ EndCall

-----------------------------------------------------------------------------
(* The session (LLVMRuntime).                                              *)

\* The first input is a line typed in, the file on the command line, or a file
\* that is only compiled (main.c, -e), the one input of its session.
Modes == {"lines", "file", "compile"}

Root == program.inputs[input]

\* init_symbol_table: code generation has no frame yet, the type checker has one.
Init ==
  /\ program \in Programs
  /\ input = 0
  /\ mode \in Modes
  /\ phase = "idle"
  /\ agenda = <<>>
  /\ checked = <<Checked!Empty>>
  /\ table = <<>>
  /\ holders = [name \in {} |-> 0]
  /\ building = <<>>
  /\ invalid = {}
  /\ values = <<>>
  /\ unknown = FALSE
  /\ rejected = {}
  /\ meant = [n \in {} |-> 0]
  /\ read = [n \in {} |-> 0]

ReadInput ==
  /\ phase = "idle" /\ input < Len(program.inputs)
  /\ input' = input + 1
  /\ phase' = "check"
  /\ agenda' = <<Check(program.inputs[input'])>>
  /\ unknown' = FALSE
  /\ UNCHANGED <<program, mode, tables, work, history>>

\* An input with a type error is not generated; the session is over if it was
\* the file.
Reject ==
  /\ phase = "check" /\ agenda = <<>> /\ mode # "compile"
  /\ rejected' = rejected \cup {input}
  /\ phase' = IF mode = "file" /\ input = 1 THEN "exited" ELSE "idle"
  /\ UNCHANGED <<session, agenda, tables, work, unknown, meant, read>>

\* codegen_main: a function named main, in a scope of its own.  A file that is
\* only compiled is generated whatever the type checker found.
Accept ==
  /\ phase = "check" /\ agenda = <<>> /\ (unknown => mode = "compile")
  /\ phase' = "generate"
  /\ holders' = AddToModule("main", Root)
  /\ table' = EnterScope(table)
  /\ building' = <<Root>>
  /\ agenda' = <<Gen(Root)>>
  /\ UNCHANGED <<session, checked, invalid, values, unknown, history>>

\* main is deleted if it has no value or is not valid.
EndInput ==
  /\ phase = "generate" /\ agenda = <<>>
  /\ phase' = IF mode = "compile" THEN "exited" ELSE "idle"
  /\ table' = ExitScope(table)
  /\ \/ Result /\ Root \notin invalid /\ UNCHANGED <<holders, invalid>>
     \/ holders' = DeleteFunction(Root) /\ invalid' = invalid \cup {Root}
  /\ building' = <<>>
  /\ values' = Tail(values)
  /\ UNCHANGED <<session, agenda, checked, unknown, history>>

Next ==
  \/ ReadInput
  \/ TypeCheck
  \/ Reject
  \/ Accept
  \/ Generate
  \/ EndInput

Spec == Init /\ [][Next]_vars /\ WF_vars(Next)

-----------------------------------------------------------------------------
(* What the two passes promise each other.                                 *)

\* Type invariant: both tables bind names to nodes of the program; parameters
\* have the index of their node.
TypeOK ==
  /\ phase \in {"idle", "check", "generate", "exited", "undefined"}
  /\ \A i \in DOMAIN checked : \A name \in DOMAIN checked[i] :
       Nodes[checked[i][name]].name = name
  /\ \A i \in DOMAIN table : \A name \in DOMAIN table[i] :
       LET s == table[i][name]
       IN  /\ s \in [kind : Kinds, node : AllNodes, index : Nat, owner : AllNodes]
           /\ Nodes[s.node].name = name
           /\ s.kind = "param" => kid(s.owner, s.index) = s.node
  /\ \A name \in DOMAIN holders : holders[name] \in AllNodes
  /\ building # <<>> => phase \in {"generate", "undefined"}

\* Between inputs both tables are back in their outermost frame, also after an
\* input that was rejected or a function that was deleted, and no code is being
\* generated for any function.
ScopesAreLeft ==
  phase \in {"idle", "exited"} =>
    Len(checked) = 1 /\ Len(table) <= 1 /\ building = <<>> /\ values = <<>>

\* The innermost function node u is part of; 0 outside all functions.
FunctionOf(u) ==
  LET around == {f \in AllNodes : Nodes[f].tag = "fn" /\ u \in Below(f) \ {f}}
  IN  IF around = {} THEN 0 ELSE CHOOSE f \in around : \A g \in around : g <= f

InputOf(n) == CHOOSE i \in DOMAIN program.inputs : n \in NodesOf(i)

Functions == {n \in AllNodes : Nodes[n].tag \in {"fn", "extern"}}
Binding == Functions \cup {n \in AllNodes : Nodes[n].tag \in {"declaration", "assignment"}}
Uses == {n \in AllNodes : Nodes[n].tag \in {"identifier", "call"}}

\* The first input that code is generated for has the global frame.
IsFirst(i) == i \notin rejected /\ \A j \in 1 .. i - 1 : j \in rejected

\* What is generated in a scope of its own: branches and the results of arms.
Scoped ==
  (UNION {Range(Tail(Nodes[n].kids)) : n \in {n \in AllNodes : Nodes[n].tag = "if"}})
  \cup {kid(n, 2) : n \in {n \in AllNodes : Nodes[n].op = "arm"}}

\* A name that node d binds is lost to code generation at the end of the branch
\* or of the input d stands in, and is never known to it if the input is rejected.
Fleeting(d) ==
  \/ FunctionOf(d) = 0 /\ ~IsFirst(InputOf(d))
  \/ \E b \in Scoped : d \in Below(b)

\* A variable used in its own initialiser is bound already when code is generated.
InOwnInitialiser(u) ==
  \E n \in Binding : Nodes[n].tag = "assignment" /\ Nodes[n].name = Nodes[u].name /\ u \in Below(n)

\* The module has one function or global of a name, whatever scopes they are in.
NamesTwo(name) ==
  \/ name = "main"
  \/ \E f \in Functions, n \in Binding :
       f # n /\ {Nodes[f].name, Nodes[n].name} = {name}

\* A variable of a function around the one that uses it, or that function itself.
Captured(u) ==
  \/ FunctionOf(meant[u]) \notin {0, FunctionOf(u)}
  \/ u \in Below(meant[u]) /\ meant[u] # FunctionOf(u)

\* Where the passes part.
Diverges(u) ==
  \/ InOwnInitialiser(u)
  \/ NamesTwo(Nodes[u].name)
  \/ u \in DOMAIN meant /\ (Captured(u) \/ Fleeting(meant[u]))

\* The code generated for a use of a name reads the variable or the parameter, or
\* calls the function, that the type checker took the name for: the passes differ
\* in when they bind names and in how often, and agree all the same, except where
\* Diverges says.
ReadsWhatWasMeant ==
  \A u \in DOMAIN read : (u \in DOMAIN meant /\ read[u] = meant[u]) \/ Diverges(u)

\* A call in the body of the function called.
Recursive(u) == Nodes[u].tag = "call" /\ u \in Below(meant[u])

Params == UNION {Range(Front(Nodes[f].kids)) : f \in Functions}

\* let x, on a name that is bound elsewhere too.
Redeclares(d) ==
  /\ Nodes[d].tag = "declaration" /\ d \notin Params
  /\ \E n \in Binding : n # d /\ Nodes[n].name = Nodes[d].name

\* x = e, where x is a function, or a parameter of a function around.
AssignsFixed(d) ==
  /\ Nodes[d].tag = "assignment"
  /\ \E f \in Functions :
       \/ Nodes[f].name = Nodes[d].name
       \/ d \in Below(f) /\ Nodes[d].name \in {Nodes[p].name : p \in Range(Front(Nodes[f].kids))}

\* Code generation hands no NULL to LLVM and reads no parameter that does not exist,
\* unless one of these is in the program: a name that is not in scope, a use on which
\* the passes part, a recursive call, a use of a function found invalid, a variable
\* declared again, a parameter or a function assigned to, a conditional without an
\* else.
UndefinedHasCause ==
  phase = "undefined" =>
    \/ \E u \in Uses : \/ u \notin DOMAIN meant
                       \/ Diverges(u) \/ Recursive(u) \/ meant[u] \in invalid
    \/ \E d \in Binding : Redeclares(d) \/ AssignsFixed(d)
    \/ \E n \in AllNodes : Nodes[n].tag = "if" /\ Len(Nodes[n].kids) = 2

\* A function that LLVM found invalid is deleted, and with it every way to name it:
\* no scope and no name of the module is left that leads to it.
NoDanglingFunctions ==
  /\ \A i \in DOMAIN table : \A name \in DOMAIN table[i] :
       table[i][name].kind = "function" => table[i][name].node \notin invalid
  /\ \A name \in DOMAIN holders : holders[name] \in invalid => holders[name] \in Range(building)

\* What the file or the first line binds stays bound to the same variables and
\* functions for the rest of the session, whatever later inputs define, whether they
\* are rejected or their functions deleted (README.md, "in the same environment").
GlobalsAreKept ==
  [][table # <<>> => /\ table' # <<>> /\ DOMAIN table[1] \subseteq DOMAIN table'[1]
                     /\ \A name \in DOMAIN table[1] : table'[1][name] = table[1][name]]_table

\* A variable that a nested function takes from a function around it is the one
\* its code reads (README.md, "closures").
ClosuresReadTheirVariables ==
  \A u \in DOMAIN read : u \in DOMAIN meant /\ Captured(u) => read[u] = meant[u]

\* A recursive call of an input that was accepted is generated (README.md, "fib").
RecursionIsGenerated ==
  phase = "idle" =>
    \A u \in DOMAIN meant : Recursive(u) /\ InputOf(u) \notin rejected => u \in DOMAIN read

\* Between inputs code generation knows every global name the type checker knows
\* from an input it accepted (README.md, "REPL").
LinesShareGlobals ==
  phase = "idle" =>
    \A name \in DOMAIN checked[1] :
      InputOf(checked[1][name]) \notin rejected => table # <<>> /\ name \in DOMAIN table[1]

=============================================================================
