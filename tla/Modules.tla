------------------------------ MODULE Modules ------------------------------
(***************************************************************************)
(* Imports (modules.c, codegen_module.c, paths.c).  Type-checking an       *)
(* import reads the file it names, type-checks it with the checker that is *)
(* half-way through the importer, and caches the tree; code generation     *)
(* finds the module in the cache, generates it in an LLVM module of its    *)
(* own, renames everything in that and links it into the importer's.       *)
(*                                                                         *)
(* The texts of the program are the files, found by their paths, and the   *)
(* inputs of a session of lines.  A path is a sequence of names; statement *)
(* i of text u is <<u, i>>.  Files are imported by names with the          *)
(* extension .ylc.  basename is the C library's that answers in a buffer   *)
(* of its own, which the next call overwrites.  No name is bound to both a *)
(* variable and a module.  Undefined behaviour ends the model ("undefined")*)
(* or does what the comment at the action says.                            *)
(***************************************************************************)
EXTENDS Integers, SequencesExt

CONSTANTS
  Programs,   \* records of texts, by path, and of the inputs, in order
  MaxDepth    \* imports in progress that the C stack has room for

ASSUME DepthAssumption == MaxDepth \in Nat \ {0}

\* Texts are sequences of statements, and the inputs a sequence of texts.
ASSUME ProgramsAssumption ==
  \A p \in Programs :
    /\ p.inputs \in Seq(DOMAIN p.texts)
    /\ \A u \in DOMAIN p.texts : p.texts[u] \in Seq(Range(p.texts[u]))

\* Paths are sequences of names, and an import names a file.
ASSUME PathsAssumption ==
  \A p \in Programs : \A u \in DOMAIN p.texts :
    /\ u \in Seq(Range(u))
    /\ \A i \in DOMAIN p.texts[u] :
         LET s == p.texts[u][i]
         IN  s.tag = "import" => s.up \in Nat /\ s.rel \in Seq(Range(s.rel)) \ {<<>>}

\* No variable or type has the name of a module.
ASSUME NamesAssumption ==
  \A p \in Programs : \A u \in DOMAIN p.texts : \A i \in DOMAIN p.texts[u] :
    p.texts[u][i].tag \in {"let", "type"} =>
      \A file \in DOMAIN p.texts \ Range(p.inputs) : p.texts[u][i].name # Last(file)

\* The C stack has room for an import in progress of every file.
ASSUME RoomAssumption ==
  \A p \in Programs :
    /\ IsFiniteSet(DOMAIN p.texts)
    /\ Cardinality(DOMAIN p.texts \ Range(p.inputs)) <= MaxDepth

VARIABLES
  program,      \* the program of the session
  input,        \* how many inputs have been read
  phase,        \* "idle", "check", "generate", "exited", "overflow", "undefined"
  agenda,       \* the rest of the work of the pass, next task first
  module_path,  \* ctx->module_path of the type checker
  dangling,     \* module_path is a variable of a call that has returned
  error_flag,   \* _typecheck_error_flag
  doomed,       \* ctx->type_equations has an equation that cannot hold
  checked,      \* the names in scope: the module or the text that binds each
  untyped,      \* the lets whose own type no equation mentions: it stays a variable
  module_env,   \* the cache
  base_name,    \* the buffer of basename
  module_ast,   \* of each import: the module the type checker found
  contexts,     \* the LLVM modules under construction, innermost first
  loads,        \* history: the imports that read a file, and which
  rejected,     \* history: the inputs that were rejected
  meant,        \* history: the module a member access was type-checked with
  read          \* history: the module whose variable its code reads

session == <<program, input>>
checker == <<module_path, dangling, error_flag, doomed, checked, untyped>>
history == <<rejected, meant, read>>
vars == <<session, phase, agenda, checker, module_env, base_name, module_ast,
          contexts, loads, history>>

-----------------------------------------------------------------------------
(* Texts and paths.                                                        *)

Text(u) == program.texts[u]
Inputs == Range(program.inputs)
Files == DOMAIN program.texts \ Inputs

\* Statements: a variable, a type, a member of a module, a statement that is
\* wrong at once, one that proves wrong when the deferred equations are solved,
\* and an import of a file up to so many directories up.
Let(name) == [tag |-> "let", name |-> name]
Type(name) == [tag |-> "type", name |-> name]
Member(of, name) == [tag |-> "member", of |-> of, name |-> name]
Wrong == [tag |-> "wrong"]
Late == [tag |-> "late"]
Import(up, rel) == [tag |-> "import", up |-> up, rel |-> rel]

\* (Faulty form, for the mutation runs: ../ is skipped and the directory stays.)
resolve_path_below(from, up, rel) == SubSeq(from, 1, Len(from) - 1) \o rel

\* The directory of the text that imports, some directories up, and the name.
resolve_path(from, up, rel) == SubSeq(from, 1, Len(from) - 1 - up) \o rel

-----------------------------------------------------------------------------
(* Tasks: statement i of text u, or what is left of it once module path is *)
(* done with.                                                              *)

Todo(do, u, i, path) == [do |-> do, text |-> u, at |-> i, path |-> path]
Each(do, u) == [i \in DOMAIN Text(u) |-> Todo(do, u, i, u)]

Task == Head(agenda)
Here == <<Task.text, Task.at>>
This == Text(Task.text)[Task.at]
Doing(in, do) == phase = in /\ agenda # <<>> /\ Task.do = do
At(in, do, tag) == Doing(in, do) /\ This.tag = tag
Then(tasks) == agenda' = tasks \o Tail(agenda)

Extended(f, x, y) == [z \in DOMAIN f \cup {x} |-> IF z = x THEN y ELSE f[z]]

Stop(in) ==
  /\ phase' = in
  /\ UNCHANGED <<session, agenda, checker, module_env, base_name, module_ast,
                 contexts, loads, history>>

-----------------------------------------------------------------------------
(* Type checking.                                                          *)

OnlyChecks == UNCHANGED <<session, phase, contexts, rejected, read>>
NoImport == UNCHANGED <<module_path, dangling, module_env, base_name, module_ast, loads>>

\* A variable or a type, unless the name is bound already, by whatever module or line:
\* then a let assigns to what is bound, and is left without a type of its own.
CheckBinding ==
  /\ At("check", "check", "let") \/ At("check", "check", "type")
  /\ untyped' = IF This.tag = "let" /\ This.name \in DOMAIN checked THEN untyped \cup {Here}
                ELSE untyped
  /\ checked' = IF This.name \in DOMAIN checked THEN checked
                ELSE Extended(checked, This.name, Task.text)
  /\ Then(<<>>)
  /\ UNCHANGED <<error_flag, doomed, meant>> /\ OnlyChecks /\ NoImport

\* Neither an object nor a member that is not there is an error.
CheckMember ==
  /\ At("check", "check", "member")
  /\ meant' = IF This.of \in DOMAIN checked THEN Extended(meant, Here, checked[This.of])
              ELSE meant
  /\ Then(<<>>)
  /\ UNCHANGED <<error_flag, doomed, checked, untyped>> /\ OnlyChecks /\ NoImport

CheckIllTyped ==
  /\ \/ At("check", "check", "wrong") /\ error_flag' = TRUE /\ UNCHANGED doomed
     \/ At("check", "check", "late") /\ doomed' = TRUE /\ UNCHANGED error_flag
  /\ Then(<<>>)
  /\ UNCHANGED <<checked, untyped, meant>> /\ OnlyChecks /\ NoImport

\* The path the checker takes the import for.  module_path may be that of another
\* module, and its memory another's.
Imported == resolve_path(module_path, This.up, This.rel)

\* (Faulty form, for the mutation runs: the buffer is left as it is.)
last_basename == UNCHANGED base_name

\* basename of the name imported, for the checker and for code generation.
checked_basename == base_name' = Last(This.rel)
module_basename == base_name' = Last(This.rel)

\* The name is bound to the module, as basename's buffer has it now.
BindImport(path) ==
  /\ module_ast' = Extended(module_ast, Here, path)
  /\ checked' = Extended(checked, base_name', path)

\* get_module, of a module in the cache.
ImportCached ==
  /\ At("check", "check", "import")
  /\ Imported \in DOMAIN module_env /\ module_env[Imported].ast
  /\ checked_basename
  /\ BindImport(Imported)
  /\ Then(<<>>)
  /\ UNCHANGED <<module_path, dangling, error_flag, doomed, untyped, module_env, loads, meant>>
  /\ OnlyChecks

\* The tasks of the imports whose modules are being checked.
InProgress == {k \in DOMAIN agenda : agenda[k].do = "save"}

\* (Faulty form, for the mutation runs: the importer's errors are kept.)
StartCheckAgain == UNCHANGED <<error_flag, doomed>>

\* typecheck_in_ctx starts with no error and no equation.
StartCheck ==
  /\ error_flag' = FALSE
  /\ doomed' = FALSE

\* parse_module: the check starts again, on the module.
LoadModule ==
  /\ At("check", "check", "import")
  /\ Imported \notin DOMAIN module_env /\ Imported \in Files
  /\ Cardinality(InProgress) < MaxDepth
  /\ checked_basename
  /\ loads' = Append(loads, [by |-> Here, path |-> Imported])
  /\ module_path' = Imported
  /\ dangling' = FALSE
  /\ StartCheck
  /\ Then(Each("check", Imported) \o <<Todo("solve", Imported, 0, Imported),
                                       Todo("save", Task.text, Task.at, Imported)>>)
  /\ UNCHANGED <<checked, untyped, module_env, module_ast, meant>> /\ OnlyChecks

\* No such file; no stack left; the tree or the path the import relies on is gone.
ImportFails ==
  /\ At("check", "check", "import")
  /\ \/ Imported \notin DOMAIN module_env \cup Files /\ Stop("exited")
     \/ /\ Imported \in Files \ DOMAIN module_env
        /\ Cardinality(InProgress) = MaxDepth
        /\ Stop("overflow")
     \/ Imported \in DOMAIN module_env /\ ~module_env[Imported].ast /\ Stop("undefined")
     \/ dangling /\ Stop("undefined")

\* The deferred equations of the text, or of the last module it imported.
Solve ==
  /\ Doing("check", "solve")
  /\ error_flag' = (error_flag \/ doomed)
  /\ Then(<<>>)
  /\ UNCHANGED <<doomed, checked, untyped, meant>> /\ OnlyChecks /\ NoImport

Cached == [ast |-> TRUE, linked |-> FALSE]

\* (Faulty form, for the mutation runs: the module is saved under its name.)
save_module_by_name(path) == Extended(module_env, <<Last(path)>>, Cached)

\* (Faulty form, for the mutation runs: a module with errors is not saved.)
save_module_if_right(path) == IF error_flag THEN module_env ELSE Extended(module_env, path, Cached)

save_module(path) == Extended(module_env, path, Cached)

\* A module is saved whatever its check found.  module_path stays the module's, in a
\* variable of the import that ends here.
SaveModule ==
  /\ Doing("check", "save")
  /\ module_env' = save_module(Task.path)
  /\ dangling' = TRUE
  /\ UNCHANGED base_name
  /\ BindImport(Task.path)
  /\ Then(<<>>)
  /\ UNCHANGED <<module_path, error_flag, doomed, untyped, loads, meant>> /\ OnlyChecks

TypeCheck ==
  \/ CheckBinding
  \/ CheckMember
  \/ CheckIllTyped
  \/ ImportCached
  \/ LoadModule
  \/ ImportFails
  \/ Solve
  \/ SaveModule

-----------------------------------------------------------------------------
(* Code generation.  A context has the scopes of its symbol table, in      *)
(* which names are bound to variables and to modules, the names of its     *)
(* LLVM module with the text each comes from, and whether a statement has  *)
(* given a value yet.                                                      *)

NoNames == [name \in {} |-> 0]
NewContext(path, u) ==
  [path |-> path, table |-> <<NoNames>>, names |-> Extended(NoNames, <<"main">>, u), value |-> FALSE]

Context == Head(contexts)
InContext(context) == contexts' = <<context>> \o Tail(contexts)
OnlyGenerates ==
  UNCHANGED <<session, phase, checker, module_ast, loads, rejected, meant>>

Bound(context, name) == \E i \in DOMAIN context.table : name \in DOMAIN context.table[i]
Lookup(context, name) ==
  context.table[Max({i \in DOMAIN context.table : name \in DOMAIN context.table[i]})][name]

\* table_insert: the first binding of a scope stays.
Insert(context, name, symbol) ==
  IF name \in DOMAIN Last(context.table) THEN context
  ELSE [context EXCEPT !.table[Len(context.table)] = Extended(@, name, symbol)]

Valued(context) == [context EXCEPT !.value = TRUE]

\* A new variable is a global of the LLVM module in the outermost scope.  codegen_ttype
\* of a let without a type returns nothing: code generation goes on with what is there
\* (here), or does anything (GenUntyped).
GenLet ==
  /\ At("generate", "gen", "let")
  /\ InContext(
       IF Bound(Context, This.name) THEN Valued(Context)
       ELSE IF Len(Context.table) > 1
       THEN Valued(Insert(Context, This.name, [kind |-> "variable"]))
       ELSE [Valued(Insert(Context, This.name, [kind |-> "variable"]))
               EXCEPT !.names = Extended(@, <<This.name>>, Task.text)])
  /\ Then(<<>>)
  /\ UNCHANGED <<module_env, base_name, read>> /\ OnlyGenerates

\* codegen_symbol of a new variable without a type.
GenUntyped ==
  /\ At("generate", "gen", "let")
  /\ Here \in untyped /\ ~Bound(Context, This.name)
  /\ Stop("undefined")

\* A type gives no value.  What an ill-typed statement gives is left open.
GenOther ==
  /\ \/ At("generate", "gen", "type") /\ UNCHANGED contexts
     \/ /\ At("generate", "gen", "wrong") \/ At("generate", "gen", "late")
        /\ InContext(Valued(Context)) \/ UNCHANGED contexts
  /\ Then(<<>>)
  /\ UNCHANGED <<module_env, base_name, read>> /\ OnlyGenerates

\* The names of the statements of a module, which are its members.
Members(path) == {Text(path)[i].name : i \in {j \in DOMAIN Text(path) : Text(path)[j].tag \in {"let", "type"}}}
Nameless(path) == \E i \in DOMAIN Text(path) : Text(path)[i].tag \notin {"let", "type"}

\* The LLVM module has the variable that the member of a module is known by.
HasMember(module, name) ==
  name \in Members(module.path) /\ <<module.prefix, name>> \in DOMAIN Context.names

\* Statement i is the one whose type a member of the module at path has.
IsDeclared(path, i, name) ==
  /\ Text(path)[i].tag \in {"let", "type"} /\ Text(path)[i].name = name
  /\ \A j \in 1 .. i - 1 : Text(path)[j].tag \in {"let", "type"} => Text(path)[j].name # name

IsUntyped(path, name) ==
  \E i \in DOMAIN Text(path) : IsDeclared(path, i, name) /\ <<path, i>> \in untyped

\* lookup_module_member.  Of a member without a type it may load anything (here: its
\* variable), or not return (GenMissingMember).
GenMember ==
  /\ At("generate", "gen", "member")
  /\ \/ /\ ~Bound(Context, This.of)
        /\ UNCHANGED <<contexts, read>>
     \/ /\ Bound(Context, This.of)
        /\ LET module == Lookup(Context, This.of)
           IN  /\ module.kind = "module" /\ HasMember(module, This.name)
               /\ read' = Extended(read, Here, Context.names[<<module.prefix, This.name>>])
        /\ InContext(Valued(Context))
  /\ Then(<<>>)
  /\ UNCHANGED <<module_env, base_name>> /\ OnlyGenerates

\* A load from NULL, an index of -1, or a load at no type.
GenMissingMember ==
  /\ At("generate", "gen", "member")
  /\ Bound(Context, This.of)
  /\ LET module == Lookup(Context, This.of)
     IN  /\ module.kind = "module"
         /\ ~HasMember(module, This.name) \/ IsUntyped(module.path, This.name)
  /\ Stop("undefined")

-----------------------------------------------------------------------------
(* codegen_module.                                                         *)

\* The path code generation takes the import for.
Resolved == resolve_path(Context.path, This.up, This.rel)

\* bind_module.
WithModule(context, name, path) ==
  Valued(Insert(context, name, [kind |-> "module", path |-> path, prefix |-> name]))

\* A module that is linked is not generated again.
GenImportLinked ==
  /\ At("generate", "gen", "import")
  /\ Resolved \in DOMAIN module_env /\ module_env[Resolved].linked
  /\ module_basename
  /\ InContext(WithModule(Context, base_name', module_ast[Here]))
  /\ Then(<<>>)
  /\ UNCHANGED <<module_env, read>> /\ OnlyGenerates

\* The module is generated in a context of its own.
GenImport ==
  /\ At("generate", "gen", "import")
  /\ Resolved \in DOMAIN module_env /\ ~module_env[Resolved].linked
  /\ module_basename
  /\ contexts' = <<NewContext(Resolved, module_ast[Here])>> \o contexts
  /\ Then(Each("gen", module_ast[Here]) \o <<Todo("link", Task.text, Task.at, Resolved)>>)
  /\ UNCHANGED <<module_env, read>> /\ OnlyGenerates

\* lookup_langmod finds nothing.
GenImportFails ==
  /\ At("generate", "gen", "import")
  /\ Resolved \notin DOMAIN module_env
  /\ Stop("undefined")

\* main is deleted if no statement gave a value, and may be if one is ill-typed.
Generated(valid) ==
  IF valid THEN Context.names
  ELSE Restrict(Context.names, DOMAIN Context.names \ {<<"main">>})

Validities ==
  LET u == module_ast[Here]
  IN  {Context.value}
      \cup (IF \E i \in DOMAIN Text(u) : Text(u)[i].tag \in {"wrong", "late"} THEN {FALSE} ELSE {})

\* (Faulty form, for the mutation runs: the names are left as they are.)
names_unmangled(names, prefix) == names

\* Every name of the LLVM module, the modules linked into it included.
mangle_names(names, prefix) ==
  [name \in {<<prefix>> \o n : n \in DOMAIN names} |-> names[Tail(name)]]

\* LLVMLinkModules2 links the modules, or reports a name that both define and exits.
Linkable(into, from) == DOMAIN into \cap DOMAIN from = {}
Linked(into, from) == from @@ into

\* What is saved as linked is read from memory that may have been used since.
LinkModule ==
  /\ Doing("generate", "link")
  /\ \E valid \in Validities, entry \in [ast : BOOLEAN, linked : BOOLEAN] :
      LET importer == contexts[2]
          module == mangle_names(Generated(valid), base_name)
          names == Linked(importer.names, module)
      IN  /\ Linkable(importer.names, module)
          /\ <<base_name, "main">> \in DOMAIN names
          /\ contexts' = <<WithModule([importer EXCEPT !.names = names], base_name,
                                      module_ast[Here])>> \o SubSeq(contexts, 3, Len(contexts))
          /\ module_env' = [module_env EXCEPT ![Task.path] = entry]
  /\ Then(<<>>)
  /\ UNCHANGED <<base_name, read>> /\ OnlyGenerates

\* The linker exits, or the initialiser of the module is not there to be called.
LinkFails ==
  /\ Doing("generate", "link")
  /\ \E valid \in Validities :
      LET module == mangle_names(Generated(valid), base_name)
      IN  \/ ~Linkable(contexts[2].names, module) /\ Stop("exited")
          \/ /\ Linkable(contexts[2].names, module)
             /\ <<base_name, "main">> \notin DOMAIN Linked(contexts[2].names, module)
             /\ Stop("undefined")

\* bind_module writes before the start of an array for every statement that has no
\* name: nothing comes of it, or anything.
BindFails ==
  /\ \/ /\ At("generate", "gen", "import")
        /\ Resolved \in DOMAIN module_env /\ module_env[Resolved].linked
     \/ Doing("generate", "link")
  /\ Nameless(module_ast[Here])
  /\ Stop("undefined")

Generate ==
  \/ GenLet
  \/ GenUntyped
  \/ GenOther
  \/ GenMember
  \/ GenMissingMember
  \/ GenImportLinked
  \/ GenImport
  \/ GenImportFails
  \/ LinkModule
  \/ LinkFails
  \/ BindFails

-----------------------------------------------------------------------------
(* The session: lines typed in, from a directory.                          *)

Line == program.inputs[input]

Init ==
  /\ program \in Programs
  /\ input = 0
  /\ phase = "idle"
  /\ agenda = <<>>
  /\ module_path = <<>>
  /\ dangling = FALSE
  /\ error_flag = FALSE
  /\ doomed = FALSE
  /\ checked = NoNames
  /\ untyped = {}
  /\ module_env = NoNames
  /\ base_name = ""
  /\ module_ast = NoNames
  /\ contexts = <<[NewContext(<<"_">>, <<>>) EXCEPT !.table = <<>>, !.names = NoNames]>>
  /\ loads = <<>>
  /\ rejected = {}
  /\ meant = NoNames
  /\ read = NoNames

ReadInput ==
  /\ phase = "idle" /\ input < Len(program.inputs)
  /\ input' = input + 1
  /\ phase' = "check"
  /\ agenda' = Each("check", program.inputs[input'])
               \o <<Todo("solve", program.inputs[input'], 0, program.inputs[input'])>>
  /\ module_path' = program.inputs[input']
  /\ dangling' = FALSE
  /\ StartCheck
  /\ UNCHANGED <<program, checked, untyped, module_env, base_name, module_ast, contexts, loads,
                 history>>

Reject ==
  /\ phase = "check" /\ agenda = <<>> /\ error_flag
  /\ rejected' = rejected \cup {Line}
  /\ phase' = "idle"
  /\ UNCHANGED <<session, agenda, checker, module_env, base_name, module_ast,
                 contexts, loads, meant, read>>

Accept ==
  /\ phase = "check" /\ agenda = <<>> /\ ~error_flag
  /\ phase' = "generate"
  /\ agenda' = Each("gen", Line)
  /\ InContext([Context EXCEPT !.table = Append(@, NoNames)])
  /\ UNCHANGED <<session, checker, module_env, base_name, module_ast, loads, history>>

\* Only the scope of the first input that is generated stays.
EndInput ==
  /\ phase = "generate" /\ agenda = <<>>
  /\ phase' = "idle"
  /\ InContext([Context EXCEPT !.table = SubSeq(@, 1, 1)])
  /\ UNCHANGED <<session, agenda, checker, module_env, base_name, module_ast, loads, history>>

Next ==
  \/ ReadInput
  \/ TypeCheck
  \/ Reject
  \/ Accept
  \/ Generate
  \/ EndInput

Spec == Init /\ [][Next]_vars

-----------------------------------------------------------------------------
(* What an import promises.                                                *)

LoadsOf(u) == {l \in Range(loads) : l.by[1] = u}

\* Type invariant: what is cached, bound or generated is a text of the program, and
\* every module that is being generated is in the cache; the cache has only files
\* that have been read.
TypeOK ==
  /\ phase \in {"idle", "check", "generate", "exited", "overflow", "undefined"}
  /\ DOMAIN module_env \subseteq {l.path : l \in Range(loads)}
  /\ \A name \in DOMAIN checked : checked[name] \in DOMAIN program.texts
  /\ \A s \in DOMAIN module_ast : module_ast[s] \in Files /\ Text(s[1])[s[2]].tag = "import"
  /\ \A k \in 1 .. Len(contexts) - 1 : contexts[k].path \in DOMAIN module_env

\* A file is read and type-checked once in a session, however many modules and inputs
\* import it and whether or not it was rejected, unless it imports itself and is not
\* in the cache yet.
LoadedOnce ==
  [][loads' # loads =>
       LET path == Last(loads').path
       IN  path \in {l.path : l \in Range(loads)} => \E k \in InProgress : agenda[k].path = path]_loads

\* The file that import i of text u names.
Target(u, i) == SubSeq(u, 1, Len(u) - 1 - Text(u)[i].up) \o Text(u)[i].rel

ImportsOf(u) == {i \in DOMAIN Text(u) : Text(u)[i].tag = "import"}

\* The type checker returns, unless modules import each other: there is a set of files
\* each of which names one of them, or a text whose second import is taken for a file
\* that it does not name.
OverflowIsCyclic ==
  phase = "overflow" =>
    \/ \E S \in (SUBSET Files) \ {{}} : \A u \in S : \E i \in ImportsOf(u) : Target(u, i) \in S
    \/ \E u \in Files : Cardinality(ImportsOf(u)) > 1

\* The last import of text u that read a file.
LastLoad(u) == Max({0} \cup {l.by[2] : l \in LoadsOf(u)})

\* Text u is wrong after its last import that read a file, or the file is.
Faulty[u \in DOMAIN program.texts] ==
  \/ \E i \in DOMAIN Text(u) : i > LastLoad(u) /\ Text(u)[i].tag \in {"wrong", "late"}
  \/ \E l \in LoadsOf(u) : l.by[2] = LastLoad(u) /\ Faulty[l.path]

\* An input is rejected for errors of its own and of the modules it imports, but
\* only those that come after its last import that read a file: that import makes the
\* type checker forget the rest.
RejectedForLaterErrors ==
  phase = "idle" => \A k \in 1 .. input : program.inputs[k] \in rejected <=> Faulty[program.inputs[k]]

HasImports(path) == ImportsOf(path) # {}

\* Another file of the name has been read, in another directory.
Homonym(path) == \E l \in Range(loads) : l.path # path /\ Last(l.path) = Last(path)

\* The name of a module is bound to that module, unless the module has imports of its
\* own, which change the name it is bound to.
NamesOfModules ==
  \A name \in DOMAIN checked :
    (\E path \in Files : Last(path) = name)
      => Last(checked[name]) = name \/ HasImports(checked[name])

\* The module has been imported by another statement too, of this input or another (two
\* inputs are different texts).
ImportedTwice(path) ==
  \E s, t \in DOMAIN module_ast : s # t /\ module_ast[s] = path /\ module_ast[t] = path

\* A module whose names in the LLVM module may not be its own: those of another file
\* with its name, or of the module it was linked into first.
Entangled(path) == Homonym(path) \/ ImportedTwice(path)

\* The code of a member access reads the variable of the module that the type checker
\* took its object for, unless that module is entangled with another; where the type
\* checker knows no such module, the one that is read is bound to a name of another.
MembersReadTheirModule ==
  \A s \in DOMAIN read :
    IF s \in DOMAIN meant
    THEN read[s] = meant[s] \/ Entangled(meant[s])
    ELSE Entangled(read[s])

\* Why an import goes wrong: it follows one in its text, or one that is in progress does,
\* it was linked before, it has no value, or a statement without a name.
FollowsImport(task) == \E i \in 1 .. task.at - 1 : Text(task.text)[i].tag = "import"

ImportHasCause ==
  \/ \E k \in DOMAIN agenda : (k = 1 \/ agenda[k].do = "link") /\ FollowsImport(agenda[k])
  \/ Task.do = "check" /\ ~module_env[Imported].ast
  \/ Here \in DOMAIN module_ast /\
       LET path == module_ast[Here]
       IN  \/ Nameless(path)
           \/ \A i \in DOMAIN Text(path) : Text(path)[i].tag # "let"

\* A module is generated again, by another import, while those it imports are linked.
GeneratedAgain == \E task \in Range(agenda) : task.do = "gen" /\ ImportedTwice(task.text)

\* The text has been read: it is a line of the session, or a module.
IsRead(u) == u \in {program.inputs[k] : k \in 1 .. input} \cup {l.path : l \in Range(loads)}

\* Another statement that has been read binds the name that statement i of text u binds.
BoundElsewhere(u, i) ==
  \E v \in DOMAIN program.texts :
    /\ IsRead(v)
    /\ \E j \in DOMAIN Text(v) :
         /\ <<v, j>> # <<u, i>>
         /\ Text(v)[j].tag \in {"let", "type"} /\ Text(v)[j].name = Text(u)[i].name

\* Why a member is not found, where code generation looks for it and where the type
\* checker did, or has no type.
MemberHasCause ==
  LET path == Lookup(Context, This.of).path
  IN  /\ \/ Entangled(path) \/ GeneratedAgain
         \/ \E i \in DOMAIN Text(path) : IsDeclared(path, i, This.name) /\ BoundElsewhere(path, i)
         \/ \A i \in DOMAIN Text(path) : Text(path)[i] # Let(This.name)
      /\ Here \in DOMAIN meant => meant[Here] = path \/ Entangled(meant[Here])

\* An import, the use of a member and a new variable are undefined behaviour only for
\* these causes; for a variable, that another module or line has bound its name.
ImportsFailForCause ==
  phase = "undefined" =>
    CASE This.tag = "import" -> ImportHasCause
      [] This.tag = "member" -> MemberHasCause
      [] This.tag = "let" -> BoundElsewhere(Task.text, Task.at)

=============================================================================
