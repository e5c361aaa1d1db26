# Verification of ylc

TLA+ models of the ylc compiler (`src/`), the TLC runs that check them on small
instances, and proofs, checked by TLAPS, of the properties of its symbol tables, of
unification, of the type checker, of the scanner and parser, of the names of a session
and of the loading of modules.
Files are named as under `src/` of the repository.

`ylc` reads a file or the lines of a REPL. Every input goes through the scanner
and the parser, then the type checker, then code generation into one LLVM
module, and is run by LLVM's JIT. The program is single-threaded and persists
nothing: what is hard about it is *state that survives* — from one input to
the next, from one pass to the other, from one equation to the next, and in
cells of memory that several owners share.

## 1. The system

| Component | State | Operations | Talks to | What makes it correct |
|---|---|---|---|---|
| Symbol table of code generation (`symbol_table.c`) | 100 frames of 100 bucket chains, the index of the current frame | `push_frame`, `pop_frame`, `table_insert`, `table_lookup` | called by all of code generation | it is a stack of scopes; left frames stay empty; the innermost binding is found |
| Generic symbol table (`generic_symbol_table.h`) | the same, as a macro | the same, and `env_insert`/`env_lookup` on one frame | type checker (names → AST copies), unification (variables → types), module cache | it is a stack of scopes whose bindings can be updated |
| Unification (`unify_types.c`) | the environment of type variables; the types, which live in cells of the syntax tree, of the environment, of the stack and heap, and are overwritten in place | `unify` and its helpers, `follow_links` | called by the type checker | errors are real, accepted equations are solved, nothing known is changed, it ends |
| Type checker (`typecheck.c`) | scopes, environment, deferred equations, error flag | `generate_equations` per node kind, `typecheck_in_ctx`, `update_expression_types` | parser's tree; unification; imports call it again | it rejects only what is ill-typed and accepts only what it solved; it returns |
| Code generation (`codegen/*.c`) | symbol table, LLVM module, builder position | `codegen` per node kind | tree with types; LLVM | every use of a name reads what the type checker took it for; no NULL reaches LLVM; deleted functions are forgotten |
| Session (`runner.c`, `main.c`) | both tables, context, mode | file, REPL, compile-only | all of the above | an input that fails leaves the session usable; inputs share one environment |
| Modules (`modules.c`, `codegen_module.c`, `paths.c`) | a cache path → tree, linked flag | `get_module`, `codegen_module` | recursive type check and code generation | each module checked and linked once; an import does not disturb its importer |
| Scanner (`lexer.c`) | place in the text | `scan_token` with a list of matchers | called by the parser | tokens are as long as they can be, nothing is skipped but blanks and comments, it stays in the text |
| Parser (`parse/*.c`) | previous and current token, the C stack | `parse_statement` and its kind, precedence climbing | scanner; its tree goes to the type checker | the tree is the one the text was written from; nothing is lost without a message; it ends |

Behaviours that are hard to test, each at its line, are the `hazards` of
`PROJECT.json`. They fall into four groups: chains of bindings and of hash
buckets whose order matters; type cells that are shared and overwritten;
failures half-way (rejected input, deleted function, branch without value); and
the two passes disagreeing on what a name means.

## 2. Modules

| Module | Models | State ↔ code |
|---|---|---|
| `Scopes` | abstract specification: a stack of scopes | `scopes`: what a table promises. `Overwrites` says whether binding a name again replaces it (generic table) or is hidden by the first binding (`symbol_table.c`) |
| `SymbolTable` | `symbol_table.c`, frame by frame and chain by chain | `stack`, `current_frame_index`; `Hash` is a constant, any function from names to buckets |
| `Tables` | both tables under the same operations | `checker_stack`, `checker_frame_index`: the type checker's |
| `SymbolTableProofs`, `TablesProofs`, `UnifyProofs`, `TypecheckProofs`, `SessionProofs`, `ModulesProofs`, `ParserProofs` | theorems about `SymbolTable` and `GenericSymbolTable`, `Tables`, `Unify`, `Typecheck`, `Session`, `Modules` and `Parser` with `Scanner` | – |
| `DataLemmas` | lemmas on naturals, sequences and recursive functions that the proofs share | – |
| `NameHash` | `hash`, on 32-bit arithmetic held in two halves | – |
| `GenericSymbolTable` | the macros; reuses frames and chains of `SymbolTable` | same; `env_insert` is what differs |
| `Unify` | `unify_types.c` | `types`: the cells, by number; `env`; `agenda`: the equations still on the call stack, next first; `error_flag` = `_typecheck_error_flag`; `given` and `posted`: histories, what the callers have said so far, as facts about cells and types, and their equations whose sides unify has compared |
| `Syntax`, `Trees` | programs as sequences of numbered nodes; their construction from trees (for TLC only) | the node's number is also its type cell and its type variable |
| `Typecheck` | `typecheck.c`, on top of `Unify` and `Scopes` | `agenda` holds nodes to visit as well as equations; `deferred` = `ctx->type_equations`; `scopes` = `ctx->symbol_table` |
| `Session` | `runner.c` and code generation as names see them | `checked`, `table`: the tables of the passes; `holders`: names of the LLVM module; `building`: functions under construction; `values`: results of `codegen` not used yet, NULL or not |
| `Modules` | `modules.c`, `codegen_module.c`, `paths.c`, the import case of `typecheck.c` | `agenda`: statements of the texts being checked or generated, the importer's behind the module's; `module_path`, `dangling` = `ctx->module_path`; `error_flag`; `doomed`: `ctx->type_equations` has one that cannot hold; `checked` = `ctx->symbol_table`; `untyped`: the lets whose own type no equation mentions; `module_env`: the cache, with the tree kept or not and `linked`; `base_name`: the buffer of `basename`; `module_ast`: the type checker's note on an import; `contexts`: the LLVM modules under construction |
| `Scanner` | `lexer.c`: from a place in the text to a token | `text`; places are numbers, the NUL is at `End`; `scan_token(i)` is one call |
| `ParseTrees` | `ast.h`: what the parser builds | a tree is its tag, a word (name, literal, operator) and its children; NULL is a tree |
| `Parser` | `parse/*.c`, one action per piece of a function between two calls | `at` = `scanner.current`, `previous`, `current` = `parser.*`; `calls`: the C stack, each call with the place where it goes on and its locals; `value`: what the last call returned; `body`: the statement list of the input |
| `Grammar` | how a program is written (TLC only) | the text of a tree, with no more parentheses than the levels of `parse_expression.h` ask for; `EqualityOperands`: the level operands of `==` and `!=` are written for |

Composition: `GenericSymbolTable` extends `SymbolTable`; both are refined to
`Scopes` (`INSTANCE ... WITH`). `Tables` runs the two side by side, as the
passes of a session do. `Parser` extends `Scanner`, as the parser calls
`scan_token` one token ahead of itself. `Typecheck` and `Session` use `Scopes` in place
of the concrete tables, which the refinement justifies. `Typecheck` extends
`Unify`. `Session` leaves types out and is independent of `Typecheck`; `Modules`
reduces both passes to what an import can disturb and is independent of either.

Operators named `...Unguarded`, `...Outside` and so on, marked "Faulty form",
are plausible mistakes that the runs are tested with; nothing else uses them.

### Abstractions

* `Scanner`: a text is a sequence of members of a small set; a keyword is one of
  them, and counts as a letter of a longer word. What a token carries is the
  characters it was read from: the values of numbers, the line counter and
  `print_token` are left out. The bytes of a string are computed, since an escape
  leaves one of them uninitialised (`StringBytes`, `lexer.c:588`).
* `Parser`: messages are reduced to their having been printed (`complained`), and
  the addresses of nodes to trees. Where a function goes on with NULL, the model
  does too; where C leaves undefined what happens (NULL is read, a garbage pointer
  is copied as a name, a missing infix rule is called), it stops in the phase
  "undefined". Where a number or pointer of another kind of node is taken for a
  name but not read, the name is "garbage". `parse.c:53` uses a statement list as
  `malloc` returned it: the model goes on as with zeroed memory, or stops
  ("uninitialised"). A read past the NUL is the phase "overrun".
* `Parser` records as *lapses* what the code does without a message: something
  that is no name is taken for one ("target"), an unclosed block or condition is
  dropped ("unclosed"), a token is passed over unseen ("swallowed"), a match with
  one arm is replaced by it ("single arm").
* The tables are modelled up to the write of the frame after the last one, which
  `push_frame` does not refuse: the index is then `STACK_SIZE`, and since C says nothing
  of what becomes of the table, no operation follows.
* Names are members of small sets; in `MCGenericSymbolTable` three are spelt
  out, as `_tvar` spells them, for the code's own hash function.
* The refinement to updating scopes is by steps: an update that the generic
  table loses (section 3) is a stutter of the abstract specification. `Unify`,
  `Typecheck` and `Session` take every update to succeed, that is, they assume
  that no two names of a program share a bucket where one is bound twice.
* `Unify` has variables, four ground types (`int8` and `void` are left out),
  functions, tuples, structs, arrays and pointers. A compound type points at the
  cells of its parts; the length of an array is left out, since nothing reads it.
  A type declared without an expression is the variable whose name is empty
  (`Nameless`); the name that `unify_vars` reads of a type that is no variable is
  empty for a ground type and taken not to be for any other.
* `given` is no state of the code. It collects, whenever a caller of `unify` writes a cell
  or asks for an equation, what is thereby said: that a cell holds a type, is a copy of
  another, or equals another or a part of one (`Said`, `Saying`). Steps of unify add
  nothing, whatever they copy, bind or derive, but for one thing: an equation on a part of
  a type that is not known yet makes the type its own part (`unify_types.c:160`), and
  that is counted as said. `Solvable` decides such facts without unification:
  their closure under equality, the parts of equal types and the parts asked for must not
  make types of different constructors equal.
* `Typecheck` walks every construct but imports (in `Modules`) and variadic
  parameters. The nodes of a type expression lend their cells to the parts of the
  type, so that all uses of an extern function's annotation share them, as the
  types share the memory. A call of a curried function rewrites the tree, as the
  code does: `program` is a variable for that reason alone.
* Where C leaves undefined what happens, `Unify` and `Typecheck` stop with
  `Undefined` on the agenda: two tuples or structs of one length (an uninitialised
  pointer is read), a member of a function's type that it has not, an equation
  written past the list of deferred equations, an annotation that is no type's name,
  a part of a type that has none, the name of something that is no function used as
  one, and more arguments in two parts than there is room for (`LeaveC`).
* The list of deferred equations starts with room for `MaxTeqList` of them. The
  code's `MAX_TEQ_LIST` is 32; the run `typecheck` takes 3, which changes nothing
  but how many calls of recursive functions it takes to get past the limit.
* Programs are trees (`ProgramsAreTrees` of `Session`, which TLC checks of every program of
  the runs): nodes are numbered in preorder and have the children that code generation
  reads of them. In particular the arms of a match are pairs, as
  `codegen_match` takes for granted of what `parse_match` collects. `Typecheck` asks for
  less (`ProgramsHaveShape`): its programs need not be trees, but every node has the children the
  type checker reads without looking: no block is empty, an assignment has one or two
  parts, a member of a struct has an expression or a type.
* `Session` has integers only. An input may be rejected for reasons of type,
  and LLVM may refuse a function for the types of its values, at any time
  (`Reject`, `EndFunction`, `EndInput`): both are left to chance. A NULL operand
  handed to LLVM, a parameter index past the end, and an uninitialised
  `else_value` are undefined behaviour; the model stops there, and
  `UndefinedHasCause` says what leads there. Functions that return a tuple,
  struct or pointer, which are called with a place for the result, are not in
  `Session`; imports are in `Modules`.
* `Modules` has sessions of lines whose statements are variables, types, uses of
  a member, imports, and statements that are wrong at once or when the deferred
  equations are solved. A path is a sequence of names, with `..` only at the
  start of what an import names. Every import has the extension `.ylc` and is
  at the top level. `basename` is the kind that answers in a static buffer
  (that of macOS, for which the makefile is written), which nested imports
  overwrite. The dangling path, the cache entry that `lookup_langmod` returns
  a pointer to after its frame is gone, and the index −1 of a statement without
  a name are undefined behaviour, modelled by a choice or by stopping there.
  The 64 bytes that `codegen_module.c:105` has for a name, and `codegen_so`,
  are left out, and so are externs of modules.

## 3. Runs

| Run | Checks | Shows |
|---|---|---|
| `tables` | `TypeOK`, `FreeFramesEmpty`, `LookupIsInnermost`, `ImplementsScopes` (first table); `CheckerImplementsScopes` (second); `TablesAgree` | each table is a stack of scopes, the first with the first binding of a name, the second with the last unless the name is behind another one in its bucket; they show a name in the same frame, and another value only where it was bound twice |
| `typecheck` | `TypeOK`, `RejectedIsIllTyped`, `AcceptedIsSolved`, `ArithmeticWidens`, `UndefinedHasCause`, `CallsFit`, `PartsHaveTheirTypes`, `Acyclic`, `Returns`, `KnownTypesAreKept` | some four thousand programs of twelve families, and thirty thousand lists of up to three equations that unify is given without a program |
| `session` | `TypeOK`, `ScopesAreLeft`, `ReadsWhatWasMeant`, `UndefinedHasCause`, `NoDanglingFunctions`, `GlobalsAreKept` | some seven thousand sessions in three modes |
| `modules` | `TypeOK`, `OverflowIsCyclic`, `RejectedForLaterErrors`, `NamesOfModules`, `MembersReadTheirModule`, `ImportsFailForCause`, `LoadedOnce` | a file is read once unless it imports itself; only modules in a circle, or a second import resolved from a wrong path, overflow the stack; which errors an import makes the checker forget; whose variable a member reads |
| `parser` | `TypeOK`, `TokensTileTheText`, `TokensAreLongest`, `OverrunsHaveCause`, `WrittenIsRead`, `NothingIsLost`, `UndefinedHasCause`, `Returns` | every program that `Grammar` writes is read back as it was, in two styles; on texts that are wrong, which tokens they have, when the scanner leaves the text, what is lost, where behaviour is undefined, and which texts the parser never finishes |

Runs that TLC finds violated; each is a finding of `PROJECT.json`:

| Run | Property | What the code does |
|---|---|---|
| `generic_update` | `InsertionIsVisible` | the second insertion of a name is lost behind a colliding name, although the table's test says it "updates value in symbol table" |
| `rebinding` | `AcceptedIsWellTyped` | `fn (x) {x == (x == 1)}` is accepted: the binding of `x` is replaced |
| `closures` | `ClosuresReadTheirVariables` | a captured parameter is read from the wrong function |
| `recursions` | `RecursionIsGenerated` | recursive calls (`fib` of the README) are refused as not callable |
| `two_lines` | `LinesShareGlobals` | variables of the second and later lines of a REPL are lost to code generation |
| `comments` | `CommentsAreSkipped` | a text that ends in a comment, as three of `tests/parse_test.c` do, is scanned past its end |
| `equality` | `EqualityIsBelowSums` | `x == y + z` is read as `(x == y) + z`, although the header puts `==` below sums |

### What the properties leave out, and why

`Unify` records six *lapses*, things the code does without a word: relating a
variable to itself (`entangled`), to a type made of it (`occurs`), replacing
the binding of a variable whose type is known (`overwritten`), and passing over
functions of different lengths (`arity`), arrays and pointers of different things
(`contents`), and a type declared without an expression beside one that has no members
and no name either (`nameless`). The positive properties
(`EnvironmentSolves`, `AcceptedIsSolved`, `Acyclic`, `Returns`) are stated around
the lapses that can break them; `rebinding` shows the third. `ErrorsAreReal` and
`RejectedIsIllTyped` have no such condition: an error is justified by what was *said*
alone, never by an equation that unify made of it.

`fn (x) {x + x}` hangs the type checker (`entangled`). Both uses of `x` are bound to the
parameter's variable. The equation between the operands binds the left use to it once more;
then its old binding, which is the same variable, is unified with the left use, whose links lead back to
it, so that the variable is bound to itself, and `follow_links` goes round it for ever. No document says that the type checker returns from every
program, so this is a hazard (`Returns`, `Acyclic`) and no finding.

`Typecheck`: `UndefinedHasCause` names, in terms of the program, what leads to
undefined behaviour. `Returns` leaves out the search for the type of an object by
the name of a type variable (`typecheck.c:782`), which never ends: it happens when a
member is asked of something that no annotation or value makes a struct, such as a
parameter without annotation (`HasStruct`). `CallsFit` speaks of calls with at
most as many arguments as parameters: with one more, the code equates that one with
the result and the call itself with nothing. A call with fewer arguments has a type
the comment at `typecheck.c:395` describes as the "last n types of original func";
the code gives it as many parameters as there *are* arguments, the result first
and then the last parameters in reverse. No property is stated about that type; the
call that completes it is typed anew with all the arguments, and that is the one
`CallsFit` is about. `PartsHaveTheirTypes` is about objects whose name is bound once:
an index yields the type of the first part of a tuple or struct, whatever the index,
and is left out.

`Session` states where the passes part in `Diverges`: a variable used in its own
initialiser (bound before it by code generation, after it by the type checker);
a name that two functions, or a function and a variable, have anywhere in the
session (the LLVM module has one of them); a variable captured from a function
around; and a name that code generation forgets at the end of a branch, of the
result of a match arm or of an input. Dropping any one of them makes TLC find a program on which
`ReadsWhatWasMeant` fails. `UndefinedHasCause` of `Session` is about values and functions that
are not there; what LLVM is handed for a *type* that is not known, such as that of a parameter nobody
uses, is left out with the types (`Modules` has the case of a `let`, below).

`Modules` states four things the code does in the properties themselves. An
import that reads a file resets the importer's error flag and equations, so that
only the errors after the last such import count (`Faulty` in
`RejectedForLaterErrors`). A module that shares its name with
another file, or that is imported by two statements, is `Entangled`: its members
may be read from another LLVM module, and two modules that define a name make the linker
report an error and exit. The type checker has one table for all modules
(`README.md:86` of the repository says that their symbols are dumped into the calling module): a `let` of a
name that another module or line has bound assigns to what is bound there, its own type
stays a variable, and code generation, which does have namespaces, asks `codegen_ttype` for
the LLVM type of a variable, for which it returns nothing in particular. The model goes on
or stops there (`GenUntyped`, `GenMissingMember`), and `ImportsFailForCause` names the
cause (`BoundElsewhere`). A second import in a text may be resolved
from a path that is no longer there (`ImportHasCause`, and the second half of
`OverflowIsCyclic`). Each exception is needed: without it TLC finds a session
that breaks the property.

`Parser`: `Grammar` has the levels of `parse_expression.h`, in which `==` and `!=` are weaker
than sums (line 11); the table `rules` gives them the level of `+`. `WrittenIsRead` is
about texts which have parentheses wherever the two do not agree
(`EqualityOperands` = 7); the run `equality` writes them as the header has it and is
violated: `x == y + z` is read as `(x == y) + z`. A text that ends in a comment, without a newline,
is scanned past its end: `OverrunsHaveCause` says so of comments, strings and blanks, and the run
`comments` holds it against the tests that parse such texts. A closing brace takes the end of its line with it, and a
match the end of its last arm's, and `Grammar` writes programs accordingly.
`Returns` states the three ways not to end: a bracket that is open at the end, a
bracket that was passed over, and `return`, which `parse_statement` neither reads
nor passes over, although the comment at `parse_statement.c:172` lists it among the tokens it
has a constructor for. `UndefinedHasCause` lists what leads to undefined behaviour: an
earlier message or lapse, the end of the text, an empty block, a name after an
operand (`IDENTIFIER` has a precedence but no infix rule), and a member that is no
name.

### Bounds

* Tables: two buckets, three frames, three names of which two share a bucket,
  two values, at most three entries: enough for a chain of two names, the same
  name twice in a chain and in three frames, and re-entering a frame.
* `generic_update` has the code's 100 buckets and its hash.
* `typecheck`: functions of two parameters and two statements; four inputs that
  declare, assign and use; recursion with two outer calls; two match arms; sums
  of three operands over three inputs; structs of two fields, by value and by
  pointer, and their members; arrays in arrays; functions of three parameters applied
  in up to three parts; extern functions over struct, pointer, array and unknown
  types; functions in structs; and up to six deferred equations in a list for three.
  The lists of equations are three (`MaxEquations`) between three variables, two ground types and two
  function types, or between two variables, a tuple and an array, and two between types of
  every kind, with and without an index; a list of several begins with a variable. Two equations rebind a variable, the third
  exercises the old binding. `MaxCells` stops only the runs of equations that an entangled
  variable makes endless.
* `session`: functions nested two deep with two statements each, three lines or
  three statements over two variables and two functions; matches of two arms that bind
  names, followed by a use; and an extern function in a line, a file or a function, with
  two statements that use or reuse its name.
* `modules`: three files in two directories, two of them of one name, and two
  lines of at most three statements: enough for an import inside an import, the
  same file by two paths, a homonym, and a module in the cache when the second
  line imports it. `MaxDepth` (4) is the depth of imports the C stack has room
  for; three files that import no circle need three. The module assumes room for as many
  imports as there are files (`RoomAssumption`): with less, a chain of files overflows it.
* `parser`: operators of every level over each other two deep and every kind of
  statement, alone and in pairs, with and without a final newline, in two styles; all texts of up to
  three or four characters over six alphabets (brackets and assignments; lists;
  keywords; strings, comments and blanks; numbers and arrows; operators of which
  one starts another), and twenty starts of constructs with every continuation of
  up to two characters, which is where a construct is cut off at each of its
  steps.

Deadlock is not checked where the system may stop: unification that has nothing
left to unify, a text that is parsed, and a session whose inputs are used up, that exited, that overflowed the
stack or that met undefined behaviour.

### Fairness

`Typecheck` and `Parser` assume `WF_vars(Next)`: the code is sequential and nothing else
runs, so it takes its next step as long as it has one. A loop that changes
nothing (`Hang`, `SpinOutside`: `follow_links` on a cycle) is a stuttering
step, so that fairness does not rule it out: `Returns` has to hold because no
cycle arises. The loops of `Parser` that go on for ever change nothing that
`Returns` asks for, and it names the texts that have one.

## 4. Proofs

Each theorem holds for all values of the constants that satisfy the `ASSUME`s of its
module: any sets of names and values, any numbers of buckets and frames and any hash
function into the buckets (`SymbolTable`); any files, lines and depth of the stack, texts,
inputs and paths being sequences, no variable having the name of a file, and the stack
having room for one import in progress of each file (`Modules`); any programs that are trees (`Session`); any programs
whose nodes have the children that are read, and any first size of the list of deferred equations but
zero (`Typecheck`); any texts (`Parser`); and for unification, any list of equations, with and without an index, between any
cells whose types are variables, ground types or made of cells, shared in whatever way (`UnifySpec`;
the lists of the run `typecheck` are instances of it, and without its bound on the cells).

| Module | Theorem | Statement |
|---|---|---|
| `SymbolTableProofs` | `TypeCorrect` | `Spec => []TypeOK` |
| | `FreeFramesAreEmpty` | `Spec => []FreeFramesEmpty` |
| | `LookupFindsInnermost` | `Spec => []LookupIsInnermost` |
| | `TableImplementsScopes` | `Spec => ImplementsScopes` |
| | `GenericTableImplementsScopes` | `GenericSpec => ImplementsUpdatingScopes` |
| `TablesProofs` | `CheckerTableImplementsScopes` | `TablesSpec => CheckerImplementsScopes` |
| | `TablesAgreeOnNames` | `TablesSpec => []TablesAgree` |
| `UnifyProofs` | `UnifyTypesOK` | `UnifySpec => []UnifyTypeOK` |
| | `UnifyAcyclic` | `UnifySpec => []Acyclic` |
| | `UnifyKeeps` | `UnifySpec => KnownTypesAreKept` |
| | `UnifySolves` | `UnifySpec => []EnvironmentSolves` |
| | `UnifyErrs` | `UnifySpec => []ErrorsAreReal` |
| `TypecheckProofs` | `CheckerTypesOK` | `Spec => []TypeOK` |
| | `AcceptedSolves` | `Spec => []AcceptedIsSolved` |
| `SessionProofs` | `SessionTypesHold` | `Spec => []TypeOK` |
| | `SessionScopes` | `Spec => []ScopesAreLeft` |
| | `SessionFunctions` | `Spec => []NoDanglingFunctions` |
| | `SessionGlobals` | `Spec => GlobalsAreKept` |
| `ModulesProofs` | `FilesAreLoadedOnce` | `Spec => LoadedOnce` |
| | `ModulesTypes` | `Spec => []TypeOK` |
| | `ModulesAreNamed` | `Spec => []NamesOfModules` |
| | `OverflowsAreCyclic` | `Spec => []OverflowIsCyclic` |
| `ParserProofs` | `TokensTile` | `Spec => []TokensTileTheText` |
| | `TokensLongest` | `Spec => []TokensAreLongest` |
| | `OverrunsCaused` | `Spec => []OverrunsHaveCause` |
| | `UndefinedCaused` | `Spec => []UndefinedHasCause` |
| | `ParserTypes` | `Spec => []TypeOK` |

**Data.** The library's induction theorems take an operator as a parameter, which the
provers cannot instantiate. `DataLemmas` therefore derives what the later proofs need from the
well-foundedness of finite sets: every set of naturals has a least member
(`LeastNatural`), so that a statement about the steps of a walk is proved by its first
counterexample (`Inductive`, stated of a set of numbers), and a sequence with a member of a
kind has a first one (`FirstPlace`). `Iterates` says that a function of the naturals that is
defined by recursion exists, which is what the walks of `follow_links` and of the
scanner need.

**Tables.** The lookup theorem is not inductive alone, nor does it follow from the types:
a walk along a chain, or from frame to frame, has to meet a *first* entry of a
key. `IInv` carries that as part of the state while the index is `Inside`. `ChainsMeet` says that a chain which
has a key has a first entry with it, `FramesMeet` that a key some frame has is
in an innermost one of the frames up to any point. Both hold of empty chains,
and each step keeps them: an insertion appends at the end of one chain, so that
the first entry of a key either was there or is the new one. `FreeFramesEmpty`
is what entering a frame needs (the new scope must be empty), and leaving a
frame establishes it for that frame. `TypeOK` and the refinement rest on the
same invariant. All of it is about the frames of the table (`TableInv`): the index may be one past
them, after the one push that writes there, and nothing follows. With the invariant, `table_lookup` is what `Scopes` resolves.
Lemmas on chains (`FirstValueAt`,
`AppendKeepsFirst`) say that appending keeps the first entry of a key, which makes an insertion
`Bind` with `Overwrites = FALSE`. Each action has one lemma for the invariant
and one for the refinement.

The generic table keeps the same `IInv`, since frames are entered and left in the same
way: only the insertion is proved anew (`ChainInsertBinds`). Updating the head of a
chain changes the first value of its name alone, and appending behind another name
changes either nothing visible or a name the frame had not, so that an insertion is
`Bind` with `Overwrites = TRUE` or a stutter. This holds for every hash: whatever
names share a bucket, an insertion never touches another name, and what a collision
can do is to lose an update.

That the tables agree is proved from `TablesInv`: both tables' `IInv`, the frames
they are in (`InStep`), and `ChainsAlike`, which relates the two chains of every bucket
entry by entry: the same names, the same head, and the same first value of a name unless
code generation's chain has the name at its head and again. The head matters because it
is what the type checker's insertion updates: without it, nothing says which of the
two went on with the old value. `TablesProofs` takes the theorems about the type
checker's table from `SymbolTableProofs` by `INSTANCE`, under the renaming of
`Tables`, and carries its refinement over to the steps of both tables
(`CheckerTableImplementsScopes`, the property the run `tables` checks).

**Imports.** `LoadedOnce` is about one step, but says nothing that carries over to the next.
`LoadsInv` does: while the session runs, every file that has been read is in the
cache, or an import of it is in progress and will put it there
(`LoadsAreKept`). A check takes tasks from the front of the agenda and puts others in
their place, which keeps the imports in progress behind them (`WorkKeepsSaving`); the
only task that is one, `save`, puts its file in the cache; and when a pass ends, none
is left, so that the next line starts with every file cached. What an import
reads is not in the cache, so that if the file has been read before, its import
is in progress.

The other properties of `Modules` need to know how the agenda nests, because what an
import finds when its file has been checked depends on what was imported meanwhile.
`Nested` and `InOrder` say it of any sequence of tasks: the tasks before the end of an
import are those of its module or of an import that the module has in progress, and the
statements of a text come in their order. Each has one lemma for a task that is done and
one for an import that is entered. On them rest `NamesAreKept` (basename's buffer has the
name of the module whose import ends next, unless the module has imports) and, for files
of one import at most, `PathIsOwn` and `TargetsAreRead` (the checker's path is that of the
file it is in, so that each import reads the file it names). If an import then reads a
file that is in progress, the files in progress are a set each member of which imports a
member (`ImportsClose`); if none ever does, they differ, and by the pigeonhole principle
fewer than the stack has room for are in progress (`OverflowHasCause`). `ContextsInv` is
the invariant of code generation's contexts.

**Unification.** `UnifyInv` is `UnifyTypeOK` with sets in place of its conditions, so that
what a step copies from one cell to another is a type over the cells there are; it
allows the tasks of a caller on the agenda as well. For
`Acyclic` the invariant is `AcyclicInv`: the bindings have a rank, a natural number that
falls along every link. What a variable is bound to is itself not bound, so that the
variable is now the last link of its chains: it gets rank 0 and the others one more
(`RanksStay`). Only a variable bound to itself would spoil that, and such a step
records the lapse `entangled`. From a rank it follows
that the walk from a variable, which takes as many steps as there are links and one
more, ends at something that is not bound (`RankedEnds`), by counting the links of
no higher rank. `KnownTypesAreKept` is a property of one step: what is written is
written over a variable.

`EnvironmentSolves` says nothing of a state with work left, and a step may break what an
earlier one established: it replaces a binding, and the equation on the old one is
unified only afterwards. `SolvedInv` therefore speaks of the environment *to come*. If the next equation
is one that nobody stated, it is about the binding just replaced (`DerivedInv`: there is at most one,
it is the next, and its left side is a variable), and the types
that count are those in the environment with that equation solved (`Eventual`); in them the
two sides of every equation posted agree. Binding a variable that has no binding
replaces it, in every term, by what it is bound to (`Rebinding`), which keeps equal terms
equal and makes the two sides of the new equation so (`BindingSolves`); binding one that has,
to something else, leaves the old equation as the next, and its solution puts things right
(`RebindingSolves`, unless the old binding was of a known type, the lapse `overwritten`). The
other steps either drop an equation whose sides agree or record a lapse (`PlainSolves`).

`ErrorsAreReal` relates the flag to `given`, what the callers said, and not to the pair at which
unify stopped, which may be far from it: the proof has to follow every copy, link, binding and
old binding back to what was said. `Solvable` closes the facts given under their consequences and
folds them into classes of terms that must be equal. The provers know a fold and a recursive
closure only by their definitions, so these functions are shown to exist first (`MergingExists`,
`ClosingExists`, by `Recurses` of `DataLemmas`, on the number of elements and of facts that are
left), the classes to be a partition that joins every fact (`Merges`, `ClassesMerge`), and the
closure to contain the facts and its own consequences (`ClosureCloses`). When the facts are
solvable they therefore have a *reading* (`SolvableHasReading`): a class for every term such that
facts join, classes do not mix constructors, and equal types have equal parts. The invariant of
`UnifyProofs`, `ReadInv`, says that unify invents no term (`Mentioned`), and that *every* reading
of the facts given is kept: it puts each cell with its type, each variable with what it
is bound to, and the two sides of each equation still on the agenda into one class, and the flag is not
set (`HeldBy`). One lemma per action shows that what the step writes and asks for is kept by
every reading that kept the state before (`Stays`, `NextWork`), and that `Mismatch`
cannot happen under one (`NoMismatch`). A flag that is set thus means that there is no reading,
and no solution.

**Type checker.** `Typecheck` runs the steps of `Unify` between its own, on one agenda, so
that `UnifyInv`, `AcyclicInv` and `DerivedInv` are parts of its invariant
(`CheckerInv`) and are kept by a step of unify as before: the lemmas of `UnifyProofs` speak of an agenda with a
caller's tasks on it. What has to be added is `CheckInv`: the program keeps its shape, also
when a curried call rewrites it; scopes and deferred equations are about nodes
and cells there are, of which the walk only ever allocates more; there is a scope; and the
list has the room it began with. All 34 steps of the walk have one form, `Walks`: cells
are added or get types over the cells there are, nothing is unified, and whatever
they put on the agenda is a node to visit or an equation that is asked for (`Work`).
One lemma says so of every step, with lemmas of their own for the cells that need counting: those that a
type expression gives the nodes below it, which `Below` collects by recursion over
sets (`ReachExists`, by the number of nodes not yet reached), those of a call applied in parts,
and those of an extern function's annotation. `WalkPreserves` then draws the
conclusion once.

`AcceptedIsSolved` is `SolvedInv` of `Unify` made to last for a session. Between two equations
nothing is pending and the environment is the one to come; what remains is that the
types of cells that the *caller* writes do not matter (a posted equation is about the terms as they
were when it was unified, `Solution` reads the environment alone), that the deferred
equations are unified before the input ends, and that `update_expression_types`, which
replaces types by what they are bound to, writes only types over cells there are. An
input that fails ends the claim, since the environment may hold half of its
equations: hence `failed = {}` in `AcceptedInv`.

**Session.** `SessionInv` treats the agenda as the C stack it stands for. Every task
uses so many results of earlier calls (`Needs`) and leaves one or none (`Makes`), some
leave a scope or a function (`Closing`), and all of them include the work they lead to:
`After` is where the pass is once a task is done *with all that takes its place*.
`Balanced` says that what is left to do leads (`Leads`), one task after the other, from
where the pass is to where it began: one scope and no function for the type checker; one
or two scopes, the function `main` and one result for code generation. An action
replaces its task by others that lead to the same place (`Works`), which is shown once
per action, and `WorkStays` draws the consequence. `ScopesAreLeft` is then what
`Balanced` says of an empty agenda, also when a branch has no value, a function is
deleted, or an input rejected; and no task runs short of the results, scopes or functions
it takes for granted. That a deleted function is bound nowhere needs more: its code must not be
generated twice. `InOrder` and `BegunOnce` say that tasks are in the order of the program,
each in the part of the tree that it stands for, and behind every function whose
code has been begun; `FunctionsSound` that functions bound, under construction and
deleted are different ones.

**Scanner and parser.** The scanner's theorems need no invariant of the parser but that
the current token is one `scan_token` made, at the place where the last one ended
(`ScanInv`). The proof is about `scan_token`: the order of the 29 symbols is such that
none is tried after one of its own beginnings (`SymbolTable`, symbol by symbol), and a
run of characters ends where the next one is of another kind. `ParserTypes` rests on the
discipline of the stack (`Stacked`): the calls of the loop over the statements are
at the bottom and nowhere else, and a call that is replaced by what it goes on with, or
returns, keeps that (`Calls`, shown once per action).

That the scanner reads past the NUL only of certain texts (`OverrunsCaused`) is shown with a
second reading of the text, character by character: `Mode` says of every place whether it is
in code, in blanks, in a string or in a comment. `ScannedModes` is the step: a token that
begins in code ends in code, unless the text ends before; the invariant (`EndInv`) is that
the scanner is always at a place in code, or one step past a NUL that comes after blanks, and
that EOF is only found at a NUL in code.

`UndefinedCaused` is about what the calls tell each other by their results, many of which may be
NULL. Every place of a function gives a kind of value (`Gives`: an expression, a name, a list, a
body, a prototype, a statement), and a place that goes on after a call takes one
(`Takes`); `Fits` relates neighbours on the stack. A kind also says something of the text:
when an expression is given, the last token is one that ends an operand, so that
a name read now has one before it, and the right side of a dot is given only behind an
IDENTIFIER. Of the text the last three tokens are enough, and whether there was a bar.
`ReadInv` says that, as long as nothing excuses undefined behaviour (`Excused`), the calls
and the value are `Sound`: neighbours fit, the call that goes on has the value it takes,
and what it needs of the last tokens holds. `UndefinedHasCause` is not inductive: without
`Sound` a call could meet a NULL that no earlier step explains. What excuses it stays
(`ExcuseStays`), and one lemma per action (`...Reads`) says that a step of a sound stack,
when nothing excuses the step either, leaves a sound stack and is never undefined. TLC
checked `ReadInv` on the texts of the run `parser` first.

**Only model-checked.** Liveness (`Returns`) is out of the prover's reach, as is
what `Trees` and `Grammar` compute, which are recursive and used by MC modules only; with
them `WrittenIsRead` and `NothingIsLost`, which compare a tree with the one that `Grammar`
wrote. `ReadsWhatWasMeant` and the
two `UndefinedHasCause` of `Typecheck` and `Session` relate a step to everything the program says around it; their
exceptions are exact only on the programs TLC enumerates, and
no inductive form of them has been found. So do `RejectedForLaterErrors`, whose
`Faulty` is recursive over the imports, `MembersReadTheirModule` and
`ImportsFailForCause` of `Modules`. In `Typecheck`, `RejectedIsIllTyped` and `CallsFit`
relate what was said to the program it was read from, and `ArithmeticWidens` and
`PartsHaveTheirTypes` the types of an accepted session to the walk in which it was said: an
invariant would have to say of every node what all of its equations were when it was
visited, and which of the cells they name have been written since. The other way round,
`UnifyTypeOK`, `EnvironmentSolves` and `ErrorsAreReal` are theorems of `UnifySpec` alone; TLC checks
their counterparts `TypeOK`, `AcceptedIsSolved` and `RejectedIsIllTyped` on the sessions of the
run `typecheck`, which reach the same steps of unify.

## 5. Plan

1. Tuples, structs and member access in code generation
   (`codegen_compound.c`), now that the type checker has them, and variadic externs.
2. Struct-returning functions in `Session`.
3. Externs of modules (renamed by `mangle_names`) and shared libraries in
   `Modules`.
4. Proofs: that what a call posts fits its function (`CallsFit`), from an invariant on
   the nodes visited so far.

## 6. Not modelled

Printing, freeing and formatting; reading characters (`input.c`); the functions
of the parser that nothing calls (`_let_statement`, `parse_ptr`,
`parse_type_expression`); the JIT engine
and the execution of what is generated; `uthash.h`, which is vendored and
included by nothing; `experiments/` and `examples/`.
