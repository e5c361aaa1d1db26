------------------------------- MODULE Unify -------------------------------
(***************************************************************************)
(* Unification of types (unify_types.c).  Types live in cells the code     *)
(* holds pointers to and overwrites in place: the type field of an AST     *)
(* node, the members of a function type, a copy on the C stack or heap.    *)
(* The environment binds type variables to types.                          *)
(*                                                                         *)
(* agenda is what the call stack of the code holds: the equations still to *)
(* be unified, the next one first.  A call in tail position replaces the   *)
(* equation at its head; a call made in a loop, or before other work, is   *)
(* put in front of that work.                                              *)
(***************************************************************************)
EXTENDS Integers, SequencesExt

VARIABLES
  types,        \* the cells: a sequence of types, which grows at its end
  env,          \* the environment: a function on the bound type variables
  agenda,       \* the work to be done, in order
  error_flag,   \* _typecheck_error_flag
  given,        \* history: what the callers of unify said, as facts about terms
  posted,       \* history: every equation unify compared for them, as terms
  lapses        \* history: which of the lapses below have happened

unifyVars == <<types, env, agenda, error_flag, given, posted, lapses>>

Ids == Nat \ {0}   \* cells, and the type variables named after them

-----------------------------------------------------------------------------
(* Types.                                                                  *)

\* The tags of the types without members, in the order of the enumeration
\* ttype_tag of types.h.
GroundTags == {"int", "num", "str", "bool"}

Var(n) == [tag |-> "var", name |-> n, members |-> <<>>, fields |-> <<>>]
Ground(tag) == [tag |-> tag, name |-> 0, members |-> <<>>, fields |-> <<>>]

\* The other types point at the cells of their parts: a function type at its
\* parameters and its result, an array at the type of its elements.  A copy of
\* the type shares them.  The parts of a struct have names.
Compound(tag, members, fields) ==
  [tag |-> tag, name |-> 0, members |-> members, fields |-> fields]

Fn(members) == Compound("fn", members, <<>>)
Tuple(members) == Compound("tuple", members, <<>>)
Struct(members, fields) == Compound("struct", members, fields)
Array(element) == Compound("array", <<element>>, <<>>)
Pointer(item) == Compound("ptr", <<item>>, <<>>)

\* A type declared without an expression is the variable whose name is empty, which
\* is also what the code finds in the name's place of a type without members.
Nameless == Var(0)

IsVar(t) == t.tag = "var"
IsBound(t) == IsVar(t) /\ t.name \in DOMAIN env

\* follow_links: the type at the end of the chain of bindings that starts at t.
\* The walk never ends when the chain has a cycle; when it has none, all variables
\* on it but the last are links.
Follow(t) ==
  LET links == {v \in DOMAIN env : IsBound(env[v])}
      along[n \in 0 .. Cardinality(links) + 1] ==
        IF n = 0 THEN t
        ELSE LET u == along[n - 1] IN IF IsBound(u) THEN env[u.name] ELSE u
  IN  along[Cardinality(links) + 1]

Ends(t) == ~IsBound(Follow(t))

-----------------------------------------------------------------------------
(* What the callers say, as facts: pairs of terms that are equal.  A term is   *)
(* a type, what a cell stands for, whatever type it holds by now, or a part of *)
(* that.  No step of unify adds a fact, but for one declared below.            *)

Cell(c) == [tag |-> "cell", name |-> 0, members |-> <<c>>, fields |-> <<>>]
Part(c, i) == [tag |-> "part", name |-> i, members |-> <<c>>, fields |-> <<>>]

IsConstructor(t) == t.tag \notin {"var", "cell", "part"}

-----------------------------------------------------------------------------
(* The agenda.                                                             *)

\* index # 0 says: l equals the index-th member of r (the code counts from 0).
\* stated tells the equations a caller asked for, and their parts, from those
\* unify derives from an earlier binding.
Equation(l, r, index, stated) ==
  [do |-> "unify", l |-> l, r |-> r, index |-> index, stated |-> stated]

Equate(l, r) == Equation(l, r, 0, TRUE)

\* The fact a caller states with an equation.
Said(equation) ==
  <<Cell(equation.l), IF equation.index = 0 THEN Cell(equation.r)
                      ELSE Part(equation.r, equation.index)>>

\* All that is left to do once C says nothing about what happens next.
Undefined == [do |-> "undefined"]

Idle == agenda = <<>>
Task == Head(agenda)
Rest == Tail(agenda)

Stopped == ~Idle /\ Task = Undefined

Unifying == ~Idle /\ Task.do = "unify"
Left == types[Task.l]
Right == types[Task.r]

\* A variable on the left, which does not become a function or a tuple; unify_vars
\* compares its name with what is in the place of r's.
BindingVar == Unifying /\ Task.index = 0 /\ IsVar(Left)
SameName ==
  Right.tag \notin {"fn", "tuple"} /\ Right.members = <<>> /\ Right.name = Left.name

\* What the history records of a type: a variable, or its outermost constructor.
Term(t) == [tag |-> t.tag, of |-> IF IsVar(t) THEN t.name ELSE Len(t.members)]

\* The types a type is made of, itself included, as the environment has them.
Inside(t) ==
  LET parts(cells) == UNION {Range(Follow(types[c]).members) : c \in cells}
      reach[cells \in SUBSET DOMAIN types] ==
        IF parts(cells) \subseteq cells THEN cells ELSE reach[cells \cup parts(cells)]
  IN  {t} \cup {Follow(types[c]) : c \in reach[Range(t.members)]}

\* Six things unify does without a word: it relates a variable to itself
\* ("entangled"), which makes a cycle of bindings; it binds a variable to a type
\* made of it ("occurs"); it binds a variable anew whose type was known
\* ("overwritten"); it lets function types of different lengths pass ("arity"),
\* arrays and pointers of different things ("contents"), and a type declared without
\* an expression as any type without members ("nameless").
Record ==
  /\ posted' = IF Task.stated THEN posted \cup {<<Term(Left), Term(Right)>>} ELSE posted
  /\ lapses' = lapses
       \cup (IF /\ Left # Right
                /\ IsVar(Follow(Left)) /\ Follow(Left) = Follow(Right)
             THEN {"entangled"} ELSE {})
       \cup (IF /\ IsVar(Follow(Left)) /\ Follow(Right).members # <<>>
                /\ Follow(Left) \in Inside(Follow(Right))
             THEN {"occurs"} ELSE {})
       \cup (IF /\ IsBound(Left) /\ ~IsVar(Follow(Left))
                /\ Term(Follow(Left)) # Term(Follow(Right))
             THEN {"overwritten"} ELSE {})
       \cup (IF Left.tag = "fn" /\ Right.tag = "fn" /\ Term(Left) # Term(Right)
             THEN {"arity"} ELSE {})
       \cup (IF /\ Left.tag = Right.tag /\ Left.tag \in {"array", "ptr"}
                /\ Follow(types[Left.members[1]]) # Follow(types[Right.members[1]])
             THEN {"contents"} ELSE {})
       \cup (IF BindingVar /\ SameName /\ ~IsVar(Right) THEN {"nameless"} ELSE {})

-----------------------------------------------------------------------------
(* unify(), one action per way through it.                                 *)

\* An indexed equation: r is followed, in place, and the equation becomes one
\* about its member, which nobody makes sure there is.  Two variables are left
\* alone; any other type stands for its own member, as does a type that is not
\* known when that of the member is: the history counts this with what was given.
UnifyMember ==
  LET w == Follow(Right)
  IN  /\ Unifying
      /\ Task.index # 0
      /\ Ends(Right)
      /\ types' = [types EXCEPT ![Task.r] = w]
      /\ agenda' = IF w.tag \in {"fn", "tuple", "struct"}
                   THEN IF Task.index \in DOMAIN w.members
                        THEN <<Equation(Task.l, w.members[Task.index], 0, Task.stated)>> \o Rest
                        ELSE <<Undefined>>
                   ELSE IF IsVar(w) /\ IsVar(Left)
                   THEN Rest
                   ELSE <<Equation(Task.l, Task.r, 0, Task.stated)>> \o Rest
      /\ given' = IF IsVar(w) /\ ~IsVar(Left)
                  THEN given \cup {<<Part(Task.r, Task.index), Cell(Task.r)>>}
                  ELSE given
      /\ UNCHANGED <<env, error_flag, posted, lapses>>

\* (Faulty form, for the mutation runs: unify is called again with the sides as they are.)
SwapNothing ==
  /\ Unifying
  /\ Task.index = 0
  /\ IsVar(Right) /\ ~IsVar(Left)
  /\ agenda' = <<Equation(Task.l, Task.r, 0, Task.stated)>> \o Rest
  /\ UNCHANGED <<types, env, error_flag, given, posted, lapses>>

\* A variable on the right is moved to the left.
Swap ==
  /\ Unifying
  /\ Task.index = 0
  /\ IsVar(Right) /\ ~IsVar(Left)
  /\ agenda' = <<Equation(Task.r, Task.l, 0, Task.stated)>> \o Rest
  /\ UNCHANGED <<types, env, error_flag, given, posted, lapses>>

\* (Faulty form, for the mutation runs: the left side is converted to the right.)
MismatchConverted ==
  /\ Unifying
  /\ Task.index = 0
  /\ ~IsVar(Left) /\ ~IsVar(Right)
  /\ Left.tag # Right.tag
  /\ types' = [types EXCEPT ![Task.l] = Right]
  /\ agenda' = Rest
  /\ Record
  /\ UNCHANGED <<env, error_flag, given>>

\* Two different constructors.
Mismatch ==
  /\ Unifying
  /\ Task.index = 0
  /\ ~IsVar(Left) /\ ~IsVar(Right)
  /\ Left.tag # Right.tag
  /\ error_flag' = TRUE
  /\ agenda' = Rest
  /\ Record
  /\ UNCHANGED <<types, env, given>>

\* Two types with the same tag, which is all that is compared of them.
UnifyGround ==
  /\ Unifying
  /\ Task.index = 0
  /\ Left.tag \in GroundTags \cup {"array", "ptr"}
  /\ Right.tag = Left.tag
  /\ agenda' = Rest
  /\ Record
  /\ UNCHANGED <<types, env, error_flag, given>>

\* unify_fns: two function types are unified member by member, on copies of the
\* members; nothing happens, and nothing is reported, when their lengths differ.
UnifyFns ==
  LET n == Len(types)
      arity == Len(Left.members)
      copies == [i \in 1 .. 2 * arity |->
                   IF i <= arity THEN types[Left.members[i]]
                   ELSE types[Right.members[i - arity]]]
  IN  /\ Unifying
      /\ Task.index = 0
      /\ Left.tag = "fn" /\ Right.tag = "fn"
      /\ IF Len(Right.members) = arity
         THEN /\ types' = types \o copies
              /\ agenda' = [i \in 1 .. arity |->
                              Equation(n + i, n + arity + i, 0, Task.stated)] \o Rest
         ELSE /\ agenda' = Rest
              /\ UNCHANGED types
      /\ Record
      /\ UNCHANGED <<env, error_flag, given>>

\* unify_compound_types: tuples and structs of different lengths are an error;
\* those of one length are compared with what an uninitialised pointer points at.
UnifyCompound ==
  LET same == Len(Left.members) = Len(Right.members)
  IN  /\ Unifying
      /\ Task.index = 0
      /\ Left.tag \in {"tuple", "struct"}
      /\ Right.tag = Left.tag
      /\ error_flag' = (error_flag \/ ~same)
      /\ agenda' = IF same /\ Left.members # <<>> THEN <<Undefined>> ELSE Rest
      /\ Record
      /\ UNCHANGED <<types, env, given>>

-----------------------------------------------------------------------------
(* A variable on the left.                                                 *)

\* unify ends by unifying the binding the variable had when the call began with
\* the left type as it is now, if that binding is a variable.
ThenOldBinding(cells) ==
  IF IsBound(Left) /\ IsVar(env[Left.name])
  THEN /\ types' = Append(cells, env[Left.name])
       /\ agenda' = <<Equation(Len(cells) + 1, Task.l, 0, FALSE)>> \o Rest
  ELSE /\ types' = cells
       /\ agenda' = Rest

\* add_type_to_env: the binding is replaced when the variable has one.
Binding(t) == [v \in DOMAIN env \cup {Left.name} |-> IF v = Left.name THEN t ELSE env[v]]

\* unify_fn and unify_tuple: the variables among the members of r are followed, in
\* place, and l becomes the function or tuple type.
UnifyVarFn ==
  LET members == Range(Right.members)
  IN  /\ BindingVar
      /\ Right.tag \in {"fn", "tuple"}
      /\ \A c \in members : Ends(types[c])
      /\ env' = Binding(Right)
      /\ ThenOldBinding([c \in DOMAIN types |->
                           IF c = Task.l THEN Right
                           ELSE IF c \in members THEN Follow(types[c])
                           ELSE types[c]])
      /\ Record
      /\ UNCHANGED <<error_flag, given>>

\* unify_vars with the same name on both sides does nothing ...
UnifySameVar ==
  /\ BindingVar
  /\ SameName
  /\ ThenOldBinding(types)
  /\ Record
  /\ UNCHANGED <<env, error_flag, given>>

\* (Faulty form, for the mutation runs: a variable is bound to itself.)
UnifyVarsBindingItself ==
  LET w == Follow(Right)
  IN  /\ BindingVar
      /\ Right.tag \notin {"fn", "tuple"}
      /\ Ends(Right)
      /\ env' = Binding(w)
      /\ ThenOldBinding([types EXCEPT ![Task.r] = w,
                                      ![Task.l] = IF IsVar(w) THEN @ ELSE w])
      /\ Record
      /\ UNCHANGED <<error_flag, given>>

\* ... otherwise r is followed, in place, the variable is bound to it whatever
\* it was bound to before, and l becomes r unless that is a variable.
UnifyVars ==
  LET w == Follow(Right)
  IN  /\ BindingVar
      /\ ~SameName /\ Right.tag \notin {"fn", "tuple"}
      /\ Ends(Right)
      /\ env' = Binding(w)
      /\ ThenOldBinding([types EXCEPT ![Task.r] = w,
                                      ![Task.l] = IF IsVar(w) THEN @ ELSE w])
      /\ Record
      /\ UNCHANGED <<error_flag, given>>

\* The loop of follow_links on a cycle of bindings: nothing changes any more.
Spin ==
  /\ Unifying
  /\ \/ Task.index # 0 /\ ~Ends(Right)
     \/ BindingVar /\ Right.tag \in {"fn", "tuple"} /\ \E c \in Range(Right.members) : ~Ends(types[c])
     \/ BindingVar /\ ~SameName /\ Right.tag \notin {"fn", "tuple"} /\ ~Ends(Right)
  /\ UNCHANGED unifyVars

UnifyStep ==
  \/ UnifyMember
  \/ Swap
  \/ Mismatch
  \/ UnifyGround
  \/ UnifyFns
  \/ UnifyCompound
  \/ UnifyVarFn
  \/ UnifySameVar
  \/ UnifyVars

\* The start of a session (the context LLVMRuntime sets up).
NothingUnified ==
  /\ env = [v \in {} |-> v]
  /\ error_flag = FALSE
  /\ posted = {}
  /\ lapses = {}

-----------------------------------------------------------------------------
(* Unification on its own: any list of equations that are asked for,       *)
(* between any cells or between a cell and a member of another.            *)

\* Types are made of cells: the pointers to their parts.
IsType(t) ==
  \/ IsVar(t) /\ t.name \in Nat /\ t = Var(t.name)
  \/ t.tag \in GroundTags /\ t = Ground(t.tag)
  \/ /\ t \in [tag : {"fn", "tuple", "struct", "array", "ptr"}, name : {0},
               members : Seq(DOMAIN types), fields : Seq(STRING)]
     /\ IF t.tag = "struct" THEN Len(t.fields) = Len(t.members) ELSE t.fields = <<>>
     /\ t.tag \in {"array", "ptr"} => Len(t.members) = 1

Statements ==
  [do : {"unify"}, l : DOMAIN types, r : DOMAIN types, index : Nat, stated : {TRUE}]

UnifyInit ==
  /\ types \in Seq(Range(types)) /\ \A c \in DOMAIN types : IsType(types[c])
  /\ agenda \in Seq(Statements)
  /\ given = {<<Cell(c), types[c]>> : c \in DOMAIN types} \cup {Said(e) : e \in Range(agenda)}
  /\ NothingUnified

UnifyNext == UnifyStep \/ Spin

UnifySpec == UnifyInit /\ [][UnifyNext]_unifyVars

-----------------------------------------------------------------------------
(* What unification promises.                                              *)

\* Facts as a partition of their terms into classes that must be equal.
Merged(e, classes) ==
  LET touched == {c \in classes : e[1] \in c \/ e[2] \in c}
  IN  (classes \ touched) \cup {UNION touched}

TermsOf(facts) == {e[1] : e \in facts} \cup {e[2] : e \in facts}

Classes(facts) == FoldSet(Merged, {{t} : t \in TermsOf(facts)}, facts)

\* What follows from the facts: when two types are equal, so are their parts, and a
\* part of a cell is that of the type it is equal to.
EqualParts(t, u) == {<<Cell(t.members[i]), Cell(u.members[i])>> : i \in DOMAIN t.members}

PartOf(t, part) ==
  IF t.tag \in {"fn", "tuple", "struct"} THEN Cell(t.members[part.name]) ELSE Cell(part.members[1])

HasPart(t, part) == t.tag \in {"fn", "tuple", "struct"} => part.name \in DOMAIN t.members

Consequences(facts) ==
  UNION {LET types_in == {t \in class : IsConstructor(t)}
             parts == {p \in TermsOf(facts) : p.tag = "part" /\ Cell(p.members[1]) \in class}
         IN  (UNION {EqualParts(e[1], e[2]) :
                       e \in {e \in types_in \X types_in : Term(e[1]) = Term(e[2])}})
             \cup {<<e[2], PartOf(e[1], e[2])>> :
                      e \in {e \in types_in \X parts : HasPart(e[1], e[2])}}
         : class \in Classes(facts)}

Closure(facts) ==
  LET terms == TermsOf(facts)
      all == terms \cup UNION {{Cell(c) : c \in Range(t.members)} : t \in terms}
      close[known \in SUBSET (all \X all)] ==
        LET more == known \cup Consequences(known)
        IN  IF more = known THEN known ELSE close[more]
  IN  close[facts]

\* Some types satisfy the facts: no two with different constructors must be equal.
Solvable(facts) ==
  \A class \in Classes(Closure(facts)) : \A t, u \in class :
    IsConstructor(t) /\ IsConstructor(u) => Term(t) = Term(u)

\* Type invariant: cells hold types whose members are cells, the environment
\* binds variables to types and every equation is about cells that exist
\* (unify_types.c passes pointers to copies on the stack and the heap).
UnifyTypeOK ==
  /\ \A c \in DOMAIN types : IsType(types[c])
  /\ DOMAIN env \subseteq Nat
  /\ \A v \in DOMAIN env : IsType(env[v])
  /\ \A i \in DOMAIN agenda : agenda[i].do = "unify" =>
       {agenda[i].l, agenda[i].r} \subseteq DOMAIN types
  /\ error_flag \in BOOLEAN
  /\ lapses \subseteq {"entangled", "occurs", "overwritten", "arity", "contents", "nameless"}

\* The error flag is set only when what the callers said has no solution, in
\* whatever order and through whatever chain of bindings, copies and parts the
\* contradiction was reached (unify, line 170).
ErrorsAreReal == error_flag => ~Solvable(given)

\* The environment is a solution: once everything is unified without an error,
\* the two sides of every equation have the same type in it, also those of
\* equations whose variables were bound anew later, unless a lapse happened.  The
\* re-unification of the old binding at the end of unify is what this takes.
Solution(term) == IF term.tag = "var" THEN Term(Follow(Var(term.of))) ELSE term

EnvironmentSolves ==
  Idle /\ ~error_flag /\ lapses = {} =>
    \A e \in posted : Solution(e[1]) = Solution(e[2])

\* The environment has no cycle, on which follow_links would never end, unless a
\* variable was related to itself through earlier bindings.
Acyclic == "entangled" \notin lapses => \A v \in DOMAIN env : Ends(Var(v))

\* A type that is known is never changed in place: the cells unify writes
\* through its pointers (l and r of unify_vars, the members of unify_fn) may
\* be shared with other types and nodes, and only variables are replaced.
KnownTypesAreKept ==
  [][\A c \in DOMAIN types : types[c].tag \in GroundTags => types'[c] = types[c]]_types

=============================================================================
