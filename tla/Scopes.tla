------------------------------- MODULE Scopes -------------------------------
(***************************************************************************)
(* What a symbol table of the compiler promises to the passes that use it: *)
(* a stack of lexical scopes, each a partial map from names to values.     *)
(* Both tables of the code (symbol_table.c for code generation, the macro  *)
(* generic_symbol_table.h for type checking) are shown to implement this   *)
(* specification; they differ only in what binding a name a second time    *)
(* in one scope means, which is the constant Overwrites.                   *)
(***************************************************************************)
EXTENDS Integers, Sequences

CONSTANTS
  Keys,        \* the names a program can bind
  Values,      \* what a name can be bound to
  Overwrites   \* TRUE: rebinding in the same scope replaces the value
               \* FALSE: the first binding of the scope stays the visible one

VARIABLE scopes   \* outermost scope first, each a function on its bound names

-----------------------------------------------------------------------------

Scope == UNION {[bound -> Values] : bound \in SUBSET Keys}

Empty == [k \in {} |-> k]

\* The scope s once k is bound to v in it.
Bound(s, k, v) ==
  IF k \in DOMAIN s /\ ~Overwrites
  THEN s
  ELSE [x \in DOMAIN s \cup {k} |-> IF x = k THEN v ELSE s[x]]

Visible(k) == \E i \in DOMAIN scopes : k \in DOMAIN scopes[i]

\* The value of the innermost scope that binds k.
Resolve(k) ==
  LET i == CHOOSE i \in DOMAIN scopes :
             /\ k \in DOMAIN scopes[i]
             /\ \A j \in DOMAIN scopes : j > i => k \notin DOMAIN scopes[j]
  IN  scopes[i][k]

-----------------------------------------------------------------------------

Init == scopes = <<>> \/ scopes = <<Empty>>

Enter == scopes' = Append(scopes, Empty)

\* The outermost scope is never left: it is the program's global scope.
Exit ==
  /\ Len(scopes) > 1
  /\ scopes' = SubSeq(scopes, 1, Len(scopes) - 1)

Bind(k, v) ==
  /\ scopes # <<>>
  /\ scopes' = [scopes EXCEPT ![Len(scopes)] = Bound(@, k, v)]

Next ==
  \/ Enter
  \/ Exit
  \/ \E k \in Keys, v \in Values : Bind(k, v)

Spec == Init /\ [][Next]_scopes

=============================================================================
