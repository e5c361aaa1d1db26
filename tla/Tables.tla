------------------------------- MODULE Tables -------------------------------
(***************************************************************************)
(* The two symbol tables of a session side by side: the code generator's   *)
(* (symbol_table.c), and the type checker's, an instance of the macro.     *)
(* Both are given the same operations, so that what they answer can be     *)
(* compared: the passes take a name for the same thing only as far as      *)
(* their tables agree.  Code generation pushes frame 0 before it binds     *)
(* anything (codegen_main); the type checker starts in frame 0.            *)
(***************************************************************************)
EXTENDS SymbolTable

VARIABLES
  checker_stack,         \* the frames of the type checker's table
  checker_frame_index    \* and its current frame

checker_vars == <<checker_stack, checker_frame_index>>

Checker == INSTANCE GenericSymbolTable WITH
             stack <- checker_stack,
             current_frame_index <- checker_frame_index

-----------------------------------------------------------------------------

Init == init_symbol_table /\ Checker!init_lang_table

\* The frame of the first input; the type checker is in it already.
FirstFrame ==
  /\ current_frame_index = -1
  /\ push_frame
  /\ UNCHANGED checker_vars

EnterScope ==
  /\ current_frame_index >= 0
  /\ push_frame
  /\ Checker!generic_push_frame

ExitScope ==
  /\ pop_frame
  /\ Checker!generic_pop_frame

BindName(k, v) ==
  /\ table_insert(k, v)
  /\ Checker!generic_table_insert(k, v)

TablesNext ==
  \/ FirstFrame
  \/ EnterScope
  \/ ExitScope
  \/ \E k \in Keys, v \in Values : BindName(k, v)

TablesSpec == Init /\ [][TablesNext]_<<vars, checker_vars>>

-----------------------------------------------------------------------------
(* What the tables promise.                                                *)

\* The type checker's table is a stack of lexical scopes in which binding a name
\* again updates it or does nothing (env_insert).
CheckerImplementsScopes == Checker!ImplementsUpdatingScopes

\* The frame where code generation finds k bound it first of the bucket, and again.
BoundAgain(k) ==
  \E i \in FrameIds :
    /\ FoundIn(k, i)
    /\ Checker!HeadHas(Chain(stack[i], k), k)
    /\ Has(Tail(Chain(stack[i], k)), k)

\* A name is visible in both tables or in neither, in the same frame, and with the
\* same value unless it is bound again there: then code generation goes on with the
\* first value and the type checker with the last. (A name behind another one keeps
\* its first value in both.)  And they leave their arrays together: scopes for which
\* the type checker has frames do not overrun the table of code generation.
TablesAgree ==
  /\ Inside <=> Checker!Inside
  /\ Inside =>
       \A k \in Keys :
         /\ \A i \in FrameIds : FoundIn(k, i) <=> Checker!FoundIn(k, i)
         /\ Found(k) /\ table_lookup(k) # Checker!table_lookup(k) => BoundAgain(k)

=============================================================================
