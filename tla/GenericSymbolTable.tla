------------------------- MODULE GenericSymbolTable -------------------------
(***************************************************************************)
(* The symbol tables of the type checker, of its environment of type       *)
(* variables and of the module registry: instances of the macro            *)
(* INIT_SYM_TABLE (generic_symbol_table.h).  Frames, chains and the walk   *)
(* of a lookup are those of symbol_table.c; an insertion is not: it looks  *)
(* for an entry to update.  runner.c starts the table in frame 0.          *)
(***************************************************************************)
EXTENDS SymbolTable

-----------------------------------------------------------------------------
(* One frame.                                                              *)

\* The first entry of the chain has the key k.
HeadHas(chain, k) == chain # <<>> /\ chain[1].key = k

\* (A faulty form, for the mutation runs: a new entry takes the place of the
\* chain.)
env_insert_replaces(frame, k, v) ==
  WithChain(frame, k, <<[key |-> k, value |-> v]>>)

\* The chain once k is bound to v: its first entry is updated when it has the key;
\* otherwise the walk to the end of the chain compares no key and adds an entry.
ChainInsert(chain, k, v) ==
  IF HeadHas(chain, k)
  THEN [chain EXCEPT ![1].value = v]
  ELSE Append(chain, [key |-> k, value |-> v])

\* allocated_entries grows in both cases.
env_insert(frame, k, v) == WithChain(frame, k, ChainInsert(Chain(frame, k), k, v))

\* env_lookup succeeds when the chain has the key, with the first entry's value.
env_found(frame, k) == Has(Chain(frame, k), k)
env_lookup(frame, k) == FirstValue(Chain(frame, k), k)

-----------------------------------------------------------------------------
(* The table.                                                              *)

init_lang_table ==
  /\ stack = [i \in FrameIds |-> [entries |-> NoEntries, allocated_entries |-> 0]]
  /\ current_frame_index = 0

generic_push_frame == push_frame

generic_pop_frame == pop_frame

generic_table_insert(k, v) ==
  /\ Inside /\ current_frame_index >= 0
  /\ stack' = [stack EXCEPT ![current_frame_index] = env_insert(@, k, v)]
  /\ UNCHANGED current_frame_index

GenericNext ==
  \/ generic_push_frame
  \/ generic_pop_frame
  \/ \E k \in Keys, v \in Values : generic_table_insert(k, v)

GenericSpec == init_lang_table /\ [][GenericNext]_vars

-----------------------------------------------------------------------------
(* What the table promises.                                                *)

Updating == INSTANCE Scopes WITH
              Overwrites <- TRUE,
              scopes <- ScopesOf(stack, Innermost)

\* The table is a stack of lexical scopes in which binding a name again in the
\* same scope updates it, or does nothing (env_insert), and never touches another
\* name, whatever names share a bucket.
ImplementsUpdatingScopes == Updating!Spec

\* tests/symbol_table_test.c: the second of two insertions of a name "updates
\* value in symbol table", that is, a lookup right after an insertion returns
\* the value inserted.
InsertionIsVisible ==
  [][\A k \in Keys, v \in Values : generic_table_insert(k, v) => table_lookup(k)' = v]_vars

=============================================================================
