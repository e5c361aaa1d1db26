------------------------ MODULE MCGenericSymbolTable ------------------------
(***************************************************************************)
(* The macro's table under the code's own hash, on the names the compiler  *)
(* gives to type variables ('t1, 't2, 't18 and so on).  MaxInsertions      *)
(* bounds the insertions that the frames have counted.                     *)
(***************************************************************************)
EXTENDS GenericSymbolTable, NameHash, FiniteSetsExt

CONSTANTS MaxInsertions

\* The names of the 1st, 2nd and 18th type variable, as _tvar writes them.
TypeVars == {<<39, 116, 49>>, <<39, 116, 50>>, <<39, 116, 49, 56>>}
CodeHash == [name \in TypeVars |-> hash(name, TABLE_SIZE)]

Insertions == MapThenSumSet(LAMBDA i : stack[i].allocated_entries, FrameIds)

MCGenericNext ==
  \/ generic_push_frame
  \/ generic_pop_frame
  \/ \E k \in Keys, v \in Values :
       generic_table_insert(k, v) /\ Insertions' <= MaxInsertions

MCGenericSpec == init_lang_table /\ [][MCGenericNext]_vars

=============================================================================
