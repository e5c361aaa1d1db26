---------------------------- MODULE SymbolTable ----------------------------
(***************************************************************************)
(* The code generator's symbol table (symbol_table.c): an array of         *)
(* STACK_SIZE frames, each a hash table of TABLE_SIZE buckets whose        *)
(* entries are chained in insertion order, and the index of the current    *)
(* frame, which starts at -1.  enter_scope and exit_scope of the code      *)
(* generator are push_frame and pop_frame.                                 *)
(*                                                                         *)
(* Nothing stops push_frame at the end of the array: the frame after the   *)
(* last one is written past the table, and from then on C says nothing     *)
(* about what the operations do.  They are modelled up to that write.      *)
(***************************************************************************)
EXTENDS Integers, Sequences

CONSTANTS
  Keys,         \* identifiers
  Values,       \* SymbolValue records
  TABLE_SIZE,   \* buckets of a frame (100 in symbol_table.h)
  STACK_SIZE,   \* frames of the table (100 in symbol_table.h)
  Hash          \* the bucket of each key: hash() depends on the key alone

Buckets == 0 .. TABLE_SIZE - 1
FrameIds == 0 .. STACK_SIZE - 1

ASSUME SizeAssumption == TABLE_SIZE \in Nat \ {0} /\ STACK_SIZE \in Nat \ {0}
ASSUME HashAssumption == Hash \in [Keys -> Buckets]

VARIABLES
  stack,                \* the frames, the unused ones included
  current_frame_index   \* the frame names are bound in

vars == <<stack, current_frame_index>>

-----------------------------------------------------------------------------
(* Frames and chains.                                                      *)

Entry == [key : Keys, value : Values]
Frame == [entries : [Buckets -> Seq(Entry)], allocated_entries : Nat]

NoEntries == [b \in Buckets |-> <<>>]

Chain(frame, k) == frame.entries[Hash[k]]

\* The frame after an insertion that made chain the chain of k.
WithChain(frame, k, chain) ==
  [entries |-> [frame.entries EXCEPT ![Hash[k]] = chain],
   allocated_entries |-> frame.allocated_entries + 1]

\* Some entry of the chain has the key k.
Has(chain, k) == \E i \in DOMAIN chain : chain[i].key = k

\* i is where a walk along the chain meets the key k.
MeetsAt(chain, k, i) ==
  /\ i \in DOMAIN chain
  /\ chain[i].key = k
  /\ \A j \in 1 .. i - 1 : chain[j].key # k

\* The value the walk returns; it has no meaning when the chain lacks k.
FirstValue(chain, k) == chain[CHOOSE i \in DOMAIN chain : MeetsAt(chain, k, i)].value

\* The current frame is one of the table, or there is none yet.
Inside == current_frame_index < STACK_SIZE

\* (A faulty form, for the mutation runs: the walk starts at frame 0.)
FoundInOutermost(k, i) ==
  /\ i \in 0 .. current_frame_index
  /\ Has(Chain(stack[i], k), k)
  /\ \A j \in 0 .. i - 1 : ~Has(Chain(stack[j], k), k)

\* i is the frame where a walk from the current frame outwards meets k.
FoundIn(k, i) ==
  /\ i \in 0 .. current_frame_index
  /\ Has(Chain(stack[i], k), k)
  /\ \A j \in i + 1 .. current_frame_index : ~Has(Chain(stack[j], k), k)

\* table_lookup returns 0 (the key is visible) or 1 ...
Found(k) == \E i \in 0 .. current_frame_index : FoundIn(k, i)

\* ... and stores the value of the innermost frame that has the key.
table_lookup(k) ==
  FirstValue(Chain(stack[CHOOSE i \in 0 .. current_frame_index : FoundIn(k, i)], k), k)

-----------------------------------------------------------------------------
(* The operations.                                                         *)

init_symbol_table ==
  /\ stack = [i \in FrameIds |-> [entries |-> NoEntries, allocated_entries |-> 0]]
  /\ current_frame_index = -1

\* Faulty forms of the operations, for the mutation runs: a pop that leaves the
\* entries, a pop of the outermost frame too, an insertion at the head of the chain.
pop_frame_keeps_entries ==
  /\ Inside /\ current_frame_index > 0
  /\ current_frame_index' = current_frame_index - 1
  /\ UNCHANGED stack

pop_frame_unguarded ==
  /\ Inside
  /\ stack' = [stack EXCEPT ![current_frame_index] =
                  [entries |-> NoEntries, allocated_entries |-> @.allocated_entries]]
  /\ current_frame_index' = current_frame_index - 1

table_insert_at_head(k, v) ==
  /\ Inside /\ current_frame_index >= 0
  /\ stack' = [stack EXCEPT ![current_frame_index] =
                  WithChain(@, k, <<[key |-> k, value |-> v]>> \o Chain(@, k))]
  /\ UNCHANGED current_frame_index

\* The frame pushed is used as it was left: only its counter is reset.  The index
\* is not compared with STACK_SIZE, and past the last frame the counter written is
\* none of the table's.
push_frame ==
  /\ Inside
  /\ current_frame_index' = current_frame_index + 1
  /\ IF current_frame_index' \in FrameIds
     THEN stack' = [stack EXCEPT ![current_frame_index + 1] =
                       [entries |-> @.entries, allocated_entries |-> 0]]
     ELSE UNCHANGED stack

\* Every chain of the frame is freed and its bucket set to NULL; the counter
\* keeps its value.  At frame 0 (and before the first push) nothing happens.
pop_frame ==
  \/ /\ Inside /\ current_frame_index > 0
     /\ stack' = [stack EXCEPT ![current_frame_index] =
                     [entries |-> NoEntries, allocated_entries |-> @.allocated_entries]]
     /\ current_frame_index' = current_frame_index - 1
  \/ /\ current_frame_index <= 0
     /\ UNCHANGED vars

\* A new entry at the end of its chain, whether or not the key is there. That there
\* is a frame is up to the callers: code generation pushes one before it binds.
table_insert(k, v) ==
  /\ Inside /\ current_frame_index >= 0
  /\ stack' = [stack EXCEPT ![current_frame_index] =
                  WithChain(@, k, Append(Chain(@, k), [key |-> k, value |-> v]))]
  /\ UNCHANGED current_frame_index

Next ==
  \/ push_frame
  \/ pop_frame
  \/ \E k \in Keys, v \in Values : table_insert(k, v)

Spec == init_symbol_table /\ [][Next]_vars

-----------------------------------------------------------------------------
(* What the table promises.                                                *)

\* Type invariant: there are STACK_SIZE frames, each a hash table, and the index is
\* that of a frame, -1 before the first is pushed (pop_frame never leaves frame 0), or
\* STACK_SIZE once a frame too many is.
TypeOK ==
  /\ stack \in [FrameIds -> Frame]
  /\ current_frame_index \in -1 .. STACK_SIZE

\* A frame beyond the current one holds no entry.  push_frame relies on it: it
\* does not clear the buckets, so what a popped scope left there would be
\* visible in the next scope pushed at that depth.
FreeFramesEmpty ==
  \A i \in FrameIds : i > current_frame_index => stack[i].entries = NoEntries

\* The names a frame binds, each with the first of its entries.
Bindings(frame) ==
  [k \in {x \in Keys : Has(Chain(frame, x), x)} |-> FirstValue(Chain(frame, k), k)]

ScopesOf(frames, top) == [i \in 1 .. top + 1 |-> Bindings(frames[i - 1])]

\* The innermost frame of the table: past its end, the last.
Innermost == IF Inside THEN current_frame_index ELSE STACK_SIZE - 1

Abstract == INSTANCE Scopes WITH
              Overwrites <- FALSE,
              scopes <- ScopesOf(stack, Innermost)

\* The table is a stack of lexical scopes in which the first binding of a name
\* in a scope wins, table_insert never replacing an entry (symbol_table.c), for as
\* long as the frames are frames of the table.
ImplementsScopes == Abstract!Spec

\* table_lookup finds a name exactly when some scope in use binds it, and then
\* returns the value of the innermost of those scopes.
LookupIsInnermost ==
  Inside =>
    \A k \in Keys :
      /\ Found(k) <=> Abstract!Visible(k)
      /\ Found(k) => table_lookup(k) = Abstract!Resolve(k)

=============================================================================
