------------------------- MODULE SymbolTableProofs -------------------------
(***************************************************************************)
(* The code generator's symbol table implements lexical scopes, for every  *)
(* number of buckets and frames, every set of keys and every hash; so does *)
(* the macro's, with bindings that can be updated.  Its frames are entered *)
(* and left in the same way, under the same invariant: only the insertion  *)
(* has to be proved anew.                                                  *)
(***************************************************************************)
EXTENDS GenericSymbolTable, SequenceTheorems, TLAPS

-----------------------------------------------------------------------------
(* Chains.                                                                 *)

\* A chain that has the key k meets it somewhere: among the entries of k one
\* comes first.  Kept by every operation, it stands in for an induction on
\* the length of the chain.
Meets(chain) ==
  \A k \in Keys : Has(chain, k) => \E i \in DOMAIN chain : MeetsAt(chain, k, i)

\* The walk meets a key at one place only.
LEMMA MeetsOnce ==
  ASSUME NEW c \in Seq(Entry), NEW k \in Keys,
         NEW i \in DOMAIN c, NEW j \in DOMAIN c,
         MeetsAt(c, k, i), MeetsAt(c, k, j)
  PROVE  i = j
BY DEF MeetsAt

\* What the walk returns once the place where it meets the key is known.
LEMMA FirstValueAt ==
  ASSUME NEW c \in Seq(Entry), NEW k \in Keys,
         NEW i \in DOMAIN c, MeetsAt(c, k, i)
  PROVE  FirstValue(c, k) = c[i].value
<1>1. \A j \in DOMAIN c : MeetsAt(c, k, j) => j = i
  BY MeetsOnce
<1>2. QED
  BY <1>1 DEF FirstValue

\* An entry added at the end of a chain leaves the first value of every key
\* the chain has, and is itself the first for its key if that key was absent.
LEMMA AppendKeepsFirst ==
  ASSUME NEW c \in Seq(Entry), Meets(c), NEW key \in Keys, NEW v \in Values
  PROVE  LET d == Append(c, [key |-> key, value |-> v])
         IN  /\ d \in Seq(Entry)
             /\ Meets(d)
             /\ \A k \in Keys : Has(d, k) <=> Has(c, k) \/ k = key
             /\ \A k \in Keys : Has(c, k) => FirstValue(d, k) = FirstValue(c, k)
             /\ ~Has(c, key) => FirstValue(d, key) = v
<1> DEFINE e == [key |-> key, value |-> v]
           d == Append(c, e)
<1>1. /\ e \in Entry
      /\ d \in Seq(Entry)
      /\ DOMAIN c = 1 .. Len(c)
      /\ DOMAIN d = 1 .. Len(c) + 1
      /\ \A i \in DOMAIN c : d[i] = c[i]
      /\ d[Len(c) + 1] = e
      /\ Len(c) \in Nat
  BY DEF Entry
<1> HIDE DEF d
<1>2. \A k \in Keys : Has(d, k) <=> Has(c, k) \/ k = key
  BY <1>1 DEF Has
<1>3. \A k \in Keys, i \in DOMAIN c : MeetsAt(c, k, i) => i \in DOMAIN d /\ MeetsAt(d, k, i)
  BY <1>1 DEF MeetsAt
<1>4. ~Has(c, key) => MeetsAt(d, key, Len(c) + 1)
  BY <1>1 DEF MeetsAt, Has
<1>5. Meets(d)
  BY <1>1, <1>2, <1>3, <1>4 DEF Meets
<1>6. ASSUME NEW k \in Keys, Has(c, k)
      PROVE  FirstValue(d, k) = FirstValue(c, k)
  <2>1. PICK i \in DOMAIN c : MeetsAt(c, k, i)
    BY <1>6 DEF Meets
  <2>2. FirstValue(c, k) = c[i].value
    BY <2>1, FirstValueAt
  <2>3. FirstValue(d, k) = d[i].value
    BY <1>1, <1>3, <2>1, FirstValueAt
  <2>4. QED
    BY <1>1, <2>2, <2>3
<1>7. ~Has(c, key) => FirstValue(d, key) = v
  BY <1>1, <1>4, FirstValueAt
<1>8. QED
  BY <1>1, <1>2, <1>5, <1>6, <1>7 DEF d

-----------------------------------------------------------------------------
(* The inductive invariant.                                                *)

ChainsMeet == \A i \in FrameIds, b \in Buckets : Meets(stack[i].entries[b])

\* Among the frames 0 .. n that have the key, i is the innermost.
InnermostOf(k, n, i) ==
  /\ i \in 0 .. n
  /\ Has(Chain(stack[i], k), k)
  /\ \A j \in i + 1 .. n : ~Has(Chain(stack[j], k), k)

\* Whatever frames are popped, a key some frame has is in an innermost one; the
\* counterpart of Meets for the walk from frame to frame.
FramesMeet ==
  \A k \in Keys, n \in 0 .. current_frame_index :
    (\E i \in 0 .. n : Has(Chain(stack[i], k), k)) => \E i \in 0 .. n : InnermostOf(k, n, i)

IInv == Inside /\ TypeOK /\ FreeFramesEmpty /\ ChainsMeet /\ FramesMeet

\* Once a frame too many is pushed, nothing is said but what the table is.
TableInv == IInv \/ (~Inside /\ TypeOK)

\* Inside the table, Innermost is the index.
LEMMA InnermostIsCurrent ==
  /\ Inside => Innermost = current_frame_index
  /\ Inside' => Innermost' = current_frame_index'
BY DEF Innermost

\* Once a frame is popped, its buckets are NULL and no other frame has changed.
LEMMA AfterPop ==
  ASSUME TypeOK, pop_frame, current_frame_index > 0
  PROVE  /\ TypeOK' /\ Inside'
         /\ current_frame_index' = current_frame_index - 1
         /\ \A i \in FrameIds : i # current_frame_index => stack'[i] = stack[i]
         /\ stack'[current_frame_index].entries = NoEntries
<1>1. /\ current_frame_index \in FrameIds
      /\ current_frame_index' = current_frame_index - 1
      /\ stack' = [stack EXCEPT ![current_frame_index] =
                    [entries |-> NoEntries, allocated_entries |-> @.allocated_entries]]
  BY SizeAssumption DEF pop_frame, TypeOK, FrameIds, Inside
<1>2. NoEntries \in [Buckets -> Seq(Entry)]
  BY DEF NoEntries
<1>3. stack[current_frame_index] \in Frame
  BY <1>1 DEF TypeOK
<1>4. stack' \in [FrameIds -> Frame]
  BY <1>1, <1>2, <1>3 DEF TypeOK, Frame
<1>5. QED
  BY <1>1, <1>3, <1>4, SizeAssumption DEF TypeOK, FrameIds, Frame, Inside

\* The frame pushed when the current one is the last is past the table.
LEMMA PushPast ==
  ASSUME TypeOK, push_frame, ~Inside'
  PROVE  TypeOK' /\ current_frame_index = STACK_SIZE - 1 /\ UNCHANGED stack
BY SizeAssumption DEF push_frame, TypeOK, FrameIds, Inside

\* Any other frame pushed has the entries it had before: push_frame clears none.
LEMMA AfterPush ==
  ASSUME TypeOK, push_frame, Inside'
  PROVE  /\ TypeOK'
         /\ current_frame_index' = current_frame_index + 1
         /\ current_frame_index' \in FrameIds
         /\ \A i \in FrameIds : stack'[i].entries = stack[i].entries
<1>1. /\ current_frame_index + 1 \in FrameIds
      /\ current_frame_index' = current_frame_index + 1
      /\ stack' = [stack EXCEPT ![current_frame_index + 1] =
                    [entries |-> @.entries, allocated_entries |-> 0]]
  BY SizeAssumption DEF push_frame, TypeOK, FrameIds, Inside
<1>2. stack[current_frame_index + 1] \in Frame
  BY <1>1 DEF TypeOK
<1>3. stack' \in [FrameIds -> Frame]
  BY <1>1, <1>2 DEF TypeOK, Frame
<1>4. QED
  BY <1>1, <1>2, <1>3, SizeAssumption DEF TypeOK, FrameIds, Frame

\* An insertion appends to one chain of the current frame.
LEMMA AfterInsert ==
  ASSUME TypeOK, NEW k \in Keys, NEW v \in Values, table_insert(k, v)
  PROVE  /\ TypeOK' /\ Inside'
         /\ current_frame_index \in FrameIds
         /\ current_frame_index' = current_frame_index
         /\ \A i \in FrameIds : i # current_frame_index => stack'[i] = stack[i]
         /\ \A b \in Buckets : b # Hash[k] =>
              stack'[current_frame_index].entries[b] = stack[current_frame_index].entries[b]
         /\ stack'[current_frame_index].entries[Hash[k]] =
              Append(stack[current_frame_index].entries[Hash[k]], [key |-> k, value |-> v])
<1> DEFINE top == current_frame_index
           e == [key |-> k, value |-> v]
           f == WithChain(stack[top], k, Append(stack[top].entries[Hash[k]], e))
<1>1. /\ top \in FrameIds
      /\ current_frame_index' = top
      /\ Hash[k] \in Buckets
      /\ e \in Entry
  BY SizeAssumption, HashAssumption DEF table_insert, TypeOK, FrameIds, Entry, Inside
<1>2. stack[top] \in Frame
  BY <1>1 DEF TypeOK
<1>3. stack' = [stack EXCEPT ![top] = f]
  BY DEF table_insert, Chain
<1>4. /\ f.entries = [stack[top].entries EXCEPT ![Hash[k]] = Append(@, e)]
      /\ f \in Frame
  BY <1>1, <1>2 DEF Frame, WithChain
<1> HIDE DEF f
<1>5. stack' \in [FrameIds -> Frame]
  BY <1>1, <1>3, <1>4 DEF TypeOK
<1>6. stack'[top] = f
  BY <1>1, <1>3 DEF TypeOK
<1>7. QED
  BY <1>1, <1>2, <1>3, <1>4, <1>5, <1>6 DEF TypeOK, Frame, table_insert, Inside

-----------------------------------------------------------------------------
(* The invariant holds initially and is kept by each operation.            *)

LEMMA NothingInEmptyFrame ==
  ASSUME NEW frame, frame.entries = NoEntries, NEW k \in Keys
  PROVE  ~Has(Chain(frame, k), k)
BY HashAssumption DEF Has, Chain, NoEntries

LEMMA InitIInv == init_symbol_table => IInv
<1> SUFFICES ASSUME init_symbol_table PROVE IInv
  OBVIOUS
<1>1. TypeOK
  BY SizeAssumption DEF init_symbol_table, TypeOK, Frame, NoEntries, FrameIds
<1>2. FreeFramesEmpty
  BY DEF init_symbol_table, FreeFramesEmpty
<1>3. ChainsMeet
  BY DEF init_symbol_table, ChainsMeet, NoEntries, Meets, Has
<1>4. FramesMeet
  BY DEF init_symbol_table, FramesMeet
<1>5. QED
  BY <1>1, <1>2, <1>3, <1>4, SizeAssumption DEF IInv, init_symbol_table, Inside

LEMMA PopIInv == ASSUME IInv, pop_frame PROVE IInv'
<1>1. CASE current_frame_index > 0
  <2>1. /\ TypeOK'
        /\ current_frame_index' = current_frame_index - 1
        /\ \A i \in FrameIds : i # current_frame_index => stack'[i] = stack[i]
        /\ stack'[current_frame_index].entries = NoEntries
        /\ current_frame_index \in FrameIds
        /\ 0 .. current_frame_index \subseteq FrameIds
    BY <1>1, AfterPop, SizeAssumption DEF IInv, TypeOK, FrameIds, Inside
  <2>2. FreeFramesEmpty'
    BY <2>1 DEF IInv, FreeFramesEmpty, FrameIds
  <2>3. ChainsMeet'
    BY <2>1 DEF IInv, ChainsMeet, NoEntries, Meets, Has
  <2>4. FramesMeet'
    <3> SUFFICES ASSUME NEW k \in Keys, NEW n \in 0 .. current_frame_index - 1,
                        \E i \in 0 .. n : Has(Chain(stack'[i], k), k)
                 PROVE  \E i \in 0 .. n : InnermostOf(k, n, i)'
      BY <2>1 DEF FramesMeet
    <3>1. \A i \in 0 .. n : stack'[i] = stack[i]
      BY <2>1 DEF FrameIds
    <3>2. PICK i \in 0 .. n : InnermostOf(k, n, i)
      BY <2>1, <3>1 DEF IInv, FramesMeet, TypeOK
    <3>3. InnermostOf(k, n, i)'
      BY <3>1, <3>2 DEF InnermostOf
    <3>4. QED
      BY <3>3
  <2>5. QED
    BY <1>1, <2>1, <2>2, <2>3, <2>4, AfterPop DEF IInv
<1>2. CASE current_frame_index <= 0
  BY <1>2 DEF IInv, Inside, TypeOK, pop_frame, vars, FreeFramesEmpty, ChainsMeet, FramesMeet,
              InnermostOf
<1>3. QED
  BY <1>1, <1>2 DEF IInv, TypeOK

LEMMA PushIInv == ASSUME IInv, push_frame, Inside' PROVE IInv'
<1>1. /\ TypeOK'
      /\ current_frame_index' = current_frame_index + 1
      /\ current_frame_index' \in FrameIds
      /\ \A i \in FrameIds : stack'[i].entries = stack[i].entries
  BY AfterPush DEF IInv
<1>2. FreeFramesEmpty'
  BY <1>1 DEF IInv, FreeFramesEmpty, TypeOK, FrameIds
<1>3. ChainsMeet'
  BY <1>1 DEF IInv, ChainsMeet
<1>4. FramesMeet'
  <2> SUFFICES ASSUME NEW k \in Keys, NEW n \in 0 .. current_frame_index + 1,
                      NEW h \in 0 .. n, Has(Chain(stack'[h], k), k)
               PROVE  \E i \in 0 .. n : InnermostOf(k, n, i)'
    BY <1>1 DEF FramesMeet
  <2>1. \A i \in 0 .. current_frame_index + 1 : Chain(stack'[i], k) = Chain(stack[i], k)
    BY <1>1, SizeAssumption DEF Chain, FrameIds, IInv, TypeOK
  <2>2. ~Has(Chain(stack[current_frame_index + 1], k), k)
    BY <1>1, NothingInEmptyFrame DEF IInv, FreeFramesEmpty, TypeOK
  <2>3. CASE n = current_frame_index + 1
    <3>1. h \in 0 .. current_frame_index
      BY <2>1, <2>2, <2>3 DEF IInv, TypeOK
    <3>2. PICK i \in 0 .. current_frame_index : InnermostOf(k, current_frame_index, i)
      BY <2>1, <3>1 DEF IInv, FramesMeet, TypeOK
    <3>3. InnermostOf(k, n, i)'
      BY <2>1, <2>2, <2>3, <3>2 DEF InnermostOf, IInv, TypeOK
    <3>4. QED
      BY <3>3 DEF InnermostOf
  <2>4. CASE n # current_frame_index + 1
    <3>1. n \in 0 .. current_frame_index
      BY <2>4 DEF IInv, TypeOK
    <3>2. PICK i \in 0 .. n : InnermostOf(k, n, i)
      BY <2>1, <3>1 DEF IInv, FramesMeet, TypeOK
    <3>3. InnermostOf(k, n, i)'
      BY <2>1, <3>1, <3>2 DEF InnermostOf, IInv, TypeOK
    <3>4. QED
      BY <3>3
  <2>5. QED
    BY <2>3, <2>4
<1>5. QED
  BY <1>1, <1>2, <1>3, <1>4 DEF IInv

\* What an insertion does to the bindings of the frames: the top frame gains k,
\* all else is as before, and a key keeps its first value.
LEMMA InsertBinds ==
  ASSUME IInv, NEW k \in Keys, NEW v \in Values, table_insert(k, v)
  PROVE  /\ \A x \in Keys, i \in FrameIds :
              /\ Meets(Chain(stack'[i], x))
              /\ Has(Chain(stack'[i], x), x) <=>
                   (Has(Chain(stack[i], x), x) \/ (i = current_frame_index /\ x = k))
              /\ Has(Chain(stack[i], x), x) =>
                   FirstValue(Chain(stack'[i], x), x) = FirstValue(Chain(stack[i], x), x)
         /\ ~Has(Chain(stack[current_frame_index], k), k) =>
              FirstValue(Chain(stack'[current_frame_index], k), k) = v
<1> DEFINE top == current_frame_index
           c == stack[top].entries[Hash[k]]
           d == Append(c, [key |-> k, value |-> v])
<1>1. /\ top \in FrameIds
      /\ \A i \in FrameIds : i # top => stack'[i] = stack[i]
      /\ \A b \in Buckets : b # Hash[k] => stack'[top].entries[b] = stack[top].entries[b]
      /\ stack'[top].entries[Hash[k]] = d
  BY AfterInsert DEF IInv
<1>2. \A x \in Keys : Hash[x] \in Buckets
  BY HashAssumption
<1>3. c \in Seq(Entry) /\ Meets(c)
  BY <1>1, <1>2 DEF IInv, TypeOK, Frame, ChainsMeet
<1>4. /\ Meets(d)
      /\ \A x \in Keys : Has(d, x) <=> Has(c, x) \/ x = k
      /\ \A x \in Keys : Has(c, x) => FirstValue(d, x) = FirstValue(c, x)
      /\ ~Has(c, k) => FirstValue(d, k) = v
  BY <1>3, AppendKeepsFirst
<1> HIDE DEF d, c
<1>5. \A x \in Keys, i \in FrameIds : Meets(Chain(stack[i], x))
  BY <1>2 DEF IInv, ChainsMeet, Chain
<1>6. ASSUME NEW x \in Keys, NEW i \in FrameIds
      PROVE  \/ Chain(stack'[i], x) = Chain(stack[i], x) /\ ~(i = top /\ Hash[x] = Hash[k])
             \/ /\ i = top /\ Hash[x] = Hash[k]
                /\ Chain(stack'[i], x) = d /\ Chain(stack[i], x) = c
  BY <1>1, <1>2 DEF Chain, c
<1>7. QED
  BY <1>1, <1>4, <1>5, <1>6

\* When the only change to what the frames bind is that the current one binds k,
\* a key some frame has is still in an innermost one.
LEMMA FramesMeetAfterBinding ==
  ASSUME IInv, current_frame_index' = current_frame_index, NEW k \in Keys,
         current_frame_index \in FrameIds,
         \A x \in Keys, i \in FrameIds :
           Has(Chain(stack'[i], x), x) <=>
             (Has(Chain(stack[i], x), x) \/ (i = current_frame_index /\ x = k))
  PROVE  FramesMeet'
<1>1. 0 .. current_frame_index \subseteq FrameIds
  BY SizeAssumption DEF FrameIds
<1> SUFFICES ASSUME NEW x \in Keys, NEW n \in 0 .. current_frame_index,
                    NEW h \in 0 .. n, Has(Chain(stack'[h], x), x)
             PROVE  \E i \in 0 .. n : InnermostOf(x, n, i)'
  BY DEF FramesMeet
<1>2. CASE n = current_frame_index /\ x = k
  <2>1. InnermostOf(x, n, n)'
    BY <1>1, <1>2 DEF InnermostOf, FrameIds
  <2>2. QED
    BY <2>1 DEF InnermostOf
<1>3. CASE n # current_frame_index \/ x # k
  <2>1. \A i \in 0 .. n : Has(Chain(stack'[i], x), x) <=> Has(Chain(stack[i], x), x)
    BY <1>1, <1>3 DEF FrameIds
  <2>2. PICK i \in 0 .. n : InnermostOf(x, n, i)
    BY <2>1 DEF IInv, FramesMeet
  <2>3. InnermostOf(x, n, i)'
    BY <2>1, <2>2 DEF InnermostOf
  <2>4. QED
    BY <2>3
<1>4. QED
  BY <1>2, <1>3

LEMMA InsertIInv ==
  ASSUME IInv, NEW k \in Keys, NEW v \in Values, table_insert(k, v)
  PROVE  IInv'
<1>1. /\ TypeOK'
      /\ current_frame_index \in FrameIds
      /\ current_frame_index' = current_frame_index
      /\ \A i \in FrameIds : i # current_frame_index => stack'[i] = stack[i]
      /\ 0 .. current_frame_index \subseteq FrameIds
  <2>1. /\ TypeOK'
        /\ current_frame_index \in FrameIds
        /\ current_frame_index' = current_frame_index
        /\ \A i \in FrameIds : i # current_frame_index => stack'[i] = stack[i]
    BY AfterInsert DEF IInv
  <2>2. 0 .. current_frame_index \subseteq FrameIds
    BY <2>1, SizeAssumption DEF FrameIds
  <2>3. QED
    BY <2>1, <2>2
<1>2. FreeFramesEmpty'
  BY <1>1, SizeAssumption DEF IInv, FreeFramesEmpty, TypeOK, FrameIds
<1>3. ChainsMeet'
  <2>1. /\ stack[current_frame_index].entries[Hash[k]] \in Seq(Entry)
        /\ Meets(stack[current_frame_index].entries[Hash[k]])
    BY <1>1, HashAssumption DEF IInv, TypeOK, Frame, ChainsMeet
  <2>2. Meets(Append(stack[current_frame_index].entries[Hash[k]], [key |-> k, value |-> v]))
    BY <2>1, AppendKeepsFirst
  <2>3. Meets(stack'[current_frame_index].entries[Hash[k]])
    BY <2>2, AfterInsert DEF IInv
  <2>4. \A b \in Buckets : b # Hash[k] => Meets(stack'[current_frame_index].entries[b])
    BY <1>1, AfterInsert DEF IInv, ChainsMeet
  <2>5. ASSUME NEW i \in FrameIds, NEW b \in Buckets PROVE Meets(stack'[i].entries[b])
    <3>1. CASE i = current_frame_index
      BY <2>3, <2>4, <3>1
    <3>2. CASE i # current_frame_index
      BY <1>1, <3>2 DEF IInv, ChainsMeet
    <3>3. QED
      BY <3>1, <3>2
  <2>6. QED
    BY <2>5 DEF ChainsMeet
<1>4. FramesMeet'
  BY <1>1, InsertBinds, FramesMeetAfterBinding
<1>5. QED
  BY <1>1, <1>2, <1>3, <1>4, AfterInsert DEF IInv

\* Past the table no operation is defined.
LEMMA NothingPast ==
  ASSUME TypeOK, ~Inside
  PROVE  ~push_frame /\ ~pop_frame /\ \A k, v : ~table_insert(k, v) /\ ~generic_table_insert(k, v)
BY SizeAssumption DEF TypeOK, Inside, push_frame, pop_frame, table_insert, generic_table_insert

LEMMA PushTableInv == ASSUME IInv, push_frame PROVE TableInv'
<1>1. CASE Inside'
  BY <1>1, PushIInv DEF TableInv
<1>2. CASE ~Inside'
  BY <1>2, PushPast DEF TableInv, IInv
<1>3. QED
  BY <1>1, <1>2

LEMMA NextTableInv == TableInv /\ [Next]_vars => TableInv'
<1> SUFFICES ASSUME IInv, [Next]_vars PROVE TableInv'
  BY NothingPast DEF TableInv, Next, vars, TypeOK, Inside
<1>1. CASE push_frame
  BY <1>1, PushTableInv
<1>2. CASE pop_frame
  BY <1>2, PopIInv DEF TableInv
<1>3. ASSUME NEW k \in Keys, NEW v \in Values, table_insert(k, v) PROVE TableInv'
  BY <1>3, InsertIInv DEF TableInv
<1>4. CASE UNCHANGED vars
  BY <1>4 DEF TableInv, IInv, Inside, TypeOK, vars, FreeFramesEmpty, ChainsMeet, FramesMeet, InnermostOf
<1>5. QED
  BY <1>1, <1>2, <1>3, <1>4 DEF Next

\* The invariant holds in every reachable state.
LEMMA Invariance == Spec => []TableInv
<1>1. init_symbol_table => TableInv
  BY InitIInv DEF TableInv
<1>2. QED
  BY <1>1, NextTableInv, PTL DEF Spec

-----------------------------------------------------------------------------
(* The results.                                                            *)

\* The frames are hash tables and the index is that of a frame, or the one before the
\* first or after the last, for every hash and every size (push_frame, pop_frame).
THEOREM TypeCorrect == Spec => []TypeOK
<1>1. TableInv => TypeOK
  BY DEF TableInv, IInv
<1>2. QED
  BY <1>1, Invariance, PTL

\* A frame that is not in use has no entries, so the frame push_frame reuses
\* without clearing it starts empty.
THEOREM FreeFramesAreEmpty == Spec => []FreeFramesEmpty
<1>1. TableInv => FreeFramesEmpty
  BY SizeAssumption DEF TableInv, IInv, TypeOK, Inside, FreeFramesEmpty, FrameIds
<1>2. QED
  BY <1>1, Invariance, PTL

\* table_lookup finds what lexical scoping says: the binding of the innermost
\* scope that binds the name, and nothing when no scope does.
THEOREM LookupFindsInnermost == Spec => []LookupIsInnermost
<1>1. ASSUME IInv PROVE LookupIsInnermost
  <2> DEFINE top == current_frame_index
             S == ScopesOf(stack, top)
  <2>1. /\ top \in -1 .. STACK_SIZE - 1
        /\ DOMAIN S = 1 .. top + 1
        /\ \A i \in 1 .. top + 1 : S[i] = Bindings(stack[i - 1])
    BY <1>1, SizeAssumption DEF IInv, Inside, TypeOK, ScopesOf
  <2>2. \A frame : \A k \in Keys :
          /\ k \in DOMAIN Bindings(frame) <=> Has(Chain(frame, k), k)
          /\ Has(Chain(frame, k), k) => Bindings(frame)[k] = FirstValue(Chain(frame, k), k)
    BY DEF Bindings
  <2> SUFFICES ASSUME NEW k \in Keys
               PROVE  /\ Found(k) <=> Abstract!Visible(k)
                      /\ Found(k) => table_lookup(k) = Abstract!Resolve(k)
    BY DEF LookupIsInnermost
  <2>3. Abstract!Visible(k) <=> \E i \in 0 .. top : Has(Chain(stack[i], k), k)
    <3>1. ASSUME NEW i \in 0 .. top, Has(Chain(stack[i], k), k) PROVE Abstract!Visible(k)
      <4>1. i + 1 \in 1 .. top + 1 /\ (i + 1) - 1 = i
        BY <2>1, SizeAssumption
      <4>2. k \in DOMAIN S[i + 1]
        BY <2>1, <2>2, <3>1, <4>1
      <4>3. QED
        BY <1>1, InnermostIsCurrent, <2>1, <4>1, <4>2 DEF Abstract!Visible, IInv
    <3>2. ASSUME NEW i \in DOMAIN S, k \in DOMAIN S[i]
          PROVE  \E j \in 0 .. top : Has(Chain(stack[j], k), k)
      <4>1. i - 1 \in 0 .. top /\ Has(Chain(stack[i - 1], k), k)
        BY <2>1, <2>2, <3>2, SizeAssumption
      <4>2. QED
        BY <4>1
    <3>3. QED
      BY <1>1, InnermostIsCurrent, <3>1, <3>2 DEF Abstract!Visible, IInv
  <2>4. Found(k) <=> \E i \in 0 .. top : Has(Chain(stack[i], k), k)
    <3>1. \A i \in 0 .. top : FoundIn(k, i) <=> InnermostOf(k, top, i)
      BY DEF FoundIn, InnermostOf
    <3>2. ASSUME NEW i \in 0 .. top, Has(Chain(stack[i], k), k) PROVE Found(k)
      <4>1. top \in 0 .. top
        BY <2>1, SizeAssumption
      <4>2. PICK j \in 0 .. top : InnermostOf(k, top, j)
        BY <1>1, <3>2, <4>1 DEF IInv, FramesMeet
      <4>3. QED
        BY <3>1, <4>2 DEF Found
    <3>3. QED
      BY <3>2 DEF Found, FoundIn
  <2>5. ASSUME NEW i \in 0 .. top, FoundIn(k, i)
        PROVE  table_lookup(k) = Abstract!Resolve(k)
    <3>1. \A j \in 0 .. top : FoundIn(k, j) => j = i
      BY <2>1, <2>5, SizeAssumption DEF FoundIn
    <3>2. table_lookup(k) = FirstValue(Chain(stack[i], k), k)
      <4>1. (CHOOSE j \in 0 .. top : FoundIn(k, j)) = i
        BY <2>5, <3>1
      <4>2. QED
        BY <4>1 DEF table_lookup
    <3> DEFINE P(n) == /\ k \in DOMAIN S[n]
                       /\ \A j \in DOMAIN S : j > n => k \notin DOMAIN S[j]
    <3>3. i + 1 \in DOMAIN S /\ (i + 1) - 1 = i
      BY <2>1, SizeAssumption
    <3>4. P(i + 1)
      <4>1. k \in DOMAIN S[i + 1]
        BY <2>1, <2>2, <2>5, <3>3 DEF FoundIn
      <4>2. ASSUME NEW j \in DOMAIN S, j > i + 1 PROVE k \notin DOMAIN S[j]
        <5>1. j - 1 \in i + 1 .. top
          BY <2>1, <4>2, SizeAssumption
        <5>2. QED
          BY <2>1, <2>2, <2>5, <5>1 DEF FoundIn
      <4>3. QED
        BY <4>1, <4>2
    <3>5. \A n \in DOMAIN S : P(n) => n = i + 1
      BY <2>1, <3>3, <3>4, SizeAssumption
    <3>6. (CHOOSE n \in DOMAIN S : P(n)) = i + 1
      BY <3>3, <3>4, <3>5
    <3>7. Abstract!Resolve(k) = S[i + 1][k]
      BY <1>1, InnermostIsCurrent, <3>6 DEF Abstract!Resolve, IInv
    <3>8. QED
      BY <2>1, <2>2, <2>5, <3>2, <3>3, <3>7 DEF FoundIn
  <2>6. QED
    BY <2>3, <2>4, <2>5 DEF Found
<1>2. TableInv => LookupIsInnermost
  BY <1>1 DEF TableInv, LookupIsInnermost
<1>3. QED
  BY <1>2, Invariance, PTL

-----------------------------------------------------------------------------
(* The table as a stack of scopes.                                         *)

\* The scopes of the frames 0 .. n are a sequence of n + 1 of them.
LEMMA ScopesAreASequence ==
  ASSUME TypeOK, NEW n \in -1 .. STACK_SIZE - 1
  PROVE  /\ ScopesOf(stack, n) \in Seq({Bindings(stack[i]) : i \in FrameIds})
         /\ Len(ScopesOf(stack, n)) = n + 1
         /\ \A i \in 1 .. n + 1 : ScopesOf(stack, n)[i] = Bindings(stack[i - 1])
<1> DEFINE B == {Bindings(stack[i]) : i \in FrameIds}
           S == ScopesOf(stack, n)
<1>1. \A i \in 1 .. n + 1 : i - 1 \in FrameIds
  BY SizeAssumption DEF FrameIds
<1>2. S = [i \in 1 .. n + 1 |-> Bindings(stack[i - 1])]
  BY DEF ScopesOf
<1>3. S \in [1 .. n + 1 -> B]
  BY <1>1, <1>2
<1>4. n + 1 \in Nat
  BY SizeAssumption
<1>5. S \in Seq(B) /\ Len(S) = n + 1
  BY <1>3, <1>4
<1>6. QED
  BY <1>2, <1>5

\* A sequence with one more element than s is s with that element appended.
LEMMA OneMore ==
  ASSUME NEW X, NEW s \in Seq(X), NEW e, NEW T,
         DOMAIN T = 1 .. Len(s) + 1, T = [i \in DOMAIN T |-> T[i]],
         \A i \in 1 .. Len(s) : T[i] = s[i], T[Len(s) + 1] = e
  PROVE  T = Append(s, e)
<1> DEFINE Y == X \cup {e}
<1>1. s \in Seq(Y) /\ Len(s) \in Nat
  BY SeqMonotonic
<1>2. /\ Append(s, e) \in Seq(Y)
      /\ Len(Append(s, e)) = Len(s) + 1
      /\ \A i \in 1 .. Len(s) : Append(s, e)[i] = s[i]
      /\ Append(s, e)[Len(s) + 1] = e
  BY <1>1, AppendProperties
<1>3. \A i \in 1 .. Len(s) + 1 : T[i] \in Y /\ T[i] = Append(s, e)[i]
  BY <1>1, <1>2
<1>4. T \in Seq(Y) /\ Len(T) = Len(s) + 1
  BY <1>1, <1>3
<1> HIDE DEF Y
<1>5. QED
  BY <1>2, <1>3, <1>4, SeqEqual

\* A frame without entries is the empty scope.
LEMMA EmptyFrameIsEmptyScope ==
  ASSUME NEW frame, frame.entries = NoEntries
  PROVE  Bindings(frame) = Abstract!Empty
<1>1. {x \in Keys : Has(Chain(frame, x), x)} = {}
  BY NothingInEmptyFrame
<1>2. QED
  BY <1>1 DEF Bindings, Abstract!Empty

\* The initial table has no scope.
LEMMA InitImplements == init_symbol_table => Abstract!Init
<1> SUFFICES ASSUME init_symbol_table PROVE ScopesOf(stack, current_frame_index) = <<>>
  BY SizeAssumption DEF Abstract!Init, init_symbol_table, Innermost, Inside
<1>1. QED
  BY DEF init_symbol_table, ScopesOf

\* push_frame enters a scope.
LEMMA PushImplements == ASSUME IInv, push_frame, Inside' PROVE Abstract!Enter
<1> DEFINE top == current_frame_index
           S == ScopesOf(stack, top)
           T == ScopesOf(stack, top)'
<1>1. /\ TypeOK /\ TypeOK'
      /\ top' = top + 1
      /\ top' \in FrameIds
      /\ \A i \in FrameIds : stack'[i].entries = stack[i].entries
  BY AfterPush DEF IInv
<1>2. top \in -1 .. STACK_SIZE - 1 /\ top' \in -1 .. STACK_SIZE - 1
  BY <1>1, SizeAssumption DEF TypeOK, FrameIds, IInv, Inside
<1>3. /\ S \in Seq({Bindings(stack[i]) : i \in FrameIds})
      /\ Len(S) = top + 1
      /\ \A i \in 1 .. top + 1 : S[i] = Bindings(stack[i - 1])
  BY <1>1, <1>2, ScopesAreASequence
<1>4. /\ T = [i \in 1 .. top + 2 |-> Bindings(stack'[i - 1])]
  BY <1>1, <1>2, SizeAssumption DEF ScopesOf
<1>5. \A i \in FrameIds : Bindings(stack'[i]) = Bindings(stack[i])
  BY <1>1 DEF Bindings, Chain
<1>6. Bindings(stack'[top + 1]) = Abstract!Empty
  <2>1. stack'[top + 1].entries = NoEntries
    BY <1>1, <1>2, SizeAssumption DEF IInv, FreeFramesEmpty, FrameIds
  <2>2. QED
    BY <2>1, EmptyFrameIsEmptyScope
<1> HIDE DEF S, T
<1>7. \A i \in 1 .. top + 1 : T[i] = S[i]
  BY <1>1, <1>2, <1>3, <1>4, <1>5, SizeAssumption DEF FrameIds
<1>8. T[top + 2] = Abstract!Empty
  BY <1>2, <1>4, <1>6, SizeAssumption
<1>9. T = Append(S, Abstract!Empty)
  <2>1. DOMAIN T = 1 .. Len(S) + 1 /\ T = [i \in DOMAIN T |-> T[i]]
    BY <1>2, <1>3, <1>4, SizeAssumption
  <2>2. QED
    BY <1>2, <1>3, <1>7, <1>8, <2>1, OneMore, SizeAssumption
<1>10. QED
  BY <1>9, InnermostIsCurrent DEF Abstract!Enter, S, T, IInv

\* pop_frame leaves a scope, or does nothing in the outermost one.
LEMMA PopImplements ==
  ASSUME IInv, pop_frame
  PROVE  Abstract!Exit \/ UNCHANGED ScopesOf(stack, current_frame_index)
<1> DEFINE top == current_frame_index
           S == ScopesOf(stack, top)
           T == ScopesOf(stack, top)'
<1>1. CASE top > 0
  <2>1. /\ TypeOK
        /\ top' = top - 1
        /\ \A i \in FrameIds : i # top => stack'[i] = stack[i]
    BY <1>1, AfterPop DEF IInv
  <2>2. top \in -1 .. STACK_SIZE - 1
    BY <2>1, SizeAssumption DEF TypeOK, IInv, Inside
  <2>3. /\ S \in Seq({Bindings(stack[i]) : i \in FrameIds})
        /\ Len(S) = top + 1
        /\ \A i \in 1 .. top + 1 : S[i] = Bindings(stack[i - 1])
    BY <2>1, <2>2, ScopesAreASequence
  <2>4. T = [i \in 1 .. top |-> Bindings(stack'[i - 1])]
    BY <2>1, <2>2, SizeAssumption DEF ScopesOf
  <2> HIDE DEF S, T
  <2>5. \A i \in 1 .. top : T[i] = S[i]
    <3>1. \A i \in 1 .. top : i - 1 \in FrameIds /\ i - 1 # top
      BY <2>2, SizeAssumption DEF FrameIds
    <3>2. QED
      BY <2>1, <2>2, <2>3, <2>4, <3>1, SizeAssumption
  <2>6. T = SubSeq(S, 1, Len(S) - 1)
    BY <1>1, <2>2, <2>3, <2>4, <2>5, SizeAssumption
  <2>7. Len(S) > 1
    BY <1>1, <2>2, <2>3, SizeAssumption
  <2>8. QED
    BY <1>1, <2>6, <2>7, AfterPop, InnermostIsCurrent DEF Abstract!Exit, S, T, IInv
<1>2. CASE top <= 0
  BY <1>2 DEF pop_frame, vars, IInv, TypeOK
<1>3. QED
  BY <1>1, <1>2 DEF IInv, TypeOK

\* When only the current frame changes, only the last scope does.
LEMMA LastScopeChanges ==
  ASSUME TypeOK, current_frame_index \in FrameIds,
         current_frame_index' = current_frame_index,
         \A i \in FrameIds : i # current_frame_index => stack'[i] = stack[i]
  PROVE  LET S == ScopesOf(stack, current_frame_index)
         IN  /\ S # <<>>
             /\ S[Len(S)] = Bindings(stack[current_frame_index])
             /\ ScopesOf(stack, current_frame_index)' =
                  [S EXCEPT ![Len(S)] = Bindings(stack'[current_frame_index])]
<1> DEFINE top == current_frame_index
           S == ScopesOf(stack, top)
           T == ScopesOf(stack, top)'
           U == [S EXCEPT ![Len(S)] = Bindings(stack'[top])]
<1>1. top \in -1 .. STACK_SIZE - 1 /\ top \in Nat
  BY SizeAssumption DEF FrameIds
<1>2. /\ S \in Seq({Bindings(stack[i]) : i \in FrameIds})
      /\ Len(S) = top + 1
      /\ \A i \in 1 .. top + 1 : S[i] = Bindings(stack[i - 1])
  BY <1>1, ScopesAreASequence
<1>3. T = [i \in 1 .. top + 1 |-> Bindings(stack'[i - 1])]
  BY DEF ScopesOf
<1> HIDE DEF S, T
<1>4. \A i \in 1 .. top : T[i] = S[i]
  <2>1. \A i \in 1 .. top : i - 1 \in FrameIds /\ i - 1 # top
    BY <1>1, SizeAssumption DEF FrameIds
  <2>2. QED
    BY <1>1, <1>2, <1>3, <2>1
<1>5. T[top + 1] = Bindings(stack'[top]) /\ S[top + 1] = Bindings(stack[top])
  BY <1>1, <1>2, <1>3
<1>6. /\ DOMAIN S = 1 .. top + 1
      /\ T = [i \in 1 .. top + 1 |-> T[i]]
  BY <1>1, <1>2, <1>3
<1>7. /\ U = [i \in 1 .. top + 1 |-> U[i]]
      /\ \A i \in 1 .. top + 1 : U[i] = IF i = top + 1 THEN Bindings(stack'[top]) ELSE S[i]
  BY <1>2, <1>6
<1> HIDE DEF U
<1>8. \A i \in 1 .. top + 1 : T[i] = U[i]
  BY <1>1, <1>4, <1>5, <1>7
<1>9. T = U
  BY <1>6, <1>7, <1>8
<1>10. S # <<>>
  BY <1>1, <1>2
<1>11. QED
  BY <1>2, <1>5, <1>9, <1>10 DEF S, T, U

\* table_insert binds in the innermost scope, where an earlier binding wins.
LEMMA InsertImplements ==
  ASSUME IInv, NEW k \in Keys, NEW v \in Values, table_insert(k, v)
  PROVE  Abstract!Bind(k, v)
<1> DEFINE top == current_frame_index
<1>1. /\ TypeOK
      /\ top \in FrameIds
      /\ top' = top
      /\ \A i \in FrameIds : i # top => stack'[i] = stack[i]
  BY AfterInsert DEF IInv
<1>2. Bindings(stack'[top]) = Abstract!Bound(Bindings(stack[top]), k, v)
  <2> DEFINE b == Bindings(stack[top])
             d == Bindings(stack'[top])
  <2>1. /\ \A x \in Keys : Has(Chain(stack'[top], x), x) <=>
                             (Has(Chain(stack[top], x), x) \/ x = k)
        /\ \A x \in Keys : Has(Chain(stack[top], x), x) =>
             FirstValue(Chain(stack'[top], x), x) = FirstValue(Chain(stack[top], x), x)
        /\ ~Has(Chain(stack[top], k), k) => FirstValue(Chain(stack'[top], k), k) = v
    BY <1>1, InsertBinds
  <2>2. /\ d = [x \in DOMAIN b \cup {k} |-> FirstValue(Chain(stack'[top], x), x)]
        /\ \A x \in Keys : x \in DOMAIN b <=> Has(Chain(stack[top], x), x)
        /\ \A x \in DOMAIN b : x \in Keys /\ b[x] = FirstValue(Chain(stack[top], x), x)
        /\ b = [x \in DOMAIN b |-> b[x]]
    BY <2>1 DEF Bindings
  <2> HIDE DEF b, d
  <2>3. CASE k \in DOMAIN b
    <3>1. d = b
      BY <2>1, <2>2, <2>3
    <3>2. QED
      BY <2>3, <3>1 DEF Abstract!Bound, b, d
  <2>4. CASE k \notin DOMAIN b
    <3>1. \A x \in DOMAIN b \cup {k} :
            FirstValue(Chain(stack'[top], x), x) = IF x = k THEN v ELSE b[x]
      BY <2>1, <2>2, <2>4
    <3>2. d = [x \in DOMAIN b \cup {k} |-> IF x = k THEN v ELSE b[x]]
      BY <2>2, <3>1
    <3>3. QED
      BY <2>4, <3>2 DEF Abstract!Bound, b, d
  <2>5. QED
    BY <2>3, <2>4
<1>3. LET S == ScopesOf(stack, top)
      IN  /\ S # <<>>
          /\ S[Len(S)] = Bindings(stack[top])
          /\ ScopesOf(stack, top)' = [S EXCEPT ![Len(S)] = Bindings(stack'[top])]
  BY <1>1, LastScopeChanges
<1>4. QED
  BY <1>2, <1>3, AfterInsert, InnermostIsCurrent DEF Abstract!Bind, IInv

\* A frame too many is a stutter of the scopes: the table makes no promise about it.
LEMMA PushPastImplements ==
  ASSUME IInv, push_frame, ~Inside'
  PROVE  UNCHANGED ScopesOf(stack, Innermost)
<1>1. UNCHANGED stack /\ Innermost' = Innermost
  BY PushPast, InnermostIsCurrent DEF IInv, Innermost
<1>2. QED
  BY <1>1

LEMMA NextImplements ==
  TableInv /\ [Next]_vars => [Abstract!Next]_(ScopesOf(stack, Innermost))
<1> SUFFICES ASSUME TableInv, [Next]_vars
             PROVE  Abstract!Next \/ UNCHANGED ScopesOf(stack, Innermost)
  OBVIOUS
<1>1. CASE UNCHANGED vars
  BY <1>1 DEF vars, Innermost, Inside
<1>2. CASE Next
  <2>1. IInv
    BY <1>2, NothingPast DEF TableInv, Next
  <2>2. CASE push_frame
    BY <2>1, <2>2, PushImplements, PushPastImplements DEF Abstract!Next
  <2>3. CASE pop_frame
    <3>1. Inside /\ Inside'
      BY <2>1, <2>3, PopIInv DEF IInv
    <3>2. QED
      BY <2>1, <2>3, <3>1, PopImplements, InnermostIsCurrent DEF Abstract!Next
  <2>4. ASSUME NEW k \in Keys, NEW v \in Values, table_insert(k, v) PROVE Abstract!Next
    BY <2>1, <2>4, InsertImplements DEF Abstract!Next
  <2>5. QED
    BY <1>2, <2>2, <2>3, <2>4 DEF Next
<1>3. QED
  BY <1>1, <1>2

\* Every history of the table is a history of a stack of lexical scopes in
\* which the first binding of a name in a scope is the one that counts.
THEOREM TableImplementsScopes == Spec => ImplementsScopes
BY InitImplements, NextImplements, Invariance, PTL DEF Spec, ImplementsScopes, Abstract!Spec

-----------------------------------------------------------------------------
(* The generic table.                                                      *)

\* A walk meets the key of the first entry there.
LEMMA HeadIsMet ==
  ASSUME NEW c \in Seq(Entry), NEW k \in Keys, HeadHas(c, k)
  PROVE  1 \in DOMAIN c /\ MeetsAt(c, k, 1) /\ Has(c, k) /\ FirstValue(c, k) = c[1].value
<1>1. 1 \in DOMAIN c /\ MeetsAt(c, k, 1)
  BY DEF HeadHas, MeetsAt
<1>2. QED
  BY <1>1, FirstValueAt DEF Has, MeetsAt

\* Updating the first entry changes the first value of its key and no other.
LEMMA UpdateKeepsOthers ==
  ASSUME NEW c \in Seq(Entry), Meets(c), NEW key \in Keys, NEW v \in Values,
         HeadHas(c, key),
         NEW d \in Seq(Entry), DOMAIN d = DOMAIN c,
         d[1] = [key |-> key, value |-> v],
         \A i \in DOMAIN c : i # 1 => d[i] = c[i]
  PROVE  /\ Meets(d)
         /\ \A k \in Keys : Has(d, k) <=> Has(c, k)
         /\ \A k \in Keys \ {key} : Has(c, k) => FirstValue(d, k) = FirstValue(c, k)
         /\ FirstValue(d, key) = v
<1>1. /\ 1 \in DOMAIN c
      /\ DOMAIN c = 1 .. Len(c) /\ Len(c) \in Nat
      /\ c[1].key = key
  BY HeadIsMet DEF HeadHas
<1>2. \A i \in DOMAIN c : d[i].key = c[i].key
  BY <1>1
<1>3. \A k \in Keys : Has(d, k) <=> Has(c, k)
  BY <1>2 DEF Has
<1>4. \A k \in Keys, i \in DOMAIN c : MeetsAt(d, k, i) <=> MeetsAt(c, k, i)
  <2> TAKE k \in Keys, i \in DOMAIN c
  <2>1. DOMAIN d = DOMAIN c
    OBVIOUS
  <2>2. \A j \in 1 .. i - 1 : j \in DOMAIN c
    BY <1>1
  <2>3. d[i].key = c[i].key /\ \A j \in 1 .. i - 1 : d[j].key = c[j].key
    BY <1>2, <2>2
  <2>4. QED
    BY <2>1, <2>3 DEF MeetsAt
<1>5. Meets(d)
  BY <1>3, <1>4 DEF Meets
<1>6. ASSUME NEW k \in Keys \ {key}, Has(c, k)
      PROVE  FirstValue(d, k) = FirstValue(c, k)
  <2>1. PICK i \in DOMAIN c : MeetsAt(c, k, i)
    BY <1>6 DEF Meets
  <2>2. i # 1
    BY <1>1, <2>1 DEF MeetsAt
  <2>3. FirstValue(c, k) = c[i].value /\ FirstValue(d, k) = d[i].value
    BY <1>4, <2>1, FirstValueAt
  <2>4. QED
    BY <2>2, <2>3
<1>7. FirstValue(d, key) = v
  <2>1. MeetsAt(d, key, 1)
    BY <1>1, <1>4, HeadIsMet
  <2>2. QED
    BY <1>1, <2>1, FirstValueAt
<1>8. QED
  BY <1>3, <1>5, <1>6, <1>7

\* What an insertion does to its chain, whichever way it goes: the first value of
\* no other key changes, and that of its own is the new one, unless the chain has
\* the key behind another.
LEMMA ChainInsertBinds ==
  ASSUME NEW c \in Seq(Entry), Meets(c), NEW key \in Keys, NEW v \in Values
  PROVE  LET d == ChainInsert(c, key, v)
         IN  /\ d \in Seq(Entry)
             /\ Meets(d)
             /\ \A k \in Keys : Has(d, k) <=> Has(c, k) \/ k = key
             /\ \A k \in Keys \ {key} : Has(c, k) => FirstValue(d, k) = FirstValue(c, k)
             /\ FirstValue(d, key) = IF Has(c, key) /\ ~HeadHas(c, key)
                                     THEN FirstValue(c, key)
                                     ELSE v
<1> DEFINE d == ChainInsert(c, key, v)
<1> SUFFICES /\ d \in Seq(Entry)
             /\ Meets(d)
             /\ \A k \in Keys : Has(d, k) <=> Has(c, k) \/ k = key
             /\ \A k \in Keys \ {key} : Has(c, k) => FirstValue(d, k) = FirstValue(c, k)
             /\ Has(c, key) /\ ~HeadHas(c, key) => FirstValue(d, key) = FirstValue(c, key)
             /\ ~(Has(c, key) /\ ~HeadHas(c, key)) => FirstValue(d, key) = v
  OBVIOUS
<1>1. CASE HeadHas(c, key)
  <2>1. /\ d \in Seq(Entry)
        /\ DOMAIN d = DOMAIN c
        /\ d[1] = [key |-> key, value |-> v]
        /\ \A i \in DOMAIN c : i # 1 => d[i] = c[i]
    <3>1. 1 \in DOMAIN c /\ c[1] \in Entry /\ c[1].key = key
      BY <1>1, HeadIsMet DEF HeadHas
    <3>2. [c[1] EXCEPT !.value = v] = [key |-> key, value |-> v]
      BY <3>1 DEF Entry
    <3>3. QED
      BY <1>1, <3>1, <3>2 DEF Entry, ChainInsert
  <2> HIDE DEF d
  <2>2. Has(c, key)
    BY <1>1, HeadIsMet
  <2>3. /\ Meets(d)
        /\ \A k \in Keys : Has(d, k) <=> Has(c, k)
        /\ \A k \in Keys \ {key} : Has(c, k) => FirstValue(d, k) = FirstValue(c, k)
        /\ FirstValue(d, key) = v
    BY <1>1, <2>1, UpdateKeepsOthers
  <2>4. QED
    BY <1>1, <2>1, <2>2, <2>3
<1>2. CASE ~HeadHas(c, key)
  <2>1. d = Append(c, [key |-> key, value |-> v])
    BY <1>2 DEF ChainInsert
  <2> HIDE DEF d
  <2>2. /\ d \in Seq(Entry)
        /\ Meets(d)
        /\ \A k \in Keys : Has(d, k) <=> Has(c, k) \/ k = key
        /\ \A k \in Keys : Has(c, k) => FirstValue(d, k) = FirstValue(c, k)
        /\ ~Has(c, key) => FirstValue(d, key) = v
    BY <2>1, AppendKeepsFirst
  <2>3. QED
    BY <1>2, <2>2
<1>3. QED
  BY <1>1, <1>2

-----------------------------------------------------------------------------
(* A chain of each table.                                                  *)

\* What the code generator's chain c and the type checker's chain d have in common
\* after the same insertions: the names, the head, and the first value of a name
\* unless c has it at the head and again.
Alike(c, d, k) ==
  /\ c = <<>> <=> d = <<>>
  /\ Has(c, k) <=> Has(d, k)
  /\ HeadHas(c, k) <=> HeadHas(d, k)
  /\ Has(c, k) /\ FirstValue(c, k) # FirstValue(d, k) => HeadHas(c, k) /\ Has(Tail(c), k)

\* A chain has k after its head when an entry other than the first is of k.
LEMMA HasAfterHead ==
  ASSUME NEW c \in Seq(Entry), c # <<>>, NEW k \in Keys
  PROVE  Has(Tail(c), k) <=> \E i \in 2 .. Len(c) : c[i].key = k
<1>1. /\ Len(c) \in Nat \ {0}
      /\ DOMAIN Tail(c) = 1 .. Len(c) - 1
      /\ \A i \in 1 .. Len(c) - 1 : Tail(c)[i] = c[i + 1]
  OBVIOUS
<1>2. ASSUME NEW i \in 2 .. Len(c), c[i].key = k PROVE Has(Tail(c), k)
  <2>1. i - 1 \in DOMAIN Tail(c) /\ Tail(c)[i - 1] = c[i]
    BY <1>1
  <2>2. QED
    BY <1>2, <2>1 DEF Has
<1>3. ASSUME Has(Tail(c), k) PROVE \E i \in 2 .. Len(c) : c[i].key = k
  <2>1. PICK i \in DOMAIN Tail(c) : Tail(c)[i].key = k
    BY <1>3 DEF Has
  <2>2. i + 1 \in 2 .. Len(c) /\ c[i + 1].key = k
    BY <1>1, <2>1
  <2>3. QED
    BY <2>2
<1>4. QED
  BY <1>2, <1>3

\* The head of a chain after an entry was appended, and what comes after it.
LEMMA AppendedHead ==
  ASSUME NEW c \in Seq(Entry), NEW key \in Keys, NEW v \in Values, NEW k \in Keys
  PROVE  LET d == Append(c, [key |-> key, value |-> v])
         IN  /\ d # <<>>
             /\ HeadHas(d, k) <=> HeadHas(c, k) \/ (c = <<>> /\ k = key)
             /\ c # <<>> => (Has(Tail(d), k) <=> Has(Tail(c), k) \/ k = key)
<1> DEFINE e == [key |-> key, value |-> v]
           d == Append(c, e)
<1>1. /\ d \in Seq(Entry) /\ d # <<>>
      /\ Len(c) \in Nat /\ Len(d) = Len(c) + 1
      /\ \A i \in 1 .. Len(c) : d[i] = c[i]
      /\ d[Len(c) + 1] = e
      /\ e.key = key
      /\ c = <<>> <=> Len(c) = 0
  BY DEF Entry
<1> HIDE DEF d, e
<1>2. HeadHas(d, k) <=> HeadHas(c, k) \/ (c = <<>> /\ k = key)
  BY <1>1 DEF HeadHas
<1>3. ASSUME c # <<>> PROVE Has(Tail(d), k) <=> Has(Tail(c), k) \/ k = key
  <2>1. (\E i \in 2 .. Len(d) : d[i].key = k) <=>
          (\E i \in 2 .. Len(c) : c[i].key = k) \/ k = key
    BY <1>1, <1>3
  <2>2. QED
    BY <1>1, <1>3, <2>1, HasAfterHead
<1>4. QED
  BY <1>1, <1>2, <1>3 DEF d, e

\* The same insertion into both chains, appended to one and updating the other.
LEMMA InsertionsKeepAlike ==
  ASSUME NEW c \in Seq(Entry), NEW d \in Seq(Entry), Meets(c), Meets(d),
         NEW key \in Keys, NEW v \in Values, NEW k \in Keys,
         Alike(c, d, key), Alike(c, d, k)
  PROVE  Alike(Append(c, [key |-> key, value |-> v]), ChainInsert(d, key, v), k)
<1> DEFINE c2 == Append(c, [key |-> key, value |-> v])
           d2 == ChainInsert(d, key, v)
<1>1. /\ \A x \in Keys : Has(c2, x) <=> Has(c, x) \/ x = key
      /\ \A x \in Keys : Has(c, x) => FirstValue(c2, x) = FirstValue(c, x)
      /\ ~Has(c, key) => FirstValue(c2, key) = v
  BY AppendKeepsFirst
<1>2. /\ \A x \in Keys : Has(d2, x) <=> Has(d, x) \/ x = key
      /\ \A x \in Keys \ {key} : Has(d, x) => FirstValue(d2, x) = FirstValue(d, x)
      /\ Has(d, key) /\ ~HeadHas(d, key) => FirstValue(d2, key) = FirstValue(d, key)
      /\ ~(Has(d, key) /\ ~HeadHas(d, key)) => FirstValue(d2, key) = v
  BY ChainInsertBinds
<1>3. /\ c2 # <<>>
      /\ HeadHas(c2, k) <=> HeadHas(c, k) \/ (c = <<>> /\ k = key)
      /\ c # <<>> => (Has(Tail(c2), k) <=> Has(Tail(c), k) \/ k = key)
  BY AppendedHead
<1>4. /\ d2 # <<>>
      /\ HeadHas(d2, k) <=> HeadHas(d, k) \/ (d = <<>> /\ k = key)
  <2>1. CASE HeadHas(d, key)
    <3>1. d2 = [d EXCEPT ![1].value = v] /\ 1 \in DOMAIN d /\ d[1] \in Entry
      BY <2>1, HeadIsMet DEF ChainInsert
    <3>2. d2[1].key = d[1].key /\ DOMAIN d2 = DOMAIN d
      BY <3>1 DEF Entry
    <3>3. d2 # <<>>
      BY <3>1, <3>2
    <3> HIDE DEF d2
    <3>4. QED
      BY <2>1, <3>2, <3>3 DEF HeadHas
  <2>2. CASE ~HeadHas(d, key)
    BY <2>2, AppendedHead DEF ChainInsert
  <2>3. QED
    BY <2>1, <2>2
<1>5. HeadHas(c, k) => c # <<>> /\ Has(c, k)
  BY HeadIsMet DEF HeadHas
<1> HIDE DEF c2, d2
<1>6. (c2 = <<>> <=> d2 = <<>>) /\ (Has(c2, k) <=> Has(d2, k))
  BY <1>1, <1>2, <1>3, <1>4 DEF Alike
<1>7. HeadHas(c2, k) <=> HeadHas(d2, k)
  BY <1>3, <1>4 DEF Alike
<1>8. ASSUME FirstValue(c2, k) # FirstValue(d2, k), Has(c2, k)
      PROVE  HeadHas(c2, k) /\ Has(Tail(c2), k)
  <2>1. CASE k # key
    <3>1. Has(c, k) /\ Has(d, k)
      BY <1>1, <1>8, <2>1 DEF Alike
    <3>2. FirstValue(c2, k) = FirstValue(c, k) /\ FirstValue(d2, k) = FirstValue(d, k)
      BY <1>1, <1>2, <2>1, <3>1
    <3>3. HeadHas(c, k) /\ Has(Tail(c), k)
      BY <1>8, <3>1, <3>2 DEF Alike
    <3>4. QED
      BY <1>3, <1>5, <3>3
  <2>2. CASE k = key
    <3>1. Has(c, key)
      BY <1>1, <1>2, <1>8, <2>2 DEF Alike
    <3>2. FirstValue(c2, key) = FirstValue(c, key) /\ Has(d, key)
      BY <1>1, <3>1 DEF Alike
    <3>3. CASE HeadHas(d, key)
      <4>1. HeadHas(c, key)
        BY <3>3 DEF Alike
      <4>2. QED
        BY <1>3, <1>5, <2>2, <4>1
    <3>4. CASE ~HeadHas(d, key)
      <4>1. FirstValue(d2, key) = FirstValue(d, key)
        BY <1>2, <3>2, <3>4
      <4>2. HeadHas(c, key)
        BY <1>8, <2>2, <3>1, <3>2, <4>1 DEF Alike
      <4>3. QED
        BY <3>4, <4>2 DEF Alike
    <3>5. QED
      BY <3>3, <3>4
  <2>3. QED
    BY <2>1, <2>2
<1>9. QED
  BY <1>6, <1>7, <1>8 DEF Alike, c2, d2

-----------------------------------------------------------------------------
(* The invariant.                                                          *)

\* An insertion changes one chain of the current frame.
LEMMA AfterGenericInsert ==
  ASSUME IInv, NEW k \in Keys, NEW v \in Values, generic_table_insert(k, v)
  PROVE  /\ TypeOK' /\ Inside'
         /\ current_frame_index \in FrameIds
         /\ current_frame_index' = current_frame_index
         /\ \A i \in FrameIds : i # current_frame_index => stack'[i] = stack[i]
         /\ \A b \in Buckets : b # Hash[k] =>
              stack'[current_frame_index].entries[b] = stack[current_frame_index].entries[b]
         /\ Chain(stack'[current_frame_index], k) =
              ChainInsert(Chain(stack[current_frame_index], k), k, v)
<1> DEFINE top == current_frame_index
           c == Chain(stack[top], k)
           d == ChainInsert(c, k, v)
           f == WithChain(stack[top], k, d)
<1>1. /\ top \in FrameIds
      /\ current_frame_index' = top
      /\ Hash[k] \in Buckets
  BY SizeAssumption, HashAssumption DEF generic_table_insert, IInv, TypeOK, FrameIds, Inside
<1>2. stack[top] \in Frame
  BY <1>1 DEF IInv, TypeOK
<1>3. c \in Seq(Entry) /\ Meets(c)
  BY <1>1, <1>2 DEF IInv, Chain, Frame, ChainsMeet
<1>4. d \in Seq(Entry)
  BY <1>3, ChainInsertBinds
<1>5. stack' = [stack EXCEPT ![top] = f]
  BY DEF generic_table_insert, env_insert
<1> HIDE DEF c, d
<1>6. /\ f.entries = [stack[top].entries EXCEPT ![Hash[k]] = d]
      /\ f \in Frame
  BY <1>1, <1>2, <1>4 DEF Frame, WithChain
<1> HIDE DEF f
<1>7. stack' \in [FrameIds -> Frame] /\ stack'[top] = f
  BY <1>1, <1>5, <1>6 DEF IInv, TypeOK
<1>8. stack'[top].entries[Hash[k]] = d
  BY <1>1, <1>2, <1>6, <1>7 DEF Frame
<1>9. QED
  BY <1>1, <1>2, <1>5, <1>6, <1>7, <1>8 DEF IInv, Inside, generic_table_insert, TypeOK, Frame, Chain, c, d

\* What an insertion does to the bindings of the frames.
LEMMA GenericInsertBinds ==
  ASSUME IInv, NEW k \in Keys, NEW v \in Values, generic_table_insert(k, v)
  PROVE  /\ \A x \in Keys, i \in FrameIds :
              /\ Has(Chain(stack'[i], x), x) <=>
                   (Has(Chain(stack[i], x), x) \/ (i = current_frame_index /\ x = k))
              /\ Has(Chain(stack[i], x), x) /\ ~(i = current_frame_index /\ x = k) =>
                   FirstValue(Chain(stack'[i], x), x) = FirstValue(Chain(stack[i], x), x)
         /\ \/ FirstValue(Chain(stack'[current_frame_index], k), k) = v
            \/ /\ Has(Chain(stack[current_frame_index], k), k)
               /\ FirstValue(Chain(stack'[current_frame_index], k), k) =
                    FirstValue(Chain(stack[current_frame_index], k), k)
         /\ ChainsMeet'
<1> DEFINE top == current_frame_index
           c == Chain(stack[top], k)
           d == ChainInsert(c, k, v)
<1>1. /\ top \in FrameIds
      /\ current_frame_index' = top
      /\ \A i \in FrameIds : i # top => stack'[i] = stack[i]
      /\ \A b \in Buckets : b # Hash[k] => stack'[top].entries[b] = stack[top].entries[b]
      /\ stack'[top].entries[Hash[k]] = d
  BY AfterGenericInsert DEF Chain
<1>2. \A x \in Keys : Hash[x] \in Buckets
  BY HashAssumption
<1>3. c \in Seq(Entry) /\ Meets(c)
  BY <1>1, <1>2 DEF IInv, TypeOK, Frame, ChainsMeet, Chain
<1>4. /\ Meets(d)
      /\ \A x \in Keys : Has(d, x) <=> Has(c, x) \/ x = k
      /\ \A x \in Keys \ {k} : Has(c, x) => FirstValue(d, x) = FirstValue(c, x)
      /\ FirstValue(d, k) = v \/ (Has(c, k) /\ FirstValue(d, k) = FirstValue(c, k))
  BY <1>3, ChainInsertBinds
<1> HIDE DEF d
<1>5. ASSUME NEW x \in Keys, NEW i \in FrameIds
      PROVE  \/ Chain(stack'[i], x) = Chain(stack[i], x) /\ ~(i = top /\ Hash[x] = Hash[k])
             \/ i = top /\ Chain(stack'[i], x) = d /\ Chain(stack[i], x) = c
  BY <1>1, <1>2 DEF Chain, c
<1>6. ChainsMeet'
  BY <1>1, <1>4 DEF ChainsMeet, IInv
<1> HIDE DEF c
<1>7. Chain(stack'[top], k) = d /\ Chain(stack[top], k) = c
  BY <1>1, <1>5
<1>8. QED
  BY <1>1, <1>4, <1>5, <1>6, <1>7

LEMMA GenericInsertIInv ==
  ASSUME IInv, NEW k \in Keys, NEW v \in Values, generic_table_insert(k, v)
  PROVE  IInv'
<1>1. /\ TypeOK'
      /\ current_frame_index \in FrameIds
      /\ current_frame_index' = current_frame_index
      /\ \A i \in FrameIds : i # current_frame_index => stack'[i] = stack[i]
  BY AfterGenericInsert
<1>2. FreeFramesEmpty'
  BY <1>1, SizeAssumption DEF IInv, FreeFramesEmpty, TypeOK, FrameIds
<1>3. ChainsMeet'
  BY GenericInsertBinds
<1>4. FramesMeet'
  BY <1>1, GenericInsertBinds, FramesMeetAfterBinding
<1>5. QED
  BY <1>1, <1>2, <1>3, <1>4, AfterGenericInsert DEF IInv

\* runner.c starts the table in frame 0, without entries.
LEMMA GenericInitIInv == init_lang_table => IInv
<1> SUFFICES ASSUME init_lang_table PROVE IInv
  OBVIOUS
<1>1. TypeOK
  BY SizeAssumption DEF init_lang_table, TypeOK, Frame, NoEntries, FrameIds
<1>2. FreeFramesEmpty
  BY DEF init_lang_table, FreeFramesEmpty
<1>3. ChainsMeet
  BY DEF init_lang_table, ChainsMeet, NoEntries, Meets, Has
<1>4. FramesMeet
  <2>1. \A k \in Keys : ~Has(Chain(stack[0], k), k)
    BY SizeAssumption, NothingInEmptyFrame DEF init_lang_table, FrameIds
  <2>2. QED
    BY <2>1 DEF init_lang_table, FramesMeet
<1>5. QED
  BY <1>1, <1>2, <1>3, <1>4, SizeAssumption DEF IInv, init_lang_table, Inside

LEMMA GenericNextTableInv == TableInv /\ [GenericNext]_vars => TableInv'
<1> SUFFICES ASSUME TableInv, [GenericNext]_vars PROVE TableInv'
  OBVIOUS
<1>1. CASE UNCHANGED vars
  BY <1>1 DEF TableInv, IInv, Inside, TypeOK, vars, FreeFramesEmpty, ChainsMeet, FramesMeet,
              InnermostOf
<1>2. CASE GenericNext
  <2>1. IInv
    BY <1>2, NothingPast
       DEF TableInv, GenericNext, generic_push_frame, generic_pop_frame
  <2>2. CASE generic_push_frame
    BY <2>1, <2>2, PushTableInv DEF generic_push_frame
  <2>3. CASE generic_pop_frame
    BY <2>1, <2>3, PopIInv DEF generic_pop_frame, TableInv
  <2>4. ASSUME NEW k \in Keys, NEW v \in Values, generic_table_insert(k, v) PROVE TableInv'
    BY <2>1, <2>4, GenericInsertIInv DEF TableInv
  <2>5. QED
    BY <1>2, <2>2, <2>3, <2>4 DEF GenericNext
<1>3. QED
  BY <1>1, <1>2

-----------------------------------------------------------------------------
(* The table as a stack of scopes.                                         *)

LEMMA GenericInitImplements == init_lang_table => Updating!Init
<1> SUFFICES ASSUME init_lang_table
             PROVE  ScopesOf(stack, current_frame_index) = <<Updating!Empty>>
  BY SizeAssumption DEF Updating!Init, init_lang_table, Innermost, Inside
<1>1. 0 \in FrameIds /\ stack[0].entries = NoEntries /\ current_frame_index = 0
  BY SizeAssumption DEF init_lang_table, FrameIds
<1>2. Bindings(stack[0]) = Updating!Empty
  BY <1>1, EmptyFrameIsEmptyScope DEF Abstract!Empty, Updating!Empty
<1>3. QED
  BY <1>1, <1>2 DEF ScopesOf

\* An insertion binds in the innermost scope, or is lost and changes no scope.
LEMMA GenericInsertImplements ==
  ASSUME IInv, NEW k \in Keys, NEW v \in Values, generic_table_insert(k, v)
  PROVE  Updating!Bind(k, v) \/ UNCHANGED ScopesOf(stack, current_frame_index)
<1> DEFINE top == current_frame_index
           b == Bindings(stack[top])
           d == Bindings(stack'[top])
           S == ScopesOf(stack, top)
           T == ScopesOf(stack, top)'
<1>1. /\ TypeOK
      /\ top \in FrameIds
      /\ top' = top
      /\ \A i \in FrameIds : i # top => stack'[i] = stack[i]
  BY AfterGenericInsert DEF IInv
<1>2. /\ \A x \in Keys : Has(Chain(stack'[top], x), x) <=>
                           (Has(Chain(stack[top], x), x) \/ x = k)
      /\ \A x \in Keys \ {k} : Has(Chain(stack[top], x), x) =>
           FirstValue(Chain(stack'[top], x), x) = FirstValue(Chain(stack[top], x), x)
      /\ \/ FirstValue(Chain(stack'[top], k), k) = v
         \/ /\ Has(Chain(stack[top], k), k)
            /\ FirstValue(Chain(stack'[top], k), k) = FirstValue(Chain(stack[top], k), k)
  BY <1>1, GenericInsertBinds
<1>3. /\ d = [x \in DOMAIN b \cup {k} |-> FirstValue(Chain(stack'[top], x), x)]
      /\ \A x \in Keys : x \in DOMAIN b <=> Has(Chain(stack[top], x), x)
      /\ \A x \in DOMAIN b : x \in Keys /\ b[x] = FirstValue(Chain(stack[top], x), x)
      /\ b = [x \in DOMAIN b |-> b[x]]
  BY <1>2 DEF Bindings
<1>4. /\ S # <<>>
      /\ S[Len(S)] = b
      /\ T = [S EXCEPT ![Len(S)] = d]
  BY <1>1, LastScopeChanges
<1>5. CASE FirstValue(Chain(stack'[top], k), k) = v
  <2> HIDE DEF b, d, S, T
  <2>1. \A x \in DOMAIN b \cup {k} :
          FirstValue(Chain(stack'[top], x), x) = IF x = k THEN v ELSE b[x]
    BY <1>2, <1>3, <1>5
  <2>2. d = Updating!Bound(b, k, v)
    BY <1>3, <2>1 DEF Updating!Bound
  <2>3. QED
    BY <1>4, <2>2, AfterGenericInsert, InnermostIsCurrent DEF Updating!Bind, S, T, IInv
<1>6. CASE /\ Has(Chain(stack[top], k), k)
           /\ FirstValue(Chain(stack'[top], k), k) = FirstValue(Chain(stack[top], k), k)
  <2> HIDE DEF b, d
  <2>1. d = b
    BY <1>2, <1>3, <1>6
  <2>2. S \in Seq({Bindings(stack[i]) : i \in FrameIds})
    BY <1>1, SizeAssumption, ScopesAreASequence DEF TypeOK, FrameIds
  <2> HIDE DEF S, T
  <2>3. T = S
    BY <1>4, <2>1, <2>2
  <2>4. QED
    BY <2>3 DEF S, T
<1>7. QED
  BY <1>2, <1>5, <1>6

LEMMA GenericNextImplements ==
  TableInv /\ [GenericNext]_vars => [Updating!Next]_(ScopesOf(stack, Innermost))
<1> SUFFICES ASSUME TableInv, [GenericNext]_vars
             PROVE  Updating!Next \/ UNCHANGED ScopesOf(stack, Innermost)
  OBVIOUS
<1>1. CASE UNCHANGED vars
  BY <1>1 DEF vars, Innermost, Inside
<1>2. CASE GenericNext
  <2>1. IInv
    BY <1>2, NothingPast
       DEF TableInv, GenericNext, generic_push_frame, generic_pop_frame
  <2>2. CASE generic_push_frame
    BY <2>1, <2>2, PushImplements, PushPastImplements
       DEF generic_push_frame, Abstract!Enter, Abstract!Empty, Updating!Next, Updating!Enter,
           Updating!Empty
  <2>3. CASE generic_pop_frame
    <3>1. Inside /\ Inside'
      BY <2>1, <2>3, PopIInv DEF IInv, generic_pop_frame
    <3>2. QED
      BY <2>1, <2>3, <3>1, PopImplements, InnermostIsCurrent
         DEF generic_pop_frame, Abstract!Exit, Updating!Next, Updating!Exit
  <2>4. ASSUME NEW k \in Keys, NEW v \in Values, generic_table_insert(k, v)
        PROVE  Updating!Next \/ UNCHANGED ScopesOf(stack, Innermost)
    <3>1. Inside /\ Inside'
      BY <2>1, <2>4, GenericInsertIInv DEF IInv
    <3>2. QED
      BY <2>1, <2>4, <3>1, GenericInsertImplements, InnermostIsCurrent DEF Updating!Next
  <2>5. QED
    BY <1>2, <2>2, <2>3, <2>4 DEF GenericNext
<1>3. QED
  BY <1>1, <1>2

\* Every history of the macro's table is a history of a stack of lexical scopes in
\* which binding a name again updates it or, when the name is behind another one
\* in its bucket, changes nothing: no insertion touches the binding of another name
\* or another scope, for every hash (env_insert).
THEOREM GenericTableImplementsScopes == GenericSpec => ImplementsUpdatingScopes
<1>1. init_lang_table => TableInv
  BY GenericInitIInv DEF TableInv
<1>2. QED
  BY <1>1, GenericNextTableInv, GenericInitImplements, GenericNextImplements, PTL
     DEF GenericSpec, ImplementsUpdatingScopes, Updating!Spec

=============================================================================
