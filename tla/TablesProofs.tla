----------------------------- MODULE TablesProofs -----------------------------
(***************************************************************************)
(* The two tables of a session answer alike, for every number of buckets   *)
(* and frames, every set of names and every hash.                          *)
(***************************************************************************)
EXTENDS Tables, SymbolTableProofs

\* The type checker's table, with what is proved of it.
Checked == INSTANCE SymbolTableProofs WITH
             stack <- checker_stack,
             current_frame_index <- checker_frame_index

-----------------------------------------------------------------------------
(* The invariant.                                                          *)

\* The type checker is in the frame code generation is in, and in frame 0 before
\* code generation has entered one.
InStep == checker_frame_index = IF current_frame_index = -1 THEN 0 ELSE current_frame_index

\* The chains of a name have the same names, the same head, and the same first value
\* of the name unless it is bound again behind the head.
ChainsAlike ==
  \A i \in FrameIds, k, x \in Keys :
    Checked!Alike(Chain(stack[i], k), Chain(checker_stack[i], k), x)

\* While both tables have the frames they are in.
WithinInv == IInv /\ Checked!IInv /\ InStep /\ ChainsAlike

\* Once they have not, neither table has.
TablesInv ==
  WithinInv \/ (TypeOK /\ Checked!TypeOK /\ ~Inside /\ ~Checked!Inside)

\* The operations of the type checker's table are those its theorems are about.
LEMMA SameOperations ==
  /\ Checker!generic_push_frame => Checked!generic_push_frame
  /\ Checker!generic_pop_frame => Checked!generic_pop_frame
  /\ \A k \in Keys, v \in Values :
       Checker!generic_table_insert(k, v) => Checked!generic_table_insert(k, v)
<1>1. Checker!generic_push_frame => Checked!generic_push_frame
  BY DEF Checker!generic_push_frame, Checker!push_frame, Checker!Inside, Checker!FrameIds,
         Checked!generic_push_frame, Checked!push_frame, Checked!Inside, Checked!FrameIds
<1>2. Checker!generic_pop_frame => Checked!generic_pop_frame
  BY DEF Checker!generic_pop_frame, Checker!pop_frame, Checker!NoEntries, Checker!Buckets,
         Checker!vars, Checker!Inside, Checked!generic_pop_frame, Checked!pop_frame,
         Checked!NoEntries, Checked!Buckets, Checked!vars, Checked!Inside
<1>3. ASSUME NEW k \in Keys, NEW v \in Values, Checker!generic_table_insert(k, v)
      PROVE  Checked!generic_table_insert(k, v)
  BY <1>3
     DEF Checker!generic_table_insert, Checker!env_insert, Checker!WithChain,
         Checker!ChainInsert, Checker!HeadHas, Checker!Chain, Checker!Inside,
         Checked!generic_table_insert, Checked!env_insert, Checked!WithChain,
         Checked!ChainInsert, Checked!HeadHas, Checked!Chain, Checked!Inside
<1>4. QED
  BY <1>1, <1>2, <1>3

LEMMA TablesInitInv == Init => WithinInv
<1> SUFFICES ASSUME Init PROVE WithinInv
  OBVIOUS
<1>1. IInv
  BY InitIInv DEF Init
<1>2. Checked!IInv
  BY Checked!GenericInitIInv, SizeAssumption, HashAssumption
     DEF Init, Checker!init_lang_table, Checked!init_lang_table, Checker!FrameIds,
         Checked!FrameIds, Checker!NoEntries, Checked!NoEntries, Checker!Buckets, Checked!Buckets,
         Buckets
<1>3. InStep
  BY DEF Init, init_symbol_table, Checker!init_lang_table, InStep
<1>4. ASSUME NEW i \in FrameIds, NEW k \in Keys, NEW x \in Keys
      PROVE  Checked!Alike(Chain(stack[i], k), Chain(checker_stack[i], k), x)
  <2>1. Chain(stack[i], k) = <<>> /\ Chain(checker_stack[i], k) = <<>>
    BY HashAssumption
       DEF Init, init_symbol_table, Checker!init_lang_table, Chain, NoEntries, FrameIds,
           Checker!FrameIds, Checker!NoEntries, Checker!Buckets, Buckets
  <2>2. QED
    BY <2>1 DEF Checked!Alike, Checked!Has, Checked!HeadHas
<1>5. QED
  BY <1>1, <1>2, <1>3, <1>4 DEF WithinInv, ChainsAlike

\* Steps that leave the entries of both tables as they are keep the chains alike.
LEMMA SameEntriesAlike ==
  ASSUME ChainsAlike,
         \A i \in FrameIds : stack'[i].entries = stack[i].entries,
         \A i \in FrameIds : checker_stack'[i].entries = checker_stack[i].entries
  PROVE  ChainsAlike'
<1> SUFFICES ASSUME NEW i \in FrameIds, NEW k \in Keys, NEW x \in Keys
             PROVE  Checked!Alike(Chain(stack'[i], k), Chain(checker_stack'[i], k), x)
  BY DEF ChainsAlike
<1>1. /\ Chain(stack'[i], k) = Chain(stack[i], k)
      /\ Chain(checker_stack'[i], k) = Chain(checker_stack[i], k)
  BY DEF Chain
<1>2. QED
  BY <1>1 DEF ChainsAlike

LEMMA FirstFrameInv == ASSUME WithinInv, FirstFrame PROVE WithinInv'
<1>0. current_frame_index' = 0 /\ Inside'
  BY SizeAssumption DEF FirstFrame, push_frame, Inside
<1>1. /\ IInv'
      /\ \A i \in FrameIds : stack'[i].entries = stack[i].entries
  BY <1>0, PushIInv, AfterPush DEF FirstFrame, WithinInv, IInv
<1>2. Checked!IInv' /\ InStep'
  BY <1>0 DEF FirstFrame, WithinInv, InStep, checker_vars, Checked!IInv, Checked!TypeOK,
              Checked!Inside, Checked!FreeFramesEmpty, Checked!ChainsMeet,
              Checked!FramesMeet, Checked!InnermostOf
<1>3. ChainsAlike'
  BY <1>1, SameEntriesAlike DEF FirstFrame, WithinInv, checker_vars
<1>4. QED
  BY <1>1, <1>2, <1>3 DEF WithinInv

\* The type checker's index, and the end of its array, are code generation's.
LEMMA BothInside ==
  /\ Checked!Inside <=> checker_frame_index < STACK_SIZE
  /\ Checker!Inside <=> checker_frame_index < STACK_SIZE
  /\ WithinInv => Inside /\ Checked!Inside
  /\ (Inside /\ InStep => Checked!Inside)
  /\ (Inside' /\ InStep' => Checked!Inside')
BY SizeAssumption DEF Checked!Inside, Checker!Inside, Inside, WithinInv, IInv, InStep

LEMMA EnterScopeInv == ASSUME WithinInv, EnterScope, Inside' PROVE WithinInv'
<1>0. Checked!push_frame /\ Checked!Inside'
  <2>1. Checked!push_frame
    BY SameOperations DEF EnterScope, Checked!generic_push_frame
  <2>2. /\ current_frame_index' = current_frame_index + 1
        /\ checker_frame_index' = checker_frame_index + 1
        /\ checker_frame_index = current_frame_index
    BY <2>1 DEF EnterScope, push_frame, Checked!push_frame, WithinInv, InStep
  <2>3. QED
    BY <2>1, <2>2 DEF Inside, Checked!Inside
<1>1. /\ IInv' /\ current_frame_index' = current_frame_index + 1
      /\ current_frame_index \in Nat
      /\ \A i \in FrameIds : stack'[i].entries = stack[i].entries
  BY PushIInv, AfterPush DEF EnterScope, WithinInv, IInv, TypeOK
<1>2. /\ Checked!IInv' /\ checker_frame_index' = checker_frame_index + 1
      /\ \A i \in FrameIds : checker_stack'[i].entries = checker_stack[i].entries
  BY <1>0, Checked!PushIInv, Checked!AfterPush, SizeAssumption, HashAssumption
     DEF WithinInv, Checked!IInv, Checked!FrameIds, FrameIds, Checked!Buckets, Buckets
<1>3. InStep'
  BY <1>1, <1>2 DEF WithinInv, InStep
<1>4. ChainsAlike'
  BY <1>1, <1>2, SameEntriesAlike DEF WithinInv
<1>5. QED
  BY <1>1, <1>2, <1>3, <1>4 DEF WithinInv

LEMMA ExitScopeInv == ASSUME WithinInv, ExitScope PROVE WithinInv'
<1>1. IInv' /\ Checked!IInv'
  BY PopIInv, SameOperations, Checked!PopIInv, SizeAssumption, HashAssumption
     DEF ExitScope, WithinInv, Checked!generic_pop_frame, Checked!Buckets, Buckets
<1>2. CASE current_frame_index > 0
  <2>1. /\ current_frame_index' = current_frame_index - 1
        /\ \A i \in FrameIds : i # current_frame_index => stack'[i] = stack[i]
        /\ stack'[current_frame_index].entries = NoEntries
    BY <1>2, AfterPop DEF ExitScope, WithinInv, IInv
  <2>2. checker_frame_index = current_frame_index /\ current_frame_index \in Nat
    BY <1>2 DEF WithinInv, InStep, IInv, TypeOK
  <2>3. /\ checker_frame_index' = current_frame_index - 1
        /\ \A i \in FrameIds : i # current_frame_index => checker_stack'[i] = checker_stack[i]
        /\ checker_stack'[current_frame_index].entries = NoEntries
    BY <1>2, <2>2, SameOperations, Checked!AfterPop, SizeAssumption, HashAssumption
       DEF ExitScope, WithinInv, Checked!IInv, Checked!generic_pop_frame, Checked!FrameIds,
           FrameIds, Checked!Buckets, Buckets, Checked!NoEntries, NoEntries
  <2>4. InStep'
    BY <1>2, <2>1, <2>2, <2>3 DEF InStep
  <2>5. ASSUME NEW i \in FrameIds, NEW k \in Keys, NEW x \in Keys
        PROVE  Checked!Alike(Chain(stack'[i], k), Chain(checker_stack'[i], k), x)
    <3>1. CASE i = current_frame_index
      <4>1. Chain(stack'[i], k) = <<>> /\ Chain(checker_stack'[i], k) = <<>>
        BY <2>1, <2>3, <3>1, HashAssumption DEF Chain, NoEntries
      <4>2. QED
        BY <4>1 DEF Checked!Alike, Checked!Has, Checked!HeadHas
    <3>2. CASE i # current_frame_index
      BY <2>1, <2>3, <3>2 DEF WithinInv, ChainsAlike
    <3>3. QED
      BY <3>1, <3>2
  <2>6. ChainsAlike'
    BY <2>5 DEF ChainsAlike
  <2>7. QED
    BY <1>1, <2>4, <2>6 DEF WithinInv
<1>3. CASE current_frame_index <= 0
  <2>1. UNCHANGED <<vars, checker_vars>>
    BY <1>3 DEF ExitScope, pop_frame, Checker!generic_pop_frame, Checker!pop_frame, WithinInv,
                InStep, IInv, TypeOK, vars, Checker!vars, checker_vars
  <2>2. QED
    BY <1>1, <2>1, SameEntriesAlike DEF WithinInv, InStep, vars, checker_vars
<1>4. QED
  BY <1>2, <1>3 DEF WithinInv, IInv, TypeOK

\* Binding a name appends to its chain in one table and updates it in the other.
LEMMA BindNameInv ==
  ASSUME WithinInv, NEW key \in Keys, NEW v \in Values, BindName(key, v)
  PROVE  WithinInv'
<1> DEFINE top == current_frame_index
           c == Chain(stack[top], key)
           d == Chain(checker_stack[top], key)
<1>1. /\ IInv' /\ top \in FrameIds /\ top' = top
      /\ \A i \in FrameIds : i # top => stack'[i] = stack[i]
      /\ \A b \in Buckets : b # Hash[key] => stack'[top].entries[b] = stack[top].entries[b]
      /\ stack'[top].entries[Hash[key]] = Append(c, [key |-> key, value |-> v])
  BY InsertIInv, AfterInsert DEF BindName, WithinInv, IInv, Chain
<1>2. checker_frame_index = top
  BY <1>1, SizeAssumption DEF WithinInv, InStep, FrameIds
<1>3. /\ Checked!IInv' /\ checker_frame_index' = top
      /\ \A i \in FrameIds : i # top => checker_stack'[i] = checker_stack[i]
      /\ \A b \in Buckets : b # Hash[key] =>
           checker_stack'[top].entries[b] = checker_stack[top].entries[b]
      /\ checker_stack'[top].entries[Hash[key]] = Checked!ChainInsert(d, key, v)
  BY <1>2, SameOperations, Checked!GenericInsertIInv, Checked!AfterGenericInsert,
     SizeAssumption, HashAssumption
     DEF BindName, WithinInv, Checked!FrameIds, FrameIds, Checked!Buckets, Buckets,
         Checked!Chain, Chain
<1>4. InStep'
  BY <1>1, <1>2, <1>3, SizeAssumption DEF InStep, FrameIds
<1>5. /\ c \in Seq(Entry) /\ Meets(c)
      /\ d \in Seq(Entry) /\ Checked!Meets(d)
  BY <1>1, HashAssumption
     DEF WithinInv, IInv, TypeOK, Frame, ChainsMeet, Chain, Checked!IInv, Checked!TypeOK,
         Checked!Frame, Checked!ChainsMeet, Checked!FrameIds, FrameIds, Checked!Buckets,
         Buckets, Checked!Entry, Entry
<1>6. Checked!Meets(c)
  BY <1>5 DEF Meets, MeetsAt, Has, Checked!Meets, Checked!MeetsAt, Checked!Has
<1>7. ASSUME NEW x \in Keys
      PROVE  Checked!Alike(Append(c, [key |-> key, value |-> v]),
                           Checked!ChainInsert(d, key, v), x)
  <2>1. Checked!Alike(c, d, key) /\ Checked!Alike(c, d, x)
    BY <1>1 DEF WithinInv, ChainsAlike
  <2>2. QED
    BY <1>5, <1>6, <2>1, Checked!InsertionsKeepAlike, SizeAssumption, HashAssumption
       DEF Checked!Entry, Entry, Checked!Buckets, Buckets
<1>8. ASSUME NEW i \in FrameIds, NEW k \in Keys, NEW x \in Keys
      PROVE  Checked!Alike(Chain(stack'[i], k), Chain(checker_stack'[i], k), x)
  <2>1. Hash[k] \in Buckets
    BY HashAssumption
  <2>2. CASE i = top /\ Hash[k] = Hash[key]
    <3>1. /\ Chain(stack'[i], k) = Append(c, [key |-> key, value |-> v])
          /\ Chain(checker_stack'[i], k) = Checked!ChainInsert(d, key, v)
      BY <1>1, <1>3, <2>2 DEF Chain
    <3>2. QED
      BY <1>7, <3>1
  <2>3. CASE ~(i = top /\ Hash[k] = Hash[key])
    <3>1. /\ Chain(stack'[i], k) = Chain(stack[i], k)
          /\ Chain(checker_stack'[i], k) = Chain(checker_stack[i], k)
      BY <1>1, <1>3, <2>1, <2>3 DEF Chain
    <3>2. QED
      BY <3>1 DEF WithinInv, ChainsAlike
  <2>4. QED
    BY <2>2, <2>3
<1>9. ChainsAlike'
  BY <1>8 DEF ChainsAlike
<1>10. QED
  BY <1>1, <1>3, <1>4, <1>9 DEF WithinInv

\* A frame too many is past the end of both tables.
LEMMA EnterPast == ASSUME WithinInv, EnterScope, ~Inside' PROVE TablesInv'
<1>1. /\ TypeOK' /\ current_frame_index = STACK_SIZE - 1
      /\ current_frame_index' = current_frame_index + 1
  BY PushPast DEF EnterScope, WithinInv, IInv, push_frame
<1>2. checker_frame_index = STACK_SIZE - 1
  BY <1>1, SizeAssumption DEF WithinInv, InStep, EnterScope
<1>3. Checked!push_frame /\ Checked!TypeOK
  BY SameOperations DEF EnterScope, Checked!generic_push_frame, WithinInv, Checked!IInv
<1>4. checker_frame_index' = checker_frame_index + 1
  BY <1>3 DEF Checked!push_frame
<1>5. ~Checked!Inside'
  BY <1>2, <1>4, SizeAssumption DEF Checked!Inside
<1>6. Checked!TypeOK'
  BY <1>3, <1>5, Checked!PushPast, SizeAssumption, HashAssumption DEF Checked!Buckets, Buckets
<1>7. QED
  BY <1>1, <1>5, <1>6 DEF TablesInv

LEMMA TablesNextInv == TablesInv /\ [TablesNext]_<<vars, checker_vars>> => TablesInv'
<1> SUFFICES ASSUME TablesInv, [TablesNext]_<<vars, checker_vars>> PROVE TablesInv'
  OBVIOUS
<1>1. CASE UNCHANGED <<vars, checker_vars>>
  BY <1>1, SameEntriesAlike
     DEF TablesInv, WithinInv, InStep, vars, checker_vars, TypeOK, Inside, IInv, FreeFramesEmpty,
         ChainsMeet, FramesMeet, InnermostOf, Checked!IInv, Checked!TypeOK, Checked!Inside,
         Checked!FreeFramesEmpty, Checked!ChainsMeet, Checked!FramesMeet, Checked!InnermostOf
<1>2. CASE TablesNext
  <2>1. WithinInv
    BY <1>2, NothingPast DEF TablesInv, TablesNext, FirstFrame, EnterScope, ExitScope, BindName
  <2>2. CASE FirstFrame
    BY <2>1, <2>2, FirstFrameInv DEF TablesInv
  <2>3. CASE EnterScope
    BY <2>1, <2>3, EnterScopeInv, EnterPast DEF TablesInv
  <2>4. CASE ExitScope
    BY <2>1, <2>4, ExitScopeInv DEF TablesInv
  <2>5. ASSUME NEW k \in Keys, NEW v \in Values, BindName(k, v) PROVE TablesInv'
    BY <2>1, <2>5, BindNameInv DEF TablesInv
  <2>6. QED
    BY <1>2, <2>2, <2>3, <2>4, <2>5 DEF TablesNext
<1>3. QED
  BY <1>1, <1>2

-----------------------------------------------------------------------------
(* The tables agree.                                                       *)

LEMMA InvImpliesAgree == ASSUME WithinInv PROVE TablesAgree
<1>1. /\ current_frame_index \in -1 .. STACK_SIZE - 1
      /\ 0 \in FrameIds
      /\ 0 .. current_frame_index \subseteq FrameIds
  BY SizeAssumption DEF WithinInv, IInv, Inside, TypeOK, FrameIds
<1> SUFFICES ASSUME NEW k \in Keys
             PROVE  /\ \A i \in FrameIds : FoundIn(k, i) <=> Checker!FoundIn(k, i)
                    /\ Found(k) /\ table_lookup(k) # Checker!table_lookup(k) => BoundAgain(k)
  BY BothInside DEF TablesAgree
<1>2. ASSUME NEW i \in FrameIds
      PROVE  Checker!Has(Checker!Chain(checker_stack[i], k), k) <=> Has(Chain(stack[i], k), k)
  <2> DEFINE c == Chain(stack[i], k)
             d == Checker!Chain(checker_stack[i], k)
  <2>1. Checked!Alike(c, d, k)
    BY DEF WithinInv, ChainsAlike, Checker!Chain, Chain
  <2> HIDE DEF c, d
  <2>2. Checked!Has(c, k) <=> Checked!Has(d, k)
    BY <2>1 DEF Checked!Alike
  <2>3. Has(c, k) <=> Checker!Has(d, k)
    BY <2>2 DEF Checked!Has, Checker!Has, Has
  <2>4. QED
    BY <2>3 DEF c, d
<1>3. ASSUME NEW i \in FrameIds PROVE FoundIn(k, i) <=> Checker!FoundIn(k, i)
  <2>1. CASE current_frame_index = -1
    <3>1. ~Has(Chain(stack[0], k), k)
      BY <1>1, <2>1, NothingInEmptyFrame DEF WithinInv, IInv, FreeFramesEmpty
    <3>2. checker_frame_index = 0
      BY <2>1 DEF WithinInv, InStep
    <3>3. ~Checker!FoundIn(k, i)
      BY <1>1, <1>2, <3>1, <3>2 DEF Checker!FoundIn
    <3>4. ~FoundIn(k, i)
      BY <2>1 DEF FoundIn
    <3>5. QED
      BY <3>3, <3>4
  <2>2. CASE current_frame_index # -1
    <3>1. checker_frame_index = current_frame_index
      BY <2>2 DEF WithinInv, InStep
    <3>2. \A j \in i + 1 .. current_frame_index : j \in FrameIds
      BY <1>1 DEF FrameIds
    <3>3. QED
      BY <1>2, <3>1, <3>2 DEF FoundIn, Checker!FoundIn
  <2>3. QED
    BY <2>1, <2>2
<1>4. ASSUME Found(k), table_lookup(k) # Checker!table_lookup(k) PROVE BoundAgain(k)
  <2>1. PICK i \in 0 .. current_frame_index : FoundIn(k, i)
    BY <1>4 DEF Found
  <2> DEFINE c == Chain(stack[i], k)
             d == Checker!Chain(checker_stack[i], k)
  <2>2. i \in FrameIds /\ Checker!FoundIn(k, i)
    BY <1>1, <1>3, <2>1
  <2>3. table_lookup(k) = FirstValue(c, k)
    <3>1. \A j \in 0 .. current_frame_index : FoundIn(k, j) => j = i
      BY <1>1, <2>1 DEF FoundIn
    <3>2. (CHOOSE j \in 0 .. current_frame_index : FoundIn(k, j)) = i
      BY <2>1, <3>1
    <3>3. QED
      BY <3>2 DEF table_lookup
  <2>4. Checker!table_lookup(k) = Checker!FirstValue(d, k)
    <3>1. checker_frame_index = current_frame_index
      BY <2>1 DEF WithinInv, InStep
    <3>2. \A j \in 0 .. checker_frame_index : Checker!FoundIn(k, j) => j = i
      BY <1>1, <2>1, <2>2, <3>1 DEF Checker!FoundIn
    <3>3. (CHOOSE j \in 0 .. checker_frame_index : Checker!FoundIn(k, j)) = i
      BY <2>1, <2>2, <3>1, <3>2
    <3>4. QED
      BY <3>3 DEF Checker!table_lookup
  <2>5. Has(c, k)
    BY <2>1 DEF FoundIn
  <2>6. Checked!Alike(c, d, k)
    BY <2>2 DEF WithinInv, ChainsAlike, Checker!Chain, Chain
  <2> HIDE DEF c, d
  <2>7. Checker!HeadHas(c, k) /\ Has(Tail(c), k)
    <3>1. Checker!FirstValue(d, k) = Checked!FirstValue(d, k)
      BY DEF Checker!FirstValue, Checker!MeetsAt, Checked!FirstValue, Checked!MeetsAt
    <3>2. FirstValue(c, k) = Checked!FirstValue(c, k)
      BY DEF FirstValue, MeetsAt, Checked!FirstValue, Checked!MeetsAt
    <3>3. Checked!Has(c, k)
      BY <2>5 DEF Has, Checked!Has
    <3>4. Checked!HeadHas(c, k) /\ Checked!Has(Tail(c), k)
      BY <1>4, <2>3, <2>4, <2>6, <3>1, <3>2, <3>3 DEF Checked!Alike
    <3>5. QED
      BY <3>4 DEF Checked!HeadHas, Checker!HeadHas, Checked!Has, Has
  <2>8. QED
    BY <2>1, <2>2, <2>7 DEF BoundAgain, c
<1>5. QED
  BY <1>3, <1>4

\* Given the same operations, the two tables show the same names in the same frames,
\* for every hash, and another value only for a name that is bound again in its
\* frame behind the head of its chain (symbol_table.c and generic_symbol_table.h).
THEOREM TablesAgreeOnNames == TablesSpec => []TablesAgree
<1>1. TablesInv => TablesAgree
  BY InvImpliesAgree, BothInside DEF TablesInv, TablesAgree
<1>2. Init => TablesInv
  BY TablesInitInv DEF TablesInv
<1>3. QED
  BY <1>1, <1>2, TablesNextInv, PTL DEF TablesSpec

-----------------------------------------------------------------------------
(* The type checker's table is one of updating scopes.                     *)

\* What the type checker's frames stand for.
CheckerScopes == Checker!ScopesOf(checker_stack, Checker!Innermost)

LEMMA SameScopes == CheckerScopes = Checked!ScopesOf(checker_stack, Checked!Innermost)
BY DEF CheckerScopes, Checker!ScopesOf, Checker!Bindings, Checker!Has, Checker!Chain,
       Checker!FirstValue, Checker!MeetsAt, Checked!ScopesOf, Checked!Bindings, Checked!Has,
       Checked!Chain, Checked!FirstValue, Checked!MeetsAt, Checker!Innermost, Checker!Inside,
       Checked!Innermost, Checked!Inside

LEMMA CheckerInitImplements == Init => Checker!Updating!Init
<1>1. Init => Checked!Updating!Init
  BY Checked!GenericInitImplements, SizeAssumption, HashAssumption
     DEF Init, Checker!init_lang_table, Checked!init_lang_table, Checker!FrameIds,
         Checked!FrameIds, Checker!NoEntries, Checked!NoEntries, Checker!Buckets, Checked!Buckets,
         Buckets
<1>2. QED
  BY <1>1, SameScopes
     DEF CheckerScopes, Checked!Updating!Init, Checked!Updating!Empty, Checker!Updating!Init,
         Checker!Updating!Empty

\* A step of both tables is one of the type checker's, or changes nothing in it.
LEMMA CheckerSteps == [TablesNext]_<<vars, checker_vars>> => [Checked!GenericNext]_(Checked!vars)
<1> SUFFICES ASSUME [TablesNext]_<<vars, checker_vars>>
             PROVE  Checked!GenericNext \/ UNCHANGED checker_vars
  BY DEF Checked!vars, checker_vars
<1>1. ASSUME NEW k \in Keys, NEW v \in Values, BindName(k, v) PROVE Checked!GenericNext
  BY <1>1, SameOperations DEF BindName, Checked!GenericNext
<1>2. QED
  BY <1>1, SameOperations
     DEF TablesNext, FirstFrame, EnterScope, ExitScope, Checked!GenericNext, vars, checker_vars

LEMMA CheckerNextImplements ==
  TablesInv /\ [TablesNext]_<<vars, checker_vars>> => [Checker!Updating!Next]_CheckerScopes
<1> SUFFICES ASSUME TablesInv, [TablesNext]_<<vars, checker_vars>>
             PROVE  Checker!Updating!Next \/ UNCHANGED CheckerScopes
  OBVIOUS
<1>1. \/ Checked!Updating!Next
      \/ UNCHANGED Checked!ScopesOf(checker_stack, Checked!Innermost)
  <2>1. Checked!TableInv
    BY DEF TablesInv, WithinInv, Checked!TableInv
  <2>2. QED
    BY <2>1, CheckerSteps, Checked!GenericNextImplements, SizeAssumption, HashAssumption
       DEF Checked!Buckets, Buckets
<1>2. CheckerScopes' = Checked!ScopesOf(checker_stack, Checked!Innermost)'
  BY DEF CheckerScopes, Checker!ScopesOf, Checker!Bindings, Checker!Has, Checker!Chain,
         Checker!FirstValue, Checker!MeetsAt, Checked!ScopesOf, Checked!Bindings, Checked!Has,
         Checked!Chain, Checked!FirstValue, Checked!MeetsAt, Checker!Innermost,
         Checker!Inside, Checked!Innermost, Checked!Inside
<1>3. /\ Checked!Updating!Empty = Checker!Updating!Empty
      /\ \A scope, k, v : Checked!Updating!Bound(scope, k, v) = Checker!Updating!Bound(scope, k, v)
  BY DEF Checked!Updating!Empty, Checker!Updating!Empty, Checked!Updating!Bound,
         Checker!Updating!Bound
<1>4. CASE Checked!Updating!Enter
  <2>1. Checker!Updating!Enter
    BY <1>2, <1>3, <1>4, SameScopes
       DEF CheckerScopes, Checked!Updating!Enter, Checker!Updating!Enter
  <2>2. QED
    BY <2>1 DEF Checker!Updating!Next
<1>5. CASE Checked!Updating!Exit
  <2>1. Checker!Updating!Exit
    BY <1>2, <1>5, SameScopes
       DEF CheckerScopes, Checked!Updating!Exit, Checker!Updating!Exit
  <2>2. QED
    BY <2>1 DEF Checker!Updating!Next
<1>6. ASSUME NEW k \in Keys, NEW v \in Values, Checked!Updating!Bind(k, v)
      PROVE  Checker!Updating!Next
  <2>1. Checker!Updating!Bind(k, v)
    BY <1>2, <1>3, <1>6, SameScopes
       DEF CheckerScopes, Checked!Updating!Bind, Checker!Updating!Bind
  <2>2. QED
    BY <2>1 DEF Checker!Updating!Next
<1>7. CASE UNCHANGED Checked!ScopesOf(checker_stack, Checked!Innermost)
  BY <1>2, <1>7, SameScopes
<1>8. QED
  BY <1>1, <1>4, <1>5, <1>6, <1>7 DEF Checked!Updating!Next

\* Beside code generation's table, the type checker's is still a stack of lexical
\* scopes in which binding a name again updates it or does nothing (env_insert),
\* for every hash.
THEOREM CheckerTableImplementsScopes == TablesSpec => CheckerImplementsScopes
<1>1. CheckerImplementsScopes
        <=> Checker!Updating!Init /\ [][Checker!Updating!Next]_CheckerScopes
  BY DEF CheckerImplementsScopes, Checker!ImplementsUpdatingScopes, Checker!Updating!Spec,
         CheckerScopes
<1>2. Init => TablesInv
  BY TablesInitInv DEF TablesInv
<1>3. QED
  BY <1>1, <1>2, TablesNextInv, CheckerInitImplements, CheckerNextImplements, PTL
     DEF TablesSpec

=============================================================================
