------------------------------ MODULE MCTables ------------------------------
(***************************************************************************)
(* Both tables on three keys, two of which share a bucket, and frames of   *)
(* two buckets.  MaxEntries bounds the entries of each table and, for the  *)
(* counters that pop_frame leaves in dead frames, what a frame has         *)
(* counted.                                                                *)
(***************************************************************************)
EXTENDS Tables, FiniteSetsExt, TLC

CONSTANTS x, y, z, MaxEntries

MCKeys == {x, y, z}
MCHash == (x :> 0) @@ (y :> 0) @@ (z :> 1)

EntriesOf(frames) ==
  MapThenSumSet(LAMBDA i : MapThenSumSet(LAMBDA b : Len(frames[i].entries[b]), Buckets),
                FrameIds)

\* The type checker's table never has more entries than code generation's.
Small ==
  /\ EntriesOf(stack) <= MaxEntries
  /\ \A i \in FrameIds : stack[i].allocated_entries <= MaxEntries

MCTablesNext ==
  \/ FirstFrame
  \/ EnterScope
  \/ ExitScope
  \/ \E k \in Keys, v \in Values : BindName(k, v) /\ Small'

MCTablesSpec == Init /\ [][MCTablesNext]_<<vars, checker_vars>>

=============================================================================
