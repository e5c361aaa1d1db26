------------------------------ MODULE NameHash ------------------------------
(***************************************************************************)
(* hash() of symbol_table.c, which picks the bucket of a name in every     *)
(* table of the compiler.  A name is the sequence of its character codes.  *)
(* The hash is an unsigned int that wraps at 2^32, kept here as its two    *)
(* 16-bit halves, since TLC's integers are smaller.                        *)
(***************************************************************************)
EXTENDS Integers, SequencesExt

Half == 65536

\* hash * 33 + c, modulo 2^32.
HashStep(h, c) ==
  LET low == h.low * 33 + c
  IN  [high |-> (h.high * 33 + low \div Half) % Half, low |-> low % Half]

\* djb2: from 5381, over the characters, reduced to a bucket.
hash(name, buckets) ==
  LET h == FoldLeft(HashStep, [high |-> 0, low |-> 5381], name)
  IN  ((h.high % buckets) * (Half % buckets) + h.low) % buckets

=============================================================================
