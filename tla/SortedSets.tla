----------------------------- MODULE SortedSets -----------------------------
(* Sets of numbers that the code goes through in increasing order. *)
EXTENDS Integers, FiniteSets

\* A finite set of numbers in increasing order: each has as its place how many
\* there are up to it.  (SetToSortSeq rests on an operator the prover lacks.)
Sorted(S) ==
  [k \in 1 .. Cardinality(S) |-> CHOOSE x \in S : Cardinality({y \in S : y <= x}) = k]
=============================================================================
