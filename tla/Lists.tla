-------------------------------- MODULE Lists --------------------------------
(***************************************************************************)
(* Sorting and filtering, by what they promise: SelectSeq and SortSeq are  *)
(* built into the tools and leave a proof nothing to go by.                *)
(***************************************************************************)
EXTENDS Integers, FiniteSets, Sequences

\* The members of a finite set in an order, given as the pairs <<earlier, later>>:
\* the place of a member is told by how many come before it.
Arrange(S, order) ==
  [n \in 1..Cardinality(S) |->
     CHOOSE x \in S : Cardinality({y \in S : <<y, x>> \in order}) = n - 1]

\* A finite set of numbers in ascending order.
Ascending(K) ==
  [n \in 1..Cardinality(K) |-> CHOOSE k \in K : Cardinality({j \in K : j < k}) = n - 1]

\* The elements of s that are at one of these positions.
AtPositions(s, K) == [n \in 1..Cardinality(K) |-> s[Ascending(K)[n]]]

Filter(s, Test(_)) == AtPositions(s, {n \in DOMAIN s : Test(s[n])})
=============================================================================
