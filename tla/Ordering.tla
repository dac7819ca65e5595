------------------------------ MODULE Ordering ------------------------------
(***************************************************************************)
(* The elements of a set in a sequence, by an order that is a set of       *)
(* pairs: what is sorted by keys no two of which are equal.                *)
(***************************************************************************)
EXTENDS Integers, FiniteSets

InOrder(S, before) ==
  [i \in 1..Cardinality(S) |->
     CHOOSE x \in S : Cardinality({y \in S : <<y, x>> \in before}) = i - 1]
=============================================================================
