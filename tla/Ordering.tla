------------------------------ MODULE Ordering ------------------------------
(***************************************************************************)
(* A finite set of integers as the sequence of its elements in order: what *)
(* a loop that goes through them from the smallest up collects.            *)
(***************************************************************************)
EXTENDS Integers, FiniteSets

InOrder(S) ==
  [k \in 1 .. Cardinality(S) |-> CHOOSE x \in S : Cardinality({y \in S : y < x}) = k - 1]
=============================================================================
