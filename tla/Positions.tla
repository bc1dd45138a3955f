----------------------------- MODULE Positions -----------------------------
(***************************************************************************)
(* The positions a comprehension picks out of a list, in the order of the  *)
(* list.                                                                   *)
(***************************************************************************)
EXTENDS Naturals, FiniteSets

\* The members of a set of numbers from the least on: what a loop over a list keeps.
Ascending(S) == [i \in 1..Cardinality(S) |-> CHOOSE x \in S : Cardinality({y \in S : y < x}) = i - 1]
=============================================================================
