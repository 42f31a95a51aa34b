------------------------------ MODULE Positions ------------------------------
(***************************************************************************)
(* The part of a sequence at some of its positions, in their order: what a *)
(* list comprehension with a condition, or a loop that appends what it     *)
(* picks, leaves.                                                          *)
(***************************************************************************)
EXTENDS Naturals, FiniteSets

\* The n-th of a set of positions.
Nth(K, n) == CHOOSE k \in K : Cardinality({j \in K : j <= k}) = n

At(s, K) == [n \in 1..Cardinality(K) |-> s[Nth(K, n)]]

=============================================================================
