------------------------------ MODULE Ranking ------------------------------
(***************************************************************************)
(* A finite set as a list, in an order given as the set of the pairs of an *)
(* element and one that comes after it: what a sort leaves.                *)
(***************************************************************************)
EXTENDS Naturals, FiniteSets

\* The number of elements before x.
Rank(S, order, x) == Cardinality({y \in S : <<y, x>> \in order})

Ranked(S, order) ==
    [k \in 1..Cardinality(S) |-> CHOOSE x \in S : Rank(S, order, x) = k - 1]
=============================================================================
