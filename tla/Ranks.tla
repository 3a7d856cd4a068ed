------------------------------- MODULE Ranks --------------------------------
(***************************************************************************)
(* Finite sets of integers in ascending order.  A loop that goes through a *)
(* slice and keeps some of it leaves the kept indexes in order.  Stated by *)
(* rank, and not with SelectSeq, so that it can be reasoned about with     *)
(* theorems on cardinality.                                                *)
(***************************************************************************)
EXTENDS Integers, FiniteSets

\* How many members are smaller than x.
Rank(S, x) == Cardinality({y \in S : y < x})

\* The member with n smaller ones.
Nth(S, n) == CHOOSE x \in S : Rank(S, x) = n

InOrder(S) == [k \in 1..Cardinality(S) |-> Nth(S, k - 1)]

=============================================================================
