------------------------------ MODULE Weights ------------------------------
(***************************************************************************)
(* Sums over finite sets.  Weight(S, w) is the sum of w[x] over x \in S,   *)
(* written as the number of units <<x, k>> with k \in 1..w[x].  It equals  *)
(* a fold of + and, unlike a fold, can be reasoned about with theorems on  *)
(* cardinality alone.                                                      *)
(***************************************************************************)
EXTENDS Integers, FiniteSets

Units(S, w) == UNION {{x} \X (1..w[x]) : x \in S}

Weight(S, w) == Cardinality(Units(S, w))

=============================================================================
