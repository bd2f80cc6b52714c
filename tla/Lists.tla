---------------------------------- MODULE Lists ----------------------------------
(***************************************************************************)
(* A finite set as a list: the rows of a query in its ORDER BY, or what is *)
(* left of a list in the order it had.  An element's place is how many     *)
(* come before it, which the proofs can use where the library's            *)
(* SetToSortSeq enumerates permutations.                                   *)
(***************************************************************************)
EXTENDS Naturals, FiniteSets

(* R is a set of pairs, a strict total order of S.                          *)
InOrder(S, R) ==
    [n \in 1..Cardinality(S) |->
        CHOOSE x \in S : Cardinality({y \in S : <<y, x>> \in R}) = n - 1]

Ascending(S) == InOrder(S, {pair \in S \X S : pair[1] < pair[2]})
=============================================================================
