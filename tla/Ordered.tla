------------------------------ MODULE Ordered ------------------------------
(***************************************************************************)
(* The elements of a finite set in the order of a strict total relation,   *)
(* and the sum of a function, both defined by counting: what they yield    *)
(* follows from facts about cardinality.                                   *)
(***************************************************************************)
EXTENDS Integers, FiniteSets

\* The number of elements of S before x.
Rank(S, R, x) == Cardinality({y \in S : <<y, x>> \in R})

InOrder(S, R) ==
    [n \in 1..Cardinality(S) |-> CHOOSE x \in S : Rank(S, R, x) = n - 1]

\* The sum of the values of f.
Total(f) == Cardinality(UNION {{x} \X (1..f[x]) : x \in DOMAIN f})

=============================================================================
