-------------------------------- MODULE Positions --------------------------------
(***************************************************************************)
(* Lists made of some positions of another, in order: what a comprehension *)
(* with a condition, or a loop that skips, makes of a list.                *)
(***************************************************************************)
EXTENDS Integers, Sequences, FiniteSets

\* A finite set of numbers as a list, ascending.
InOrder(S) ==
    [k \in 1 .. Cardinality(S) |-> CHOOSE i \in S : Cardinality({j \in S : j <= i}) = k]

\* What stands in s at the positions of S.
Picked(s, S) == LET order == InOrder(S) IN [k \in 1 .. Len(order) |-> s[order[k]]]

================================================================================
