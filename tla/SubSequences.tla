------------------------------ MODULE SubSequences ------------------------------
(***************************************************************************)
(* What a loop over a list gathers from it, as a sequence: the elements at *)
(* some places, in the order of the list.  The sequence is given directly  *)
(* and not by recursion, so that facts about it can be proved.             *)
(***************************************************************************)
EXTENDS Integers, FiniteSets

\* The n-th smallest number of a finite set of numbers.
Nth(I, n) == CHOOSE i \in I : Cardinality({k \in I : k <= i}) = n

\* The elements of the sequence s at the places I.
ElementsAt(s, I) == [n \in 1..Cardinality(I) |-> s[Nth(I, n)]]
=============================================================================
