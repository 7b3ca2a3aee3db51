--------------------------------- MODULE Common ---------------------------------
(***************************************************************************)
(* What several modules need of numbers and sequences: Ord::min and max,   *)
(* and Vec::retain, Iterator::filter.                                      *)
(***************************************************************************)
EXTENDS Integers, FiniteSets

MinOf(a, b) == IF a <= b THEN a ELSE b
MaxOf(a, b) == IF a <= b THEN b ELSE a

(* The elements of s at the indices in I, in order.                        *)
Nth(I, n)    == CHOOSE i \in I : Cardinality({j \in I : j <= i}) = n
Picked(s, I) == [n \in 1 .. Cardinality(I) |-> s[Nth(I, n)]]
===============================================================================
