------------------------------ MODULE Ordering ------------------------------
(***************************************************************************)
(* Sorted lists, as sorted() and list.sort(key=...) give them.             *)
(***************************************************************************)
EXTENDS Integers, FiniteSets

(* The elements of a finite set in the order of a relation, which is a     *)
(* strict total order on it: the place of an element follows from how many *)
(* come before it.  (SetToSortSeq, in a form that can be reasoned about.)  *)
Sorted(S, before) ==
    LET Place(x) == Cardinality({y \in S : <<y, x>> \in before}) + 1
    IN  [n \in 1 .. Cardinality(S) |-> CHOOSE x \in S : Place(x) = n]
=============================================================================
