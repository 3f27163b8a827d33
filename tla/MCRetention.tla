---------------------------- MODULE MCRetention ----------------------------
(***************************************************************************)
(* A small instance of SemanticRetention for TLC: three contexts on a      *)
(* line, two of them close together, under two models that see them        *)
(* differently.                                                            *)
(***************************************************************************)
EXTENDS SemanticRetention

CONSTANTS m1, m2, c1, c2, c3, modelA, modelB

Names == [x \in {modelA, modelB} |-> IF x = modelA THEN 1 ELSE 2]

Hashes == [c \in Context |-> CASE c = c1 -> 2 [] c = c2 -> 1 [] OTHER -> 3]

Place == [c \in Context |-> CASE c = c1 -> 0 [] c = c2 -> 1 [] OTHER -> 4]

Gap(a, b) == IF a < b THEN b - a ELSE a - b

(* modelA cannot tell the contexts apart.                                 *)
Distances ==
    [x \in {modelA, modelB} |-> [p \in Context \X Context |->
        IF x = modelA THEN 0 ELSE Gap(Place[p[1]], Place[p[2]])]]

(* Contexts that speak for a memory, and one that also speaks against it.  *)
SomeEvidence ==
    [polarity : {"positive"}, context : Context]
    \cup {[polarity |-> "negative", context |-> c1]}
=============================================================================
