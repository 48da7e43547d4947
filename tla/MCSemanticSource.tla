-------------------------- MODULE MCSemanticSource --------------------------
(* A source of two files, with a transaction that moves a declaration from  *)
(* one to the other and one that writes both.                               *)
EXTENDS SemanticSource, TLC

TwoFiles == 1 .. 2
TwoPlans == {[f \in TwoFiles |-> IF f = 1 THEN "delete" ELSE "write"],
             [f \in TwoFiles |-> "write"]}
Symmetry == Permutations(Procs)
=============================================================================
