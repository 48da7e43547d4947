----------------------------- MODULE MCManager -----------------------------
(* Manager on small sets: two calls at once over two session ids that share *)
(* one idempotency key.                                                     *)
EXTENDS Manager, TLC

Symmetry == Permutations(Threads) \cup Permutations(Sessions)
=============================================================================
