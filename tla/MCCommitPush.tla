---------------------------- MODULE MCCommitPush ----------------------------
(* Two commands at a time, two intents, two commits after the base. *)
EXTENDS CommitPush, TLC

Symmetry == Permutations(Worker) \cup Permutations(Intent)
=============================================================================
