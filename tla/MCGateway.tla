----------------------------- MODULE MCGateway -----------------------------
(* Gateway on small sets: two calls at once over background processes and    *)
(* two providers.                                                           *)
EXTENDS Gateway, TLC

Symmetry == Permutations(Calls) \cup Permutations(Handles) \cup Permutations(Conns)
\* A behaviour works with processes or with connections: only calls, the burst
\* and the shutdown bring the two together.
OneSide == (\A h \in Handles : child[h].os = "none") \/ (\A k \in Conns : conn[k] = "unused")
=============================================================================
