-------------------------- MODULE MCManagedRuntime --------------------------
(***************************************************************************)
(* Instances of ManagedRuntime: generations g1 of manifest m1 and g2, g3   *)
(* of manifest m2, so that an active, a previous and a candidate can all   *)
(* be different and one manifest can be built twice.                       *)
(***************************************************************************)
EXTENDS ManagedRuntime

CONSTANTS m1, m2, g1, g2, g3

MCManifestOf == [g \in Generation |-> IF g = g1 THEN m1 ELSE m2]
=============================================================================
