--------------------------- MODULE TaskLifecycle ---------------------------
(***************************************************************************)
(* The lifecycle of an Issue-bound task and its legal transitions          *)
(* (src/src/workflow/domain/lifecycle.ts). transitionTask writes a task    *)
(* row by this table and a compare-and-set on (state, task_version).       *)
(***************************************************************************)

LifecycleState ==
  {"planned", "active", "committed", "pushed", "pull-request-open",
   "merged", "abandoned", "orphaned", "cleaned"}

\* TRANSITIONS
Allowed(from) ==
  CASE from = "planned" -> {"active", "abandoned", "orphaned"}
    [] from = "active" -> {"committed", "abandoned", "orphaned"}
    [] from = "committed" -> {"pushed", "abandoned", "orphaned"}
    [] from = "pushed" -> {"pull-request-open", "abandoned", "orphaned"}
    [] from = "pull-request-open" -> {"merged", "abandoned", "orphaned"}
    [] from \in {"merged", "abandoned"} -> {"cleaned"}
    [] from = "orphaned" -> {"cleaned", "active", "abandoned"}
    [] OTHER -> {}
=============================================================================
