---------------------------- MODULE MCCloseTask -----------------------------
(***************************************************************************)
(* CloseTask with two commands at a time and one revision after the pushed *)
(* one, in which commands stop failing at some time.                       *)
(***************************************************************************)
EXTENDS CloseTask

VARIABLE calm  \* from now on no command dies and no session is held

mcvars == <<vars, calm>>

MCInit == Init /\ calm = FALSE

MCNext ==
  \/ Orderly /\ UNCHANGED calm
  \/ ~calm /\ Disturbance /\ UNCHANGED calm
  \/ ~calm /\ calm' = TRUE /\ UNCHANGED vars

Orderly_(A) == A /\ UNCHANGED calm

\* Failures end, running commands go on, open-pr and the reconciliation
\* are tried again, and Nawabari lets a held session go on.
MCFairness ==
  /\ WF_mcvars(~calm /\ calm' = TRUE /\ UNCHANGED vars)
  /\ WF_mcvars(Orderly_(Resume))
  /\ WF_mcvars(Orderly_(\E w \in Worker : Step(w)))
  /\ SF_mcvars(Orderly_(\E w \in Worker : StartOpen(w)))
  /\ SF_mcvars(Orderly_(\E w \in Worker : StartReconcile(w)))

MCSpec == MCInit /\ [][MCNext]_mcvars /\ MCFairness
=============================================================================
