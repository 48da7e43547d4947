------------------------- MODULE ActivationContract -------------------------
(***************************************************************************)
(* What a managed Runtime promises its consumers, whatever crashes: the    *)
(* selected generation is the active one, or an activation is open and it  *)
(* is one of that activation's two ends; only a generation proven healthy  *)
(* becomes active; a failed activation gives back the one before it.       *)
(***************************************************************************)
CONSTANTS Generation, None

VARIABLES
  selected,  \* what consumers resolve executables through
  active,    \* the generation of record
  open,      \* candidate of the open activation, None between activations
  proven     \* generations a health check has passed

vars == <<selected, active, open, proven>>

Init == selected = None /\ active = None /\ open = None /\ proven = {}

Begin == \E c \in Generation :
  /\ open = None /\ open' = c
  /\ UNCHANGED <<selected, active, proven>>

Switch ==
  /\ open # None
  /\ selected' \in {active, open}
  /\ UNCHANGED <<active, open, proven>>

Prove == \E g \in Generation :
  /\ proven' = proven \cup {g}
  /\ UNCHANGED <<selected, active, open>>

Commit ==
  /\ open # None /\ selected = open /\ open \in proven
  /\ active' = open /\ open' = None
  /\ UNCHANGED <<selected, proven>>

Withdraw ==
  /\ open # None /\ selected = active
  /\ open' = None
  /\ UNCHANGED <<selected, active, proven>>

Next == Begin \/ Switch \/ Prove \/ Commit \/ Withdraw

Spec == Init /\ [][Next]_vars
=============================================================================
