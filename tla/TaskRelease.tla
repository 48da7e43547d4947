---------------------------- MODULE TaskRelease -----------------------------
(***************************************************************************)
(* What the end of a task promises to whoever reads its records: each of   *)
(* them says that something happened only after it did, they are written   *)
(* one at a time and in this order, and none is taken back. A task whose   *)
(* session is gone may also be cleaned without having been integrated.     *)
(***************************************************************************)
VARIABLES
  integrated,  \* the provider has merged the pull request
  recorded,    \* the pull request's row says so
  stage,       \* the task: "open" is everything it can still be taken up from
  held,        \* Nawabari's session holds its claims
  released     \* the close handoff is closed

vars == <<integrated, recorded, stage, held, released>>

Init ==
  /\ integrated = FALSE /\ recorded = FALSE /\ stage = "open"
  /\ held = TRUE /\ released = FALSE

Integrate ==
  /\ integrated' = TRUE
  /\ UNCHANGED <<recorded, stage, held, released>>

Record ==
  /\ integrated /\ recorded' = TRUE
  /\ UNCHANGED <<integrated, stage, held, released>>

Settle ==
  /\ recorded /\ stage = "open" /\ stage' = "merged"
  /\ UNCHANGED <<integrated, recorded, held, released>>

LetGo ==
  /\ held' = FALSE
  /\ UNCHANGED <<integrated, recorded, stage, released>>

Clean ==
  /\ ~held /\ stage' = "cleaned"
  /\ UNCHANGED <<integrated, recorded, held, released>>

Release ==
  /\ recorded /\ stage # "open" /\ ~held /\ released' = TRUE
  /\ UNCHANGED <<integrated, recorded, stage, held>>

Next == Integrate \/ Record \/ Settle \/ LetGo \/ Clean \/ Release

Spec == Init /\ [][Next]_vars
=============================================================================
