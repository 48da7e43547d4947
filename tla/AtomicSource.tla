---------------------------- MODULE AtomicSource ----------------------------
(***************************************************************************)
(* What the store of semantic sources promises its writers: the content     *)
(* changes by whole transactions only, and a transaction only lands on the  *)
(* content it was computed from.                                            *)
(***************************************************************************)
CONSTANTS
    Procs,
    Files,
    Plans,     \* what a transaction does to each file
    Stamps,    \* what tells one writer's content from another's
    Absent,
    First      \* the content at the start

VARIABLES
    content,   \* what each file holds: the stamp of the commit that wrote it
    base       \* per process, the content its transaction is computed from

vars == <<content, base>>

Revision(plan, stamp) ==
    [f \in Files |-> CASE plan[f] = "write" -> stamp
                       [] plan[f] = "delete" -> Absent
                       [] OTHER -> content[f]]

Init == content = First /\ base = [p \in Procs |-> First]

\* A process computes its transaction from whatever it has read.
Rebase == content' = content

Commit(p) == \E plan \in Plans, stamp \in Stamps :
    /\ base[p] = content
    /\ content' = Revision(plan, stamp)
    /\ UNCHANGED base

Next == Rebase \/ \E p \in Procs : Commit(p)

Spec == Init /\ [][Next]_vars
=============================================================================
