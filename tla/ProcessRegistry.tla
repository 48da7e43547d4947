--------------------------- MODULE ProcessRegistry ---------------------------
(***************************************************************************)
(* The background processes of one MCP connection: exec_start returns a     *)
(* handle at once, exec_await collects the result later or never            *)
(* (src/src/context-runtime/process-registry.ts, and ManagedProcess of      *)
(* src/src/subprocess.ts).                                                  *)
(*                                                                          *)
(* Node runs one callback to its end, with the promise continuations it     *)
(* sets off, before the next one starts: an operator here is what one       *)
(* callback does to the registry.  Gateway says when callbacks run.         *)
(***************************************************************************)
EXTENDS Integers, FiniteSets, Sequences

CONSTANTS
    Handles,      \* opaque handles, each given out once
    MaxActive,    \* policy.maxActiveProcesses
    MaxRetained   \* policy.maxRetainedHandles

ASSUME RegistryAssumption ==
    /\ IsFiniteSet(Handles)
    /\ MaxActive \in Nat \ {0}
    /\ MaxRetained \in Nat \ {0}

VARIABLES
    child,          \* per handle, the operating system's process and the registry's entry
    terminalOrder,  \* handles of finished children, oldest first
    active,         \* activeCount
    disposed,
    closed,         \* history: every handle whose child has ended, in that order
    taken           \* history: handles whose result some exec_await has received

registry == <<child, terminalOrder, active, disposed, closed, taken>>

Alive == {"running", "killed"}

Child == [os: {"none", "exited"} \cup Alive, entry: {"absent", "active", "terminal"},
          due: BOOLEAN, expired: BOOLEAN, timer: BOOLEAN]

NoChild == [os |-> "none", entry |-> "absent", due |-> FALSE, expired |-> FALSE, timer |-> FALSE]
Started == [os |-> "running", entry |-> "active", due |-> FALSE, expired |-> FALSE, timer |-> TRUE]
Ended == [NoChild EXCEPT !.os = "exited", !.entry = "terminal"]

RegistryInit ==
    /\ child = [h \in Handles |-> NoChild]
    /\ terminalOrder = <<>>
    /\ active = 0
    /\ disposed = FALSE
    /\ closed = <<>>
    /\ taken = {}

Has(h) == child[h].entry # "absent"

Elements(s) == {s[i] : i \in DOMAIN s}

-----------------------------------------------------------------------------
(* reap: children past their lifetime are killed; they keep their slot until *)
(* they have ended.                                                         *)
Overdue(h) == child[h].entry = "active" /\ child[h].due /\ ~child[h].expired

Reaped ==
    [h \in Handles |-> IF Overdue(h) THEN [child[h] EXCEPT !.os = "killed", !.expired = TRUE]
                       ELSE child[h]]

Reap == child' = Reaped /\ UNCHANGED <<terminalOrder, active, disposed, closed, taken>>

(* trimTerminalHandles: the newest MaxRetained finished handles are kept.   *)
\* Mutant of Trimmed: one handle too few is kept.
TrimmedEarly(order) == SubSeq(order, Len(order) - MaxRetained + 2, Len(order))

Trimmed(order) ==
    IF Len(order) <= MaxRetained THEN order
    ELSE SubSeq(order, Len(order) - MaxRetained + 1, Len(order))

(* forget: whoever is no longer in the order has no entry any more.         *)
Forget(ch, order) ==
    [h \in Handles |-> IF ch[h].entry = "terminal" /\ h \notin Elements(order)
                       THEN [ch[h] EXCEPT !.entry = "absent"] ELSE ch[h]]

Without(order, h) ==
    LET i == CHOOSE i \in DOMAIN order : order[i] = h
    IN  IF h \in Elements(order) THEN SubSeq(order, 1, i - 1) \o SubSeq(order, i + 1, Len(order)) ELSE order

-----------------------------------------------------------------------------
\* Mutant of Refuses: one child too many.
RefusesLate == disposed \/ active > MaxActive

Refuses == disposed \/ active >= MaxActive

StartRefused == Refuses /\ Reap

Launch(h) ==
    /\ ~Refuses
    /\ child[h].os = "none"
    /\ child' = [Reaped EXCEPT ![h] = Started]
    /\ active' = active + 1
    /\ UNCHANGED <<terminalOrder, disposed, closed, taken>>

(* The spawn throws: the entry is terminal before start returns its handle. *)
LaunchFails(h) ==
    /\ ~Refuses
    /\ child[h].os = "none"
    /\ terminalOrder' = Trimmed(Append(terminalOrder, h))
    /\ child' = Forget([Reaped EXCEPT ![h] = Ended], terminalOrder')
    /\ closed' = Append(closed, h)
    /\ UNCHANGED <<active, disposed, taken>>

(* markTerminal.  Waiting calls receive the result and release the handle   *)
(* in the same turn; release reaps first.                                   *)
Exits(h, awaited) ==
    /\ child[h].os \in Alive
    /\ closed' = Append(closed, h)
    /\ taken' = IF awaited THEN taken \cup {h} ELSE taken
    /\ IF disposed
       THEN child' = [child EXCEPT ![h].os = "exited"] /\ UNCHANGED <<terminalOrder, active>>
       ELSE /\ terminalOrder' = LET kept == Trimmed(Append(terminalOrder, h))
                                IN  IF awaited THEN Without(kept, h) ELSE kept
            /\ child' = Forget([IF awaited THEN Reaped ELSE child EXCEPT ![h] = Ended], terminalOrder')
            /\ active' = active - 1
    /\ UNCHANGED disposed

(* exec_await of a finished child: the result, then release.                *)
Collect(h) ==
    /\ child[h].entry = "terminal"
    /\ terminalOrder' = Without(terminalOrder, h)
    /\ child' = Forget(Reaped, terminalOrder')
    /\ taken' = taken \cup {h}
    /\ UNCHANGED <<active, disposed, closed>>

(* The lifetime passes; the timer measures it on a clock of its own, so it  *)
(* may fire a moment before Date.now agrees.                                *)
Ages(h) ==
    /\ child[h].entry = "active" /\ ~child[h].due
    /\ child' = [child EXCEPT ![h].due = TRUE]
    /\ UNCHANGED <<terminalOrder, active, disposed, closed, taken>>

TimerFires(h) ==
    /\ child[h].timer
    /\ child' = [Reaped EXCEPT ![h].timer = FALSE]
    /\ UNCHANGED <<terminalOrder, active, disposed, closed, taken>>

(* terminate: a child over its output limit is told to stop, then killed.   *)
Kill(h) ==
    /\ child[h].os = "running"
    /\ child' = [child EXCEPT ![h].os = "killed"]
    /\ UNCHANGED <<terminalOrder, active, disposed, closed, taken>>

Disposed(c) ==
    IF c.entry = "absent" THEN c
    ELSE [c EXCEPT !.os = IF @ = "running" THEN "killed" ELSE @, !.entry = "absent", !.timer = FALSE]

Dispose ==
    /\ child' = [h \in Handles |-> Disposed(child[h])]
    /\ terminalOrder' = <<>>
    /\ active' = 0
    /\ disposed' = TRUE
    /\ UNCHANGED <<closed, taken>>
=============================================================================
