--------------------------- MODULE SessionContract ---------------------------
(***************************************************************************)
(* What the Manager's session service promises its callers: a key names    *)
(* one session for good, a session executes at most one agent at a time    *)
(* and only once it is on the books, an attempt's AgentRun is created once *)
(* and not before the run of the attempt before it is over, and no         *)
(* recorded follow-up is lost.                                             *)
(***************************************************************************)
EXTENDS Integers

CONSTANTS Sessions, Keys, NoKey, Kinds, Notes, Unknown

VARIABLES
    book,   \* per session: what its row says for good
    agent,  \* the sessions an agent executes for
    used    \* per session: the attempts an AgentRun was created for

vars == <<book, agent, used>>

Init ==
    /\ book = [s \in Sessions |-> Unknown]
    /\ agent = {}
    /\ used = [s \in Sessions |-> {}]

Known(s) == book[s] # Unknown

Open == \E s \in Sessions, key \in Keys \cup {NoKey}, kind \in Kinds:
    /\ ~Known(s)
    /\ key # NoKey => \A e \in Sessions: Known(e) => book[e].key # key
    /\ book' = [book EXCEPT ![s] = [key |-> key, kind |-> kind, attempt |-> 0, notes |-> {}]]
    /\ UNCHANGED <<agent, used>>

Follow == \E s \in Sessions, notes \in SUBSET Notes:
    /\ Known(s)
    /\ book' = [book EXCEPT ![s].notes = @ \cup notes]
    /\ UNCHANGED <<agent, used>>

Retry == \E s \in Sessions:
    /\ Known(s)
    /\ book[s].kind = "run" => s \notin agent
    /\ book' = [book EXCEPT ![s].attempt = @ + 1]
    /\ UNCHANGED <<agent, used>>

Launch == \E s \in Sessions:
    /\ Known(s) /\ s \notin agent
    /\ agent' = agent \cup {s}
    /\ IF book[s].kind = "run"
       THEN /\ book[s].attempt \notin used[s]
            /\ used' = [used EXCEPT ![s] = @ \cup {book[s].attempt}]
       ELSE UNCHANGED used
    /\ UNCHANGED book

End == \E s \in Sessions:
    /\ agent' = agent \ {s}
    /\ UNCHANGED <<book, used>>

Next == Open \/ Follow \/ Retry \/ Launch \/ End

Spec == Init /\ [][Next]_vars
=============================================================================
