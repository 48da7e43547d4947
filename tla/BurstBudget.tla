---------------------------- MODULE BurstBudget ----------------------------
(***************************************************************************)
(* How much of several concurrent results one agent gets to see             *)
(* (src/src/context-runtime/burst-budget.ts, mode "enforce").  A burst is    *)
(* the time from the first open reservation to the moment none is open; its *)
(* roster keeps every call reserved since, also those already answered.     *)
(*                                                                          *)
(* Calls ask for the same number of tokens, of which the budget holds Fits  *)
(* times as many.  The rolling window decays with the clock: it may have     *)
(* room or not at any time.                                                 *)
(***************************************************************************)
EXTENDS Integers, FiniteSets, Sequences

CONSTANTS
    Fits,        \* maxConcurrentProjectedTokens in calls
    MaxRoster    \* model bound: calls of one burst

ASSUME BurstAssumption == Fits \in Nat /\ MaxRoster \in Nat

VARIABLES
    roster,      \* the burst's generation, in order of registration
    open,        \* seats of the roster whose call has not been answered
    over         \* the controller is disposed

burst == <<roster, open, over>>

Tier == [blocking |-> 0, unresolved |-> 1, plain |-> 2]
Seat == [is: DOMAIN Tier, admitted: BOOLEAN]

BurstInit == roster = <<>> /\ open = {} /\ over = FALSE

NextSeat == Len(roster) + 1

Reserve ==
    /\ ~over
    /\ NextSeat <= MaxRoster
    /\ roster' = Append(roster, [is |-> "unresolved", admitted |-> FALSE])
    /\ open' = open \cup {NextSeat}
    /\ UNCHANGED over

(* Ranked by tier, then by registration.                                    *)
Before(r, j, i) ==
    \/ Tier[r[j].is] < Tier[r[i].is]
    \/ r[j].is = r[i].is /\ j < i

\* Mutant of Rank: a call of unknown priority is counted as if it came last.
RankOfKnown(r, i) == Cardinality({j \in DOMAIN r : Before(r, j, i) /\ r[j].is # "unresolved"})

Rank(r, i) == Cardinality({j \in DOMAIN r : Before(r, j, i)})

(* updatePriority, then admitOptional.                                      *)
Decided(i, is, roomy) ==
    LET known == [roster EXCEPT ![i].is = is]
    IN  [known EXCEPT ![i].admitted = roomy /\ Rank(known, i) < Fits]

Released(r, i) ==
    /\ open' = open \ {i}
    /\ roster' = IF open' = {} THEN <<>> ELSE r
    /\ UNCHANGED over

\* Mutant of DisposeBurst: the reservations outlive the burst.
DisposeRoster == over' = TRUE /\ roster' = <<>> /\ UNCHANGED open

DisposeBurst == over' = TRUE /\ roster' = <<>> /\ open' = {}
=============================================================================
