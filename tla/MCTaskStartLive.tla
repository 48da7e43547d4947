---- MODULE MCTaskStartLive ----
\* One client that keeps repeating a start until it is reported, and only so
\* many things going wrong on the way.
EXTENDS TaskStart

CONSTANTS w1, t1, t2, t3, s1, s2, s3, first, key, branch,
  MaxFaults   \* bound: failed, lost or interrupted steps, and ended sessions

VARIABLE faults

MCBranchOf == [r \in {first} |-> branch]
MCKeyOf == [r \in {first} |-> key]

live == <<vars, faults>>

Regular == UNCHANGED faults /\ ((\E w \in Starter : Start(w) \/ Step(w)) \/ \E t \in Task : Commit(t))

Faulty ==
  /\ faults < MaxFaults
  /\ faults' = faults + 1
  /\ (\E w \in Starter : Fault(w)) \/ (\E s \in Session : Expire(s))

\* A client that has no answer asks again, and a process that runs goes on.
Fairness ==
  \A w \in Starter : WF_live(Start(w) /\ UNCHANGED faults) /\ WF_live(Step(w) /\ UNCHANGED faults)

LiveSpec == Init /\ faults = 0 /\ [][Regular \/ Faulty]_live /\ Fairness

Stranded(s) ==
  LET t == session[s].label IN
  session[s].state = "active" /\ task[t].life \in {"planned", "orphaned"}

\* An open session whose start went wrong does not stay behind: some retry
\* activates its task or closes it.
NothingStranded == \A s \in Session : Stranded(s) ~> ~Stranded(s)
====
