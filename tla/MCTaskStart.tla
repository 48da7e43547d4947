---- MODULE MCTaskStart ----
\* Two processes start one Issue: with the same request, or with the same key
\* after the base branch has moved; or without a key.
EXTENDS TaskStart, TLC

CONSTANTS w1, w2, t1, t2, s1, s2, first, moved, key, branch

MCRequest == {first, moved}
MCBranchOf == [r \in MCRequest |-> branch]
MCKeyOf == [r \in MCRequest |-> key]
MCUnkeyed == [r \in MCRequest |-> None]

Symmetric == Permutations({w1, w2}) \cup Permutations({t1, t2}) \cup Permutations({s1, s2})
====
