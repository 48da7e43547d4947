---------------------------- MODULE TaskDelivery ----------------------------
(***************************************************************************)
(* What the receipts of a commit and a push promise: what is asked for is  *)
(* written before it is done, what was done before it is relied upon, and  *)
(* what a receipt has once said, also that the answer is lost, stands. Of  *)
(* the records and the worlds they speak of, one changes at a time.        *)
(***************************************************************************)
EXTENDS Integers

CONSTANTS Intent, Commit, None

VARIABLES
  intent,   \* what the commit is for, None before it is asked for
  made,     \* for which intent each commit was made
  word,     \* the commit that is known to be the task's
  lost,     \* the answer to the commit is lost for good
  stage,    \* the task: "active", "committed", "pushed" or "abandoned"
  source,   \* the commit that is to be published
  carried,  \* the commits the remote branch has carried
  result,   \* the commit that is known to be published
  settled   \* ... and the push is over

asked == <<intent, made, word, lost>>
published == <<source, carried, result, settled>>
vars == <<asked, stage, published>>

Init ==
  /\ intent = None /\ made = [c \in Commit |-> None] /\ word = None /\ lost = FALSE
  /\ stage = "active"
  /\ source = None /\ carried = {} /\ result = None /\ settled = FALSE

Ask == \E i \in Intent :
  /\ intent = None /\ intent' = i
  /\ UNCHANGED <<made, word, lost, stage, published>>

Make == \E c \in Commit :
  /\ intent # None
  /\ made[c] = None /\ made' = [made EXCEPT ![c] = intent]
  /\ UNCHANGED <<intent, word, lost, stage, published>>

Learn == \E c \in Commit :
  /\ word = None /\ ~lost
  /\ made[c] = intent /\ word' = c
  /\ UNCHANGED <<intent, made, lost, stage, published>>

Lose ==
  /\ intent # None /\ lost' = TRUE
  /\ UNCHANGED <<intent, made, word, stage, published>>

Enter ==
  /\ \/ stage = "active" /\ word # None /\ stage' = "committed"
     \/ stage = "committed" /\ result # None /\ stage' = "pushed"
     \/ stage' = "abandoned"
  /\ UNCHANGED <<asked, published>>

\* What is to be published contains the task's commit.
Contains(c) == word # None /\ word <= c

Bind == \E c \in Commit :
  /\ source = None /\ Contains(c) /\ source' = c
  /\ UNCHANGED <<asked, stage, carried, result, settled>>

Carry == \E c \in Commit :
  /\ source # None /\ Contains(c) /\ carried' = carried \cup {c}
  /\ UNCHANGED <<asked, stage, source, result, settled>>

Prove ==
  /\ result = None /\ source \in carried /\ result' = source
  /\ UNCHANGED <<asked, stage, source, carried, settled>>

Close ==
  /\ result # None /\ settled' = TRUE
  /\ UNCHANGED <<asked, stage, source, carried, result>>

Next == Ask \/ Make \/ Learn \/ Lose \/ Enter \/ Bind \/ Carry \/ Prove \/ Close

Spec == Init /\ [][Next]_vars
=============================================================================
