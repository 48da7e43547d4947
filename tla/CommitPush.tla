----------------------------- MODULE CommitPush -----------------------------
(***************************************************************************)
(* `task commit` and `task push` (src/src/workflow/commands/write.ts and   *)
(* the receipts of src/src/workflow/state/sqlite-store.ts).                *)
(*                                                                         *)
(* Each command writes its intent as a receipt, lets Nawabari do the Git   *)
(* mutation, records the result and only then moves the task. A command    *)
(* may die anywhere, a reply may be lost, two commands may run at once,    *)
(* and HEAD and the remote branch may move behind their back: the receipt  *)
(* has to tell the next command what is known and what is not.             *)
(*                                                                         *)
(* Abstracted: one attached session, which stays active, and its identity  *)
(* checks, which either pass or fail; the branch policy, the dry run and   *)
(* the legacy shadow verification, which write nothing; one push target;   *)
(* a commit's message and resources are one intent, and a retry that finds *)
(* other changed paths is a retry with another intent.                     *)
(***************************************************************************)
EXTENDS TaskLifecycle, Integers

CONSTANTS
  Worker,   \* processes that may run a command
  Intent,   \* what a commit may be asked for
  MaxHead,  \* bound: commits on the task's branch after its base commit
  Foreign,  \* a remote tip that is not on the local branch
  None

Commit == 0 .. MaxHead
CommitOrNone == Commit \cup {None}
RemoteTip == Commit \cup {Foreign, None}
IntentOrNone == Intent \cup {None}

VARIABLES
  life,      \* tasks.lifecycle_state
  receipt,   \* the commit_reconciliations row
  pushed,    \* the push_reconciliations row
  claims,    \* Nawabari: what the session holds
  head,      \* the worktree's HEAD: the branch grows by one commit at a time
  remote,    \* the remote branch
  pc, job,   \* per worker: control and local variables
  made,      \* history: for which intent Nawabari made each commit
  carried    \* history: the commits the remote branch has pointed to

store == <<life, receipt, pushed>>
world == <<claims, head, remote>>
history == <<made, carried>>
vars == <<store, world, pc, job, history>>

\* "none" stands for a row that does not exist.
CommitReceipt ==
  [state: {"none", "not-attempted", "succeeded", "ambiguous", "reconciled"},
   before: CommitOrNone, intent: IntentOrNone, sha: CommitOrNone]

PushReceipt ==
  [state: {"none", "prepared", "attempting", "succeeded", "ambiguous", "reconciled"},
   source: CommitOrNone, force: BOOLEAN, up: BOOLEAN,
   result: CommitOrNone, observed: RemoteTip]

\* sha: the result Nawabari returned; source, observed: the evidence of the push;
\* recovering: the command found an earlier attempt; late (history): Nawabari had
\* committed, or pushed, for the task when the command started
Job == [intent: IntentOrNone, sha: CommitOrNone, force: BOOLEAN, up: BOOLEAN,
        recovering: BOOLEAN, late: BOOLEAN, source: CommitOrNone, observed: RemoteTip]

CommitPc == {"probe", "checkpoint", "authorize", "reauthorize", "restore", "commit",
             "result", "observe", "transition", "finalize"}
PushPc == {"source", "verify", "recover", "push", "evidence", "checkpointed", "settle"}
Pc == {"idle"} \cup CommitPc \cup PushPc

ASSUME CommitPushAssumption ==
  /\ MaxHead \in Nat
  /\ None \notin Intent \cup Commit
  /\ Foreign \notin Commit \cup {None}

NoJob == [intent |-> None, sha |-> None, force |-> FALSE, up |-> FALSE,
          recovering |-> FALSE, late |-> FALSE, source |-> None, observed |-> None]

Init ==
  /\ life = "active"
  /\ receipt = [state |-> "none", before |-> None, intent |-> None, sha |-> None]
  /\ pushed = [state |-> "none", source |-> None, force |-> FALSE, up |-> FALSE,
               result |-> None, observed |-> None]
  /\ claims = "launch"
  /\ head = 0
  /\ remote = None
  /\ pc = [w \in Worker |-> "idle"]
  /\ job = [w \in Worker |-> NoJob]
  /\ made = [c \in Commit |-> None]
  /\ carried = {}

-----------------------------------------------------------------------------
(* Control *)

Goto(w, next) == pc' = [pc EXCEPT ![w] = next] /\ job' = job

End(w) ==
  /\ pc' = [pc EXCEPT ![w] = "idle"]
  /\ job' = [job EXCEPT ![w] = NoJob]

\* The process dies, a call fails in a place that writes nothing, or its reply
\* is lost there.
Stop(w) ==
  /\ pc[w] # "idle"
  /\ End(w)
  /\ UNCHANGED <<store, world, history>>

-----------------------------------------------------------------------------
(* task commit *)

\* markCommitReconciliationAmbiguous
CommitAmbiguous == [receipt EXCEPT !.state = "ambiguous"]

Known == receipt.state \in {"succeeded", "reconciled"}

\* Mutant of AtBoundary: HEAD is not compared
AtAnyHead == TRUE

\* HEAD is where the receipt's intent found it
AtBoundary == head = receipt.before

\* commitWorkflowTask, up to the first checkpoint: a receipt decides first,
\* then the task must be active
StartCommit(w, i) ==
  /\ pc[w] = "idle"
  /\ receipt.state # "ambiguous"
  /\ receipt.state = "none" => life = "active"
  /\ pc' = [pc EXCEPT ![w] = CASE receipt.state = "none" -> "checkpoint"
                               [] receipt.state = "not-attempted" -> "probe"
                               [] Known -> "observe"]
  /\ job' = [job EXCEPT ![w].intent = IF Known THEN None ELSE i,
                        ![w].late = \E c \in Commit : made[c] # None]
  /\ UNCHANGED <<store, world, history>>

\* resolveExistingCommit for an intent without a result: observeCommitBoundary
\* found HEAD where it was, so nothing was committed and the intent is retried
Probe(w) ==
  /\ pc[w] = "probe"
  /\ AtBoundary
  /\ IF life = "active" THEN Goto(w, "checkpoint") ELSE End(w)
  /\ UNCHANGED <<store, world, history>>

\* ... or HEAD moved, or the boundary could not be observed
ProbeFails(w) ==
  /\ pc[w] = "probe"
  /\ receipt' = CommitAmbiguous
  /\ End(w)
  /\ UNCHANGED <<life, pushed, world, history>>

\* Mutant of SameIntent: a retry may ask for something else
AnyIntent(w) == AtBoundary

\* beginCommitReconciliation: identityMatches
SameIntent(w) == AtBoundary /\ receipt.intent = job[w].intent

\* observeNawabariCheckpoint and beginCommitReconciliation
Begin(w) ==
  /\ pc[w] = "checkpoint"
  /\ \/ /\ receipt.state = "none"
        /\ receipt' = [state |-> "not-attempted", before |-> head,
                       intent |-> job[w].intent, sha |-> None]
        /\ Goto(w, "authorize")
     \/ /\ receipt.state # "none"
        /\ UNCHANGED receipt
        /\ IF ~SameIntent(w) \/ receipt.state = "ambiguous" THEN End(w)
           ELSE Goto(w, IF Known THEN "observe" ELSE "authorize")
  /\ UNCHANGED <<life, pushed, world, history>>

\* authorize: the launch claim is INSUFFICIENT_CLAIM_MODE, and is replaced in one
\* updateClaims; any other claim that listClaims shows ends the command
Authorize(w) ==
  /\ pc[w] = "authorize"
  /\ claims' = "exclusive-write"
  /\ Goto(w, IF claims = "launch" THEN "reauthorize" ELSE "commit")
  /\ UNCHANGED <<store, head, remote, history>>

\* authorize again: a denial gives the launch claim back
Reauthorize(w) ==
  /\ pc[w] = "reauthorize"
  /\ \/ claims = "exclusive-write" /\ Goto(w, "commit")
     \/ Goto(w, "restore")
  /\ UNCHANGED <<store, world, history>>

\* restorePriorNawabariClaims
Restore(w) ==
  /\ pc[w] = "restore"
  /\ claims' = "launch"
  /\ End(w)
  /\ UNCHANGED <<store, head, remote, history>>

\* Nawabari commits what changed, if the session may write it
NawabariCommit(w) ==
  /\ pc[w] = "commit"
  /\ claims = "exclusive-write" /\ head < MaxHead
  /\ head' = head + 1
  /\ made' = [made EXCEPT ![head + 1] = job[w].intent]
  /\ pc' = [pc EXCEPT ![w] = "result"]
  /\ job' = [job EXCEPT ![w].sha = head + 1]
  /\ UNCHANGED <<store, claims, remote, carried>>

\* Mutant of Recordable: an ambiguous receipt accepts a late result
RecordableLate(w) == receipt.sha \in {None, job[w].sha}

\* recordCommitResult throws on another result and on an ambiguous receipt
Recordable(w) == receipt.sha \in {None, job[w].sha} /\ receipt.state # "ambiguous"

RecordCommit(w) ==
  /\ pc[w] = "result"
  /\ IF Recordable(w)
     THEN /\ receipt' = [receipt EXCEPT !.sha = job[w].sha,
                           !.state = IF @ = "reconciled" THEN @ ELSE "succeeded"]
          /\ Goto(w, "observe")
     ELSE UNCHANGED receipt /\ End(w)
  /\ UNCHANGED <<life, pushed, world, history>>

\* Mutant of NoResult: a reply without a commit counts as a success
NoResultSucceeds(w) ==
  /\ pc[w] = "result"
  /\ receipt' = [receipt EXCEPT !.state = "succeeded"]
  /\ End(w)
  /\ UNCHANGED <<life, pushed, world, history>>

\* The reply carries no commit
NoResult(w) ==
  /\ pc[w] = "result"
  /\ receipt' = CommitAmbiguous
  /\ End(w)
  /\ UNCHANGED <<life, pushed, world, history>>

\* reconcileKnownCommit: HEAD must still be the result
Observe(w) ==
  /\ pc[w] = "observe"
  /\ head = receipt.sha
  /\ Goto(w, "transition")
  /\ UNCHANGED <<store, world, history>>

\* ... or it is not, or the session's identity or authority changed
ObserveFails(w) ==
  /\ pc[w] = "observe"
  /\ receipt' = CommitAmbiguous
  /\ End(w)
  /\ UNCHANGED <<life, pushed, world, history>>

\* verifyWorkflowContext accepts an active or a committed task; transitionTask
\* moves an active one, by the table and a compare-and-set
Transition(w) ==
  /\ pc[w] = "transition"
  /\ IF life \in {"active", "committed"}
     THEN life' = "committed" /\ Goto(w, "finalize")
     ELSE UNCHANGED life /\ End(w)
  /\ UNCHANGED <<receipt, pushed, world, history>>

\* markCommitReconciliationReconciled throws on an ambiguous receipt
Finalize(w) ==
  /\ pc[w] = "finalize"
  /\ receipt' = IF receipt.state = "ambiguous" THEN receipt
                ELSE [receipt EXCEPT !.state = "reconciled"]
  /\ End(w)
  /\ UNCHANGED <<life, pushed, world, history>>

CommitStep(w) ==
  \/ Probe(w) \/ ProbeFails(w) \/ Begin(w) \/ Authorize(w) \/ Reauthorize(w) \/ Restore(w)
  \/ NawabariCommit(w) \/ RecordCommit(w) \/ NoResult(w) \/ Observe(w) \/ ObserveFails(w)
  \/ Transition(w) \/ Finalize(w)

-----------------------------------------------------------------------------
(* task push *)

\* markPushAmbiguous
PushAmbiguous ==
  IF pushed.state = "reconciled" THEN pushed ELSE [pushed EXCEPT !.state = "ambiguous"]

\* The failure is remembered and the command ends
GiveUpPush(w) ==
  /\ pushed' = PushAmbiguous
  /\ End(w)
  /\ UNCHANGED <<life, receipt>>

\* A call of the push fails where its handler marks the receipt
PushFails(w) ==
  /\ pc[w] \in PushPc \ {"source"}
  /\ GiveUpPush(w)
  /\ UNCHANGED <<world, history>>

\* A command has got past its intent: what it did is recovered, not repeated
Interrupted == pushed.state \notin {"none", "prepared"}

\* pushWorkflowTask, up to the first checkpoint
StartPush(w, force, up) ==
  /\ pc[w] = "idle"
  /\ life = "committed"
  /\ pc' = [pc EXCEPT ![w] = IF Interrupted THEN "recover"
                             ELSE IF pushed.state = "prepared" THEN "verify" ELSE "source"]
  /\ job' = [job EXCEPT ![w].force = force /\ pushed.state = "none",
                        ![w].up = up /\ pushed.state # "prepared",
                        ![w].recovering = Interrupted, ![w].late = carried # {}]
  /\ UNCHANGED <<store, world, history>>

\* beginPushReconciliation: the source is HEAD; a row of another source throws
PushBegin(w) ==
  /\ pc[w] = "source"
  /\ \/ /\ pushed.state = "none"
        /\ pushed' = [state |-> "prepared", source |-> head, force |-> job[w].force,
                      up |-> job[w].up, result |-> None, observed |-> None]
        /\ Goto(w, "verify")
     \/ /\ pushed.state # "none"
        /\ UNCHANGED pushed
        /\ IF pushed.source = head THEN Goto(w, "verify") ELSE End(w)
  /\ UNCHANGED <<life, receipt, world, history>>

\* HEAD must still be the source; then markPushAttempting and the authorization
Verify(w) ==
  /\ pc[w] = "verify"
  /\ pushed.source = head
  /\ pushed' = IF pushed.state = "prepared" THEN [pushed EXCEPT !.state = "attempting"]
               ELSE pushed
  /\ Goto(w, "push")
  /\ UNCHANGED <<life, receipt, world, history>>

\* recoverPushReconciliation: HEAD must still be the source
Recover(w) ==
  /\ pc[w] = "recover"
  /\ pushed.source = head
  /\ Goto(w, "push")
  /\ UNCHANGED <<store, world, history>>

\* Mutant of Forced: recovery repeats the receipt's force
ForcedAgain(w) == pushed.force

\* Recovery never forces; it may create the upstream if this call asks for it
Forced(w) == pushed.force /\ ~job[w].recovering
Creates(w) == IF job[w].recovering THEN job[w].up ELSE pushed.up

\* Nawabari pushes HEAD and reports what the remote was
NawabariPush(w) ==
  /\ pc[w] = "push"
  /\ \/ remote = None /\ Creates(w)
     \/ remote \in Commit
     \/ remote = Foreign /\ Forced(w)
  /\ remote' = head
  /\ carried' = carried \cup {head}
  /\ pc' = [pc EXCEPT ![w] = "evidence"]
  /\ job' = [job EXCEPT ![w].source = head, ![w].observed = remote]
  /\ UNCHANGED <<store, claims, head, made>>

\* Mutant of SameGeneration: the evidence is taken for the recorded source
AnyGeneration(w) == TRUE

\* pushIdentityMismatch: what was pushed is the source of the receipt
SameGeneration(w) == job[w].source = pushed.source

\* Recovery believes a remote that already had the source, or was created now
Verified(w) ==
  job[w].recovering => job[w].observed = pushed.source \/ (job[w].up /\ job[w].observed = None)

\* recordPushResult: a recorded result is only compared, and not even that when
\* recovery observed the remote
ResultAgrees(w) ==
  \/ pushed.result = None
  \/ job[w].recovering /\ job[w].observed # None
  \/ pushed.result = job[w].source /\ pushed.observed = job[w].observed

RecordPush(w) ==
  /\ pc[w] = "evidence"
  /\ IF SameGeneration(w) /\ Verified(w) /\ ResultAgrees(w)
     THEN /\ pushed' = IF pushed.result # None THEN pushed
                       ELSE [pushed EXCEPT !.state = "succeeded", !.result = job[w].source,
                               !.observed = IF job[w].recovering THEN None
                                            ELSE job[w].observed]
          /\ Goto(w, "checkpointed")
          /\ UNCHANGED <<life, receipt>>
     ELSE GiveUpPush(w)
  /\ UNCHANGED <<world, history>>

\* completePushedLifecycle: the checkpoint, the context check and transitionTask
Advance(w) ==
  /\ pc[w] = "checkpointed"
  /\ IF life = "committed" THEN life' = "pushed" /\ Goto(w, "settle")
     ELSE UNCHANGED life /\ End(w)
  /\ UNCHANGED <<receipt, pushed, world, history>>

\* markPushReconciled
Settle(w) ==
  /\ pc[w] = "settle"
  /\ pushed' = IF pushed.state \in {"succeeded", "ambiguous"} /\ pushed.result # None
               THEN [pushed EXCEPT !.state = "reconciled"] ELSE pushed
  /\ End(w)
  /\ UNCHANGED <<life, receipt, world, history>>

PushStep(w) ==
  \/ PushFails(w) \/ PushBegin(w) \/ Verify(w) \/ Recover(w) \/ NawabariPush(w)
  \/ RecordPush(w) \/ Advance(w) \/ Settle(w)

-----------------------------------------------------------------------------
(* What happens around the commands *)

\* The developer commits in the worktree without the command
CommitOutside ==
  /\ head < MaxHead
  /\ head' = head + 1
  /\ UNCHANGED <<store, claims, remote, pc, job, history>>

\* Somebody else pushes to the remote branch
RemoteMoves ==
  /\ remote # Foreign
  /\ remote' = Foreign
  /\ UNCHANGED <<store, claims, head, pc, job, history>>

\* `task abandon`; for these commands an orphaned task is no different, unless a
\* start takes it up again, which is left out
MoveTask ==
  /\ life' \in Allowed(life) \cap {"abandoned"}
  /\ UNCHANGED <<receipt, pushed, world, pc, job, history>>

Next ==
  \/ \E w \in Worker :
       \/ \E i \in Intent : StartCommit(w, i)
       \/ \E force, up \in BOOLEAN : StartPush(w, force, up)
       \/ CommitStep(w) \/ PushStep(w) \/ Stop(w)
  \/ CommitOutside \/ RemoteMoves \/ MoveTask

Spec == Init /\ [][Next]_vars

-----------------------------------------------------------------------------
(* Properties *)

\* The columns, registers and commands stay what they are declared to be, and a
\* receipt that counts as known has the result it is known by (migrations.ts
\* commit_reconciliations, push_reconciliations).
TypeOK ==
  /\ life \in {"active", "committed", "pushed", "abandoned"}
  /\ receipt \in CommitReceipt
  /\ Known => receipt.sha # None
  /\ pushed \in PushReceipt
  /\ pushed.state \in {"succeeded", "reconciled"} => pushed.result # None
  /\ claims \in {"launch", "exclusive-write"}
  /\ head \in Commit
  /\ remote \in RemoteTip
  /\ pc \in [Worker -> Pc]
  /\ job \in [Worker -> Job]
  /\ made \in [Commit -> IntentOrNone]
  /\ carried \subseteq Commit

\* A task is committed only on a commit Nawabari reported for the very intent
\* of its receipt: never on a commit somebody else put on the branch, and never
\* on one whose reply was lost ("refusing to adopt an unverified commit").
CommittedIsReported ==
  life \in {"committed", "pushed"} =>
    receipt.sha # None /\ made[receipt.sha] = receipt.intent /\ receipt.intent # None

\* A task is pushed only when the remote branch has carried the commit the push
\* receipt names, and that commit contains the task's commit, whatever was
\* lost, forced or repeated on the way (pushIdentityMismatch, evidence).
PushedIsProven ==
  life = "pushed" =>
    pushed.result = pushed.source /\ pushed.source \in carried /\ receipt.sha <= pushed.source

\* What cannot be proven stays so: no late reply and no concurrent command turns
\* an ambiguous commit receipt into a known one, and a result is never replaced
\* (recordCommitResult, markCommitReconciliationReconciled).
ReceiptSteps ==
  [][/\ receipt.state = "ambiguous" => receipt'.state = "ambiguous"
     /\ receipt.sha # None => receipt'.sha = receipt.sha
     /\ receipt.intent # None => receipt'.intent = receipt.intent]_receipt

\* A push receipt keeps its source and its first result, and a reconciled one is
\* final against a slower command's failure (WHERE state != 'reconciled').
PushSteps ==
  [][/\ pushed.state = "reconciled" => pushed'.state = "reconciled"
     /\ pushed.state # "none" => pushed'.source = pushed.source
     /\ pushed.result # None => pushed'.result = pushed.result]_pushed

\* The durable word of either receipt is final: of concurrent commands, retries and
\* late replies none rewrites what another has recorded as proven or as lost.
ReceiptsAreFinal == ReceiptSteps /\ PushSteps

D == INSTANCE TaskDelivery WITH
       intent <- receipt.intent, word <- receipt.sha, lost <- (receipt.state = "ambiguous"),
       stage <- life, source <- pushed.source, result <- pushed.result,
       settled <- (pushed.state = "reconciled")

\* The receipts, the branch, the remote and the task follow one another as the
\* contract of a delivery says: intent, commit, result, task, then source, push,
\* proof, task. Nothing is done for what no receipt asks for, nothing is relied on
\* that no receipt knows, and no receipt takes its word back, whatever is lost,
\* repeated or done at once (beginCommitReconciliation to markPushReconciled).
ImplementsDelivery == D!Spec

\* A retry never commits again: whatever reply was lost, a command started after
\* Nawabari committed for the task does not make it commit a second time.
NoSecondCommit ==
  [][made' # made => \A w \in Worker : pc[w] = "commit" /\ pc'[w] = "result" => ~job[w].late]_made

\* A retry never destroys: a command started after Nawabari pushed for the task
\* does not overwrite what somebody else has pushed there since, though its
\* receipt still says the first attempt was to force.
RetryNeverOverwrites ==
  [][remote = Foreign /\ remote' # Foreign =>
       \A w \in Worker : pc[w] = "push" /\ pc'[w] = "evidence" => ~job[w].late]_remote

-----------------------------------------------------------------------------
(* The inductive invariant *)

Committing == {"authorize", "reauthorize", "restore", "commit", "result"}

\* What the program points of a commit have established: whose receipt it works
\* under, and that no late one gets as far as Nawabari.
CommitView(w) ==
  /\ pc[w] \in {"probe", "checkpoint"} => job[w].intent \in Intent
  /\ pc[w] \in {"probe"} \cup Committing => receipt.state # "none"
  /\ pc[w] \in Committing => job[w].intent = receipt.intent
  /\ pc[w] = "result" =>
       job[w].sha \in 0 .. head /\ made[job[w].sha] = receipt.intent
  /\ pc[w] \in {"observe", "transition", "finalize"} => receipt.sha # None
  /\ pc[w] \in CommitPc /\ job[w].late => \E c \in Commit : made[c] # None
  /\ pc[w] \in {"checkpoint"} \cup Committing => ~job[w].late

\* ... and of a push: it has a receipt, and a late one recovers.
PushView(w) ==
  /\ pc[w] \in PushPc => receipt.sha # None
  /\ pc[w] \in PushPc \ {"source"} => pushed.state # "none"
  /\ pc[w] \in {"recover", "push", "evidence"} => pushed.state # "prepared"
  /\ pc[w] = "evidence" => job[w].source \in carried
  /\ pc[w] \in {"checkpointed", "settle"} => pushed.result # None
  /\ pc[w] \in PushPc /\ job[w].late => job[w].recovering /\ carried # {}

\* A receipt describes its own commit, and HEAD has passed its boundary as soon as
\* Nawabari has committed.
ReceiptInv ==
  /\ receipt.state = "none" => receipt.intent = None /\ receipt.sha = None
  /\ receipt.state # "none" => receipt.intent \in Intent /\ receipt.before \in 0 .. head
  /\ receipt.sha # None => receipt.sha \in 0 .. head /\ made[receipt.sha] = receipt.intent
  /\ (\E c \in Commit : made[c] # None) => receipt.state # "none" /\ receipt.before < head

\* A push receipt names a commit that contains the task's commit, and its result
\* is that commit, which the remote has carried.
PushedInv ==
  /\ pushed.state = "none" => pushed.result = None
  /\ pushed.state # "none" =>
       pushed.source \in Commit /\ receipt.sha # None /\ receipt.sha <= pushed.source
  /\ pushed.result # None => pushed.result = pushed.source /\ pushed.source \in carried
  /\ carried # {} => pushed.state \notin {"none", "prepared"}

LifeInv ==
  /\ life \in {"committed", "pushed"} => receipt.sha # None
  /\ life = "pushed" => pushed.result # None

IInv ==
  /\ TypeOK /\ ReceiptInv /\ PushedInv /\ LifeInv
  /\ \A w \in Worker : CommitView(w) /\ PushView(w)

\* HEAD is on top of everything Nawabari has made, and a row that does not exist
\* names no source: what the refinement needs besides, inductive relative to IInv.
TopInv ==
  /\ \A c \in Commit : made[c] # None => c <= head
  /\ pushed.state = "none" => pushed.source = None
=============================================================================
