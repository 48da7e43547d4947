----------------------------- MODULE CloseTask ------------------------------
(***************************************************************************)
(* From a pushed task to a released one: `task open-pr`, `task finish`,    *)
(* `workflow doctor --reconcile-closures`, `task abandon`, `task cleanup`  *)
(* (src/src/workflow/commands/write.ts, domain/nawabari-close.ts,          *)
(* domain/task.ts, providers/github.ts).                                   *)
(*                                                                         *)
(* Five records have to agree in the end and no transaction spans them:    *)
(* the provider's pull request, its row, the task, Nawabari's session and  *)
(* the row of the close handoff. Commands run concurrently, may die        *)
(* between two steps, and may not hear the answer of what they asked for.  *)
(*                                                                         *)
(* Abstracted: one task and its one pull request; identities (repository,  *)
(* worktree, session, record), which match or end the command; the merge   *)
(* revision and fetch authority, which travel with the record; the budget  *)
(* of a reconciliation over many tasks; policies and dry runs.             *)
(***************************************************************************)
EXTENDS TaskLifecycle, Integers

CONSTANTS
  Worker,  \* processes that may run a command
  MaxRev   \* bound: revisions of the task's branch after the pushed one

Rev == 0 .. MaxRev

VARIABLES
  life,     \* tasks.lifecycle_state
  record,   \* the pr_records row; "none": no row
  close,    \* the nawabari_close_reconciliations row; "none": no row
  pr,       \* provider: the pull request
  session,  \* Nawabari: "held" is any state that is neither active nor closed
  head,     \* the worktree's HEAD
  tip,      \* the remote branch
  pc, job   \* per worker: control and local variables

store == <<life, record, close>>
world == <<pr, session, head, tip>>
vars == <<store, world, pc, job>>

PullRequest == [state: {"none", "open", "merged", "closed"}, head: Rev]

\* head: the HEAD the context check saw; seen: the pull request observed;
\* reconcile: the command is a reconciliation
Job == [head: Rev, seen: PullRequest, reconcile: BOOLEAN]

ClosePc == {"begin", "inspect", "close", "closed"}
Pc == {"idle", "find", "record", "opened", "verify", "promote", "merge", "cleanup", "cleaned"}
        \cup ClosePc

ASSUME CloseTaskAssumption == MaxRev \in Nat

NoPullRequest == [state |-> "none", head |-> 0]
NoJob == [head |-> 0, seen |-> NoPullRequest, reconcile |-> FALSE]

Init ==
  /\ life = "pushed"
  /\ record = NoPullRequest
  /\ close = "none"
  /\ pr = NoPullRequest
  /\ session = "active"
  /\ head = 0 /\ tip = 0
  /\ pc = [w \in Worker |-> "idle"]
  /\ job = [w \in Worker |-> NoJob]

-----------------------------------------------------------------------------
(* Control *)

Goto(w, next) == pc' = [pc EXCEPT ![w] = next] /\ job' = job

End(w) ==
  /\ pc' = [pc EXCEPT ![w] = "idle"]
  /\ job' = [job EXCEPT ![w] = NoJob]

\* The process dies, or a call fails where nothing is written
Stop(w) ==
  /\ pc[w] # "idle"
  /\ End(w)
  /\ UNCHANGED <<store, world>>

\* resolveWorkflowTask and verifyWorkflowContext
Context(states) == session = "active" /\ life \in states

-----------------------------------------------------------------------------
(* task open-pr *)

\* openWorkflowPullRequest: a recorded pull request of this HEAD is reused
StartOpen(w) ==
  /\ pc[w] = "idle"
  /\ Context({"pushed", "pull-request-open"})
  /\ \/ /\ record.state # "none" /\ record.head = head
        /\ life' = "pull-request-open"
        /\ UNCHANGED <<pc, job>>
     \/ /\ record.state = "none" /\ life = "pushed"
        /\ pc' = [pc EXCEPT ![w] = "find"]
        /\ job' = [job EXCEPT ![w].head = head]
        /\ UNCHANGED life
  /\ UNCHANGED <<record, close, world>>

\* Mutant of ExactMatch: only a pull request that was created just now is taken
MatchCreated(w, p) == p.head = job[w].head /\ pr.state = "none"

\* isExactPullRequestMatch: the revision HEAD was at
ExactMatch(w, p) == p.head = job[w].head

\* findPullRequests in every state, else openPullRequest of the remote branch
Lookup == IF pr.state # "none" THEN pr ELSE [state |-> "open", head |-> tip]

Find(w) ==
  /\ pc[w] = "find"
  /\ LET found == Lookup IN
       /\ pr' = found
       /\ IF ExactMatch(w, found)
          THEN /\ pc' = [pc EXCEPT ![w] = "record"]
               /\ job' = [job EXCEPT ![w].seen = found]
          ELSE End(w)
  /\ UNCHANGED <<store, session, head, tip>>

\* recordPullRequest: a row of another head throws, the same one is kept
RecordPr(w) ==
  /\ pc[w] = "record"
  /\ IF record.state = "none"
     THEN record' = job[w].seen /\ Goto(w, "opened")
     ELSE /\ UNCHANGED record
          /\ IF record.head = job[w].seen.head THEN Goto(w, "opened") ELSE End(w)
  /\ UNCHANGED <<life, close, world>>

\* transitionTask to pull-request-open
Opened(w) ==
  /\ pc[w] = "opened"
  /\ life' = IF life = "pushed" THEN "pull-request-open" ELSE life
  /\ End(w)
  /\ UNCHANGED <<record, close, world>>

-----------------------------------------------------------------------------
(* task finish and the reconciliation: is the task merged? *)

\* transitionWorkflowTask: a merged task only repeats the close handoff
StartFinish(w) ==
  /\ pc[w] = "idle"
  /\ record.state # "none"
  /\ \/ life = "merged" /\ Goto(w, "begin")
     \/ /\ Context({"pull-request-open"})
        /\ pc' = [pc EXCEPT ![w] = "verify"]
        /\ job' = [job EXCEPT ![w].head = head]
  /\ UNCHANGED <<store, world>>

\* Mutant of Closable: a handoff that was blocked is left to the operator
NeverBlocked == close \in {"none", "pending"} /\ record.state # "none"

Closable == close # "closed" /\ record.state # "none"

\* reconcileNawabariClosures: neither an active session nor HEAD is asked for; a
\* row that is merged already, by a promotion that did not finish, is believed
StartReconcile(w) ==
  /\ pc[w] = "idle"
  /\ Closable
  /\ life \in {"pull-request-open", "merged"}
  /\ pc' = [pc EXCEPT ![w] = IF life = "merged" THEN "begin"
                             ELSE IF record.state = "merged" THEN "merge" ELSE "verify"]
  /\ job' = [job EXCEPT ![w].reconcile = TRUE]
  /\ UNCHANGED <<store, world>>

\* Mutant of Integrated: a pull request that is over counts as merged
IntegratedWhenOver(w) ==
  /\ pr.state \in {"merged", "closed"}
  /\ pr.head = IF job[w].reconcile THEN record.head ELSE job[w].head

\* verifyMergedPullRequest compares with HEAD, the reconciliation with its row
Integrated(w) ==
  /\ pr.state = "merged"
  /\ pr.head = IF job[w].reconcile THEN record.head ELSE job[w].head

\* The provider is observed
Verify(w) ==
  /\ pc[w] = "verify"
  /\ IF Integrated(w) THEN Goto(w, "promote") ELSE End(w)
  /\ UNCHANGED <<store, world>>

\* recordPullRequestMergeRevision and updatePullRequestLifecycleState
Promote(w) ==
  /\ pc[w] = "promote"
  /\ record' = [record EXCEPT !.state = "merged"]
  /\ Goto(w, "merge")
  /\ UNCHANGED <<life, close, world>>

\* Mutant of Merge: a lost race is not noticed
MergeAnyway(w) ==
  /\ pc[w] = "merge"
  /\ life' = IF life = "pull-request-open" THEN "merged" ELSE life
  /\ Goto(w, "begin")
  /\ UNCHANGED <<record, close, world>>

\* transitionTask to merged
Merge(w) ==
  /\ pc[w] = "merge"
  /\ IF life = "pull-request-open" THEN life' = "merged" /\ Goto(w, "begin")
     ELSE UNCHANGED life /\ End(w)
  /\ UNCHANGED <<record, close, world>>

-----------------------------------------------------------------------------
(* closeNawabariExecution *)

\* Mutant of Marked: the UPDATE without its WHERE
MarkedAlways(to) == to

\* markNawabariCloseReconciliation: closed is terminal
Marked(to) == IF close = "closed" THEN close ELSE to

\* The task and its row are merged; beginNawabariCloseReconciliation
BeginClose(w) ==
  /\ pc[w] = "begin"
  /\ record.state = "merged"
  /\ close' = IF close = "none" THEN "pending" ELSE close
  /\ IF close = "closed" THEN End(w) ELSE Goto(w, "inspect")
  /\ UNCHANGED <<life, record, world>>

\* inspectSession: the physical observation
Released == session = "closed"

Inspect(w) ==
  /\ pc[w] = "inspect"
  /\ IF Released THEN close' = Marked("closed") /\ End(w)
     ELSE IF session = "active" THEN UNCHANGED close /\ Goto(w, "close")
     ELSE close' = Marked("blocked") /\ End(w)
  /\ UNCHANGED <<life, record, world>>

\* closeSession: Nawabari releases the claims of an integrated branch
CloseSession(w) ==
  /\ pc[w] = "close"
  /\ session = "active" /\ pr.state = "merged"
  /\ session' = "closed"
  /\ Goto(w, "closed")
  /\ UNCHANGED <<store, pr, head, tip>>

Closed(w) ==
  /\ pc[w] = "closed"
  /\ close' = Marked("closed")
  /\ End(w)
  /\ UNCHANGED <<life, record, world>>

\* Inspection or close fails, or its answer is lost: the blocker is written
Blocked(w) ==
  /\ pc[w] \in {"inspect", "close", "closed"}
  /\ close' = Marked("blocked")
  /\ End(w)
  /\ UNCHANGED <<life, record, world>>

-----------------------------------------------------------------------------
(* task abandon, task cleanup *)

\* transitionTask to abandoned
Abandon(w) ==
  /\ pc[w] = "idle"
  /\ Context({"active", "committed", "pushed", "pull-request-open", "orphaned"})
  /\ life' = "abandoned"
  /\ UNCHANGED <<record, close, world, pc, job>>

StartCleanup(w) ==
  /\ pc[w] = "idle"
  /\ Context({"merged", "abandoned", "orphaned"})
  /\ Goto(w, "cleanup")
  /\ UNCHANGED <<store, world>>

\* nawabari.cleanup closes the session; Nawabari decides whether it may
Cleanup(w) ==
  /\ pc[w] = "cleanup"
  /\ session = "active"
  /\ session' = "closed"
  /\ Goto(w, "cleaned")
  /\ UNCHANGED <<store, pr, head, tip>>

\* updateTaskLifecycleState: not transitionTask
Cleaned(w) ==
  /\ pc[w] = "cleaned"
  /\ life' = "cleaned"
  /\ End(w)
  /\ UNCHANGED <<record, close, world>>

-----------------------------------------------------------------------------
(* What happens around the commands *)

ProviderMerges ==
  /\ pr.state = "open"
  /\ pr' = [pr EXCEPT !.state = "merged"]
  /\ UNCHANGED <<store, session, head, tip, pc, job>>

ProviderCloses ==
  /\ pr.state = "open"
  /\ pr' = [pr EXCEPT !.state = "closed"]
  /\ UNCHANGED <<store, session, head, tip, pc, job>>

\* The developer commits on after the push
Commit ==
  /\ head < MaxRev
  /\ head' = head + 1
  /\ UNCHANGED <<store, pr, session, tip, pc, job>>

\* ... and pushes without the command: an open pull request follows its branch
Push ==
  /\ tip # head
  /\ tip' = head
  /\ pr' = IF pr.state = "open" THEN [pr EXCEPT !.head = head] ELSE pr
  /\ UNCHANGED <<store, session, head, pc, job>>

\* Nawabari: an interrupted close, a stale heartbeat; and back
Hold ==
  /\ session = "active"
  /\ session' = "held"
  /\ UNCHANGED <<store, pr, head, tip, pc, job>>

Resume ==
  /\ session = "held"
  /\ session' = "active"
  /\ UNCHANGED <<store, pr, head, tip, pc, job>>

\* A `task start` of the same task whose session check fails
Orphan ==
  /\ life \in {"active", "committed", "pushed", "pull-request-open"}
  /\ life' = "orphaned"
  /\ UNCHANGED <<record, close, world, pc, job>>

\* A `task start` that takes the task up again
Restart ==
  /\ life = "orphaned" /\ session = "active"
  /\ life' = "active"
  /\ UNCHANGED <<record, close, world, pc, job>>

\* Its commit and push receipts bring it back to pushed
Redeliver ==
  /\ life \in {"active", "committed"} /\ session = "active"
  /\ life' = IF life = "active" THEN "committed" ELSE "pushed"
  /\ UNCHANGED <<record, close, world, pc, job>>

Step(w) ==
  \/ Find(w) \/ RecordPr(w) \/ Opened(w) \/ Verify(w) \/ Promote(w) \/ Merge(w)
  \/ BeginClose(w) \/ Inspect(w) \/ CloseSession(w) \/ Closed(w) \/ Cleanup(w) \/ Cleaned(w)

\* What may go wrong with a command or a session
Disturbance ==
  \/ \E w \in Worker : Blocked(w) \/ Stop(w)
  \/ Hold

Start(w) ==
  \/ StartOpen(w) \/ StartFinish(w) \/ StartReconcile(w) \/ StartCleanup(w) \/ Abandon(w)

Orderly ==
  \/ \E w \in Worker : Start(w) \/ Step(w)
  \/ ProviderMerges \/ ProviderCloses \/ Commit \/ Push \/ Resume
  \/ Orphan \/ Restart \/ Redeliver

Next == Orderly \/ Disturbance

Spec == Init /\ [][Next]_vars

-----------------------------------------------------------------------------
(* Properties *)

\* The columns, registers and commands stay what they are declared to be, and
\* only a task that was merged has a handoff (migrations.ts pr_records,
\* nawabari_close_reconciliations).
TypeOK ==
  /\ life \in LifecycleState \ {"planned"}
  /\ record \in PullRequest
  /\ close \in {"none", "pending", "blocked", "closed"}
  /\ close # "none" => life \in {"merged", "cleaned"}
  /\ pr \in PullRequest
  /\ session \in {"active", "held", "closed"}
  /\ head \in Rev /\ tip \in Rev
  /\ pc \in [Worker -> Pc]
  /\ job \in [Worker -> Job]

\* A task is merged only by a merge of the provider, and its row says so first:
\* whichever command promotes it, and whichever died half way through
\* (verifyMergedPullRequest, reconcileNawabariClosures).
MergedIsIntegrated ==
  life = "merged" => record.state = "merged" /\ pr.state = "merged"

\* The handoff is closed only when Nawabari has let go of the session of a task
\* that was merged: never while a close is under way, never for a task that
\* another command took elsewhere in between (closeNawabariExecution).
ClosedIsReleased ==
  close = "closed" => session = "closed" /\ life \in {"merged", "cleaned"}

\* However finishes, reconciliations, cleanups and abandons interleave and die,
\* neither end of a task is recorded before what it reports has happened.
EndsAreProven == MergedIsIntegrated /\ ClosedIsReleased

\* A release that is proven stays so: of two commands that close the session, the
\* one that failed or answers late does not make it a blocker again
\* (markNawabariCloseReconciliation: "must never regress the durable result").
ReleaseStays == [][close = "closed" => close' = "closed"]_close

Stage == IF life \in {"merged", "cleaned"} THEN life ELSE "open"

R == INSTANCE TaskRelease WITH
       integrated <- (pr.state = "merged"), recorded <- (record.state = "merged"),
       stage <- Stage, held <- (session # "closed"), released <- (close = "closed")

\* The provider's merge, the row, the task, the session and the handoff end one at
\* a time, each after what it reports and none taken back, though no transaction
\* spans the records: whichever commands write them, and whichever die in between
\* (updatePullRequestLifecycleState, transitionTask, closeNawabariExecution).
ImplementsRelease == R!Spec

\* A provider merge is carried through to the release, however often commands die
\* or answers are lost, by nothing but repeated finishes and reconciliations;
\* unless the task is taken elsewhere.
IntegrationIsFinished ==
  life = "pull-request-open" /\ pr.state = "merged" /\ pr.head = record.head
    ~> close = "closed" \/ life \notin {"pull-request-open", "merged"}

\* A pull request whose creation nobody heard of is found again and recorded by
\* the next open-pr, not created twice; unless HEAD or the task moved on, or the
\* session is gone.
PullRequestIsAdopted ==
  life = "pushed" /\ pr.state # "none" /\ pr.head = head
    ~> record.state # "none" \/ pr.head # head \/ life # "pushed" \/ session = "closed"

-----------------------------------------------------------------------------
(* The inductive invariant *)

\* What the program points of a command have established.
View(w) ==
  /\ job[w].seen.state = "merged" => pr.state = "merged"
  /\ pc[w] = "promote" => pr.state = "merged"
  /\ pc[w] \in {"merge"} \cup ClosePc => record.state = "merged"
  /\ pc[w] \in ClosePc => life \in {"merged", "cleaned"}
  /\ pc[w] \in {"closed", "cleaned"} => session = "closed"

\* A row that says merged is right.
RecordInv == record.state = "merged" => pr.state = "merged"

IInv == TypeOK /\ RecordInv /\ MergedIsIntegrated /\ ClosedIsReleased /\ \A w \in Worker : View(w)
=============================================================================
