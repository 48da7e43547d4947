-------------------------- MODULE CloseTaskProofs --------------------------
(***************************************************************************)
(* IInv is inductive, for any number of processes and revisions: what a    *)
(* command has established (View) outlives every step of any other, since  *)
(* a merge, its row, the end of the task and the end of the session are    *)
(* never taken back (Keeps).                                               *)
(***************************************************************************)
EXTENDS CloseTask, TLAPS

USE DEF Pc, ClosePc

Ended == {"merged", "cleaned"}

\* What no step takes back
Keeps ==
  /\ pr.state = "merged" => pr'.state = "merged"
  /\ record.state = "merged" => record'.state = "merged"
  /\ record.state # "none" => record'.state # "none"
  /\ life \in Ended => life' \in Ended
  /\ session = "closed" => session' = "closed"

\* Worker w is alone in changing its control and locals.
Mine(w) ==
  /\ pc' \in [Worker -> Pc] /\ job' \in [Worker -> Job]
  /\ \A v \in Worker \ {w} : pc'[v] = pc[v] /\ job'[v] = job[v]

Facts == RecordInv /\ MergedIsIntegrated /\ ClosedIsReleased

\* An observed pull request has a state and a head.
LEMMA PullRequestFields ==
  ASSUME NEW p \in PullRequest
  PROVE  p.state \in {"none", "open", "merged", "closed"} /\ p.head \in Rev
  BY DEF PullRequest

\* A pull request whose state or head is replaced is one.
LEMMA PullRequestUpdate ==
  ASSUME NEW p \in PullRequest, NEW h \in Rev,
         NEW s \in {"none", "open", "merged", "closed"}
  PROVE  /\ [p EXCEPT !.state = s] \in PullRequest /\ [p EXCEPT !.state = s].state = s
         /\ [p EXCEPT !.head = h] \in PullRequest /\ [p EXCEPT !.head = h].state = p.state
         /\ [state |-> s, head |-> h] \in PullRequest
  BY DEF PullRequest

\* The registers of a command that has just begun.
LEMMA NoJobFields == NoJob \in Job /\ NoPullRequest \in PullRequest /\ NoJob.seen.state = "none"
  BY CloseTaskAssumption DEF NoJob, NoPullRequest, Job, PullRequest, Rev

\* Ending and going on change one worker.
LEMMA EndMine ==
  ASSUME TypeOK, NEW w \in Worker, End(w)
  PROVE  Mine(w) /\ pc'[w] = "idle" /\ job'[w] = NoJob /\ View(w)'
  BY NoJobFields DEF TypeOK, End, Mine, View

\* Going on changes one worker's control.
LEMMA GotoMine ==
  ASSUME TypeOK, NEW w \in Worker, NEW n \in Pc, Goto(w, n)
  PROVE  Mine(w) /\ pc'[w] = n /\ job'[w] = job[w]
  BY DEF TypeOK, Goto, Mine

\* The other commands keep their view, and so the step keeps the invariant.
LEMMA StepKeeps ==
  ASSUME IInv, NEW w \in Worker, Mine(w), Keeps, View(w)', TypeOK', Facts'
  PROVE  IInv'
  <1>1. ASSUME NEW v \in Worker, v # w PROVE View(v)'
    <2>1. pc'[v] = pc[v] /\ job'[v] = job[v] /\ View(v) BY <1>1 DEF Mine, IInv
    <2> QED BY <2>1 DEF View, Keeps, Ended
  <1> QED BY <1>1 DEF IInv, Facts

\* A step outside of the commands
LEMMA WorldKeeps ==
  ASSUME IInv, UNCHANGED <<pc, job>>, Keeps, TypeOK', Facts'
  PROVE  IInv'
  BY DEF IInv, Facts, View, Keeps, Ended

-----------------------------------------------------------------------------

\* Opening the pull request
LEMMA OpenKeeps ==
  ASSUME IInv, NEW w \in Worker,
         StartOpen(w) \/ Find(w) \/ RecordPr(w) \/ Opened(w)
  PROVE  IInv'
  <1> USE DEF IInv
  <1>1. CASE StartOpen(w)
    <2>1. Mine(w) /\ View(w)' BY <1>1, NoJobFields DEF StartOpen, Mine, View, TypeOK, Job, Context, store, world
    <2>2. TypeOK' BY <1>1, <2>1 DEF StartOpen, TypeOK, Mine, world, LifecycleState, Context
    <2>3. Keeps /\ Facts'
      BY <1>1 DEF StartOpen, Keeps, Facts, RecordInv, MergedIsIntegrated, ClosedIsReleased, Ended, world, Context
    <2> QED BY <2>1, <2>2, <2>3, StepKeeps
  <1>2. CASE Find(w)
    <2>1. Lookup \in PullRequest /\ (pr.state # "none" => Lookup = pr) /\ Lookup.state # "none"
      BY PullRequestUpdate DEF TypeOK, Lookup
    <2>2. Mine(w) /\ View(w)'
      BY <1>2, <2>1, EndMine DEF Find, Mine, View, TypeOK, Job, store
    <2>3. TypeOK' BY <1>2, <2>1, <2>2 DEF Find, TypeOK, Mine, store
    <2>4. Keeps /\ Facts'
      BY <1>2, <2>1 DEF Find, Keeps, Facts, RecordInv, MergedIsIntegrated, ClosedIsReleased, Ended, store
    <2> QED BY <2>2, <2>3, <2>4, StepKeeps
  <1>3. CASE RecordPr(w)
    <2>1. job[w] \in Job /\ job[w].seen \in PullRequest /\ View(w) /\ pc[w] = "record" BY <1>3 DEF TypeOK, Job, RecordPr
    <2>2. Mine(w) /\ View(w)'
      BY <1>3, <2>1, EndMine, GotoMine DEF RecordPr, View, world
    <2>3. TypeOK' BY <1>3, <2>1, <2>2 DEF RecordPr, TypeOK, Mine, world
    <2>4. Keeps /\ Facts'
      BY <1>3, <2>1 DEF RecordPr, Keeps, Facts, View, RecordInv, MergedIsIntegrated, ClosedIsReleased, Ended, world
    <2> QED BY <2>2, <2>3, <2>4, StepKeeps
  <1>4. CASE Opened(w)
    <2>1. Mine(w) /\ View(w)' BY <1>4, EndMine DEF Opened
    <2>2. TypeOK' BY <1>4, <2>1 DEF Opened, TypeOK, Mine, LifecycleState, world
    <2>3. Keeps /\ Facts'
      BY <1>4 DEF Opened, Keeps, Facts, RecordInv, MergedIsIntegrated, ClosedIsReleased, Ended, world
    <2> QED BY <2>1, <2>2, <2>3, StepKeeps
  <1> QED BY <1>1, <1>2, <1>3, <1>4

\* Finish and reconciliation, up to the merged task
LEMMA MergeKeeps ==
  ASSUME IInv, NEW w \in Worker,
         StartFinish(w) \/ StartReconcile(w) \/ Verify(w) \/ Promote(w) \/ Merge(w)
  PROVE  IInv'
  <1> USE DEF IInv
  <1>1. CASE StartFinish(w)
    <2>1. Mine(w) /\ View(w)' BY <1>1, NoJobFields, GotoMine DEF StartFinish, Mine, View, TypeOK, Job, store, world, Context, MergedIsIntegrated
    <2>2. TypeOK' BY <1>1, <2>1 DEF StartFinish, TypeOK, Mine, store, world
    <2>3. Keeps /\ Facts' BY <1>1 DEF StartFinish, Keeps, Facts, RecordInv, MergedIsIntegrated, ClosedIsReleased, Ended, store, world
    <2> QED BY <2>1, <2>2, <2>3, StepKeeps
  <1>2. CASE StartReconcile(w)
    <2>1. Mine(w) /\ View(w)' BY <1>2, NoJobFields DEF StartReconcile, Mine, View, TypeOK, Job, store, world, Closable, MergedIsIntegrated
    <2>2. TypeOK' BY <1>2, <2>1 DEF StartReconcile, TypeOK, Mine, store, world
    <2>3. Keeps /\ Facts' BY <1>2 DEF StartReconcile, Keeps, Facts, RecordInv, MergedIsIntegrated, ClosedIsReleased, Ended, store, world
    <2> QED BY <2>1, <2>2, <2>3, StepKeeps
  <1>3. CASE Verify(w)
    <2>1. Mine(w) /\ View(w)' BY <1>3, EndMine, GotoMine DEF Verify, View, Integrated, TypeOK, store, world
    <2>2. TypeOK' BY <1>3, <2>1 DEF Verify, TypeOK, Mine, store, world
    <2>3. Keeps /\ Facts' BY <1>3 DEF Verify, Keeps, Facts, RecordInv, MergedIsIntegrated, ClosedIsReleased, Ended, store, world
    <2> QED BY <2>1, <2>2, <2>3, StepKeeps
  <1>4. CASE Promote(w)
    <2>1. Mine(w) /\ View(w)' BY <1>4, GotoMine, PullRequestUpdate DEF Promote, View, TypeOK, world
    <2>2. TypeOK' BY <1>4, <2>1, PullRequestUpdate DEF Promote, TypeOK, Mine, world
    <2>3. Keeps /\ Facts' BY <1>4, PullRequestUpdate DEF Promote, Keeps, Facts, RecordInv, MergedIsIntegrated, ClosedIsReleased, Ended, View, TypeOK, world
    <2> QED BY <2>1, <2>2, <2>3, StepKeeps
  <1>5. CASE Merge(w)
    <2>1. Mine(w) /\ View(w)' BY <1>5, EndMine, GotoMine DEF Merge, View, TypeOK, world
    <2>2. TypeOK' BY <1>5, <2>1 DEF Merge, TypeOK, Mine, LifecycleState, world
    <2>3. Keeps /\ Facts' BY <1>5 DEF Merge, Keeps, Facts, RecordInv, MergedIsIntegrated, ClosedIsReleased, Ended, View, TypeOK, world
    <2> QED BY <2>1, <2>2, <2>3, StepKeeps
  <1> QED BY <1>1, <1>2, <1>3, <1>4, <1>5

\* Releasing the session of a merged task
LEMMA CloseKeeps ==
  ASSUME IInv, NEW w \in Worker,
         BeginClose(w) \/ Inspect(w) \/ CloseSession(w) \/ Closed(w) \/ Blocked(w)
  PROVE  IInv'
  <1> USE DEF IInv
  <1>1. CASE BeginClose(w)
    <2>1. Mine(w) /\ View(w)' BY <1>1, EndMine, GotoMine DEF BeginClose, View, TypeOK, world
    <2>2. TypeOK' BY <1>1, <2>1 DEF BeginClose, TypeOK, Mine, View, world
    <2>3. Keeps /\ Facts' BY <1>1 DEF BeginClose, Keeps, Facts, RecordInv, MergedIsIntegrated, ClosedIsReleased, Ended, View, TypeOK, world
    <2> QED BY <2>1, <2>2, <2>3, StepKeeps
  <1>2. CASE Inspect(w)
    <2>1. Mine(w) /\ View(w)' BY <1>2, EndMine, GotoMine DEF Inspect, View, TypeOK, world
    <2>2. TypeOK' BY <1>2, <2>1 DEF Inspect, TypeOK, Mine, View, Marked, world
    <2>3. Keeps /\ Facts' BY <1>2 DEF Inspect, Keeps, Facts, RecordInv, MergedIsIntegrated, ClosedIsReleased, Ended, View, Released, Marked, TypeOK, world
    <2> QED BY <2>1, <2>2, <2>3, StepKeeps
  <1>3. CASE CloseSession(w)
    <2>1. Mine(w) /\ View(w)' BY <1>3, GotoMine DEF CloseSession, View, TypeOK, store
    <2>2. TypeOK' BY <1>3, <2>1 DEF CloseSession, TypeOK, Mine, store
    <2>3. Keeps /\ Facts' BY <1>3 DEF CloseSession, Keeps, Facts, RecordInv, MergedIsIntegrated, ClosedIsReleased, Ended, store
    <2> QED BY <2>1, <2>2, <2>3, StepKeeps
  <1>4. CASE Closed(w)
    <2>1. Mine(w) /\ View(w)' BY <1>4, EndMine DEF Closed, View, TypeOK
    <2>2. TypeOK' BY <1>4, <2>1 DEF Closed, TypeOK, Mine, View, Marked, world
    <2>3. Keeps /\ Facts' BY <1>4 DEF Closed, Keeps, Facts, RecordInv, MergedIsIntegrated, ClosedIsReleased, Ended, View, Marked, TypeOK, world
    <2> QED BY <2>1, <2>2, <2>3, StepKeeps
  <1>5. CASE Blocked(w)
    <2>1. Mine(w) /\ View(w)' BY <1>5, EndMine DEF Blocked, View, TypeOK
    <2>2. TypeOK' BY <1>5, <2>1 DEF Blocked, TypeOK, Mine, View, Marked, world
    <2>3. Keeps /\ Facts' BY <1>5 DEF Blocked, Keeps, Facts, RecordInv, MergedIsIntegrated, ClosedIsReleased, Ended, View, Marked, TypeOK, world
    <2> QED BY <2>1, <2>2, <2>3, StepKeeps
  <1> QED BY <1>1, <1>2, <1>3, <1>4, <1>5

\* Abandoning and cleaning up, and commands that stop
LEMMA EndKeeps ==
  ASSUME IInv, NEW w \in Worker,
         Stop(w) \/ Abandon(w) \/ StartCleanup(w) \/ Cleanup(w) \/ Cleaned(w)
  PROVE  IInv'
  <1> USE DEF IInv
  <1>1. CASE Stop(w)
    <2>1. Mine(w) /\ View(w)' BY <1>1, EndMine DEF Stop, View
    <2>2. TypeOK' BY <1>1, <2>1 DEF Stop, TypeOK, Mine, store, world
    <2>3. Keeps /\ Facts' BY <1>1 DEF Stop, Keeps, Facts, RecordInv, MergedIsIntegrated, ClosedIsReleased, Ended, store, world
    <2> QED BY <2>1, <2>2, <2>3, StepKeeps
  <1>2. CASE Abandon(w)
    <2>1. TypeOK' BY <1>2 DEF Abandon, TypeOK, Context, world, LifecycleState
    <2>2. Keeps /\ Facts' BY <1>2 DEF Abandon, Keeps, Facts, RecordInv, MergedIsIntegrated, ClosedIsReleased, Ended, TypeOK, Context, world
    <2> QED BY <1>2, <2>1, <2>2, WorldKeeps DEF Abandon
  <1>3. CASE StartCleanup(w)
    <2>1. Mine(w) /\ View(w)' BY <1>3, GotoMine DEF StartCleanup, View, TypeOK, store, world
    <2>2. TypeOK' BY <1>3, <2>1 DEF StartCleanup, TypeOK, Mine, store, world
    <2>3. Keeps /\ Facts' BY <1>3 DEF StartCleanup, Keeps, Facts, RecordInv, MergedIsIntegrated, ClosedIsReleased, Ended, store, world
    <2> QED BY <2>1, <2>2, <2>3, StepKeeps
  <1>4. CASE Cleanup(w)
    <2>1. Mine(w) /\ View(w)' BY <1>4, GotoMine DEF Cleanup, View, TypeOK, store
    <2>2. TypeOK' BY <1>4, <2>1 DEF Cleanup, TypeOK, Mine, store
    <2>3. Keeps /\ Facts' BY <1>4 DEF Cleanup, Keeps, Facts, RecordInv, MergedIsIntegrated, ClosedIsReleased, Ended, store
    <2> QED BY <2>1, <2>2, <2>3, StepKeeps
  <1>5. CASE Cleaned(w)
    <2>1. Mine(w) /\ View(w)' BY <1>5, EndMine DEF Cleaned, View
    <2>2. TypeOK' BY <1>5, <2>1 DEF Cleaned, TypeOK, Mine, LifecycleState, world
    <2>3. Keeps /\ Facts' BY <1>5 DEF Cleaned, Keeps, Facts, RecordInv, MergedIsIntegrated, ClosedIsReleased, Ended, world, TypeOK
    <2> QED BY <2>1, <2>2, <2>3, StepKeeps
  <1> QED BY <1>1, <1>2, <1>3, <1>4, <1>5

\* The provider, the user, and everybody else who moves the task
LEMMA EnvironmentKeeps ==
  ASSUME IInv,
         \/ ProviderMerges \/ ProviderCloses \/ Commit \/ Push \/ Hold \/ Resume
         \/ Orphan \/ Restart \/ Redeliver \/ UNCHANGED vars
  PROVE  IInv'
  <1> USE DEF IInv
  <1>1. CASE ProviderMerges \/ ProviderCloses \/ Push
    <2>1. /\ pr' \in PullRequest /\ (pr.state = "merged" => pr'.state = "merged")
          /\ tip' \in Rev /\ UNCHANGED <<store, session, head, pc, job>>
      <3>1. CASE ProviderMerges \/ ProviderCloses
        <4>1. pr \in PullRequest /\ tip \in Rev BY DEF TypeOK
        <4>2. \A s \in {"merged", "closed"} : [pr EXCEPT !.state = s] \in PullRequest
          BY <4>1, PullRequestUpdate
        <4>3. pr.state = "open" BY <3>1 DEF ProviderMerges, ProviderCloses
        <4>4. pr' \in PullRequest BY <3>1, <4>2 DEF ProviderMerges, ProviderCloses
        <4> QED BY <3>1, <4>1, <4>3, <4>4 DEF ProviderMerges, ProviderCloses
      <3>2. CASE Push BY <3>2, PullRequestUpdate DEF Push, TypeOK
      <3> QED BY <1>1, <3>1, <3>2
    <2>2. TypeOK' BY <2>1 DEF TypeOK, store
    <2>3. Keeps /\ Facts'
      BY <2>1 DEF Keeps, Facts, RecordInv, MergedIsIntegrated, ClosedIsReleased, Ended, store
    <2> QED BY <2>1, <2>2, <2>3, WorldKeeps
  <1>2. CASE Commit \/ Hold \/ Resume
    <2>1. TypeOK' /\ UNCHANGED <<pc, job>>
      BY <1>2, CloseTaskAssumption DEF Commit, Hold, Resume, TypeOK, Rev, store
    <2>2. Keeps /\ Facts' BY <1>2 DEF Commit, Hold, Resume, Keeps, Facts, RecordInv, MergedIsIntegrated, ClosedIsReleased, Ended, store
    <2> QED BY <2>1, <2>2, WorldKeeps
  <1>3. CASE Orphan \/ Restart \/ Redeliver
    <2>1. TypeOK' /\ UNCHANGED <<pc, job>>
      BY <1>3 DEF Orphan, Restart, Redeliver, TypeOK, LifecycleState, world
    <2>2. Keeps /\ Facts' BY <1>3 DEF Orphan, Restart, Redeliver, Keeps, Facts, RecordInv, MergedIsIntegrated, ClosedIsReleased, Ended, TypeOK, world
    <2> QED BY <2>1, <2>2, WorldKeeps
  <1>4. CASE UNCHANGED vars
    BY <1>4 DEF vars, store, world, TypeOK, RecordInv, MergedIsIntegrated, ClosedIsReleased, View
  <1> QED BY <1>1, <1>2, <1>3, <1>4

-----------------------------------------------------------------------------

\* IInv holds in every reachable state, for any number of processes and
\* revisions: the argument for the theorems below.
THEOREM Invariance == Spec => []IInv
  <1>1. Init => IInv
    BY CloseTaskAssumption, NoJobFields
    DEF Init, IInv, TypeOK, RecordInv, MergedIsIntegrated, ClosedIsReleased, View,
        NoPullRequest, PullRequest, LifecycleState, Rev
  <1>2. IInv /\ [Next]_vars => IInv'
    BY OpenKeeps, MergeKeeps, CloseKeeps, EndKeeps, EnvironmentKeeps
    DEF Next, Orderly, Disturbance, Start, Step
  <1> QED BY <1>1, <1>2, PTL DEF Spec

\* The rows, the provider, the session and the commands keep their kinds, and only
\* a merged task has a handoff.
THEOREM TypeCorrect == Spec => []TypeOK
  BY Invariance, PTL DEF IInv

\* No interleaving of commands and crashes calls a task merged that its provider
\* has not merged, or whose row does not say so, or records a handoff as closed
\* before Nawabari has let go of the session of a task that was merged.
THEOREM NeverEndedEarly == Spec => []EndsAreProven
  <1>1. IInv => EndsAreProven BY DEF IInv, EndsAreProven
  <1> QED BY <1>1, Invariance, PTL

\* A recorded release is never taken back, by a slower command's failure least.
THEOREM ReleaseIsFinal == Spec => ReleaseStays
  <1>1. [Next]_vars => [close = "closed" => close' = "closed"]_close
    BY DEF Next, Orderly, Disturbance, Start, Step, StartOpen, StartFinish, StartReconcile,
           StartCleanup, Abandon, Find, RecordPr, Opened, Verify, Promote, Merge,
           BeginClose, Inspect, CloseSession, Closed, Blocked, Marked, Cleanup, Cleaned,
           Stop, Hold, ProviderMerges, ProviderCloses, Commit, Push, Resume, Orphan,
           Restart, Redeliver, vars, store, world
  <1> QED BY <1>1, PTL DEF Spec, ReleaseStays

-----------------------------------------------------------------------------

\* The refinement: what a step does to the records. Steps up to the merged task
\* write a row or the task ...
LEMMA MergeRefines ==
  ASSUME IInv, NEW w \in Worker,
         \/ StartOpen(w) \/ Find(w) \/ RecordPr(w) \/ Opened(w)
         \/ StartFinish(w) \/ StartReconcile(w) \/ Verify(w) \/ Promote(w) \/ Merge(w)
  PROVE  [R!Next]_(R!vars)
  <1> USE DEF IInv, Stage, R!vars
  <1>1. CASE StartOpen(w) \/ Opened(w)
    BY <1>1 DEF StartOpen, Opened, Context, world
  <1>2. CASE Find(w)
    <2>1. (pr'.state = "merged") = (pr.state = "merged") BY <1>2 DEF Find, Lookup
    <2> QED BY <1>2, <2>1 DEF Find, store
  <1>3. CASE RecordPr(w)
    <2>1. \/ UNCHANGED record
          \/ record.state = "none" /\ (record'.state = "merged" => pr.state = "merged")
      BY <1>3 DEF RecordPr, View
    <2>2. R!Record \/ UNCHANGED R!vars BY <1>3, <2>1 DEF RecordPr, R!Record, world
    <2> QED BY <2>2 DEF R!Next
  <1>4. CASE StartFinish(w) \/ StartReconcile(w) \/ Verify(w)
    BY <1>4 DEF StartFinish, StartReconcile, Verify, store, world
  <1>5. CASE Promote(w)
    <2>1. record'.state = "merged" /\ pr.state = "merged" /\ UNCHANGED <<life, close, pr, session>>
      BY <1>5, PullRequestUpdate DEF Promote, View, TypeOK, world
    <2>2. R!Record BY <2>1 DEF R!Record
    <2> QED BY <2>2 DEF R!Next
  <1>6. CASE Merge(w)
    <2>1. R!Settle \/ UNCHANGED R!vars BY <1>6 DEF Merge, View, R!Settle, world
    <2> QED BY <2>1 DEF R!Next
  <1> QED BY <1>1, <1>2, <1>3, <1>4, <1>5, <1>6

\* ... and the close handoff and the cleanup release the session first, and record
\* it when they know that it is gone.
LEMMA ReleaseRefines ==
  ASSUME IInv, NEW w \in Worker,
         \/ BeginClose(w) \/ Inspect(w) \/ CloseSession(w) \/ Closed(w) \/ Blocked(w)
         \/ Stop(w) \/ Abandon(w) \/ StartCleanup(w) \/ Cleanup(w) \/ Cleaned(w)
  PROVE  [R!Next]_(R!vars)
  <1> USE DEF IInv, Stage, R!vars
  <1>1. CASE BeginClose(w) \/ Stop(w) \/ Abandon(w) \/ StartCleanup(w)
    BY <1>1 DEF BeginClose, Stop, Abandon, StartCleanup, Context, store, world
  <1>2. CASE Inspect(w) \/ Closed(w) \/ Blocked(w)
    <2>1. /\ record.state = "merged" /\ life \in {"merged", "cleaned"}
          /\ close' = "closed" => close = "closed" \/ session = "closed"
          /\ close = "closed" => close' = "closed"
          /\ UNCHANGED <<life, record, pr, session>>
      BY <1>2 DEF Inspect, Closed, Blocked, Released, Marked, View, TypeOK, world
    <2>2. R!Release \/ UNCHANGED R!vars BY <2>1 DEF R!Release
    <2> QED BY <2>2 DEF R!Next
  <1>3. CASE CloseSession(w) \/ Cleanup(w)
    <2>1. R!LetGo BY <1>3 DEF CloseSession, Cleanup, R!LetGo, store
    <2> QED BY <2>1 DEF R!Next
  <1>4. CASE Cleaned(w)
    <2>1. R!Clean BY <1>4 DEF Cleaned, View, R!Clean, world
    <2> QED BY <2>1 DEF R!Next
  <1> QED BY <1>1, <1>2, <1>3, <1>4

\* Around the commands, only the provider's merge is a step of the contract.
LEMMA EnvironmentRefines ==
  ASSUME IInv,
         \/ ProviderMerges \/ ProviderCloses \/ Commit \/ Push \/ Hold \/ Resume
         \/ Orphan \/ Restart \/ Redeliver \/ UNCHANGED vars
  PROVE  [R!Next]_(R!vars)
  <1> USE DEF IInv, Stage, R!vars
  <1>1. CASE ProviderMerges
    <2>1. pr'.state = "merged" /\ UNCHANGED <<life, record, close, session>>
      BY <1>1, PullRequestUpdate DEF ProviderMerges, TypeOK, store
    <2>2. R!Integrate BY <2>1 DEF R!Integrate
    <2> QED BY <2>2 DEF R!Next
  <1>2. CASE ProviderCloses \/ Push
    <2>1. pr'.state = "merged" <=> pr.state = "merged"
      <3>1. CASE ProviderCloses BY <3>1, PullRequestUpdate DEF ProviderCloses, TypeOK
      <3>2. CASE Push BY <3>2, PullRequestUpdate DEF Push, TypeOK
      <3> QED BY <1>2, <3>1, <3>2
    <2>2. UNCHANGED <<life, record, close, session>> BY <1>2 DEF ProviderCloses, Push, store
    <2> QED BY <2>1, <2>2
  <1>3. CASE Commit \/ Hold \/ Resume
    BY <1>3 DEF Commit, Hold, Resume, store
  <1>4. CASE Orphan \/ Restart \/ Redeliver
    BY <1>4 DEF Orphan, Restart, Redeliver, world
  <1>5. CASE UNCHANGED vars BY <1>5 DEF vars, store, world
  <1> QED BY <1>1, <1>2, <1>3, <1>4, <1>5

\* The commands, in any interleaving and dying anywhere, implement the contract of a
\* task's end: merge, row, task, session and handoff follow one another, each
\* recorded only after it happened, and nothing recorded is taken back.
THEOREM EndsInOrder == Spec => ImplementsRelease
  <1>1. Init => R!Init BY DEF Init, R!Init, NoPullRequest, Stage
  <1>2. IInv /\ [Next]_vars => [R!Next]_(R!vars)
    BY MergeRefines, ReleaseRefines, EnvironmentRefines DEF Next, Orderly, Disturbance, Start, Step
  <1> QED BY <1>1, <1>2, Invariance, PTL DEF Spec, ImplementsRelease, R!Spec
=============================================================================
