-------------------------- MODULE CommitPushProofs --------------------------
(***************************************************************************)
(* IInv is inductive, for any processes, intents and commits. A receipt,   *)
(* its result, HEAD and what the remote has carried only grow (Keeps), so  *)
(* what one command has established (CommitView, PushView) outlives the    *)
(* steps of all others; each action is left to show it for its own worker. *)
(***************************************************************************)
EXTENDS CommitPush, TLAPS

USE DEF Pc, CommitPc, PushPc, Committing

\* What no step takes back
Keeps ==
  /\ receipt.state # "none" => receipt'.state # "none" /\ receipt'.intent = receipt.intent
  /\ receipt.sha # None => receipt'.sha = receipt.sha
  /\ head <= head' /\ \A c \in 0 .. head : made'[c] = made[c]
  /\ \A c \in Commit : made[c] # None => made'[c] # None
  /\ carried \subseteq carried'
  /\ pushed.state # "none" => pushed'.state # "none" /\ pushed'.source = pushed.source
  /\ pushed.state \notin {"none", "prepared"} => pushed'.state \notin {"none", "prepared"}
  /\ pushed.result # None => pushed'.result = pushed.result

\* Worker w is alone in changing its control and locals.
Mine(w) ==
  /\ pc' \in [Worker -> Pc] /\ job' \in [Worker -> Job]
  /\ \A v \in Worker \ {w} : pc'[v] = pc[v] /\ job'[v] = job[v]

View(w) == CommitView(w) /\ PushView(w)

Facts == ReceiptInv /\ PushedInv /\ LifeInv

\* HEAD's range is a set of naturals, and no absent value is a value.
LEMMA Constants ==
  /\ MaxHead \in Nat /\ Commit = 0 .. MaxHead
  /\ None \notin Intent /\ None \notin Commit /\ Foreign \notin Commit /\ Foreign # None
  BY CommitPushAssumption DEF Commit

\* The columns of a commit receipt
LEMMA ReceiptFields ==
  ASSUME NEW r \in CommitReceipt
  PROVE  /\ r.state \in {"none", "not-attempted", "succeeded", "ambiguous", "reconciled"}
         /\ r.before \in CommitOrNone /\ r.intent \in IntentOrNone /\ r.sha \in CommitOrNone
  BY DEF CommitReceipt

\* The columns of a push receipt
LEMMA PushFields ==
  ASSUME NEW r \in PushReceipt
  PROVE  /\ r.state \in {"none", "prepared", "attempting", "succeeded", "ambiguous", "reconciled"}
         /\ r.source \in CommitOrNone /\ r.result \in CommitOrNone
         /\ r.observed \in RemoteTip /\ r.force \in BOOLEAN /\ r.up \in BOOLEAN
  BY DEF PushReceipt

\* The local variables of a command
LEMMA JobFields ==
  ASSUME NEW j \in Job
  PROVE  /\ j.intent \in IntentOrNone /\ j.sha \in CommitOrNone /\ j.source \in CommitOrNone
         /\ j.observed \in RemoteTip /\ j.recovering \in BOOLEAN /\ j.late \in BOOLEAN
         /\ j.force \in BOOLEAN /\ j.up \in BOOLEAN
  BY DEF Job

\* A command that has ended remembers nothing.
LEMMA NoJobFields == NoJob \in Job /\ NoJob.late = FALSE
  BY DEF NoJob, Job, IntentOrNone, CommitOrNone, RemoteTip

\* Ending and going on change one worker.
LEMMA EndMine ==
  ASSUME TypeOK, NEW w \in Worker, End(w)
  PROVE  Mine(w) /\ pc'[w] = "idle" /\ job'[w] = NoJob /\ View(w)'
  BY NoJobFields DEF TypeOK, End, Mine, View, CommitView, PushView

\* Going on changes one worker's control.
LEMMA GotoMine ==
  ASSUME TypeOK, NEW w \in Worker, NEW n \in Pc, Goto(w, n)
  PROVE  Mine(w) /\ pc'[w] = n /\ job'[w] = job[w]
  BY DEF TypeOK, Goto, Mine

\* What another command has established stands.
LEMMA ViewKept ==
  ASSUME IInv, NEW w \in Worker, Keeps, pc'[w] = pc[w], job'[w] = job[w], TypeOK'
  PROVE  View(w)'
  <1>1. head \in Commit /\ head' \in Commit /\ head <= head' /\ 0 .. head \subseteq 0 .. head'
    BY Constants DEF IInv, TypeOK, Keeps
  <1>2. CommitView(w)'
    BY <1>1 DEF IInv, CommitView, Keeps, ReceiptInv
  <1>3. PushView(w)'
    BY DEF IInv, PushView, Keeps
  <1> QED BY <1>2, <1>3 DEF View

\* The other commands keep their view, and so the step keeps the invariant.
LEMMA StepKeeps ==
  ASSUME IInv, NEW w \in Worker, Mine(w), Keeps, View(w)', TypeOK', Facts'
  PROVE  IInv'
  <1>1. ASSUME NEW v \in Worker, v # w PROVE View(v)'
    BY <1>1, ViewKept DEF Mine
  <1> QED BY <1>1 DEF IInv, Facts, View

\* A step that only decides, or changes claims.
LEMMA ControlKeeps ==
  ASSUME IInv, NEW w \in Worker, Mine(w), View(w)', UNCHANGED <<store, head, remote, history>>,
         claims' \in {"launch", "exclusive-write"}
  PROVE  IInv'
  <1>1. Keeps BY Constants DEF IInv, TypeOK, Keeps, store, history
  <1>2. TypeOK' BY DEF IInv, TypeOK, Mine, store, history, Known
  <1>3. Facts' BY DEF IInv, Facts, ReceiptInv, PushedInv, LifeInv, store, history
  <1> QED BY <1>1, <1>2, <1>3, StepKeeps

\* A step that changes the commit receipt and nothing else.
LEMMA ReceiptKeeps ==
  ASSUME IInv, NEW w \in Worker, Mine(w), View(w)', UNCHANGED <<life, pushed, world, history>>,
         receipt' \in CommitReceipt, ReceiptInv',
         receipt'.state \in {"succeeded", "reconciled"} => receipt'.sha # None,
         receipt.state # "none" => receipt'.state # "none" /\ receipt'.intent = receipt.intent,
         receipt.sha # None => receipt'.sha = receipt.sha
  PROVE  IInv'
  <1>1. Keeps BY Constants DEF IInv, TypeOK, Keeps, world, history
  <1>2. TypeOK' BY DEF IInv, TypeOK, Mine, world, history, Known
  <1>3. Facts'
    BY DEF IInv, Facts, PushedInv, LifeInv, world, history
  <1> QED BY <1>1, <1>2, <1>3, StepKeeps

\* A step that changes the push receipt and nothing else.
LEMMA PushedKeeps ==
  ASSUME IInv, NEW w \in Worker, Mine(w), View(w)', UNCHANGED <<life, receipt, world, history>>,
         pushed' \in PushReceipt, PushedInv',
         pushed'.state \in {"succeeded", "reconciled"} => pushed'.result # None,
         pushed.state # "none" => pushed'.state # "none" /\ pushed'.source = pushed.source,
         pushed.state \notin {"none", "prepared"} => pushed'.state \notin {"none", "prepared"},
         pushed.result # None => pushed'.result = pushed.result
  PROVE  IInv'
  <1>1. Keeps BY Constants DEF IInv, TypeOK, Keeps, world, history
  <1>2. TypeOK' BY DEF IInv, TypeOK, Mine, world, history, Known
  <1>3. Facts'
    BY DEF IInv, Facts, ReceiptInv, LifeInv, world, history
  <1> QED BY <1>1, <1>2, <1>3, StepKeeps

\* A step that moves the task and nothing else.
LEMMA LifeKeeps ==
  ASSUME IInv, NEW w \in Worker, Mine(w), View(w)', UNCHANGED <<receipt, pushed, world, history>>,
         life' \in {"active", "committed", "pushed", "abandoned"}, LifeInv'
  PROVE  IInv'
  <1>1. Keeps BY Constants DEF IInv, TypeOK, Keeps, world, history
  <1>2. TypeOK' BY DEF IInv, TypeOK, Mine, world, history, Known
  <1>3. Facts' BY DEF IInv, Facts, ReceiptInv, PushedInv, world, history
  <1> QED BY <1>1, <1>2, <1>3, StepKeeps

-----------------------------------------------------------------------------
(* task commit *)

\* An ambiguous mark keeps what the receipt knows.
LEMMA AmbiguousReceipt ==
  ASSUME TypeOK, ReceiptInv
  PROVE  /\ CommitAmbiguous \in CommitReceipt /\ CommitAmbiguous.state = "ambiguous"
         /\ CommitAmbiguous.sha = receipt.sha /\ CommitAmbiguous.intent = receipt.intent
         /\ CommitAmbiguous.before = receipt.before
  BY DEF TypeOK, CommitReceipt, CommitAmbiguous

\* A command that ends with an ambiguous commit receipt
LEMMA AmbiguousKeeps ==
  ASSUME IInv, NEW w \in Worker, receipt' = CommitAmbiguous, receipt.state # "none",
         End(w), UNCHANGED <<life, pushed, world, history>>
  PROVE  IInv'
  <1>1. ReceiptInv' BY AmbiguousReceipt DEF IInv, ReceiptInv, world, history
  <1> QED BY <1>1, AmbiguousReceipt, EndMine, ReceiptKeeps DEF IInv

\* A command that starts late finds a receipt, and Nawabari's commit behind it.
LEMMA StartCommitKeeps ==
  ASSUME IInv, NEW w \in Worker, NEW i \in Intent, StartCommit(w, i)
  PROVE  IInv'
  <1> DEFINE late == \E c \in Commit : made[c] # None
             first == IF Known THEN None ELSE i
  <1>1. /\ pc'[w] = CASE receipt.state = "none" -> "checkpoint"
                        [] receipt.state = "not-attempted" -> "probe"
                        [] Known -> "observe"
        /\ \A v \in Worker \ {w} : pc'[v] = pc[v] /\ job'[v] = job[v]
        /\ pc[w] = "idle" /\ receipt.state # "ambiguous"
        /\ UNCHANGED <<store, world, history>>
    BY DEF StartCommit, IInv, TypeOK
  <1>2. first \in IntentOrNone /\ late \in BOOLEAN /\ (~Known => first = i)
        /\ (late => \E c \in Commit : made[c] # None)
    BY DEF IntentOrNone
  <1>3. receipt.state = "none" => ~late BY DEF IInv, ReceiptInv
  <1> HIDE DEF first, late
  <1>4. receipt.state \in {"none", "not-attempted"} \/ Known
    BY <1>1, ReceiptFields DEF IInv, TypeOK, Known
  <1>5. pc'[w] \in {"checkpoint", "probe", "observe"}
        /\ (pc'[w] = "checkpoint" => receipt.state = "none")
        /\ (pc'[w] = "probe" => receipt.state = "not-attempted")
        /\ (pc'[w] = "observe" => Known)
    BY <1>1, <1>4 DEF Known
  <1>6. job'[w] \in Job /\ job'[w].intent = first /\ (job'[w].late <=> late)
    <2>1. job \in [Worker -> Job] BY DEF IInv, TypeOK
    <2>2. job' = [job EXCEPT ![w] = [job[w] EXCEPT !.intent = first, !.late = late]]
      BY <2>1 DEF StartCommit, first, late
    <2>3. PICK j \in Job : j = job[w] BY <2>1
    <2>4. PICK l \in BOOLEAN : l = late BY <1>2
    <2>5. job'[w] = [j EXCEPT !.intent = first, !.late = l] BY <2>1, <2>2, <2>3, <2>4
    <2>6. /\ [j EXCEPT !.intent = first, !.late = l] \in Job
          /\ [j EXCEPT !.intent = first, !.late = l].intent = first
          /\ [j EXCEPT !.intent = first, !.late = l].late = l
      BY <1>2 DEF Job
    <2> QED BY <2>4, <2>5, <2>6
  <1>7. Mine(w)
    BY <1>1, <1>5, <1>6 DEF Mine, StartCommit, IInv, TypeOK
  <1>8. CommitView(w)'
    BY <1>2, <1>1, <1>4, <1>5, <1>6, <1>3 DEF CommitView, IInv, TypeOK, Known, store, history
  <1>9. PushView(w)' BY <1>5 DEF PushView
  <1> QED BY <1>1, <1>7, <1>8, <1>9, ControlKeeps DEF View, IInv, TypeOK, world

\* A late command does not get past the boundary: HEAD has moved.
LEMMA CommitDecides ==
  ASSUME IInv, NEW w \in Worker,
         Probe(w) \/ Authorize(w) \/ Reauthorize(w) \/ Restore(w) \/ Observe(w)
  PROVE  IInv'
  <1> USE DEF IInv
  <1>1. CASE Probe(w)
    <2>1. job[w].late \in BOOLEAN /\ head \in Nat BY Constants, JobFields DEF TypeOK
    <2>2. pc[w] = "probe" /\ ~job[w].late
      BY <1>1, <2>1 DEF Probe, AtBoundary, CommitView, ReceiptInv
    <2>3. Mine(w) /\ View(w)' BY <1>1, <2>2, EndMine, GotoMine
      DEF Probe, View, CommitView, PushView, store, history
    <2> QED BY <1>1, <2>3, ControlKeeps DEF Probe, world, TypeOK
  <1>2. CASE Authorize(w) \/ Reauthorize(w)
    <2>1. Mine(w) /\ View(w)' BY <1>2, GotoMine
      DEF Authorize, Reauthorize, View, CommitView, PushView, store, history
    <2> QED BY <1>2, <2>1, ControlKeeps DEF Authorize, Reauthorize, world, TypeOK
  <1>3. CASE Restore(w)
    BY <1>3, EndMine, ControlKeeps DEF Restore, world, TypeOK
  <1>4. CASE Observe(w)
    <2>1. Mine(w) /\ View(w)' BY <1>4, GotoMine
      DEF Observe, View, CommitView, PushView, store, history
    <2> QED BY <1>4, <2>1, ControlKeeps DEF Observe, world, TypeOK
  <1> QED BY <1>1, <1>2, <1>3, <1>4

\* The receipt is prepared before Nawabari is asked to commit.
LEMMA BeginKeeps ==
  ASSUME IInv, NEW w \in Worker, Begin(w)
  PROVE  IInv'
  <1> USE DEF IInv
  <1>1. /\ pc[w] = "checkpoint" /\ job[w].intent \in Intent /\ ~job[w].late
        /\ UNCHANGED <<life, pushed, world, history>>
    BY DEF Begin, CommitView
  <1>2. CASE receipt.state = "none"
    <2>1. /\ receipt' = [state |-> "not-attempted", before |-> head,
                         intent |-> job[w].intent, sha |-> None]
          /\ Goto(w, "authorize")
      BY <1>2 DEF Begin
    <2>2. /\ receipt' \in CommitReceipt /\ receipt'.state = "not-attempted"
          /\ receipt'.before = head /\ receipt'.intent = job[w].intent /\ receipt'.sha = None
      BY <1>1, <2>1 DEF TypeOK, CommitReceipt, CommitOrNone, IntentOrNone
    <2>3. Mine(w) /\ View(w)'
      BY <1>1, <2>1, <2>2, GotoMine DEF View, CommitView, PushView, history
    <2>4. ReceiptInv'
      BY <1>1, <1>2, <2>2, Constants DEF ReceiptInv, TypeOK, world, history
    <2> QED BY <1>1, <1>2, <2>2, <2>3, <2>4, ReceiptKeeps DEF ReceiptInv
  <1>3. CASE receipt.state # "none"
    <2>1. /\ UNCHANGED receipt
          /\ \/ End(w)
             \/ Goto(w, "observe") /\ Known
             \/ Goto(w, "authorize") /\ receipt.intent = job[w].intent
      BY <1>3 DEF Begin, SameIntent
    <2>2. Mine(w) /\ View(w)'
      BY <1>1, <1>3, <2>1, EndMine, GotoMine DEF View, CommitView, PushView, TypeOK, history
    <2> QED BY <1>1, <2>1, <2>2, ControlKeeps DEF store, world, TypeOK
  <1> QED BY <1>2, <1>3

\* Nawabari commits after everything the receipts know of.
LEMMA NawabariCommitKeeps ==
  ASSUME IInv, NEW w \in Worker, NawabariCommit(w)
  PROVE  IInv'
  <1> USE DEF IInv
  <1>1. /\ pc[w] = "commit" /\ head \in Commit /\ head' \in Commit /\ head' = head + 1
        /\ made' = [made EXCEPT ![head + 1] = job[w].intent]
        /\ UNCHANGED <<store, claims, remote, carried>>
        /\ job[w].intent = receipt.intent /\ receipt.state # "none" /\ ~job[w].late
    BY Constants DEF NawabariCommit, TypeOK, CommitView
  <1>2. receipt.intent \in Intent /\ receipt.intent # None /\ receipt.before \in 0 .. head
    BY <1>1, Constants DEF ReceiptInv
  <1>3. /\ made' \in [Commit -> IntentOrNone] /\ made'[head'] = receipt.intent
        /\ \A c \in 0 .. head : made'[c] = made[c]
        /\ \A c \in Commit : made[c] # None => made'[c] # None
    BY <1>1, <1>2, Constants DEF TypeOK, IntentOrNone
  <1>4. /\ job'[w] = [job[w] EXCEPT !.sha = head + 1] /\ pc'[w] = "result"
        /\ pc' \in [Worker -> Pc]
        /\ \A v \in Worker \ {w} : pc'[v] = pc[v] /\ job'[v] = job[v]
        /\ job' = [job EXCEPT ![w].sha = head + 1]
    BY DEF NawabariCommit, TypeOK
  <1>5. /\ job'[w] \in Job /\ job'[w].sha = head' /\ job'[w].intent = job[w].intent
        /\ job'[w].late = job[w].late
    BY <1>1, <1>4 DEF TypeOK, Job, CommitOrNone
  <1>6. Mine(w) BY <1>4, <1>5 DEF Mine, TypeOK
  <1>7. Keeps BY <1>1, <1>3, Constants DEF Keeps, store
  <1>8. TypeOK' BY <1>1, <1>3, <1>6 DEF TypeOK, Mine, store, Known
  <1>9. View(w)'
    BY <1>1, <1>3, <1>4, <1>5, Constants DEF View, CommitView, PushView, store
  <1>10. Facts'
    <2>1. ReceiptInv'
      BY <1>1, <1>2, <1>3, Constants DEF ReceiptInv, store
    <2> QED BY <1>1, <2>1 DEF Facts, PushedInv, LifeInv, store
  <1> QED BY <1>6, <1>7, <1>8, <1>9, <1>10, StepKeeps

\* A result goes to the receipt of its own intent.
LEMMA RecordCommitKeeps ==
  ASSUME IInv, NEW w \in Worker, RecordCommit(w)
  PROVE  IInv'
  <1> USE DEF IInv
  <1>1. /\ pc[w] = "result" /\ UNCHANGED <<life, pushed, world, history>>
        /\ receipt.state # "none" /\ job[w].sha \in 0 .. head /\ ~job[w].late
        /\ made[job[w].sha] = receipt.intent /\ job[w].sha \in Commit /\ job[w].sha # None
    BY Constants DEF RecordCommit, CommitView, TypeOK
  <1>2. CASE Recordable(w)
    <2> DEFINE s == IF receipt.state = "reconciled" THEN receipt.state ELSE "succeeded"
    <2>1. receipt' = [receipt EXCEPT !.sha = job[w].sha, !.state = s] /\ Goto(w, "observe")
      BY <1>2 DEF RecordCommit
    <2>2. /\ receipt' \in CommitReceipt /\ receipt'.state \in {"succeeded", "reconciled"}
          /\ receipt'.sha = job[w].sha /\ receipt'.before = receipt.before
          /\ receipt'.intent = receipt.intent
      BY <1>1, <2>1 DEF TypeOK, CommitReceipt, CommitOrNone
    <2>3. Mine(w) /\ View(w)'
      BY <1>1, <2>1, <2>2, GotoMine DEF View, CommitView, PushView, history
    <2>4. ReceiptInv' BY <1>1, <2>2 DEF ReceiptInv, world, history
    <2>5. receipt.sha # None => receipt'.sha = receipt.sha BY <1>2, <2>2 DEF Recordable
    <2> QED BY <1>1, <2>2, <2>3, <2>4, <2>5, ReceiptKeeps
  <1>3. CASE ~Recordable(w)
    BY <1>1, <1>3, EndMine, ControlKeeps DEF RecordCommit, store, world, TypeOK
  <1> QED BY <1>2, <1>3

\* The receipt becomes reconciled, unless somebody made it ambiguous.
LEMMA FinalizeKeeps ==
  ASSUME IInv, NEW w \in Worker, Finalize(w)
  PROVE  IInv'
  <1> USE DEF IInv
  <1>1. pc[w] = "finalize" /\ receipt.sha # None BY DEF Finalize, CommitView
  <1>2. /\ receipt' \in CommitReceipt /\ receipt'.state \in {"ambiguous", "reconciled"}
        /\ receipt'.sha = receipt.sha /\ receipt'.before = receipt.before
        /\ receipt'.intent = receipt.intent
    BY DEF Finalize, TypeOK, CommitReceipt
  <1>3. ReceiptInv' BY <1>1, <1>2 DEF Finalize, ReceiptInv, world, history
  <1> QED BY <1>1, <1>2, <1>3, EndMine, ReceiptKeeps DEF Finalize

\* Every step of a commit command
LEMMA CommitStepKeeps ==
  ASSUME IInv, NEW w \in Worker, CommitStep(w)
  PROVE  IInv'
  <1>1. CASE ProbeFails(w) \/ NoResult(w) \/ ObserveFails(w)
    BY <1>1, AmbiguousKeeps DEF ProbeFails, NoResult, ObserveFails, IInv, CommitView, ReceiptInv
  <1>2. CASE Transition(w)
    <2>1. /\ pc[w] = "transition" /\ receipt.sha # None
          /\ life' \in {"active", "committed", "pushed", "abandoned"} /\ LifeInv'
      BY <1>2 DEF Transition, IInv, CommitView, TypeOK, LifeInv
    <2>2. Mine(w) /\ View(w)'
      BY <1>2, <2>1, EndMine, GotoMine
      DEF Transition, IInv, View, CommitView, PushView, world, history
    <2> QED BY <1>2, <2>1, <2>2, LifeKeeps DEF Transition
  <1> QED BY <1>1, <1>2, CommitDecides, BeginKeeps, NawabariCommitKeeps, RecordCommitKeeps,
             FinalizeKeeps DEF CommitStep

-----------------------------------------------------------------------------
(* task push *)

\* A push that starts after one that reached the remote finds its receipt, and
\* recovers.
LEMMA StartPushKeeps ==
  ASSUME IInv, NEW w \in Worker, NEW force \in BOOLEAN, NEW up \in BOOLEAN,
         StartPush(w, force, up)
  PROVE  IInv'
  <1>1. /\ pc'[w] = (IF Interrupted THEN "recover"
                    ELSE IF pushed.state = "prepared" THEN "verify" ELSE "source")
        /\ pc' \in [Worker -> Pc]
        /\ \A v \in Worker \ {w} : pc'[v] = pc[v] /\ job'[v] = job[v]
        /\ life = "committed" /\ UNCHANGED <<store, world, history>>
    BY DEF StartPush, IInv, TypeOK
  <1>2. /\ job' \in [Worker -> Job]
        /\ (job'[w].recovering <=> Interrupted) /\ (job'[w].late <=> carried # {})
    <2>1. job' = [job EXCEPT ![w] = [job[w] EXCEPT
                    !.force = force /\ pushed.state = "none",
                    !.up = up /\ pushed.state # "prepared",
                    !.recovering = Interrupted, !.late = carried # {}]]
      BY DEF StartPush, IInv, TypeOK
    <2>2. job \in [Worker -> Job] /\ job[w] \in Job BY DEF IInv, TypeOK
    <2>3. PICK f \in BOOLEAN : f = (force /\ pushed.state = "none") OBVIOUS
    <2>4. PICK u \in BOOLEAN : u = (up /\ pushed.state # "prepared") OBVIOUS
    <2>5. PICK i \in BOOLEAN : i = Interrupted BY DEF Interrupted
    <2>6. PICK l \in BOOLEAN : l = (carried # {}) OBVIOUS
    <2>a. PICK j \in Job : j = job[w] BY <2>2
    <2> DEFINE k == [j EXCEPT !.force = f, !.up = u, !.recovering = i, !.late = l]
    <2>b. k \in Job /\ k.recovering = i /\ k.late = l BY DEF Job
    <2>7. job'[w] = k BY <2>1, <2>2, <2>3, <2>4, <2>5, <2>6, <2>a
    <2> HIDE DEF k
    <2>8. job'[w] \in Job /\ (job'[w].recovering <=> i) /\ (job'[w].late <=> l)
      BY <2>b, <2>7
    <2>9. job' \in [Worker -> Job]
      BY <2>1, <2>2, <2>8
    <2> QED BY <2>5, <2>6, <2>8, <2>9
  <1>3. Mine(w) BY <1>1, <1>2 DEF Mine
  <1>4. pc'[w] # "source" => pushed.state # "none"
    BY <1>1 DEF Interrupted
  <1>5. PushView(w)'
    BY <1>1, <1>2, <1>4 DEF PushView, IInv, LifeInv, PushedInv, Interrupted, store, history
  <1>6. CommitView(w)' BY <1>1 DEF CommitView
  <1> QED BY <1>1, <1>3, <1>5, <1>6, ControlKeeps DEF View, IInv, TypeOK, world

\* A command dies, or goes on to recover the receipt's push.
LEMMA PushDecides ==
  ASSUME IInv, NEW w \in Worker, Stop(w) \/ Recover(w)
  PROVE  IInv'
  <1> USE DEF IInv
  <1>1. CASE Stop(w)
    BY <1>1, EndMine, ControlKeeps DEF Stop, world, TypeOK
  <1>2. CASE Recover(w)
    <2>1. Mine(w) /\ View(w)'
      BY <1>2, GotoMine DEF Recover, View, CommitView, PushView, store, history
    <2> QED BY <1>2, <2>1, ControlKeeps DEF Recover, world, TypeOK
  <1> QED BY <1>1, <1>2

\* An ambiguous mark keeps what the push receipt knows.
LEMMA GiveUpKeeps ==
  ASSUME IInv, NEW w \in Worker, GiveUpPush(w), UNCHANGED <<world, history>>,
         pc[w] \in PushPc \ {"source"}
  PROVE  IInv'
  <1>1. /\ pushed.state # "none" /\ pushed' \in PushReceipt
        /\ pushed'.state \in {"reconciled", "ambiguous"}
        /\ pushed'.source = pushed.source /\ pushed'.result = pushed.result
        /\ (pushed'.state = "reconciled" => pushed.state = "reconciled")
    BY DEF GiveUpPush, PushAmbiguous, IInv, TypeOK, PushView, PushReceipt
  <1>2. PushedInv' BY <1>1 DEF GiveUpPush, PushedInv, IInv, world, history
  <1>3. Mine(w) /\ View(w)' BY EndMine DEF GiveUpPush, IInv
  <1> QED BY <1>1, <1>2, <1>3, PushedKeeps DEF GiveUpPush, IInv, TypeOK

\* The push intent names HEAD, which contains the task's commit.
LEMMA PushBeginKeeps ==
  ASSUME IInv, NEW w \in Worker, PushBegin(w)
  PROVE  IInv'
  <1> USE DEF IInv
  <1>1. /\ pc[w] = "source" /\ receipt.sha # None /\ receipt.sha \in 0 .. head
        /\ head \in Commit /\ UNCHANGED <<life, receipt, world, history>>
    BY DEF PushBegin, PushView, ReceiptInv, TypeOK
  <1>2. CASE pushed.state = "none"
    <2>1. /\ pushed' = [state |-> "prepared", source |-> head, force |-> job[w].force,
                        up |-> job[w].up, result |-> None, observed |-> None]
          /\ Goto(w, "verify")
      BY <1>2 DEF PushBegin
    <2>2. /\ pushed' \in PushReceipt /\ pushed'.state = "prepared" /\ pushed'.source = head
          /\ pushed'.result = None
      <3>1. job[w].force \in BOOLEAN /\ job[w].up \in BOOLEAN BY JobFields DEF TypeOK
      <3> QED BY <1>1, <2>1, <3>1 DEF PushReceipt, CommitOrNone, RemoteTip
    <2>3. PushedInv'
      BY <1>1, <1>2, <2>2, Constants DEF PushedInv, world, history
    <2>4. Mine(w) /\ View(w)'
      BY <1>1, <1>2, <2>1, <2>2, GotoMine DEF View, CommitView, PushView, history
    <2> QED BY <1>1, <1>2, <2>2, <2>3, <2>4, PushedKeeps DEF PushedInv
  <1>3. CASE pushed.state # "none"
    <2>1. Mine(w) /\ View(w)'
      BY <1>1, <1>3, EndMine, GotoMine
      DEF PushBegin, View, CommitView, PushView, history
    <2> QED BY <1>1, <1>3, <2>1, ControlKeeps DEF PushBegin, store, world, TypeOK
  <1> QED BY <1>2, <1>3

\* HEAD is compared with the receipt's source before the attempt.
LEMMA VerifyKeeps ==
  ASSUME IInv, NEW w \in Worker, Verify(w)
  PROVE  IInv'
  <1> USE DEF IInv
  <1>1. /\ pc[w] = "verify" /\ pushed.state # "none" /\ pushed' \in PushReceipt
        /\ pushed'.state \notin {"none", "prepared"}
        /\ pushed'.source = pushed.source /\ pushed'.result = pushed.result
        /\ (pushed'.state \in {"succeeded", "reconciled"} => pushed'.state = pushed.state)
        /\ UNCHANGED <<life, receipt, world, history>>
    BY DEF Verify, PushView, TypeOK, PushReceipt
  <1>2. PushedInv' BY <1>1 DEF PushedInv, world, history
  <1>3. Mine(w) /\ View(w)'
    BY <1>1, GotoMine DEF Verify, View, CommitView, PushView, history
  <1> QED BY <1>1, <1>2, <1>3, PushedKeeps DEF TypeOK

\* From here on the remote has carried HEAD.
LEMMA NawabariPushKeeps ==
  ASSUME IInv, NEW w \in Worker, NawabariPush(w)
  PROVE  IInv'
  <1> USE DEF IInv
  <1>1. /\ pc[w] = "push" /\ head \in Commit /\ remote' = head
        /\ carried' = carried \cup {head} /\ pc'[w] = "evidence" /\ pc' \in [Worker -> Pc]
        /\ pushed.state \notin {"none", "prepared"}
        /\ UNCHANGED <<store, claims, head, made>>
        /\ \A v \in Worker \ {w} : pc'[v] = pc[v] /\ job'[v] = job[v]
    BY DEF NawabariPush, TypeOK, PushView
  <1>2. /\ job' \in [Worker -> Job] /\ job'[w].source = head
        /\ job'[w].late = job[w].late /\ job'[w].recovering = job[w].recovering
    <2>1. job \in [Worker -> Job] /\ job[w] \in Job BY DEF TypeOK
    <2>2. head \in CommitOrNone /\ remote \in RemoteTip BY <1>1 DEF TypeOK, CommitOrNone
    <2>3. job' = [job EXCEPT ![w] = [job[w] EXCEPT !.source = head, !.observed = remote]]
      BY <2>1 DEF NawabariPush
    <2>a. PICK j \in Job : j = job[w] BY <2>1
    <2> DEFINE k == [j EXCEPT !.source = head, !.observed = remote]
    <2>b. k \in Job /\ k.source = head /\ k.late = j.late /\ k.recovering = j.recovering
      BY <2>2 DEF Job
    <2>4. job'[w] = k BY <2>1, <2>3, <2>a
    <2> HIDE DEF k
    <2>5. /\ job'[w] \in Job /\ job'[w].source = head
          /\ job'[w].late = job[w].late /\ job'[w].recovering = job[w].recovering
      BY <2>a, <2>b, <2>4
    <2> QED BY <2>1, <2>3, <2>5
  <1>3. Mine(w) BY <1>1, <1>2 DEF Mine
  <1>4. Keeps BY <1>1, Constants DEF Keeps, store
  <1>5. TypeOK' BY <1>1, <1>2 DEF TypeOK, RemoteTip, store, Known
  <1>6. Facts' BY <1>1 DEF Facts, ReceiptInv, PushedInv, LifeInv, store
  <1>7. View(w)'
    BY <1>1, <1>2 DEF View, CommitView, PushView, store
  <1> QED BY <1>3, <1>4, <1>5, <1>6, <1>7, StepKeeps

\* A result is recorded only for the source of the receipt.
LEMMA RecordPushKeeps ==
  ASSUME IInv, NEW w \in Worker, RecordPush(w)
  PROVE  IInv'
  <1> USE DEF IInv
  <1>1. /\ pc[w] = "evidence" /\ UNCHANGED <<world, history>>
        /\ pushed.state \notin {"none", "prepared"}
        /\ job[w].source \in carried /\ job[w].source # None
    BY Constants DEF RecordPush, PushView, TypeOK
  <1>2. CASE SameGeneration(w) /\ Verified(w) /\ ResultAgrees(w)
    <2> DEFINE seen == IF job[w].recovering THEN None ELSE job[w].observed
    <2>1. /\ pushed' = IF pushed.result # None THEN pushed
                       ELSE [pushed EXCEPT !.state = "succeeded", !.result = job[w].source,
                               !.observed = seen]
          /\ Goto(w, "checkpointed") /\ UNCHANGED <<life, receipt>>
      BY <1>2 DEF RecordPush
    <2>2. seen \in RemoteTip /\ job[w].source \in CommitOrNone
      BY JobFields DEF TypeOK, RemoteTip
    <2> HIDE DEF seen
    <2>3. /\ pushed' \in PushReceipt /\ pushed'.source = pushed.source
          /\ pushed'.result # None /\ pushed'.state \notin {"none", "prepared"}
          /\ (pushed.result = None => pushed'.result = pushed.source)
          /\ (pushed.result # None => pushed' = pushed)
      BY <1>1, <1>2, <2>1, <2>2 DEF TypeOK, PushReceipt, SameGeneration
    <2>4. PushedInv'
      BY <1>1, <1>2, <2>1, <2>3 DEF PushedInv, SameGeneration, world, history
    <2>5. Mine(w) /\ View(w)'
      BY <1>1, <2>1, <2>3, GotoMine DEF View, CommitView, PushView, history
    <2> QED BY <1>1, <2>1, <2>3, <2>4, <2>5, PushedKeeps
  <1>3. CASE ~(SameGeneration(w) /\ Verified(w) /\ ResultAgrees(w))
    BY <1>1, <1>3, GiveUpKeeps DEF RecordPush
  <1> QED BY <1>2, <1>3

\* The push receipt becomes reconciled.
LEMMA SettleKeeps ==
  ASSUME IInv, NEW w \in Worker, Settle(w)
  PROVE  IInv'
  <1> USE DEF IInv
  <1>1. /\ pc[w] = "settle" /\ pushed.state # "none" /\ pushed' \in PushReceipt
        /\ pushed'.source = pushed.source /\ pushed'.result = pushed.result
        /\ pushed'.state \in {"reconciled", pushed.state}
        /\ (pushed'.state = "reconciled" => pushed.result # None)
        /\ UNCHANGED <<life, receipt, world, history>>
    BY DEF Settle, PushView, TypeOK, PushReceipt
  <1>2. PushedInv' BY <1>1 DEF PushedInv, world, history
  <1> QED BY <1>1, <1>2, EndMine, PushedKeeps DEF Settle, TypeOK

\* Every step of a push command
LEMMA PushStepKeeps ==
  ASSUME IInv, NEW w \in Worker, PushStep(w)
  PROVE  IInv'
  <1>1. CASE PushFails(w) BY <1>1, GiveUpKeeps DEF PushFails
  <1>2. CASE Advance(w)
    <2>1. /\ pc[w] = "checkpointed" /\ pushed.result # None /\ receipt.sha # None
          /\ life' \in {"active", "committed", "pushed", "abandoned"} /\ LifeInv'
      BY <1>2 DEF Advance, IInv, PushView, TypeOK, LifeInv
    <2>2. Mine(w) /\ View(w)'
      BY <1>2, <2>1, EndMine, GotoMine
      DEF Advance, IInv, View, CommitView, PushView, world, history
    <2> QED BY <1>2, <2>1, <2>2, LifeKeeps DEF Advance
  <1> QED BY <1>1, <1>2, PushBeginKeeps, VerifyKeeps, PushDecides, NawabariPushKeeps,
             RecordPushKeeps, SettleKeeps DEF PushStep

\* HEAD, the remote or the task moves on by itself.
LEMMA OutsideKeeps ==
  ASSUME IInv, CommitOutside \/ RemoteMoves \/ MoveTask \/ UNCHANGED vars
  PROVE  IInv'
  <1> USE DEF IInv
  <1>1. UNCHANGED <<pc, job, receipt, pushed, claims, history>>
    BY DEF CommitOutside, RemoteMoves, MoveTask, vars, store, world, history
  <1>2. /\ head' \in Commit /\ head <= head'
        /\ life' \in {life, "abandoned"} /\ remote' \in {remote, Foreign, head}
    BY Constants DEF CommitOutside, RemoteMoves, MoveTask, vars, store, world, TypeOK
  <1>3. Keeps BY <1>1, <1>2, Constants DEF Keeps, TypeOK, history
  <1>4. TypeOK' BY <1>1, <1>2 DEF TypeOK, RemoteTip, history, Known
  <1>5. ReceiptInv' BY <1>1, <1>2, Constants DEF ReceiptInv, TypeOK, history
  <1>6. PushedInv' /\ LifeInv' BY <1>1, <1>2 DEF PushedInv, LifeInv, history
  <1>7. \A w \in Worker : View(w)' BY <1>1, <1>3, <1>4, ViewKept
  <1> QED BY <1>4, <1>5, <1>6, <1>7 DEF View

-----------------------------------------------------------------------------

\* IInv holds in every reachable state, for any processes, intents and commits.
THEOREM Invariance == Spec => []IInv
  <1>1. Init => IInv
    <2> SUFFICES ASSUME Init PROVE IInv OBVIOUS
    <2>1. TypeOK
      BY Constants, NoJobFields
      DEF Init, TypeOK, CommitReceipt, PushReceipt, CommitOrNone, IntentOrNone, RemoteTip, Known
    <2>2. ReceiptInv /\ PushedInv /\ LifeInv
      BY DEF Init, ReceiptInv, PushedInv, LifeInv
    <2> QED BY <2>1, <2>2 DEF Init, IInv, CommitView, PushView
  <1>2. IInv /\ [Next]_vars => IInv'
    BY StartCommitKeeps, StartPushKeeps, CommitStepKeeps, PushStepKeeps, PushDecides, OutsideKeeps
    DEF Next
  <1> QED BY <1>1, <1>2, PTL DEF Spec

\* Receipts, registers and commands keep their kinds, and a receipt that counts as
\* known has its result.
THEOREM TypeCorrect == Spec => []TypeOK
  BY Invariance, PTL DEF IInv

\* No lost reply, retry or concurrent command makes a task committed on a commit
\* that Nawabari did not report for the receipt's intent.
THEOREM OnlyReported == Spec => []CommittedIsReported
  <1>1. IInv => CommittedIsReported
    BY Constants DEF IInv, LifeInv, ReceiptInv, CommittedIsReported
  <1> QED BY <1>1, Invariance, PTL

\* A pushed task's receipt names a commit the remote has carried, and it contains
\* the task's commit.
THEOREM OnlyProven == Spec => []PushedIsProven
  <1>1. IInv => PushedIsProven
    BY DEF IInv, LifeInv, PushedInv, PushedIsProven
  <1> QED BY <1>1, Invariance, PTL

\* An ambiguous commit receipt stays ambiguous; a result or an intent is never
\* replaced.
THEOREM ReceiptsKeepTheirWord == Spec => ReceiptSteps
  <1> DEFINE A == /\ receipt.state = "ambiguous" => receipt'.state = "ambiguous"
                  /\ receipt.sha # None => receipt'.sha = receipt.sha
                  /\ receipt.intent # None => receipt'.intent = receipt.intent
  <1>1. IInv /\ [Next]_vars => [A]_receipt
    <2> SUFFICES ASSUME IInv, [Next]_vars, receipt' # receipt PROVE A
      OBVIOUS
    <2>1. PICK w \in Worker : CommitStep(w) \/ PushStep(w) \/ Stop(w)
                              \/ (\E i \in Intent : StartCommit(w, i))
                              \/ (\E force, up \in BOOLEAN : StartPush(w, force, up))
      BY DEF Next, CommitOutside, RemoteMoves, MoveTask, vars, store
    <2>2. \/ ProbeFails(w) \/ NoResult(w) \/ ObserveFails(w)
          \/ Begin(w) \/ RecordCommit(w) \/ Finalize(w)
      BY <2>1 DEF CommitStep, PushStep, Stop, StartCommit, StartPush, Probe, Authorize,
           Reauthorize, Restore, NawabariCommit, Observe, Transition, PushFails, GiveUpPush,
           PushBegin, Verify, Recover, NawabariPush, RecordPush, Advance, Settle, store
    <2>3. CASE ProbeFails(w) \/ NoResult(w) \/ ObserveFails(w)
      BY <2>3, AmbiguousReceipt DEF ProbeFails, NoResult, ObserveFails, IInv
    <2>4. CASE Begin(w)
      BY <2>4 DEF Begin, IInv, ReceiptInv
    <2>5. CASE RecordCommit(w)
      BY <2>5 DEF RecordCommit, Recordable, IInv, TypeOK, CommitReceipt
    <2>6. CASE Finalize(w)
      BY <2>6 DEF Finalize, IInv, TypeOK, CommitReceipt
    <2> QED BY <2>2, <2>3, <2>4, <2>5, <2>6
  <1> QED BY <1>1, Invariance, PTL DEF Spec, ReceiptSteps

\* A reconciled push receipt is final; its source and its first result stay.
THEOREM PushReceiptsKeepTheirWord == Spec => PushSteps
  <1> DEFINE A == /\ pushed.state = "reconciled" => pushed'.state = "reconciled"
                  /\ pushed.state # "none" => pushed'.source = pushed.source
                  /\ pushed.result # None => pushed'.result = pushed.result
  <1>1. IInv /\ [Next]_vars => [A]_pushed
    <2> SUFFICES ASSUME IInv, [Next]_vars, pushed' # pushed PROVE A
      OBVIOUS
    <2>1. PICK w \in Worker : CommitStep(w) \/ PushStep(w) \/ Stop(w)
                              \/ (\E i \in Intent : StartCommit(w, i))
                              \/ (\E force, up \in BOOLEAN : StartPush(w, force, up))
      BY DEF Next, CommitOutside, RemoteMoves, MoveTask, vars, store
    <2>2. GiveUpPush(w) \/ PushBegin(w) \/ Verify(w) \/ RecordPush(w) \/ Settle(w)
      BY <2>1 DEF CommitStep, PushStep, Stop, StartCommit, StartPush, Probe, ProbeFails, Begin,
           Authorize, Reauthorize, Restore, NawabariCommit, RecordCommit, NoResult, Observe,
           ObserveFails, Transition, Finalize, PushFails, Recover, NawabariPush, Advance, store
    <2>3. GiveUpPush(w) => A
      BY DEF GiveUpPush, PushAmbiguous, IInv, TypeOK, PushReceipt
    <2>4. CASE PushBegin(w)
      BY <2>4 DEF PushBegin, IInv, PushedInv
    <2>5. CASE Verify(w) \/ Settle(w)
      BY <2>5 DEF Verify, Settle, IInv, TypeOK, PushReceipt
    <2>6. CASE RecordPush(w)
      BY <2>3, <2>6 DEF RecordPush, IInv, TypeOK, PushReceipt
    <2> QED BY <2>2, <2>3, <2>4, <2>5, <2>6
  <1> QED BY <1>1, Invariance, PTL DEF Spec, PushSteps

\* Both receipts together: what either says of a commit or push that was proven
\* or lost is final.
THEOREM WordsStay == Spec => ReceiptsAreFinal
  BY ReceiptsKeepTheirWord, PushReceiptsKeepTheirWord, PTL DEF ReceiptsAreFinal

\* No command that starts after a commit for the task makes Nawabari commit again,
\* whatever was lost.
THEOREM CommitsOnce == Spec => NoSecondCommit
  <1> DEFINE A == \A w \in Worker : pc[w] = "commit" /\ pc'[w] = "result" => ~job[w].late
  <1>1. IInv /\ [Next]_vars => [made' # made => A]_made
    BY DEF IInv, CommitView
  <1> QED BY <1>1, Invariance, PTL DEF Spec, NoSecondCommit

\* No command that starts after a push for the task overwrites what somebody else
\* has pushed since.
THEOREM NeverOverwritesLate == Spec => RetryNeverOverwrites
  <1> DEFINE A == \A w \in Worker : pc[w] = "push" /\ pc'[w] = "evidence" => ~job[w].late
  <1>1. IInv /\ [Next]_vars => [remote = Foreign /\ remote' # Foreign => A]_remote
    <2> SUFFICES ASSUME IInv, [Next]_vars, remote = Foreign, remote' # Foreign,
                        NEW w \in Worker, pc[w] = "push", pc'[w] = "evidence"
                 PROVE  ~job[w].late
      OBVIOUS
    <2>1. PICK v \in Worker : CommitStep(v) \/ PushStep(v) \/ Stop(v)
                              \/ (\E i \in Intent : StartCommit(v, i))
                              \/ (\E force, up \in BOOLEAN : StartPush(v, force, up))
      BY DEF Next, CommitOutside, RemoteMoves, MoveTask, vars, world
    <2>2. PushStep(v)
      BY <2>1 DEF CommitStep, Stop, StartCommit, StartPush, Probe, ProbeFails, Begin, Authorize,
           Reauthorize, Restore, NawabariCommit, RecordCommit, NoResult, Observe, ObserveFails,
           Transition, Finalize, world
    <2>3. NawabariPush(v)
      BY <2>2 DEF PushStep, PushFails, GiveUpPush, PushBegin, Verify, Recover, RecordPush,
           Advance, Settle, world
    <2>4. v = w BY <2>3 DEF NawabariPush, IInv, TypeOK
    <2>5. ~job[w].recovering
      BY <2>3, <2>4, Constants DEF NawabariPush, Forced
    <2> QED BY <2>5 DEF IInv, PushView
  <1> QED BY <1>1, Invariance, PTL DEF Spec, RetryNeverOverwrites

-----------------------------------------------------------------------------

\* The refinement. A step that leaves the receipts, the task and the history alone,
\* or moves a receipt between states the contract does not tell apart, is a stutter.
LEMMA DeliveryStutters ==
  ASSUME UNCHANGED <<life, made, carried>>,
         receipt'.intent = receipt.intent, receipt'.sha = receipt.sha,
         receipt'.state = "ambiguous" <=> receipt.state = "ambiguous",
         pushed'.source = pushed.source, pushed'.result = pushed.result,
         pushed'.state = "reconciled" <=> pushed.state = "reconciled"
  PROVE  UNCHANGED D!vars
  BY DEF D!vars, D!asked, D!published

\* A commit command that decides, or only marks its receipt.
LEMMA CommitMarksDeliver ==
  ASSUME IInv, NEW w \in Worker,
         \/ Probe(w) \/ ProbeFails(w) \/ Authorize(w) \/ Reauthorize(w) \/ Restore(w)
         \/ NoResult(w) \/ Observe(w) \/ ObserveFails(w) \/ Finalize(w)
  PROVE  [D!Next]_(D!vars)
  <1> USE DEF IInv
  <1>1. CASE Probe(w) \/ Authorize(w) \/ Reauthorize(w) \/ Restore(w) \/ Observe(w)
    <2>1. UNCHANGED <<store, history>>
      BY <1>1 DEF Probe, Authorize, Reauthorize, Restore, Observe
    <2> QED BY <2>1, DeliveryStutters DEF store, history
  <1>2. CASE ProbeFails(w) \/ NoResult(w) \/ ObserveFails(w)
    <2>1. receipt' = CommitAmbiguous /\ UNCHANGED <<life, pushed, history>>
      BY <1>2 DEF ProbeFails, NoResult, ObserveFails
    <2>2. receipt.intent # None
      BY <1>2, Constants DEF ProbeFails, NoResult, ObserveFails, CommitView, ReceiptInv
    <2>3. D!Lose
      BY <2>1, <2>2, AmbiguousReceipt DEF D!Lose, D!published, history
    <2> QED BY <2>3 DEF D!Next
  <1>3. CASE Finalize(w)
    <2>1. /\ receipt'.intent = receipt.intent /\ receipt'.sha = receipt.sha
          /\ receipt'.state = "ambiguous" <=> receipt.state = "ambiguous"
          /\ UNCHANGED <<life, pushed, history>>
      BY <1>3 DEF Finalize, TypeOK, CommitReceipt
    <2> QED BY <2>1, DeliveryStutters DEF history
  <1> QED BY <1>1, <1>2, <1>3

\* The intent is written before Nawabari is asked, the commit is made for it on top
\* of HEAD, and what Nawabari answers goes to the receipt while nothing is lost.
LEMMA CommitDelivers ==
  ASSUME IInv, TopInv, NEW w \in Worker,
         Begin(w) \/ NawabariCommit(w) \/ RecordCommit(w) \/ Transition(w)
  PROVE  [D!Next]_(D!vars)
  <1> USE DEF IInv
  <1>1. CASE Begin(w)
    <2>1. UNCHANGED <<life, pushed, history>> /\ job[w].intent \in Intent
      BY <1>1 DEF Begin, CommitView
    <2>2. CASE receipt.state = "none"
      <3>1. /\ receipt.intent = None /\ receipt.sha = None
            /\ receipt' = [state |-> "not-attempted", before |-> head,
                           intent |-> job[w].intent, sha |-> None]
        BY <1>1, <2>2 DEF Begin, ReceiptInv
      <3>2. D!Ask BY <2>1, <2>2, <3>1 DEF D!Ask, D!published, history
      <3> QED BY <3>2 DEF D!Next
    <2>3. CASE receipt.state # "none"
      BY <1>1, <2>1, <2>3, DeliveryStutters DEF Begin, history
    <2> QED BY <2>2, <2>3
  <1>2. CASE NawabariCommit(w)
    <2>1. head + 1 \in Commit /\ ~(head + 1 <= head)
      BY <1>2, Constants DEF NawabariCommit, TypeOK
    <2>2. /\ made' = [made EXCEPT ![head + 1] = job[w].intent] /\ job[w].intent = receipt.intent
          /\ receipt.state # "none" /\ UNCHANGED <<store, carried>>
      BY <1>2 DEF NawabariCommit, CommitView
    <2>3. receipt.intent # None BY <2>2, Constants DEF ReceiptInv
    <2>4. made[head + 1] = None BY <2>1 DEF TopInv
    <2>5. D!Make
      BY <2>1, <2>2, <2>3, <2>4 DEF D!Make, D!published, store
    <2> QED BY <2>5 DEF D!Next
  <1>3. CASE RecordCommit(w)
    <2>1. /\ job[w].sha \in Commit /\ made[job[w].sha] = receipt.intent
          /\ UNCHANGED <<life, pushed, history>>
      BY <1>3, Constants DEF RecordCommit, CommitView, TypeOK
    <2>2. \/ UNCHANGED receipt
          \/ /\ receipt.sha \in {None, job[w].sha} /\ receipt.state # "ambiguous"
             /\ receipt'.sha = job[w].sha /\ receipt'.intent = receipt.intent
             /\ receipt'.state # "ambiguous"
      BY <1>3 DEF RecordCommit, Recordable, TypeOK, CommitReceipt
    <2>3. CASE receipt.sha = None /\ ~UNCHANGED receipt
      <3>1. D!Learn BY <2>1, <2>2, <2>3 DEF D!Learn, D!published, history
      <3> QED BY <3>1 DEF D!Next
    <2>4. CASE receipt.sha # None \/ UNCHANGED receipt
      BY <2>1, <2>2, <2>4, DeliveryStutters DEF history
    <2> QED BY <2>3, <2>4
  <1>4. CASE Transition(w)
    <2>1. receipt.sha # None /\ UNCHANGED <<receipt, pushed, history>>
      BY <1>4 DEF Transition, CommitView
    <2>2. UNCHANGED life \/ (life = "active" /\ life' = "committed")
      BY <1>4 DEF Transition
    <2>3. D!Enter \/ UNCHANGED D!vars
      BY <2>1, <2>2 DEF D!Enter, D!vars, D!asked, D!published, history
    <2> QED BY <2>3 DEF D!Next
  <1> QED BY <1>1, <1>2, <1>3, <1>4

\* The source is bound, and carried, when the task's commit is known and contained;
\* the result is what the remote carried of it.
LEMMA PushDelivers ==
  ASSUME IInv, TopInv, NEW w \in Worker, PushStep(w)
  PROVE  [D!Next]_(D!vars)
  <1> USE DEF IInv
  <1>1. ASSUME GiveUpPush(w), UNCHANGED history PROVE UNCHANGED D!vars
    <2>1. /\ pushed'.source = pushed.source /\ pushed'.result = pushed.result
          /\ pushed'.state = "reconciled" <=> pushed.state = "reconciled"
      BY <1>1 DEF GiveUpPush, PushAmbiguous, TypeOK, PushReceipt
    <2> QED BY <1>1, <2>1, DeliveryStutters DEF GiveUpPush, history
  <1>2. CASE PushFails(w) BY <1>1, <1>2 DEF PushFails
  <1>3. CASE PushBegin(w)
    <2>1. /\ receipt.sha # None /\ receipt.sha <= head /\ head \in Commit
          /\ UNCHANGED <<life, receipt, history>>
      BY <1>3, Constants DEF PushBegin, PushView, ReceiptInv, TypeOK
    <2>2. CASE pushed.state = "none"
      <3>1. /\ pushed.source = None /\ pushed.result = None
            /\ pushed' = [state |-> "prepared", source |-> head, force |-> job[w].force,
                          up |-> job[w].up, result |-> None, observed |-> None]
        BY <1>3, <2>2 DEF PushBegin, TopInv, PushedInv
      <3>2. D!Bind BY <2>1, <2>2, <3>1 DEF D!Bind, D!Contains, D!asked, history
      <3> QED BY <3>2 DEF D!Next
    <2>3. CASE pushed.state # "none"
      BY <1>3, <2>1, <2>3, DeliveryStutters DEF PushBegin, history
    <2> QED BY <2>2, <2>3
  <1>4. CASE Verify(w)
    <2>1. /\ pushed'.source = pushed.source /\ pushed'.result = pushed.result
          /\ pushed'.state = "reconciled" <=> pushed.state = "reconciled"
          /\ UNCHANGED <<life, receipt, history>>
      BY <1>4 DEF Verify, TypeOK, PushReceipt
    <2> QED BY <2>1, DeliveryStutters DEF history
  <1>5. CASE Recover(w)
    BY <1>5, DeliveryStutters DEF Recover, store, history
  <1>6. CASE NawabariPush(w)
    <2>1. /\ receipt.sha # None /\ receipt.sha <= head /\ head \in Commit
          /\ pushed.source # None /\ carried' = carried \cup {head}
          /\ UNCHANGED <<store, made>>
      BY <1>6, Constants DEF NawabariPush, PushView, ReceiptInv, PushedInv, TypeOK
    <2>2. D!Carry BY <2>1 DEF D!Carry, D!Contains, D!asked, store
    <2> QED BY <2>2 DEF D!Next
  <1>7. CASE RecordPush(w)
    <2>1. job[w].source \in carried /\ UNCHANGED history /\ pushed.state \in {"none"} \cup
            {"prepared", "attempting", "succeeded", "ambiguous", "reconciled"}
      BY <1>7, PushFields DEF RecordPush, PushView, TypeOK
    <2>2. CASE GiveUpPush(w) BY <1>1, <2>1, <2>2
    <2>3. CASE ~GiveUpPush(w)
      <3>1. /\ UNCHANGED <<life, receipt>>
            /\ \/ UNCHANGED pushed
               \/ /\ pushed.result = None /\ pushed.source = job[w].source
                  /\ pushed'.result = job[w].source /\ pushed'.source = pushed.source
                  /\ pushed'.state = "succeeded" /\ pushed.state # "reconciled"
        BY <1>7, <2>3 DEF RecordPush, SameGeneration, TypeOK, PushReceipt
      <3>2. D!Prove \/ UNCHANGED D!vars
        BY <2>1, <3>1 DEF D!Prove, D!vars, D!asked, D!published, history
      <3> QED BY <3>2 DEF D!Next
    <2> QED BY <2>2, <2>3
  <1>8. CASE Advance(w)
    <2>1. pushed.result # None /\ UNCHANGED <<receipt, pushed, history>>
      BY <1>8 DEF Advance, PushView
    <2>2. UNCHANGED life \/ (life = "committed" /\ life' = "pushed")
      BY <1>8 DEF Advance
    <2>3. D!Enter \/ UNCHANGED D!vars
      BY <2>1, <2>2 DEF D!Enter, D!vars, D!asked, D!published, history
    <2> QED BY <2>3 DEF D!Next
  <1>9. CASE Settle(w)
    <2>1. /\ pushed'.source = pushed.source /\ pushed'.result = pushed.result
          /\ UNCHANGED pushed \/ (pushed.result # None /\ pushed'.state = "reconciled")
          /\ UNCHANGED <<life, receipt, history>>
      BY <1>9 DEF Settle, TypeOK, PushReceipt
    <2>2. D!Close \/ UNCHANGED D!vars
      BY <2>1 DEF D!Close, D!vars, D!asked, D!published, history
    <2> QED BY <2>2 DEF D!Next
  <1> QED BY <1>2, <1>3, <1>4, <1>5, <1>6, <1>7, <1>8, <1>9 DEF PushStep

\* What happens around the commands, and commands that begin or stop
LEMMA OthersDeliver ==
  ASSUME \/ \E w \in Worker : Stop(w)
         \/ \E w \in Worker : \E i \in Intent : StartCommit(w, i)
         \/ \E w \in Worker : \E force, up \in BOOLEAN : StartPush(w, force, up)
         \/ CommitOutside \/ RemoteMoves \/ MoveTask \/ UNCHANGED vars
  PROVE  [D!Next]_(D!vars)
  <1>1. CASE MoveTask
    <2>1. D!Enter BY <1>1 DEF MoveTask, D!Enter, D!asked, D!published, history
    <2> QED BY <2>1 DEF D!Next
  <1>2. CASE ~MoveTask
    <2>1. UNCHANGED <<store, history>>
      BY <1>2 DEF Stop, StartCommit, StartPush, CommitOutside, RemoteMoves, vars
    <2> QED BY <2>1, DeliveryStutters DEF store, history
  <1> QED BY <1>1, <1>2

\* Nawabari commits on top of HEAD, and a push receipt begins with its source.
LEMMA TopKept ==
  ASSUME IInv, TopInv, [Next]_vars
  PROVE  TopInv'
  <1> USE DEF IInv
  <1>1. CASE \E w \in Worker : NawabariCommit(w)
    <2>1. PICK w \in Worker : NawabariCommit(w) BY <1>1
    <2>2. head \in Commit /\ head + 1 \in Commit /\ head' = head + 1 /\ head <= head'
      BY <2>1, Constants DEF NawabariCommit, TypeOK
    <2>3. made' = [made EXCEPT ![head + 1] = job[w].intent] /\ UNCHANGED pushed
      BY <2>1 DEF NawabariCommit, store
    <2>4. ASSUME NEW c \in Commit, made'[c] # None PROVE c <= head'
      BY <2>2, <2>3, <2>4, Constants DEF TopInv, TypeOK
    <2> QED BY <2>3, <2>4 DEF TopInv
  <1>2. CASE CommitOutside
    <2>1. head \in Commit /\ head' = head + 1 /\ UNCHANGED <<made, pushed>>
      BY <1>2 DEF CommitOutside, TypeOK, history, store
    <2> QED BY <2>1, Constants DEF TopInv
  <1>3. CASE \E w \in Worker : PushStep(w)
    <2>1. PICK w \in Worker : PushStep(w) BY <1>3
    <2>2. UNCHANGED <<head, made>>
      BY <2>1 DEF PushStep, PushFails, PushBegin, Verify, Recover, NawabariPush, RecordPush,
         Advance, Settle, world, history
    <2>3. UNCHANGED pushed \/ pushed'.state # "none"
      <3>1. ASSUME GiveUpPush(w) PROVE UNCHANGED pushed \/ pushed'.state # "none"
        BY <3>1 DEF GiveUpPush, PushAmbiguous, TypeOK, PushReceipt
      <3>2. CASE PushFails(w) \/ RecordPush(w)
        BY <3>1, <3>2 DEF PushFails, RecordPush, TypeOK, PushReceipt
      <3>3. CASE PushBegin(w) BY <3>3 DEF PushBegin
      <3>4. CASE Verify(w) \/ Settle(w) BY <3>4 DEF Verify, Settle, TypeOK, PushReceipt
      <3>5. CASE Recover(w) \/ NawabariPush(w) \/ Advance(w)
        BY <3>5 DEF Recover, NawabariPush, Advance, store
      <3> QED BY <2>1, <3>2, <3>3, <3>4, <3>5 DEF PushStep
    <2> QED BY <2>2, <2>3 DEF TopInv
  <1>4. CASE /\ ~(\E w \in Worker : NawabariCommit(w)) /\ ~CommitOutside
             /\ ~(\E w \in Worker : PushStep(w))
    <2>1. ASSUME NEW w \in Worker,
                 \/ \E i \in Intent : StartCommit(w, i)
                 \/ \E force, up \in BOOLEAN : StartPush(w, force, up)
                 \/ Stop(w) \/ (CommitStep(w) /\ ~NawabariCommit(w))
          PROVE  UNCHANGED <<head, made, pushed>>
      BY <2>1 DEF CommitStep, StartCommit, StartPush, Stop, Probe, ProbeFails, Begin,
         Authorize, Reauthorize, Restore, RecordCommit, NoResult, Observe, ObserveFails,
         Transition, Finalize, store, world, history
    <2>2. ASSUME RemoteMoves \/ MoveTask \/ UNCHANGED vars PROVE UNCHANGED <<head, made, pushed>>
      BY <2>2 DEF RemoteMoves, MoveTask, vars, store, world, history
    <2>3. UNCHANGED <<head, made, pushed>> BY <1>4, <2>1, <2>2 DEF Next
    <2> QED BY <2>3 DEF TopInv
  <1> QED BY <1>1, <1>2, <1>3, <1>4

\* Commands that commit and push a task, any number at once and dying anywhere,
\* implement the contract of a delivery: each receipt is written before what it asks
\* for is done, relied upon only after what it says was done, and never rewritten.
THEOREM DeliversInOrder == Spec => ImplementsDelivery
  <1>1. Init => TopInv /\ D!Init
    BY DEF Init, TopInv, D!Init
  <1>2. IInv /\ TopInv /\ [Next]_vars => TopInv' BY TopKept
  <1>3. IInv /\ TopInv /\ [Next]_vars => [D!Next]_(D!vars)
    BY CommitMarksDeliver, CommitDelivers, PushDelivers, OthersDeliver DEF Next, CommitStep
  <1> QED BY <1>1, <1>2, <1>3, Invariance, PTL DEF Spec, ImplementsDelivery, D!Spec
=============================================================================
