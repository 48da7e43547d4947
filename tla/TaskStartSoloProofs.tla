------------------------ MODULE TaskStartSoloProofs -------------------------
(***************************************************************************)
(* A task only one start works on at a time (nawabari-task.ts): while it   *)
(* is active its session is not closed, it never has two sessions, and no  *)
(* start walks away from an open one. SoloInv is inductive relative to     *)
(* IInv: a step of a start concerns its own task and the sessions that     *)
(* carry its label (Acts), and of an uncontended task there is one such    *)
(* start, whose view says what it has made sure of.                        *)
(***************************************************************************)
EXTENDS TaskStartProofs, FiniteSetTheorems

USE DEF Pc, Working, Identifying

\* A step concerns task t and the sessions labelled with it; sessions do not
\* change their label and do not reopen.
Acts(t) ==
  /\ \A u \in Task \ {t} : task'[u] = task[u] /\ record'[u] = record[u]
  /\ \A s \in Session :
       /\ session[s].label # None => session'[s].label = session[s].label
       /\ session'[s] # session[s] => session'[s].label = t /\ session'[s].state # "free"
       /\ session[s].state \notin {"free", "active"} =>
            session'[s].state \notin {"free", "active"}

\* The rows of t name sessions labelled with it, after the step as before.
Names(t) ==
  /\ task'[t].life # "free"
  /\ \/ record'[t].sid \in {None, record[t].sid}
     \/ record'[t].sid \in Session /\ session'[record'[t].sid].label = t
  /\ \/ task'[t].sid \in {None, task[t].sid}
     \/ task'[t].sid \in Session /\ session'[task'[t].sid].label = t

\* The kinds of the rows, at hand
LEMMA Kinds ==
  ASSUME IInv
  PROVE  /\ \A t \in Task : task[t].sid \in SessionOrNone /\ record[t].sid \in SessionOrNone
         /\ \A s \in Session : /\ session[s].label \in TaskOrNone
                               /\ session[s].state \in {"free", "active", "stale", "closed"}
         /\ \A w \in Starter : job[w].sid \in SessionOrNone /\ pc[w] \in Pc
  BY DEF IInv, TypeOK, TaskRow, Record, SessionRow, Job

\* Another start's view only depends on its own task.
LEMMA OthersView ==
  ASSUME IInv, SoloInv, NEW w \in Starter, NEW v \in Starter \ {w}, NEW t,
         Acts(t), contended \subseteq contended',
         pc'[v] = pc[v], \A x \in Starter \ {w} : job'[x] = job[x],
         job'[w].task \in {job[w].task, None, t},
         t \in Task => t \in contended' \/ job[v].task # t
  PROVE  SoloView(v)'
<1>1. SoloView(v) /\ View(v) BY DEF SoloInv, IInv
<1>2. PICK u : u = job[v].task OBVIOUS
<1>3. CASE pc[v] \notin Working
  BY <1>1, <1>3 DEF SoloView
<1>4. CASE pc[v] \in Working
  <2>1. u \in Task BY <1>1, <1>2, <1>4 DEF View
  <2>2. job[v].sid \in SessionOrNone BY Kinds
  <2>3. job[v].sid # None => session'[job[v].sid].label = u
    BY <1>1, <1>2, <2>1, <2>2, Constants DEF SoloView, Acts, SessionOrNone
  <2>4. pc[v] = "settle" => session'[job[v].sid].state # "active"
    BY <1>1, <2>1, <2>2, Kinds, Constants, <1>2 DEF SoloView, Acts, SessionOrNone, SoloInv, LabelInv
  <2>5. ASSUME u \notin contended'
        PROVE  /\ u \notin contended /\ u # t
               /\ task'[u] = task[u]
               /\ \A s \in Session : /\ session'[s].label = u <=> session[s].label = u
                                     /\ session[s].label = u => session'[s] = session[s]
               /\ \A x \in Starter \ {v} : job'[x].task # u
    <3>1. u \notin contended /\ u # t BY <1>2, <2>1, <2>5
    <3>2. task'[u] = task[u] BY <2>1, <3>1 DEF Acts
    <3>3. \A s \in Session : /\ session'[s].label = u <=> session[s].label = u
                             /\ session[s].label = u => session'[s] = session[s]
      BY <2>1, <3>1, Constants DEF Acts
    <3>4. u \notin Others(v) BY <1>1, <1>2, <1>4, <3>1 DEF SoloView, Alone
    <3>5. \A x \in Starter \ {v} : job[x].task # u BY <3>4 DEF Others
    <3>6. \A x \in Starter \ {v} : job'[x].task # u
      BY <2>1, <3>1, <3>5, Constants
    <3>. QED BY <3>1, <3>2, <3>3, <3>6
  <2>6. u \notin contended' =>
          /\ Live(u)' /\ \A x \in Starter \ {v} : job'[x].task # u
          /\ pc[v] = "create" \/ (pc[v] = "begin" /\ job[v].own) => Labelled(u)' = {}
          /\ pc[v] \in {"reattach", "reactivate", "record", "claim", "attach", "activate"} =>
               job[v].sid # None /\ session'[job[v].sid].state # "closed"
          /\ pc[v] \in {"reactivate", "activate"} => task'[u].sid = job[v].sid
          /\ pc[v] \in {"search", "observe", "close"} => task'[u].life # "active"
    <3>. SUFFICES ASSUME u \notin contended' PROVE
          /\ Live(u)'
          /\ pc[v] = "create" \/ (pc[v] = "begin" /\ job[v].own) => Labelled(u)' = {}
          /\ pc[v] \in {"reattach", "reactivate", "record", "claim", "attach", "activate"} =>
               job[v].sid # None /\ session'[job[v].sid].state # "closed"
          /\ pc[v] \in {"reactivate", "activate"} => task'[u].sid = job[v].sid
          /\ pc[v] \in {"search", "observe", "close"} => task'[u].life # "active"
      BY <2>5
    <3>1. Live(u)' BY <1>1, <1>2, <1>4, <2>5 DEF SoloView, Live, Exists, Alone
    <3>2. Labelled(u)' = Labelled(u) BY <2>5 DEF Labelled
    <3>. QED BY <1>1, <1>2, <1>4, <2>2, <2>5, <3>1, <3>2 DEF SoloView, Alone, SessionOrNone
  <2>7. pc'[v] = pc[v] /\ job'[v] = job[v] OBVIOUS
  <2>8. u \notin contended' => u \notin Others(v)' BY <2>6 DEF Others
  <2>. QED BY <1>1, <1>2, <1>4, <2>3, <2>4, <2>6, <2>7, <2>8 DEF SoloView, Alone
<1>. QED BY <1>3, <1>4

\* The parts of the invariant a step of w on task t has to show
LEMMA SoloStep ==
  ASSUME IInv, IInv', SoloInv, NEW w \in Starter, NEW t \in TaskOrNone, Mine(w), Acts(t),
         t \in Task => Names(t), t = None => session' = session,
         contended \subseteq contended', job'[w].task \in {job[w].task, None, t},
         t \in Task => t \in contended' \/ t \notin Others(w),
         t \in Task /\ t \notin contended' => SoloRows(t)', SoloView(w)'
  PROVE  SoloInv'
<1>1. \A v \in Starter : SoloView(v)'
  <2>. TAKE v \in Starter
  <2>1. CASE v # w
    <3>1. t \in Task => t \in contended' \/ job[v].task # t BY <2>1 DEF Others
    <3>. QED BY <2>1, <3>1, OthersView DEF Mine
  <2>. QED BY <2>1
<1>2. ASSUME NEW u \in Task, u # t
      PROVE  /\ task'[u] = task[u] /\ record'[u] = record[u]
             /\ \A s \in Session : /\ session'[s].label = u <=> session[s].label = u
                                   /\ session[s].label = u => session'[s] = session[s]
  BY <1>2, Constants DEF Acts
<1>3. ASSUME NEW u \in Task, u \notin contended' PROVE SoloRows(u)'
  <2>1. CASE u # t
    <3>1. SoloRows(u) BY <1>3 DEF SoloInv, Alone
    <3>2. Labelled(u)' = Labelled(u) /\ Open(u)' = Open(u)
      BY <1>2, <2>1 DEF Labelled, Open
    <3>3. task[u].sid # None => session'[task[u].sid] = session[task[u].sid]
      BY <1>2, <2>1, Kinds DEF SoloInv, LabelInv, SessionOrNone
    <3>. QED BY <1>2, <2>1, <3>1, <3>2, <3>3 DEF SoloRows, Live, Exists
  <2>. QED BY <1>3, <2>1
<1>4. LabelInv'
  <2>1. ASSUME NEW u \in Task
        PROVE  /\ record'[u].sid # None => session'[record'[u].sid].label = u
               /\ task'[u].sid # None => session'[task'[u].sid].label = u
    <3>1. /\ record[u].sid # None => session'[record[u].sid].label = u
          /\ task[u].sid # None => session'[task[u].sid].label = u
      BY Kinds, Constants DEF SoloInv, LabelInv, SessionOrNone, Acts
    <3>2. CASE u # t BY <1>2, <3>1, <3>2
    <3>3. CASE u = t BY <3>1, <3>3 DEF Names
    <3>. QED BY <3>2, <3>3
  <2>2. ASSUME NEW s \in Session
        PROVE  /\ session'[s].label = None <=> session'[s].state = "free"
               /\ session'[s].label # None => task'[session'[s].label].life # "free"
    <3>1. CASE session'[s] = session[s]
      BY <1>2, <3>1, Kinds DEF SoloInv, LabelInv, Names, TaskOrNone
    <3>2. CASE session'[s] # session[s]
      BY <3>2, Constants DEF Acts, Names, TaskOrNone
    <3>. QED BY <3>1, <3>2
  <2>. QED BY <2>1, <2>2 DEF LabelInv
<1>. QED BY <1>1, <1>3, <1>4 DEF SoloInv, Alone

\* w goes on working on its task t, with session s in hand.
LEMMA WorkStep ==
  ASSUME IInv, IInv', SoloInv, NEW w \in Starter, NEW t \in Task, t = job[w].task,
         pc[w] \in Working, NEW next \in Working \ {"begin"}, NEW s \in SessionOrNone,
         Mine(w), pc'[w] = next, job'[w].task = t, job'[w].sid = s,
         contended' = contended, Acts(t), Names(t),
         s # None => session'[s].label = t,
         next = "settle" => s # None /\ session'[s].state # "active",
         Alone(t) =>
           /\ SoloRows(t)' /\ Live(t)'
           /\ next = "create" => Labelled(t)' = {}
           /\ next \in {"reattach", "reactivate", "record", "claim", "attach", "activate"} =>
                s # None /\ session'[s].state # "closed"
           /\ next \in {"reactivate", "activate"} => task'[t].sid = s
           /\ next \in {"search", "observe", "close"} => task'[t].life # "active"
  PROVE  SoloInv'
<1>1. Alone(t) => t \notin Others(w) BY DEF SoloInv, SoloView
<1>2. Others(w)' = Others(w) BY DEF Others, Mine
<1>3. SoloView(w)' BY <1>1, <1>2 DEF SoloView, Alone
<1>4. t \in TaskOrNone /\ t # None BY Constants DEF TaskOrNone
<1>. QED BY <1>1, <1>3, <1>4, SoloStep DEF Alone

\* w is done with its task t.
LEMMA LeaveStep ==
  ASSUME IInv, IInv', SoloInv, NEW w \in Starter, NEW t \in Task, t = job[w].task,
         pc[w] \in Working, End(w), contended' = contended, Acts(t), Names(t),
         Alone(t) => SoloRows(t)'
  PROVE  SoloInv'
<1>1. Alone(t) => t \notin Others(w) BY DEF SoloInv, SoloView
<1>2. pc'[w] = "idle" /\ job'[w] = NoJob /\ Mine(w)
  BY EndMine DEF End, IInv, TypeOK
<1>3. SoloView(w)' BY <1>2 DEF SoloView, NoJob
<1>4. t \in TaskOrNone /\ t # None BY Constants DEF TaskOrNone
<1>. QED BY <1>1, <1>2, <1>3, <1>4, SoloStep DEF Alone, NoJob
-----------------------------------------------------------------------------
(* What the rows say after a step that leaves Nawabari's registry alone *)

\* The record of t keeps its session, loses it, or gets one with t's label.
RecordStep(t) ==
  /\ \A u \in Task \ {t} : record'[u] = record[u]
  /\ \/ record'[t].sid \in {None, record[t].sid}
     \/ record'[t].sid \in Session /\ session[record'[t].sid].label = t

\* The ways the actions write a reconciliation row are such steps.
LEMMA RecordSteps ==
  ASSUME IInv, SoloInv, NEW t \in Task
  PROVE  /\ record' = record => RecordStep(t)
         /\ \A r : record' = [record EXCEPT ![t].req = r] => RecordStep(t)
         /\ \A s \in Session :
              session[s].label = t /\ record' = Linked(t, s) => RecordStep(t)
         /\ record' = Unrecorded(t) => RecordStep(t)
<1>1. record \in [Task -> Record] BY DEF IInv, TypeOK
<1>. QED BY <1>1 DEF RecordStep, Record, Linked, Unrecorded

\* A step on the rows of t alone
LEMMA RowsStep ==
  ASSUME IInv, NEW t \in Task, RecordStep(t), session' = session,
         \A u \in Task \ {t} : task'[u] = task[u], task'[t].life # "free",
         \/ task'[t].sid = task[t].sid
         \/ task'[t].sid \in Session /\ session[task'[t].sid].label = t
  PROVE  Acts(t) /\ Names(t) /\ Labelled(t)' = Labelled(t) /\ Open(t)' = Open(t)
  BY DEF RecordStep, Acts, Names, Labelled, Open

\* The task row is left alone.
LEMMA StillStep ==
  ASSUME IInv, NEW t \in Task, RecordStep(t), UNCHANGED <<task, session>>, task[t].life # "free"
  PROVE  /\ Acts(t) /\ Names(t) /\ Labelled(t)' = Labelled(t)
         /\ SoloRows(t) => SoloRows(t)'
         /\ Live(t) => Live(t)'
<1>1. Acts(t) /\ Names(t) /\ Labelled(t)' = Labelled(t) /\ Open(t)' = Open(t) BY RowsStep
<1>. QED BY <1>1 DEF SoloRows, Live, Exists

\* A lifecycle move to a state other than active, and only with no open session
\* to one that gives the task up
LEMMA MoveStep ==
  ASSUME IInv, NEW t \in Task, RecordStep(t), session' = session, task[t].life # "free",
         NEW to, task' = Moved(t, to), to # "active"
  PROVE  /\ Acts(t) /\ Names(t) /\ Labelled(t)' = Labelled(t)
         /\ SoloRows(t) /\ (to \notin {"abandoned", "cleaned"} \/ Open(t) = {}) => SoloRows(t)'
         /\ Live(t) /\ to \notin {"abandoned", "cleaned"} => Live(t)'
         /\ task' = task \/ task'[t].life = to
<1>1. task \in [Task -> TaskRow] BY DEF IInv, TypeOK
<1>2. /\ \A u \in Task \ {t} : task'[u] = task[u]
      /\ task'[t].sid = task[t].sid
      /\ task' = task \/ (task'[t].life = to /\ to \in LifecycleState)
  BY <1>1, AllowedStates DEF Moved, TaskRow
<1>3. task'[t].life # "free" BY <1>2 DEF LifecycleState
<1>4. Acts(t) /\ Names(t) /\ Labelled(t)' = Labelled(t) /\ Open(t)' = Open(t)
  BY <1>2, <1>3, RowsStep
<1>5. SoloRows(t) /\ (to \notin {"abandoned", "cleaned"} \/ Open(t) = {}) => SoloRows(t)'
  BY <1>2, <1>4 DEF SoloRows, Live, Exists, LifecycleState
<1>6. Live(t) /\ to \notin {"abandoned", "cleaned"} => Live(t)'
  BY <1>2 DEF Live, Exists, LifecycleState
<1>. QED BY <1>2, <1>4, <1>5, <1>6

\* Activation, of a task whose session is not closed
LEMMA ActivateStep ==
  ASSUME IInv, NEW t \in Task, UNCHANGED <<record, session>>, task[t].life # "free",
         task' = Moved(t, "active")
  PROVE  /\ Acts(t) /\ Names(t)
         /\ SoloRows(t) /\ task[t].sid # None /\ session[task[t].sid].state # "closed" =>
              SoloRows(t)'
         /\ Live(t) => Live(t)'
<1>1. task \in [Task -> TaskRow] BY DEF IInv, TypeOK
<1>2. /\ \A u \in Task \ {t} : task'[u] = task[u]
      /\ task'[t].sid = task[t].sid
      /\ task' = task \/ task'[t].life = "active"
  BY <1>1 DEF Moved, TaskRow
<1>3. RecordStep(t) BY DEF RecordStep
<1>4. Acts(t) /\ Names(t) /\ Labelled(t)' = Labelled(t) /\ Open(t)' = Open(t)
  BY <1>2, <1>3, RowsStep
<1>. QED BY <1>2, <1>4 DEF SoloRows, Live, Exists

\* A session with the label of the task is attached.
LEMMA BindStep ==
  ASSUME IInv, NEW t \in Task, NEW s \in Session, session[s].label = t,
         UNCHANGED <<record, session>>, task[t].life # "free", task' = Bound(t, s)
  PROVE  /\ Acts(t) /\ Names(t) /\ task'[t].sid = s
         /\ SoloRows(t) /\ session[s].state # "closed" => SoloRows(t)'
         /\ Live(t) => Live(t)'
<1>1. task \in [Task -> TaskRow] BY DEF IInv, TypeOK
<1>2. /\ \A u \in Task \ {t} : task'[u] = task[u]
      /\ task'[t].sid = s /\ task'[t].life = task[t].life
  BY <1>1 DEF Bound, TaskRow
<1>3. RecordStep(t) BY DEF RecordStep
<1>4. Acts(t) /\ Names(t) /\ Labelled(t)' = Labelled(t) /\ Open(t)' = Open(t)
  BY <1>2, <1>3, RowsStep
<1>. QED BY <1>2, <1>4, Constants DEF SoloRows, Live, Exists

\* A reservation is deleted.
LEMMA DeleteStep ==
  ASSUME IInv, SoloInv, NEW t \in Task, session' = session, record' = Unrecorded(t),
         task' = [task EXCEPT ![t].life = "deleted"]
  PROVE  /\ Acts(t) /\ Names(t)
         /\ SoloRows(t) /\ Open(t) = {} => SoloRows(t)'
<1>1. task \in [Task -> TaskRow] BY DEF IInv, TypeOK
<1>2. /\ \A u \in Task \ {t} : task'[u] = task[u]
      /\ task'[t].sid = task[t].sid /\ task'[t].life = "deleted"
  BY <1>1 DEF TaskRow
<1>3. RecordStep(t) BY RecordSteps
<1>4. Acts(t) /\ Names(t) /\ Labelled(t)' = Labelled(t) /\ Open(t)' = Open(t)
  BY <1>2, <1>3, RowsStep
<1>. QED BY <1>2, <1>4 DEF SoloRows

\* Of an uncontended task, no session is open once its one session is not.
LEMMA NoneOpen ==
  ASSUME NEW t, NEW s \in Session, SoloRows(t), session[s].label = t,
         session[s].state # "active"
  PROVE  Open(t) = {}
  BY DEF SoloRows, Open, Labelled
-----------------------------------------------------------------------------
(* Steps several actions share *)

\* What a working start can rely on
LEMMA MyTask ==
  ASSUME IInv, SoloInv, NEW w \in Starter, pc[w] \in Working, NEW t, t = job[w].task
  PROVE  /\ t \in Task /\ task[t].life # "free"
         /\ job[w].sid \in SessionOrNone
         /\ job[w].sid # None => session[job[w].sid].label = t
         /\ record[t].sid \in SessionOrNone
         /\ record[t].sid # None => session[record[t].sid].label = t
         /\ task[t].sid \in SessionOrNone
         /\ task[t].sid # None => session[task[t].sid].label = t
         /\ Alone(t) => SoloRows(t) /\ Live(t)
  BY Kinds DEF IInv, View, SoloInv, SoloView, LabelInv

\* Control moves on, and nothing else does.
LEMMA PassSolo ==
  ASSUME IInv, IInv', SoloInv, NEW w \in Starter, pc[w] \in Working, NEW t, t = job[w].task,
         NEW next \in Working \ {"begin"}, Pass(w, next),
         next = "settle" => job[w].sid # None /\ session[job[w].sid].state # "active",
         Alone(t) =>
           /\ next = "create" => Labelled(t) = {}
           /\ next \in {"reattach", "reactivate", "record", "claim", "attach", "activate"} =>
                job[w].sid # None /\ session[job[w].sid].state # "closed"
           /\ next \in {"reactivate", "activate"} => task[t].sid = job[w].sid
           /\ next \in {"search", "observe", "close"} => task[t].life # "active"
  PROVE  SoloInv'
<1>1. Mine(w) /\ pc'[w] = next /\ job'[w] = job[w]
  <2>1. job' = [job EXCEPT ![w] = job[w]] BY DEF Pass, IInv, TypeOK
  <2>2. pc' = [pc EXCEPT ![w] = next] BY DEF Pass, Goto
  <2>3. next \in Pc BY DEF Working
  <2>4. job[w] \in Job BY DEF IInv, TypeOK
  <2>. QED BY <2>1, <2>2, <2>3, <2>4, GoMine
<1>2. RecordStep(t) BY DEF Pass, RecordStep
<1>3. t \in Task /\ task[t].life # "free" BY MyTask
<1>4. /\ Acts(t) /\ Names(t) /\ Labelled(t)' = Labelled(t)
      /\ SoloRows(t) => SoloRows(t)'
      /\ Live(t) => Live(t)'
  BY <1>2, <1>3, StillStep DEF Pass
<1>5. job[w].sid \in SessionOrNone /\ (job[w].sid # None => session[job[w].sid].label = t)
  BY MyTask
<1>6. Alone(t) => SoloRows(t) /\ Live(t) BY MyTask
<1>. QED BY <1>1, <1>3, <1>4, <1>5, <1>6, WorkStep DEF Pass

\* The session phase fails.
LEMMA FailSolo ==
  ASSUME IInv, IInv', SoloInv, NEW w \in Starter, pc[w] \in Working, Fail(w)
  PROVE  SoloInv'
<1>. DEFINE j == IF job[w].kept THEN job[w] ELSE [job[w] EXCEPT !.sid = None]
<1>1. PICK t : t = job[w].task OBVIOUS
<1>2. j \in Job /\ j.task = t /\ (j.sid = job[w].sid \/ j.sid = None) /\ j.sid \in SessionOrNone
  BY <1>1, JobFields DEF Job, SessionOrNone
<1>3. job' = [job EXCEPT ![w] = j] BY DEF Fail, IInv, TypeOK
<1>4. Mine(w) /\ pc'[w] = "compensate" /\ job'[w] = j BY <1>2, <1>3, GoMine DEF Fail, Goto
<1>. HIDE DEF j
<1>5. t \in Task /\ task[t].life # "free" BY <1>1, MyTask
<1>6. RecordStep(t) BY DEF Fail, RecordStep
<1>7. Acts(t) /\ Names(t) /\ (SoloRows(t) => SoloRows(t)') /\ (Live(t) => Live(t)')
  BY <1>5, <1>6, StillStep DEF Fail
<1>8. j.sid # None => session[j.sid].label = t BY <1>1, <1>2, MyTask
<1>9. Alone(t) => SoloRows(t) /\ Live(t) BY <1>1, MyTask
<1>10. "compensate" \in Working \ {"begin"} BY DEF Working, Pc
<1>11. PICK s \in SessionOrNone : s = j.sid BY <1>2
<1>12. job'[w].task = t /\ job'[w].sid = s BY <1>2, <1>4, <1>11
<1>13. contended' = contended /\ session' = session BY DEF Fail
<1>14. s # None => session'[s].label = t BY <1>8, <1>11, <1>13
<1>15. Alone(t) => SoloRows(t)' /\ Live(t)' BY <1>7, <1>9
<1>. QED BY <1>1, <1>4, <1>5, <1>7, <1>10, <1>12, <1>13, <1>14, <1>15, WorkStep

\* The start leaves, and moves or keeps its task.
LEMMA GiveUpSolo ==
  ASSUME IInv, IInv', SoloInv, NEW w \in Starter, pc[w] \in Working, NEW t, t = job[w].task,
         NEW to \in {"orphaned", "abandoned"}, task' = task \/ task' = Moved(t, to),
         RecordStep(t), End(w), UNCHANGED <<session, contended>>,
         to = "abandoned" /\ Alone(t) => Open(t) = {}
  PROVE  SoloInv'
<1>1. t \in Task /\ task[t].life # "free" /\ (Alone(t) => SoloRows(t)) BY MyTask
<1>2. Acts(t) /\ Names(t) /\ (Alone(t) => SoloRows(t)')
  BY <1>1, StillStep, MoveStep
<1>. QED BY <1>1, <1>2, LeaveStep
-----------------------------------------------------------------------------
(* Every step *)

\* A step that touches neither rows nor sessions
LEMMA QuietSolo ==
  ASSUME IInv, IInv', SoloInv, NEW w \in Starter, Mine(w), UNCHANGED <<task, record, session>>,
         contended' = contended, job'[w].task \in {job[w].task, None}, SoloView(w)'
  PROVE  SoloInv'
<1>1. Acts(None) /\ None \notin Task
  BY Constants DEF Acts
<1>. QED BY <1>1, SoloStep DEF TaskOrNone

\* The start leaves, and nothing else happens.
LEMMA QuitSolo ==
  ASSUME IInv, IInv', SoloInv, NEW w \in Starter, End(w),
         UNCHANGED <<task, record, session, contended>>
  PROVE  SoloInv'
<1>1. pc'[w] = "idle" /\ job'[w] = NoJob /\ Mine(w)
  BY EndMine DEF End, IInv, TypeOK
<1>2. SoloView(w)' BY <1>1 DEF SoloView, NoJob
<1>. QED BY <1>1, <1>2, QuietSolo DEF NoJob

\* A start takes a task on, reserved by itself or by another: if nobody else is
\* working on it, it is alive, and a fresh reservation has no session.
LEMMA TakeSolo ==
  ASSUME IInv, IInv', SoloInv, NEW w \in Starter, NEW t \in Task, NEW own \in BOOLEAN,
         pc[w] \in {"find", "reserve"}, Take(w, t, own), Acts(t), Names(t), session' = session,
         Live(t)', t \notin contended => SoloRows(t)', own => Labelled(t)' = {}
  PROVE  SoloInv'
<1>. DEFINE j == [job[w] EXCEPT !.task = t, !.own = own, !.orphan = task[t].life = "orphaned"]
<1>1. j \in Job /\ j.task = t /\ j.sid = job[w].sid /\ j.own = own
  BY JobFields DEF Job, TaskOrNone
<1>2. job' = [job EXCEPT ![w] = j] BY DEF Take, IInv, TypeOK
<1>3. Mine(w) /\ pc'[w] = "begin" /\ job'[w] = j
  <2>1. pc' = [pc EXCEPT ![w] = "begin"] /\ "begin" \in Pc BY DEF Take, Goto, Pc
  <2>. HIDE DEF j
  <2>. QED BY <1>1, <1>2, <2>1, GoMine
<1>. HIDE DEF j
<1>4. job[w].sid = None BY DEF SoloInv, SoloView
<1>5. t \in contended' \/ t \notin Others(w) BY DEF Take
<1>6. Others(w)' = Others(w) BY <1>3 DEF Others, Mine
<1>7. SoloView(w)' BY <1>1, <1>3, <1>4, <1>5, <1>6 DEF SoloView, Alone
<1>8. contended \subseteq contended' BY DEF Take
<1>9. t \in TaskOrNone /\ t # None BY Constants DEF TaskOrNone
<1>. QED BY <1>1, <1>3, <1>5, <1>7, <1>8, <1>9, SoloStep

\* Reservation
LEMMA ReservationSolo ==
  ASSUME IInv, IInv', SoloInv, NEW w \in Starter,
         Start(w) \/ Find(w) \/ Reserve(w) \/ Continue(w)
  PROVE  SoloInv'
<1>1. CASE Start(w)
  <2>1. PICK r \in Request : job' = [job EXCEPT ![w].req = r] BY <1>1 DEF Start
  <2>. DEFINE j == [job[w] EXCEPT !.req = r]
  <2>2. j \in Job /\ j.task = job[w].task /\ j.sid = job[w].sid
    BY JobFields DEF Job, RequestOrNone
  <2>3. job' = [job EXCEPT ![w] = j] BY <2>1 DEF IInv, TypeOK
  <2>4. Mine(w) /\ pc'[w] = "find" /\ job'[w] = j
    BY <1>1, <2>2, <2>3, GoMine DEF Start, Goto
  <2>. HIDE DEF j
  <2>5. job[w].task = None /\ job[w].sid = None BY <1>1 DEF Start, SoloInv, SoloView
  <2>6. SoloView(w)' BY <2>2, <2>4, <2>5 DEF SoloView
  <2>. QED BY <1>1, <2>2, <2>4, <2>6, QuietSolo DEF Start
<1>2. ASSUME NEW t \in Task, UNCHANGED <<task, record, session>>, Startable(t),
             Take(w, t, FALSE), pc[w] \in {"find", "reserve"}
      PROVE  SoloInv'
  <2>1. task[t].life # "free" /\ Live(t) BY <1>2 DEF Startable, Live, Exists
  <2>2. RecordStep(t) BY <1>2 DEF RecordStep
  <2>3. Acts(t) /\ Names(t) /\ (SoloRows(t) => SoloRows(t)') /\ Live(t)'
    BY <1>2, <2>1, <2>2, StillStep
  <2>4. t \notin contended => SoloRows(t) BY DEF SoloInv, Alone
  <2>. QED BY <1>2, <2>3, <2>4, TakeSolo
<1>3. CASE Find(w)
  <2>1. CASE \E t \in Task : SameStart(t, job[w].req) /\ Take(w, t, FALSE)
    BY <1>2, <1>3, <2>1 DEF Find, SameStart
  <2>2. CASE Goto(w, "reserve") /\ UNCHANGED <<job, contended>>
    <3>1. job' = [job EXCEPT ![w] = job[w]] BY <2>2 DEF IInv, TypeOK
    <3>2. Mine(w) /\ pc'[w] = "reserve" /\ job'[w] = job[w]
      BY <2>2, <3>1, GoMine, JobFields DEF Goto
    <3>3. job[w].task = None /\ job[w].sid = None BY <1>3 DEF Find, SoloInv, SoloView
    <3>4. SoloView(w)' BY <3>2, <3>3 DEF SoloView
    <3>. QED BY <1>3, <2>2, <3>2, <3>4, QuietSolo DEF Find
  <2>. QED BY <1>3, <2>1, <2>2 DEF Find
<1>4. CASE Reserve(w)
  <2>. DEFINE row == [life |-> "planned", sid |-> None, req |-> job[w].req]
  <2>1. PICK t \in Task : /\ task[t].life = "free" /\ Take(w, t, TRUE)
                          /\ task' = [task EXCEPT ![t] = row]
    BY <1>4 DEF Reserve
  <2>2. task'[t] = row /\ \A u \in Task \ {t} : task'[u] = task[u]
    BY <2>1 DEF IInv, TypeOK
  <2>3. UNCHANGED <<record, session>> BY <1>4 DEF Reserve
  <2>4. Acts(t) /\ Names(t) BY <2>2, <2>3 DEF Acts, Names
  <2>5. Labelled(t)' = {}
    <3>1. \A s \in Session : session[s].label # t
      BY <2>1, Constants DEF SoloInv, LabelInv
    <3>. QED BY <2>3, <3>1 DEF Labelled
  <2>6. Live(t)' /\ SoloRows(t)'
    BY <2>2, <2>5 DEF Live, Exists, SoloRows, Open
  <2>. QED BY <1>4, <2>1, <2>3, <2>4, <2>5, <2>6, TakeSolo DEF Reserve
<1>5. CASE Continue(w)
  <2>1. PICK t \in Claimants(job[w].req) :
          IF Continuable(t, job[w].req) THEN Take(w, t, FALSE)
                                        ELSE End(w) /\ UNCHANGED contended
    BY <1>5 DEF Continue
  <2>2. t \in Task BY DEF Claimants, SameKey, SameIssue
  <2>3. CASE Continuable(t, job[w].req)
    BY <1>2, <1>5, <2>1, <2>2, <2>3 DEF Continue, Continuable, SameStart
  <2>4. CASE End(w) /\ UNCHANGED contended
    BY <1>5, <2>4, QuitSolo DEF Continue
  <2>. QED BY <2>1, <2>3, <2>4
<1>. QED BY <1>1, <1>3, <1>4, <1>5

\* The reconciliation row is opened, or the reservation taken back: a start that
\* still owns it has not asked for a session yet, or knows that it has ended.
LEMMA BeginSolo ==
  ASSUME IInv, IInv', SoloInv, NEW w \in Starter, Begin(w) \/ BeginRefused(w) \/ Settle(w)
  PROVE  SoloInv'
<1>1. PICK t : t = job[w].task OBVIOUS
<1>2. pc[w] \in Working BY DEF Begin, BeginRefused, Settle
<1>3. t \in Task /\ task[t].life # "free" /\ (Alone(t) => SoloRows(t) /\ Live(t))
  BY <1>1, <1>2, MyTask
<1>4. CASE Begin(w)
  <2>. DEFINE j == [job[w] EXCEPT !.sid = record[t].sid, !.kept = record[t].sid # None]
  <2>1. /\ record[t].sid \in SessionOrNone
        /\ record[t].sid # None => session[record[t].sid].label = t
    BY <1>1, <1>2, MyTask
  <2>2. j \in Job /\ j.task = t /\ j.sid = record[t].sid
    BY <1>1, <2>1, JobFields DEF Job
  <2>3. job' = [job EXCEPT ![w] = j] BY <1>1, <1>4 DEF Begin, IInv, TypeOK
  <2>4. Mine(w) /\ pc'[w] = "demote" /\ job'[w] = j
    BY <1>4, <2>2, <2>3, GoMine DEF Begin, Goto
  <2>. HIDE DEF j
  <2>5. RecordStep(t) BY <1>1, <1>3, <1>4, RecordSteps DEF Begin
  <2>6. Acts(t) /\ Names(t) /\ (SoloRows(t) => SoloRows(t)') /\ (Live(t) => Live(t)')
    BY <1>3, <1>4, <2>5, StillStep DEF Begin
  <2>. QED BY <1>1, <1>2, <1>3, <1>4, <2>1, <2>2, <2>4, <2>6, WorkStep DEF Begin
<1>5. CASE BeginRefused(w)
  <2>1. CASE job[w].own /\ task[t].life = "planned"
    <3>1. Alone(t) => Labelled(t) = {} BY <1>1, <1>5, <2>1 DEF BeginRefused, SoloInv, SoloView
    <3>2. Alone(t) => Open(t) = {} BY <3>1 DEF Open
    <3>3. Acts(t) /\ Names(t) /\ (Alone(t) => SoloRows(t)')
      BY <1>1, <1>3, <1>5, <2>1, <3>2, DeleteStep DEF BeginRefused
    <3>. QED BY <1>1, <1>2, <1>3, <1>5, <3>3, LeaveStep DEF BeginRefused
  <2>2. CASE ~(job[w].own /\ task[t].life = "planned")
    BY <1>1, <1>5, <2>2, QuitSolo DEF BeginRefused
  <2>. QED BY <2>1, <2>2
<1>6. CASE Settle(w)
  <2>1. Alone(t) => Open(t) = {}
    <3>1. job[w].sid # None /\ session[job[w].sid].state # "active"
      BY <1>6 DEF Settle, SoloInv, SoloView
    <3>2. job[w].sid \in Session /\ session[job[w].sid].label = t
      BY <1>1, <1>2, <3>1, MyTask DEF SessionOrNone
    <3>. QED BY <1>3, <3>1, <3>2, NoneOpen
  <2>2. CASE job[w].own /\ task[t].life = "planned"
    <3>1. Acts(t) /\ Names(t) /\ (Alone(t) => SoloRows(t)')
      BY <1>1, <1>3, <1>6, <2>1, <2>2, DeleteStep DEF Settle
    <3>. QED BY <1>1, <1>2, <1>3, <1>6, <3>1, LeaveStep DEF Settle
  <2>3. CASE ~(job[w].own /\ task[t].life = "planned")
    <3>1. /\ task' = task \/ task' = Moved(t, "abandoned")
          /\ record' = record /\ End(w) /\ UNCHANGED <<session, contended>>
      BY <1>1, <1>6, <2>3 DEF Settle
    <3>2. RecordStep(t) BY <3>1 DEF RecordStep
    <3>. QED BY <1>1, <1>2, <2>1, <3>1, <3>2, GiveUpSolo
  <2>. QED BY <2>2, <2>3
<1>. QED BY <1>4, <1>5, <1>6

\* Recovery of an earlier start
LEMMA RecoverySolo ==
  ASSUME IInv, IInv', SoloInv, NEW w \in Starter,
         \/ Demote(w) \/ Recover(w) \/ RecoverEnded(w) \/ RecoverFails(w) \/ Reattach(w)
         \/ Reactivate(w) \/ ReattachFails(w) \/ Recheck(w) \/ RecheckActive(w)
  PROVE  SoloInv'
<1>1. PICK t : t = job[w].task OBVIOUS
<1>2. pc[w] \in Working
  BY DEF Demote, Recover, RecoverEnded, RecoverFails, Reattach, Reactivate,
         ReattachFails, Recheck, RecheckActive
<1>3. t \in Task /\ task[t].life # "free" /\ (Alone(t) => SoloRows(t) /\ Live(t))
  BY <1>1, <1>2, MyTask
<1>4. /\ job[w].sid \in SessionOrNone
      /\ job[w].sid # None => session[job[w].sid].label = t
  BY <1>1, <1>2, MyTask
<1>5. /\ pc[w] \in {"recover", "reattach"} => job[w].sid \in Session
      /\ pc[w] \in {"reattach", "reactivate"} /\ Alone(t) =>
           job[w].sid # None /\ session[job[w].sid].state # "closed"
      /\ pc[w] = "reactivate" /\ Alone(t) => task[t].sid = job[w].sid
  BY <1>1 DEF IInv, View, SoloInv, SoloView
<1>6. record' = record => RecordStep(t) BY DEF RecordStep
<1>7. CASE Demote(w)
  <2>. DEFINE j == [job[w] EXCEPT !.demoted = task[t].life = "active"]
  <2>1. j \in Job /\ j.task = t /\ j.sid = job[w].sid BY <1>1, JobFields DEF Job
  <2>2. job' = [job EXCEPT ![w] = j] BY <1>1, <1>7 DEF Demote, IInv, TypeOK
  <2>3. PICK next \in {"recover", "recheck"} : pc' = [pc EXCEPT ![w] = next]
    BY <1>7 DEF Demote, Goto
  <2>4. Mine(w) /\ pc'[w] = next /\ job'[w] = j BY <2>1, <2>2, <2>3, GoMine
  <2>. HIDE DEF j
  <2>5. task' = task \/ task' = Moved(t, "orphaned") BY <1>1, <1>7 DEF Demote
  <2>6. Acts(t) /\ Names(t) /\ (SoloRows(t) => SoloRows(t)') /\ (Live(t) => Live(t)')
    BY <1>3, <1>6, <1>7, <2>5, StillStep, MoveStep DEF Demote
  <2>7. next \in Working \ {"begin"} BY <2>3 DEF Working, Pc
  <2>8. PICK s \in SessionOrNone : s = job[w].sid BY <1>4
  <2>9. job'[w].task = t /\ job'[w].sid = s BY <2>1, <2>4, <2>8
  <2>10. contended' = contended /\ session' = session BY <1>7 DEF Demote
  <2>11. s # None => session'[s].label = t BY <1>4, <2>8, <2>10
  <2>12. Alone(t) => SoloRows(t)' /\ Live(t)' BY <1>3, <2>6
  <2>. QED BY <1>1, <1>2, <1>3, <2>3, <2>4, <2>6, <2>7, <2>9, <2>10, <2>11, <2>12, WorkStep
<1>8. CASE Recover(w)
  <2>1. PICK next \in {"reattach", "recheck"} : Pass(w, next) BY <1>8 DEF Recover
  <2>. QED BY <1>1, <1>2, <1>5, <1>8, <2>1, Constants, PassSolo DEF Recover
<1>9. CASE RecoverEnded(w)
  <2>1. Alone(t) => Open(t) = {}
    BY <1>3, <1>4, <1>5, <1>9, Constants, NoneOpen DEF RecoverEnded
  <2>2. PICK to \in {"orphaned", "abandoned"} : GiveUp(w, to) BY <1>9 DEF RecoverEnded
  <2>. QED BY <1>1, <1>2, <1>6, <2>1, <2>2, GiveUpSolo DEF GiveUp
<1>10. CASE RecoverFails(w) \/ ReattachFails(w) \/ RecheckActive(w)
  <2>1. GiveUp(w, "orphaned") BY <1>10 DEF RecoverFails, ReattachFails, RecheckActive
  <2>. QED BY <1>1, <1>2, <1>6, <2>1, GiveUpSolo DEF GiveUp
<1>11. CASE Reattach(w)
  <2>1. /\ job[w].sid \in Session /\ session[job[w].sid].label = t
        /\ Alone(t) => session[job[w].sid].state # "closed"
    BY <1>4, <1>5, <1>11, Constants DEF Reattach
  <2>2. /\ Acts(t) /\ Names(t) /\ task'[t].sid = job[w].sid
        /\ Alone(t) => SoloRows(t)' /\ Live(t)'
    BY <1>1, <1>3, <1>11, <2>1, BindStep DEF Reattach
  <2>3. Mine(w) /\ pc'[w] = "reactivate" /\ job'[w] = job[w]
    <3>1. job' = [job EXCEPT ![w] = job[w]] BY <1>11 DEF Reattach, IInv, TypeOK
    <3>. QED BY <1>11, <3>1, GoMine, JobFields DEF Reattach, Goto
  <2>. QED BY <1>1, <1>2, <1>3, <1>4, <1>11, <2>1, <2>2, <2>3, Constants, WorkStep DEF Reattach
<1>12. CASE Reactivate(w)
  <2>1. Acts(t) /\ Names(t) /\ (Alone(t) => SoloRows(t)')
    BY <1>1, <1>3, <1>5, <1>12, ActivateStep DEF Reactivate
  <2>. QED BY <1>1, <1>2, <1>3, <1>12, <2>1, LeaveStep DEF Reactivate
<1>13. CASE Recheck(w)
  BY <1>1, <1>2, <1>13, PassSolo DEF Recheck
<1>. QED BY <1>7, <1>8, <1>9, <1>10, <1>11, <1>12, <1>13

\* w takes a session with the task's label in hand, after its record may have
\* been linked to it.
LEMMA HandSolo ==
  ASSUME IInv, IInv', SoloInv, NEW w \in Starter, pc[w] \in Working, NEW t, t = job[w].task,
         NEW s \in Session, session[s].label = t, Recordable(t, s), record' = Linked(t, s),
         NEW next \in {"claim", "compensate"}, Goto(w, next), job' = [job EXCEPT ![w].sid = s],
         UNCHANGED <<task, session, contended>>,
         next = "claim" => session[s].state # "closed"
  PROVE  SoloInv'
<1>. DEFINE j == [job[w] EXCEPT !.sid = s]
<1>1. j \in Job /\ j.task = t /\ j.sid = s BY JobFields DEF Job, SessionOrNone
<1>2. job' = [job EXCEPT ![w] = j] BY DEF IInv, TypeOK
<1>3. Mine(w) /\ pc'[w] = next /\ job'[w] = j BY <1>1, <1>2, GoMine DEF Goto
<1>. HIDE DEF j
<1>4. t \in Task /\ task[t].life # "free" /\ (Alone(t) => SoloRows(t) /\ Live(t)) BY MyTask
<1>5. RecordStep(t) BY <1>4, RecordSteps
<1>6. Acts(t) /\ Names(t) /\ (SoloRows(t) => SoloRows(t)') /\ (Live(t) => Live(t)')
  BY <1>4, <1>5, StillStep
<1>. QED BY <1>1, <1>3, <1>4, <1>6, Constants, WorkStep DEF SessionOrNone

\* A session is created: the task had none.
LEMMA CreateStep ==
  ASSUME IInv, SoloInv, NEW t \in Task, task[t].life # "free", UNCHANGED <<task, record>>,
         NEW s \in Session, NEW r \in Request, Created(s, t, r)
  PROVE  /\ Acts(t) /\ Names(t)
         /\ session'[s].label = t /\ session'[s].state # "closed"
         /\ SoloRows(t) /\ Live(t) /\ Labelled(t) = {} => SoloRows(t)' /\ Live(t)'
<1>1. session \in [Session -> SessionRow] BY DEF IInv, TypeOK
<1>2. /\ session'[s].label = t /\ session'[s].state = "active"
      /\ \A x \in Session \ {s} : session'[x] = session[x]
      /\ session[s].state = "free"
  BY <1>1 DEF Created
<1>3. session[s].label = None BY <1>2 DEF SoloInv, LabelInv
<1>4. Acts(t) /\ Names(t) BY <1>2, <1>3 DEF Acts, Names
<1>5. ASSUME SoloRows(t), Live(t), Labelled(t) = {} PROVE SoloRows(t)' /\ Live(t)'
  <2>1. \A x \in Session : session'[x].label = t => x = s BY <1>2, <1>5 DEF Labelled
  <2>2. \A x, y \in Labelled(t)' : x = y BY <2>1 DEF Labelled
  <2>3. task[t].sid # None => task[t].sid \in Session /\ session[task[t].sid].label = t
    BY Kinds DEF SoloInv, LabelInv, SessionOrNone
  <2>4. task[t].sid = None BY <1>5, <2>3 DEF Labelled
  <2>. QED BY <1>5, <2>2, <2>4 DEF SoloRows, Live, Exists
<1>. QED BY <1>2, <1>4, <1>5

\* Finding, adopting, creating and recording the session
LEMMA SessionSolo ==
  ASSUME IInv, IInv', SoloInv, NEW w \in Starter,
         \/ LookKept(w) \/ LookNone(w) \/ Adopt(w) \/ AdoptRefused(w) \/ LookFails(w)
         \/ Create(w) \/ CreateRefused(w) \/ CreateFails(w) \/ CreateLost(w)
         \/ RecordSession(w) \/ RecordRefused(w)
  PROVE  SoloInv'
<1>1. PICK t : t = job[w].task OBVIOUS
<1>2. View(w) /\ pc[w] \in Working
  BY DEF IInv, LookKept, LookNone, Adopt, AdoptRefused, LookFails, Create, CreateRefused,
         CreateFails, CreateLost, RecordSession, RecordRefused
<1>3. t \in Task /\ task[t].life # "free" /\ (Alone(t) => SoloRows(t) /\ Live(t))
  BY <1>1, <1>2, MyTask
<1>4. /\ job[w].sid \in SessionOrNone /\ job[w].req \in Request
      /\ job[w].sid # None => session[job[w].sid].label = t
  BY <1>1, <1>2, MyTask DEF View
<1>5. /\ pc[w] = "create" /\ Alone(t) => Labelled(t) = {}
      /\ pc[w] = "record" => job[w].sid \in Session
      /\ pc[w] = "record" /\ Alone(t) => session[job[w].sid].state # "closed"
  BY <1>1, <1>2 DEF View, SoloInv, SoloView
<1>6. CASE LookKept(w)
  <2>1. CASE session[job[w].sid].state = "active"
    BY <1>1, <1>2, <1>6, <2>1, Constants, PassSolo DEF LookKept, View
  <2>2. CASE session[job[w].sid].state # "active"
    BY <1>2, <1>6, <2>2, FailSolo DEF LookKept
  <2>. QED BY <2>1, <2>2
<1>7. CASE LookNone(w)
  <2>1. CASE job[w].demoted BY <1>7, <2>1, QuitSolo DEF LookNone
  <2>2. CASE ~job[w].demoted
    <3>1. Pass(w, "create") BY <1>7, <2>2 DEF LookNone, Pass
    <3>2. Labelled(t) = {} BY <1>1, <1>7 DEF LookNone
    <3>. QED BY <1>1, <1>2, <3>1, <3>2, PassSolo
  <2>. QED BY <2>1, <2>2
<1>8. CASE Adopt(w)
  <2>1. PICK s \in Session :
          /\ Labelled(t) = {s} /\ Recordable(t, s) /\ record' = Linked(t, s)
          /\ IF session[s].state = "active"
             THEN job' = [job EXCEPT ![w].sid = s] /\ Goto(w, "claim") /\ UNCHANGED task
             ELSE (task' = task \/ task' = Moved(t, "abandoned")) /\ End(w)
    BY <1>1, <1>8 DEF Adopt
  <2>2. session[s].label = t BY <2>1 DEF Labelled
  <2>3. CASE session[s].state = "active"
    BY <1>1, <1>2, <1>8, <2>1, <2>2, <2>3, HandSolo DEF Adopt
  <2>4. CASE session[s].state # "active"
    <3>1. Open(t) = {} BY <2>1, <2>4 DEF Open
    <3>2. RecordStep(t) BY <1>3, <2>1, <2>2, RecordSteps
    <3>. QED BY <1>1, <1>2, <1>8, <2>1, <2>4, <3>1, <3>2, GiveUpSolo DEF Adopt
  <2>. QED BY <2>3, <2>4
<1>9. CASE AdoptRefused(w) \/ LookFails(w) \/ CreateRefused(w) \/ CreateFails(w) \/ RecordRefused(w)
  BY <1>2, <1>9, FailSolo DEF AdoptRefused, LookFails, CreateRefused, CreateFails, RecordRefused
<1>10. CASE Create(w)
  <2>1. PICK s \in Session :
          Created(s, t, job[w].req) /\ job' = [job EXCEPT ![w].sid = s]
    BY <1>1, <1>10 DEF Create
  <2>. DEFINE j == [job[w] EXCEPT !.sid = s]
  <2>2. j \in Job /\ j.task = t /\ j.sid = s BY <1>1, JobFields DEF Job, SessionOrNone
  <2>3. job' = [job EXCEPT ![w] = j] BY <2>1 DEF IInv, TypeOK
  <2>4. Mine(w) /\ pc'[w] = "record" /\ job'[w] = j
    BY <1>10, <2>2, <2>3, GoMine DEF Create, Goto
  <2>. HIDE DEF j
  <2>5. /\ Acts(t) /\ Names(t) /\ session'[s].label = t /\ session'[s].state # "closed"
        /\ Alone(t) => SoloRows(t)' /\ Live(t)'
    BY <1>3, <1>4, <1>5, <1>10, <2>1, CreateStep DEF Create
  <2>. QED BY <1>1, <1>2, <1>3, <1>10, <2>2, <2>4, <2>5, Constants, WorkStep
           DEF Create, SessionOrNone
<1>11. CASE CreateLost(w)
  <2>1. PICK s \in Session : Created(s, t, job[w].req) BY <1>1, <1>11 DEF CreateLost
  <2>2. Mine(w) /\ pc'[w] = "compensate" /\ job'[w] = job[w]
    <3>1. job' = [job EXCEPT ![w] = job[w]] BY <1>11 DEF CreateLost, IInv, TypeOK
    <3>. QED BY <1>11, <3>1, GoMine, JobFields DEF CreateLost, Goto
  <2>3. Acts(t) /\ Names(t) /\ (Alone(t) => SoloRows(t)' /\ Live(t)')
    BY <1>3, <1>4, <1>5, <1>11, <2>1, CreateStep DEF CreateLost
  <2>4. job[w].sid # None => session'[job[w].sid].label = t
    BY <1>3, <1>4, <2>3, Constants DEF Acts, SessionOrNone
  <2>. QED BY <1>1, <1>2, <1>3, <1>4, <1>11, <2>2, <2>3, <2>4, WorkStep DEF CreateLost
<1>12. CASE RecordSession(w)
  <2>1. job[w].sid \in Session /\ session[job[w].sid].label = t
    BY <1>4, <1>5, <1>12, Constants DEF RecordSession
  <2>2. Mine(w) /\ pc'[w] = "claim" /\ job'[w] = job[w]
    <3>1. job' = [job EXCEPT ![w] = job[w]] BY <1>12 DEF RecordSession, IInv, TypeOK
    <3>. QED BY <1>12, <3>1, GoMine, JobFields DEF RecordSession, Goto
  <2>3. RecordStep(t) BY <1>1, <1>3, <1>12, <2>1, RecordSteps DEF RecordSession
  <2>4. Acts(t) /\ Names(t) /\ (SoloRows(t) => SoloRows(t)') /\ (Live(t) => Live(t)')
    BY <1>3, <1>12, <2>3, StillStep DEF RecordSession
  <2>. QED BY <1>1, <1>2, <1>3, <1>4, <1>5, <1>12, <2>1, <2>2, <2>4, Constants, WorkStep
           DEF RecordSession
<1>. QED BY <1>6, <1>7, <1>8, <1>9, <1>10, <1>11, <1>12

\* Claims, attachment and activation
LEMMA AttachmentSolo ==
  ASSUME IInv, IInv', SoloInv, NEW w \in Starter,
         \/ Claim(w) \/ ClaimRefused(w) \/ ClaimFails(w) \/ Attach(w) \/ Activate(w)
         \/ Deliver(w) \/ AttachRefused(w) \/ DeliverFails(w)
  PROVE  SoloInv'
<1>1. PICK t : t = job[w].task OBVIOUS
<1>2. View(w) /\ pc[w] \in Working
  BY DEF IInv, Claim, ClaimRefused, ClaimFails, Attach, Activate, Deliver, AttachRefused,
         DeliverFails
<1>3. t \in Task /\ task[t].life # "free" /\ (Alone(t) => SoloRows(t) /\ Live(t))
  BY <1>1, <1>2, MyTask
<1>4. /\ job[w].sid \in SessionOrNone
      /\ job[w].sid # None => session[job[w].sid].label = t
  BY <1>1, <1>2, MyTask
<1>5. /\ pc[w] \in {"claim", "attach"} => job[w].sid \in Session
      /\ pc[w] \in {"claim", "attach", "activate"} /\ Alone(t) =>
           job[w].sid # None /\ session[job[w].sid].state # "closed"
      /\ pc[w] = "activate" /\ Alone(t) => task[t].sid = job[w].sid
  BY <1>1, <1>2 DEF View, SoloInv, SoloView
<1>6. CASE Claim(w)
  BY <1>1, <1>2, <1>5, <1>6, PassSolo DEF Claim
<1>7. CASE ClaimRefused(w) \/ ClaimFails(w)
  BY <1>2, <1>7, FailSolo DEF ClaimRefused, ClaimFails
<1>8. CASE Attach(w)
  <2>1. /\ job[w].sid \in Session /\ session[job[w].sid].label = t
        /\ Alone(t) => session[job[w].sid].state # "closed"
    BY <1>4, <1>5, <1>8, Constants DEF Attach
  <2>2. /\ Acts(t) /\ Names(t) /\ task'[t].sid = job[w].sid
        /\ Alone(t) => SoloRows(t)' /\ Live(t)'
    BY <1>1, <1>3, <1>8, <2>1, BindStep DEF Attach
  <2>3. PICK next \in {"deliver", "activate"} : pc' = [pc EXCEPT ![w] = next]
    BY <1>8 DEF Attach, Goto
  <2>4. Mine(w) /\ pc'[w] = next /\ job'[w] = job[w]
    <3>1. job' = [job EXCEPT ![w] = job[w]] BY <1>8 DEF Attach, IInv, TypeOK
    <3>. QED BY <2>3, <3>1, GoMine, JobFields
  <2>. QED BY <1>1, <1>2, <1>3, <1>4, <1>8, <2>1, <2>2, <2>4, Constants, WorkStep DEF Attach
<1>9. CASE Activate(w)
  <2>1. Acts(t) /\ Names(t) /\ (Alone(t) => SoloRows(t)' /\ Live(t)')
    BY <1>1, <1>3, <1>5, <1>9, ActivateStep DEF Activate
  <2>2. Mine(w) /\ pc'[w] = "deliver" /\ job'[w] = job[w]
    <3>1. job' = [job EXCEPT ![w] = job[w]] BY <1>9 DEF Activate, IInv, TypeOK
    <3>. QED BY <1>9, <3>1, GoMine, JobFields DEF Activate, Goto
  <2>. QED BY <1>1, <1>2, <1>3, <1>4, <1>9, <2>1, <2>2, WorkStep DEF Activate
<1>10. CASE Deliver(w) BY <1>10, QuitSolo DEF Deliver
<1>11. CASE AttachRefused(w) \/ DeliverFails(w)
  BY <1>1, <1>2, <1>11, PassSolo DEF AttachRefused, DeliverFails
<1>. QED BY <1>6, <1>7, <1>8, <1>9, <1>10, <1>11

\* The session of a task that is not active is closed.
LEMMA CloseStep ==
  ASSUME IInv, NEW t \in Task, task[t].life # "free", record' = record,
         task' = task \/ task' = Moved(t, "orphaned"),
         NEW s \in Session, session[s].label = t, session' = Closed(s)
  PROVE  /\ Acts(t) /\ Names(t) /\ session'[s].label = t /\ session'[s].state = "closed"
         /\ SoloRows(t) /\ Live(t) /\ task[t].life # "active" => SoloRows(t)' /\ Live(t)'
<1>1. session \in [Session -> SessionRow] /\ task \in [Task -> TaskRow] BY DEF IInv, TypeOK
<1>2. /\ session'[s].label = t /\ session'[s].state = "closed"
      /\ \A x \in Session \ {s} : session'[x] = session[x]
  BY <1>1 DEF Closed, SessionRow
<1>3. /\ \A u \in Task \ {t} : task'[u] = task[u]
      /\ task'[t].sid = task[t].sid /\ task'[t].life \in {task[t].life, "orphaned"}
  BY <1>1 DEF Moved, TaskRow
<1>4. Acts(t) /\ Names(t) BY <1>2, <1>3 DEF Acts, Names
<1>5. Labelled(t)' = Labelled(t) BY <1>2 DEF Labelled
<1>. QED BY <1>2, <1>3, <1>4, <1>5 DEF SoloRows, Live, Exists

\* Compensation
LEMMA CompensationSolo ==
  ASSUME IInv, IInv', SoloInv, NEW w \in Starter,
         \/ Compensate(w) \/ Search(w) \/ SearchNone(w) \/ SearchFails(w) \/ ObserveSession(w)
         \/ ObserveFails(w) \/ Close(w) \/ CloseFails(w) \/ CloseLost(w)
  PROVE  SoloInv'
<1>1. PICK t : t = job[w].task OBVIOUS
<1>2. View(w) /\ pc[w] \in Working
  BY DEF IInv, Compensate, Search, SearchNone, SearchFails, ObserveSession, ObserveFails,
         Close, CloseFails, CloseLost
<1>3. t \in Task /\ task[t].life # "free" /\ (Alone(t) => SoloRows(t) /\ Live(t))
  BY <1>1, <1>2, MyTask
<1>4. /\ job[w].sid \in SessionOrNone
      /\ job[w].sid # None => session[job[w].sid].label = t
  BY <1>1, <1>2, MyTask
<1>5. /\ pc[w] \in {"observe", "close"} => job[w].sid \in Session
      /\ pc[w] \in {"search", "observe", "close"} /\ Alone(t) => task[t].life # "active"
  BY <1>1, <1>2 DEF View, SoloInv, SoloView
<1>6. CASE Compensate(w)
  <2>1. PICK s : s = Suspect(w) OBVIOUS
  <2>. DEFINE j == [job[w] EXCEPT !.sid = s, !.undo = task[t].life = "active"]
  <2>2. s \in SessionOrNone /\ (s # None => session[s].label = t)
    BY <1>1, <1>2, <2>1, MyTask DEF Suspect
  <2>3. j \in Job /\ j.task = t /\ j.sid = s BY <1>1, <2>2, JobFields DEF Job
  <2>4. job' = [job EXCEPT ![w] = j] BY <1>1, <1>6, <2>1 DEF Compensate, IInv, TypeOK
  <2>5. PICK next \in {"search", "observe"} : pc' = [pc EXCEPT ![w] = next]
    BY <1>6 DEF Compensate, Goto
  <2>6. Mine(w) /\ pc'[w] = next /\ job'[w] = j BY <2>3, <2>4, <2>5, GoMine
  <2>. HIDE DEF j
  <2>7. task' = task \/ task' = Moved(t, "orphaned") BY <1>1, <1>6 DEF Compensate
  <2>8. RecordStep(t) BY <1>6 DEF Compensate, RecordStep
  <2>9. Acts(t) /\ Names(t) /\ (SoloRows(t) => SoloRows(t)') /\ (Live(t) => Live(t)')
    BY <1>3, <1>6, <2>7, <2>8, StillStep, MoveStep DEF Compensate
  <2>10. task'[t].life # "active"
    <3>1. CASE task[t].life = "active"
      <4>1. Exists(t) /\ "orphaned" \in Allowed(task[t].life) BY <3>1 DEF Exists, Allowed
      <4>2. task' = [task EXCEPT ![t].life = "orphaned"]
        BY <1>1, <1>6, <3>1, <4>1 DEF Compensate, Moved
      <4>3. task \in [Task -> TaskRow] BY DEF IInv, TypeOK
      <4>4. task'[t].life = "orphaned" BY <1>3, <4>2, <4>3 DEF TaskRow
      <4>. QED BY <4>4
    <3>2. CASE task[t].life # "active" BY <1>1, <1>6, <3>2 DEF Compensate
    <3>. QED BY <3>1, <3>2
  <2>11. next \in Working \ {"begin"} BY <2>5 DEF Working, Pc
  <2>12. contended' = contended /\ session' = session BY <1>6 DEF Compensate
  <2>13. s # None => session'[s].label = t BY <2>2, <2>12
  <2>14. Alone(t) => SoloRows(t)' /\ Live(t)' BY <1>3, <2>9
  <2>15. job'[w].task = t /\ job'[w].sid = s BY <2>3, <2>6
  <2>. QED BY <1>1, <1>2, <1>3, <2>2, <2>5, <2>6, <2>9, <2>10, <2>11, <2>12, <2>13, <2>14, <2>15,
              WorkStep
<1>7. CASE Search(w)
  <2>1. PICK s \in Session :
          /\ Labelled(t) = {s} /\ Recordable(t, s) /\ record' = Linked(t, s)
          /\ job' = [job EXCEPT ![w].sid = s]
    BY <1>1, <1>7 DEF Search
  <2>2. session[s].label = t BY <2>1 DEF Labelled
  <2>. QED BY <1>1, <1>2, <1>7, <2>1, <2>2, HandSolo DEF Search
<1>8. CASE SearchNone(w) \/ SearchFails(w) \/ ObserveFails(w) \/ CloseFails(w)
  <2>1. GiveUp(w, "orphaned") BY <1>8 DEF SearchNone, SearchFails, ObserveFails, CloseFails
  <2>2. RecordStep(t) BY <2>1 DEF GiveUp, RecordStep
  <2>. QED BY <1>1, <1>2, <2>1, <2>2, GiveUpSolo DEF GiveUp
<1>9. CASE ObserveSession(w)
  <2>1. job[w].sid # None BY <1>5, <1>9, Constants DEF ObserveSession
  <2>2. CASE session[job[w].sid].state = "active"
    BY <1>1, <1>2, <1>5, <1>9, <2>2, PassSolo DEF ObserveSession
  <2>3. CASE session[job[w].sid].state # "active"
    BY <1>1, <1>2, <1>9, <2>1, <2>3, PassSolo DEF ObserveSession
  <2>. QED BY <2>2, <2>3
<1>10. CASE Close(w) \/ CloseLost(w)
  <2>1. job[w].sid \in Session /\ session[job[w].sid].label = t
    BY <1>4, <1>5, <1>10, Constants DEF Close, CloseLost
  <2>2. /\ Acts(t) /\ Names(t) /\ session'[job[w].sid].label = t
        /\ session'[job[w].sid].state = "closed" /\ (Alone(t) => SoloRows(t)' /\ Live(t)')
    BY <1>1, <1>3, <1>5, <1>10, <2>1, CloseStep DEF Close, CloseLost
  <2>3. CASE Close(w)
    <3>1. Mine(w) /\ pc'[w] = "settle" /\ job'[w] = job[w]
      <4>1. job' = [job EXCEPT ![w] = job[w]] BY <2>3 DEF Close, IInv, TypeOK
      <4>. QED BY <2>3, <4>1, GoMine, JobFields DEF Close, Goto
    <3>. QED BY <1>1, <1>2, <1>3, <1>4, <2>1, <2>2, <2>3, <3>1, Constants, WorkStep DEF Close
  <2>4. CASE CloseLost(w)
    BY <1>1, <1>2, <1>3, <2>2, <2>4, LeaveStep DEF CloseLost
  <2>. QED BY <1>10, <2>3, <2>4
<1>. QED BY <1>6, <1>7, <1>8, <1>9, <1>10

\* Outside of the starts a task is only committed, and a session only expires:
\* what a start has made sure of stays so.
LEMMA WorldSolo ==
  ASSUME IInv, SoloInv, UNCHANGED <<record, pc, job, contended>>,
         \A t \in Task : /\ task'[t].sid = task[t].sid
                         /\ task'[t].life = task[t].life
                            \/ (task[t].life = "active" /\ task'[t].life = "committed"),
         \A s \in Session : /\ session'[s].label = session[s].label
                            /\ session'[s].state = session[s].state
                               \/ (session[s].state = "active" /\ session'[s].state = "stale")
  PROVE  SoloInv'
<1>1. \A t \in Task : Labelled(t)' = Labelled(t) /\ Open(t)' \subseteq Open(t)
  BY DEF Labelled, Open
<1>2. \A t \in Task : Live(t) => Live(t)' BY DEF Live, Exists
<1>3. LabelInv' BY Kinds DEF SoloInv, LabelInv, SessionOrNone, TaskOrNone
<1>4. ASSUME NEW t \in Task, Alone(t)' PROVE SoloRows(t)'
  <2>1. SoloRows(t) BY <1>4 DEF SoloInv, Alone
  <2>2. task[t].sid # None => task[t].sid \in Session BY Kinds DEF SessionOrNone
  <2>. QED BY <1>1, <1>2, <2>1, <2>2 DEF SoloRows
<1>5. ASSUME NEW v \in Starter PROVE SoloView(v)'
  <2>1. SoloView(v) BY DEF SoloInv
  <2>2. job[v].sid # None => job[v].sid \in Session BY Kinds DEF SessionOrNone
  <2>3. Others(v)' = Others(v) BY DEF Others
  <2>4. pc[v] \in Working => job[v].task \in Task BY DEF IInv, View
  <2>5. PICK t : t = job[v].task OBVIOUS
  <2>6. t \in Task => /\ Labelled(t)' = Labelled(t) /\ (Live(t) => Live(t)')
                      /\ task'[t].sid = task[t].sid
                      /\ task[t].life # "active" => task'[t].life # "active"
    BY <1>1, <1>2
  <2>7. job[v].sid # None =>
          /\ session'[job[v].sid].label = session[job[v].sid].label
          /\ session[job[v].sid].state # "active" => session'[job[v].sid].state # "active"
          /\ session[job[v].sid].state # "closed" => session'[job[v].sid].state # "closed"
    BY <2>2
  <2>8. pc[v] \in Working => SoloView(v)'
    BY <2>1, <2>3, <2>4, <2>5, <2>6, <2>7 DEF SoloView, Alone
  <2>9. pc[v] \notin Working => SoloView(v)' BY <2>1 DEF SoloView
  <2>. QED BY <2>8, <2>9
<1>. QED BY <1>3, <1>4, <1>5 DEF SoloInv

\* A process that dies, the task's first commit, a session that ends
LEMMA OutsideSolo ==
  ASSUME IInv, IInv', SoloInv, (\E w \in Starter : Interrupt(w)) \/ World \/ UNCHANGED vars
  PROVE  SoloInv'
<1>1. ASSUME NEW w \in Starter, Interrupt(w) PROVE SoloInv'
  BY <1>1, QuitSolo DEF Interrupt
<1>2. ASSUME NEW t \in Task, Commit(t) PROVE SoloInv'
  <2>1. /\ task[t].life = "active" /\ task \in [Task -> TaskRow]
        /\ task' = task \/ task' = [task EXCEPT ![t].life = "committed"]
    BY <1>2 DEF Commit, Moved, IInv, TypeOK
  <2>2. \A u \in Task : /\ task'[u].sid = task[u].sid
                        /\ task'[u].life = task[u].life
                           \/ (task[u].life = "active" /\ task'[u].life = "committed")
    BY <2>1 DEF TaskRow
  <2>. QED BY <1>2, <2>2, WorldSolo DEF Commit
<1>3. ASSUME NEW s \in Session, Expire(s) PROVE SoloInv'
  <2>1. \A x \in Session : /\ session'[x].label = session[x].label
                           /\ session'[x].state = session[x].state
                              \/ (session[x].state = "active" /\ session'[x].state = "stale")
    BY <1>3 DEF Expire, IInv, TypeOK, SessionRow
  <2>. QED BY <1>3, <2>1, WorldSolo DEF Expire
<1>4. CASE UNCHANGED vars BY <1>4, WorldSolo DEF vars
<1>. QED BY <1>1, <1>2, <1>3, <1>4 DEF World

-----------------------------------------------------------------------------
(* Theorems *)

\* No start has begun: no task and no session exists.
LEMMA InitSolo == Init => SoloInv
<1>. SUFFICES ASSUME Init PROVE SoloInv OBVIOUS
<1>1. \A t \in Task : task[t].life = "free" /\ task[t].sid = None /\ record[t].sid = None
  BY DEF Init
<1>2. \A s \in Session : session[s].state = "free" /\ session[s].label = None BY DEF Init
<1>3. \A w \in Starter : pc[w] = "idle" /\ job[w].task = None /\ job[w].sid = None
  BY DEF Init, NoJob
<1>4. \A t \in Task : Labelled(t) = {} BY <1>2, Constants DEF Labelled
<1>5. LabelInv BY <1>1, <1>2 DEF LabelInv
<1>6. \A t \in Task : SoloRows(t) BY <1>1, <1>4 DEF SoloRows, Open
<1>7. \A w \in Starter : SoloView(w) BY <1>3 DEF SoloView
<1>. QED BY <1>5, <1>6, <1>7 DEF SoloInv

\* Every step keeps the invariant, as long as IInv holds around it.
LEMMA NextSolo == ASSUME IInv, IInv', SoloInv, [Next]_vars PROVE SoloInv'
<1>1. ASSUME NEW w \in Starter, Start(w) \/ Step(w) \/ Fault(w) PROVE SoloInv'
  <2>1. CASE Start(w) BY <2>1, ReservationSolo
  <2>2. CASE Step(w)
    BY <2>2, ReservationSolo, BeginSolo, RecoverySolo, SessionSolo, AttachmentSolo,
       CompensationSolo DEF Step
  <2>3. CASE Fault(w)
    BY <2>3, RecoverySolo, SessionSolo, AttachmentSolo, CompensationSolo, OutsideSolo
    DEF Fault
  <2>. QED BY <1>1, <2>1, <2>2, <2>3
<1>. QED BY <1>1, OutsideSolo DEF Next

\* What is known of tasks and sessions one start at a time works on holds in
\* every reachable state.
THEOREM SoloInvariance == Spec => []SoloInv
<1>1. Init => IInv /\ SoloInv BY InitInv, InitSolo
<1>2. IInv /\ SoloInv /\ [Next]_vars => (IInv /\ SoloInv)' BY NextInv, NextSolo
<1>. QED BY <1>1, <1>2, PTL DEF Spec

\* Overlapping starts included, every row that names a session names one that
\* carries the label of its task, and no session is labelled with a task that was
\* never reserved (the taskLabel that startNawabariTask creates and adopts sessions by).
THEOREM NamesItsOwn == Spec => []LabelInv
<1>1. SoloInv => LabelInv BY DEF SoloInv
<1>. QED BY <1>1, SoloInvariance, PTL

\* A task one start at a time works on is active only on the session both its
\* rows name, and no start has closed that (compensateTaskStart).
THEOREM NeverActiveOnClosed == Spec => []ActiveIsLive
<1>1. IInv /\ SoloInv => ActiveIsLive
  BY DEF IInv, RowInv, SoloInv, SoloRows, ActiveIsLive, Exists
<1>. QED BY <1>1, Invariance, SoloInvariance, PTL

\* No failure, lost reply or death of a start leaves an open session behind a
\* task that is gone or given up.
THEOREM NothingLeaks == Spec => []NoLeak
<1>1. ASSUME IInv, SoloInv PROVE NoLeak
  <2>. SUFFICES ASSUME NEW s \in Session, session[s].state = "active",
                       Alone(session[s].label)
                PROVE  Live(session[s].label)
    BY DEF NoLeak, Live
  <2>1. PICK t : t = session[s].label OBVIOUS
  <2>2. t \in Task BY <1>1, <2>1, Kinds DEF SoloInv, LabelInv, TaskOrNone
  <2>3. SoloRows(t) BY <1>1, <2>1, <2>2 DEF SoloInv
  <2>4. s \in Open(t) BY <2>1 DEF Open, Labelled
  <2>. QED BY <2>1, <2>3, <2>4 DEF SoloRows
<1>. QED BY <1>1, Invariance, SoloInvariance, PTL

\* A start that lost its reply or its process finds its session again by its
\* label: a task one start at a time works on never gets a second one.
THEOREM NeverTwoSessions == Spec => []OneSession
<1>1. ASSUME SoloInv PROVE OneSession
  <2>. SUFFICES ASSUME NEW t \in Task, Alone(t) PROVE Cardinality(Labelled(t)) <= 1
    BY DEF OneSession, Labelled
  <2>1. \A r, s \in Labelled(t) : r = s BY <1>1 DEF SoloInv, SoloRows
  <2>2. CASE Labelled(t) = {} BY <2>2, FS_EmptySet
  <2>3. CASE Labelled(t) # {}
    <3>1. PICK s : Labelled(t) = {s} BY <2>1, <2>3
    <3>. QED BY <3>1, FS_Singleton
  <2>. QED BY <2>2, <2>3
<1>. QED BY <1>1, SoloInvariance, PTL
=============================================================================
