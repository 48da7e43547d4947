-------------------------- MODULE TaskStartProofs ---------------------------
(***************************************************************************)
(* IInv is inductive, for any starters, requests, tasks and sessions. No   *)
(* step takes back a task's reservation or deletion, or the session of a   *)
(* reconciliation row (Keeps), so what one start has established outlives  *)
(* the steps of all others. Rows change in five ways, one lemma each:      *)
(* MovedRows, BoundRows, LinkedRows, DeletedRows, and in Reserve and Begin.*)
(***************************************************************************)
EXTENDS TaskStart, TLAPS

USE DEF Pc, Working, Identifying

\* What no step takes back
Keeps ==
  \A t \in Task :
    /\ task[t].life # "free" => task'[t].life # "free"
    /\ task[t].life # "free" /\ Exists(t)' => Exists(t)
    /\ Exists(t)' /\ Recorded(t) => Recorded(t)'
    /\ Exists(t)' /\ record[t].sid # None => record'[t].sid = record[t].sid

\* Both rows have their columns, and agree.
Rows ==
  /\ task \in [Task -> TaskRow] /\ record \in [Task -> Record]
  /\ \A t \in Task : Recorded(t) => Exists(t)
  /\ RowInv

\* Worker w is alone in changing its control and locals.
Mine(w) ==
  /\ pc' \in [Starter -> Pc] /\ job' \in [Starter -> Job]
  /\ \A v \in Starter \ {w} : pc'[v] = pc[v] /\ job'[v] = job[v]

\* An absent task, session or request is none.
LEMMA Constants == None \notin Task /\ None \notin Session /\ None \notin Request
  BY StartAssumption

\* A lifecycle move leads to a lifecycle state, from one.
LEMMA AllowedStates ==
  ASSUME NEW from, NEW to \in Allowed(from)
  PROVE  to \in LifecycleState
  BY DEF Allowed, LifecycleState

\* Another start's view only depends on what no step takes back.
LEMMA ViewKept ==
  ASSUME IInv, Keeps, NEW v \in Starter, pc'[v] = pc[v], job'[v] = job[v]
  PROVE  View(v)'
<1>1. View(v) BY DEF IInv
<1>2. CASE pc[v] \in Working
  <2>1. job[v].task \in Task /\ task[job[v].task].life # "free" BY <1>1, <1>2 DEF View
  <2>2. task'[job[v].task].life # "free" BY <2>1 DEF Keeps
  <2>3. ASSUME Exists(job[v].task)', Exists(job[v].task) =>
                 Recorded(job[v].task) /\ record[job[v].task].sid = job[v].sid,
               job[v].sid \in Session
        PROVE  Recorded(job[v].task)' /\ record'[job[v].task].sid = job[v].sid
    BY <2>1, <2>3, Constants DEF Keeps
  <2>. QED BY <1>1, <1>2, <2>1, <2>2, <2>3 DEF View, Exists, Recorded
<1>3. CASE pc[v] \notin Working
  BY <1>1, <1>3 DEF View
<1>. QED BY <1>2, <1>3

\* The parts of the invariant a step of w has to show
LEMMA StepKeeps ==
  ASSUME IInv, NEW w \in Starter, Mine(w), Rows', Keeps,
         session' \in [Session -> SessionRow], contended' \subseteq Task, View(w)'
  PROVE  IInv' /\ Keeps
<1>1. \A v \in Starter : View(v)'
  <2>. TAKE v \in Starter
  <2>. QED BY ViewKept DEF Mine
<1>. QED BY <1>1 DEF IInv, TypeOK, Rows, Mine

\* A step outside of the starts
LEMMA WorldKeeps ==
  ASSUME IInv, Rows', Keeps, UNCHANGED <<pc, job, contended>>,
         session' \in [Session -> SessionRow]
  PROVE  IInv' /\ Keeps
<1>1. \A v \in Starter : View(v)'
  <2>. TAKE v \in Starter
  <2>. QED BY ViewKept
<1>. QED BY <1>1 DEF IInv, TypeOK, Rows

-----------------------------------------------------------------------------
(* What may happen to the rows *)

\* Rows that stay the same keep everything.
LEMMA SameRows ==
  ASSUME IInv, UNCHANGED <<task, record>>
  PROVE  Rows' /\ Keeps
  BY DEF IInv, TypeOK, Rows, RowInv, Keeps, Exists, Recorded

\* The task rows keep their sessions and go on existing.
SameTasks ==
  /\ task' \in [Task -> TaskRow]
  /\ \A u \in Task : /\ task'[u].sid = task[u].sid
                     /\ Exists(u)' <=> Exists(u)
                     /\ task[u].life # "free" => task'[u].life # "free"

\* A lifecycle move, legal or refused, is no more than that.
LEMMA MovedTasks ==
  ASSUME IInv, NEW t \in Task, NEW to, task' = Moved(t, to)
  PROVE  SameTasks
<1>1. task \in [Task -> TaskRow] BY DEF IInv, TypeOK
<1>2. CASE task' = task BY <1>1, <1>2 DEF SameTasks, Exists
<1>3. CASE task' # task
  <2>1. /\ Exists(t) /\ to \in LifecycleState
        /\ task' = [task EXCEPT ![t].life = to]
    BY <1>3, AllowedStates DEF Moved
  <2>2. task' \in [Task -> TaskRow] BY <1>1, <2>1 DEF TaskRow
  <2>. QED BY <1>1, <2>1, <2>2 DEF SameTasks, TaskRow, Exists, LifecycleState
<1>. QED BY <1>2, <1>3

\* A lifecycle move keeps the sessions of both rows.
LEMMA MovedRows ==
  ASSUME IInv, NEW t \in Task, NEW to, task' = Moved(t, to), record' = record
  PROVE  Rows' /\ Keeps
  BY MovedTasks DEF SameTasks, IInv, TypeOK, Rows, RowInv, Keeps, Recorded

\* A session is attached to a task whose reconciliation row names it.
LEMMA BoundRows ==
  ASSUME IInv, NEW t \in Task, NEW s \in Session, Attachable(t, s),
         Exists(t) => Recorded(t) /\ record[t].sid = s,
         task' = Bound(t, s), record' = record
  PROVE  Rows' /\ Keeps
<1>1. task \in [Task -> TaskRow] BY DEF IInv, TypeOK
<1>2. task' \in [Task -> TaskRow] BY <1>1 DEF TaskRow, Bound, SessionOrNone
<1>3. \A u \in Task : /\ task'[u].life = task[u].life
                      /\ task'[u].sid = IF u = t THEN s ELSE task[u].sid
  BY <1>1 DEF TaskRow, Bound
<1>. QED BY <1>2, <1>3 DEF IInv, TypeOK, Rows, RowInv, Keeps, Recorded, Exists, Attachable

\* A session is recorded over none or itself.
LEMMA LinkedRows ==
  ASSUME IInv, NEW t \in Task, NEW s \in Session, Recordable(t, s),
         record' = Linked(t, s), SameTasks
  PROVE  Rows' /\ Keeps /\ record'[t].req # None /\ record'[t].sid = s
<1>1. record \in [Task -> Record] BY DEF IInv, TypeOK
<1>2. record' \in [Task -> Record] BY <1>1 DEF Record, Linked, SessionOrNone
<1>3. \A u \in Task : /\ record'[u].req = record[u].req
                      /\ record'[u].sid = IF u = t THEN s ELSE record[u].sid
  BY <1>1 DEF Record, Linked
<1>. QED BY <1>2, <1>3, Constants
         DEF IInv, TypeOK, Rows, RowInv, Keeps, Recorded, Recordable, SameTasks

\* A deleted reservation takes its reconciliation row with it.
LEMMA DeletedRows ==
  ASSUME IInv, NEW t \in Task,
         task' = [task EXCEPT ![t].life = "deleted"], record' = Unrecorded(t)
  PROVE  Rows' /\ Keeps
<1>1. task \in [Task -> TaskRow] /\ record \in [Task -> Record] BY DEF IInv, TypeOK
<1>2. task' \in [Task -> TaskRow] /\ record' \in [Task -> Record]
  BY <1>1 DEF TaskRow, Record, Unrecorded, RequestOrNone, SessionOrNone
<1>3. \A u \in Task : /\ task'[u].life = IF u = t THEN "deleted" ELSE task[u].life
                      /\ task'[u].sid = task[u].sid
                      /\ record'[u].req = IF u = t THEN None ELSE record[u].req
                      /\ record'[u].sid = IF u = t THEN None ELSE record[u].sid
  BY <1>1 DEF TaskRow, Record, Unrecorded
<1>. QED BY <1>2, <1>3 DEF IInv, TypeOK, Rows, RowInv, Keeps, Recorded, Exists
-----------------------------------------------------------------------------
(* What may happen to control *)

\* The locals of a start, one by one
LEMMA JobFields ==
  ASSUME IInv, NEW w \in Starter
  PROVE  /\ job[w] \in Job /\ pc[w] \in Pc
         /\ job[w].req \in RequestOrNone /\ job[w].task \in TaskOrNone
         /\ job[w].sid \in SessionOrNone /\ job[w].kept \in BOOLEAN
  BY DEF IInv, TypeOK, Job

\* A step of w that leaves the locals j and goes to next
LEMMA GoMine ==
  ASSUME IInv, NEW w \in Starter, NEW j \in Job, NEW next \in Pc,
         pc' = [pc EXCEPT ![w] = next], job' = [job EXCEPT ![w] = j]
  PROVE  Mine(w) /\ pc'[w] = next /\ job'[w] = j
  BY DEF IInv, TypeOK, Mine

\* A start that ends knows nothing.
LEMMA EndMine ==
  ASSUME IInv, NEW w \in Starter, End(w)
  PROVE  Mine(w) /\ View(w)'
<1>1. NoJob \in Job /\ ~NoJob.kept
  BY DEF NoJob, Job, RequestOrNone, TaskOrNone, SessionOrNone
<1>. QED BY <1>1, GoMine DEF End, View

\* The step keeps the locals: what the next point wants to be known is known.
LEMMA StayMine ==
  ASSUME IInv, NEW w \in Starter, Keeps, NEW next \in Working, pc[w] \in Working,
         pc' = [pc EXCEPT ![w] = next], job' = job,
         next \in Identifying \cup {"record", "observe", "close"} => job[w].sid \in Session,
         next \in Identifying \/ (job[w].kept /\ next \in {"demote", "recheck", "look"}) =>
           (Exists(job[w].task) =>
              Recorded(job[w].task) /\ record[job[w].task].sid = job[w].sid)
  PROVE  Mine(w) /\ View(w)'
<1>1. job' = job OBVIOUS
<1>2. Mine(w) /\ pc'[w] = next /\ job'[w] = job[w]
  <2>1. next \in Pc BY DEF Working
  <2>2. pc \in [Starter -> Pc] /\ job \in [Starter -> Job] BY DEF IInv, TypeOK
  <2>3. pc' \in [Starter -> Pc] /\ pc'[w] = next /\ \A v \in Starter \ {w} : pc'[v] = pc[v]
    BY <2>1, <2>2
  <2>. QED BY <2>2, <2>3 DEF Mine
<1>3. View(w) BY DEF IInv
<1>4. job[w].task \in Task /\ task[job[w].task].life # "free" BY <1>3 DEF View
<1>5. task'[job[w].task].life # "free" BY <1>4 DEF Keeps
<1>6. ASSUME Exists(job[w].task)', Exists(job[w].task) =>
               Recorded(job[w].task) /\ record[job[w].task].sid = job[w].sid,
             job[w].sid \in Session
      PROVE  Recorded(job[w].task)' /\ record'[job[w].task].sid = job[w].sid
  BY <1>4, <1>6, Constants DEF Keeps
<1>. QED BY <1>1, <1>2, <1>3, <1>4, <1>5, <1>6 DEF View, Exists, Recorded

\* A step that moves only control, or control and rows in one of the ways above
LEMMA StayKeeps ==
  ASSUME IInv, NEW w \in Starter, Keeps, Rows', NEW next \in Working, pc[w] \in Working,
         Goto(w, next), job' = job, contended' = contended,
         session' \in [Session -> SessionRow],
         next \in Identifying \cup {"record", "observe", "close"} => job[w].sid \in Session,
         next \in Identifying \/ (job[w].kept /\ next \in {"demote", "recheck", "look"}) =>
           (Exists(job[w].task) =>
              Recorded(job[w].task) /\ record[job[w].task].sid = job[w].sid)
  PROVE  IInv' /\ Keeps
<1>1. Mine(w) /\ View(w)' BY StayMine DEF Goto
<1>. QED BY <1>1, StepKeeps DEF IInv, TypeOK

\* A step that only moves control
LEMMA PassKeeps ==
  ASSUME IInv, NEW w \in Starter, NEW next \in Working, pc[w] \in Working, Pass(w, next),
         next \in Identifying \cup {"record", "observe", "close"} => job[w].sid \in Session,
         next \in Identifying \/ (job[w].kept /\ next \in {"demote", "recheck", "look"}) =>
           (Exists(job[w].task) =>
              Recorded(job[w].task) /\ record[job[w].task].sid = job[w].sid)
  PROVE  IInv' /\ Keeps
<1>1. Rows' /\ Keeps BY SameRows DEF Pass
<1>. QED BY <1>1, StayKeeps DEF Pass, IInv, TypeOK

\* A step that ends the start, after rows changed in one of the ways above
LEMMA LeaveKeeps ==
  ASSUME IInv, NEW w \in Starter, Keeps, Rows', End(w), contended' = contended,
         session' \in [Session -> SessionRow]
  PROVE  IInv' /\ Keeps
  BY EndMine, StepKeeps DEF IInv, TypeOK

\* A step that moves the task, as far as that is legal, and ends the start
LEMMA GiveUpKeeps ==
  ASSUME IInv, NEW w \in Starter, pc[w] \in Working, NEW to, GiveUp(w, to)
  PROVE  IInv' /\ Keeps
<1>1. job[w].task \in Task BY DEF IInv, View
<1>2. Rows' /\ Keeps BY <1>1, MovedRows DEF GiveUp
<1>. QED BY <1>2, LeaveKeeps DEF GiveUp, IInv, TypeOK

\* A failed session phase forgets a session that was not persisted.
LEMMA FailKeeps ==
  ASSUME IInv, NEW w \in Starter, pc[w] \in Working, Fail(w)
  PROVE  IInv' /\ Keeps
<1>1. Rows' /\ Keeps BY SameRows DEF Fail
<1>2. View(w) BY DEF IInv
<1>3. Mine(w) /\ View(w)'
  <2>1. CASE job[w].kept
    BY <1>1, <2>1, StayMine DEF Fail, Goto
  <2>2. CASE ~job[w].kept
    <3>. DEFINE j == [job[w] EXCEPT !.sid = None]
    <3>1. j \in Job /\ ~j.kept /\ j.req = job[w].req /\ j.task = job[w].task
      BY <2>2, JobFields DEF Job, SessionOrNone
    <3>2. job' = [job EXCEPT ![w] = j] BY <2>2 DEF Fail, IInv, TypeOK
    <3>3. Mine(w) /\ pc'[w] = "compensate" /\ job'[w] = j
      BY <3>1, <3>2, GoMine DEF Fail, Goto
    <3>4. task'[job[w].task].life # "free" BY <1>2 DEF Fail, View
    <3>. QED BY <1>2, <3>1, <3>3, <3>4 DEF View
  <2>. QED BY <2>1, <2>2
<1>. QED BY <1>1, <1>3, StepKeeps DEF Fail, IInv, TypeOK
-----------------------------------------------------------------------------
(* Every step *)

\* The start takes a task on, reserved by itself or by another.
LEMMA TakeMine ==
  ASSUME IInv, NEW w \in Starter, NEW t \in Task, NEW own \in BOOLEAN,
         pc[w] \in {"find", "reserve"}, Take(w, t, own), task'[t].life # "free"
  PROVE  Mine(w) /\ View(w)' /\ contended' \subseteq Task
<1>. DEFINE j == [job[w] EXCEPT !.task = t, !.own = own, !.orphan = task[t].life = "orphaned"]
<1>1. View(w) BY DEF IInv
<1>2. /\ j \in Job /\ j.req = job[w].req /\ j.task = t
      /\ j.kept = job[w].kept /\ j.sid = job[w].sid
  BY JobFields DEF Job, TaskOrNone
<1>3. job' = [job EXCEPT ![w] = j] BY DEF Take, IInv, TypeOK
<1>4. Mine(w) /\ pc'[w] = "begin" /\ job'[w] = j
  <2>1. "begin" \in Pc BY DEF Pc, Working
  <2>2. pc' = [pc EXCEPT ![w] = "begin"] BY DEF Take, Goto
  <2>. HIDE DEF j
  <2>. QED BY <1>2, <1>3, <2>1, <2>2, GoMine
<1>. QED BY <1>1, <1>2, <1>4 DEF Take, View, IInv, TypeOK

\* Reservation: a start gets its own task or somebody's.
LEMMA ReservationKeeps ==
  ASSUME IInv, NEW w \in Starter, Start(w) \/ Find(w) \/ Reserve(w) \/ Continue(w)
  PROVE  IInv' /\ Keeps
<1>1. CASE Start(w)
  <2>1. PICK r \in Request : job' = [job EXCEPT ![w].req = r] BY <1>1 DEF Start
  <2>. DEFINE j == [job[w] EXCEPT !.req = r]
  <2>2. j \in Job /\ j.req = r /\ j.kept = job[w].kept /\ j.sid = job[w].sid
    BY JobFields DEF Job, RequestOrNone
  <2>3. job' = [job EXCEPT ![w] = j] BY <2>1 DEF IInv, TypeOK
  <2>4. Mine(w) /\ pc'[w] = "find" /\ job'[w] = j
    BY <1>1, <2>2, <2>3, GoMine DEF Start, Goto
  <2>5. View(w)' BY <2>2, <2>4 DEF View, IInv
  <2>. QED BY <1>1, <2>4, <2>5, SameRows, StepKeeps DEF Start, IInv, TypeOK
<1>2. CASE Find(w)
  <2>1. Rows' /\ Keeps BY <1>2, SameRows DEF Find
  <2>2. Mine(w) /\ View(w)' /\ contended' \subseteq Task
    <3>1. CASE \E t \in Task : SameStart(t, job[w].req) /\ Take(w, t, FALSE)
      <4>1. PICK t \in Task : SameStart(t, job[w].req) /\ Take(w, t, FALSE) BY <3>1
      <4>2. task'[t].life # "free" BY <1>2, <4>1 DEF Find, SameStart, Startable
      <4>. QED BY <1>2, <4>1, <4>2, TakeMine DEF Find
    <3>2. CASE Goto(w, "reserve") /\ UNCHANGED <<job, contended>>
      <4>1. job' = [job EXCEPT ![w] = job[w]] BY <3>2 DEF IInv, TypeOK
      <4>2. Mine(w) /\ pc'[w] = "reserve" /\ job'[w] = job[w]
        BY <3>2, <4>1, GoMine, JobFields DEF Goto
      <4>. QED BY <1>2, <3>2, <4>2 DEF Find, View, IInv, TypeOK
    <3>. QED BY <1>2, <3>1, <3>2 DEF Find
  <2>. QED BY <1>2, <2>1, <2>2, StepKeeps DEF Find, IInv, TypeOK
<1>3. CASE Reserve(w)
  <2>. DEFINE row == [life |-> "planned", sid |-> None, req |-> job[w].req]
  <2>1. PICK t \in Task : /\ task[t].life = "free" /\ Take(w, t, TRUE)
                          /\ task' = [task EXCEPT ![t] = row]
    BY <1>3 DEF Reserve
  <2>2. row \in TaskRow
    BY JobFields DEF TaskRow, LifecycleState, SessionOrNone
  <2>3. task \in [Task -> TaskRow] BY DEF IInv, TypeOK
  <2>4. task' \in [Task -> TaskRow] /\ task'[t] = row
        /\ \A u \in Task \ {t} : task'[u] = task[u]
    BY <2>1, <2>2, <2>3
  <2>5. Rows' /\ Keeps
    BY <1>3, <2>1, <2>4
    DEF Reserve, IInv, TypeOK, Rows, RowInv, Keeps, Recorded, Exists
  <2>6. Mine(w) /\ View(w)' /\ contended' \subseteq Task
    BY <1>3, <2>1, <2>4, TakeMine DEF Reserve
  <2>. QED BY <1>3, <2>5, <2>6, StepKeeps DEF Reserve, IInv, TypeOK
<1>4. CASE Continue(w)
  <2>1. Rows' /\ Keeps BY <1>4, SameRows DEF Continue
  <2>2. PICK t \in Claimants(job[w].req) :
          IF Continuable(t, job[w].req) THEN Take(w, t, FALSE)
                                        ELSE End(w) /\ UNCHANGED contended
    BY <1>4 DEF Continue
  <2>3. t \in Task /\ task'[t].life # "free"
    BY <1>4 DEF Continue, Claimants, SameKey, SameIssue, Exists
  <2>4. CASE Take(w, t, FALSE)
    BY <1>4, <2>1, <2>3, <2>4, TakeMine, StepKeeps DEF Continue, IInv, TypeOK
  <2>5. CASE End(w) /\ UNCHANGED contended
    BY <1>4, <2>1, <2>5, LeaveKeeps DEF Continue, IInv, TypeOK
  <2>. QED BY <2>2, <2>4, <2>5
<1>. QED BY <1>1, <1>2, <1>3, <1>4

\* The reconciliation row is opened, or the reservation taken back.
LEMMA BeginKeeps ==
  ASSUME IInv, NEW w \in Starter, Begin(w) \/ BeginRefused(w) \/ Settle(w)
  PROVE  IInv' /\ Keeps
<1>. DEFINE t == job[w].task
<1>1. View(w) /\ pc[w] \in Working BY DEF IInv, Begin, BeginRefused, Settle
<1>2. t \in Task /\ task[t].life # "free" /\ job[w].req \in Request BY <1>1 DEF View
<1>3. CASE Begin(w)
  <2>. DEFINE j == [job[w] EXCEPT !.sid = record[t].sid, !.kept = record[t].sid # None]
  <2>1. record \in [Task -> Record] /\ task \in [Task -> TaskRow] BY DEF IInv, TypeOK
  <2>2. record[t].sid \in SessionOrNone BY <1>2, <2>1 DEF Record
  <2>3. /\ j \in Job /\ j.req = job[w].req /\ j.task = t
        /\ j.kept = (record[t].sid # None) /\ j.sid = record[t].sid
    BY <2>2, JobFields DEF Job
  <2>4. job' = [job EXCEPT ![w] = j] BY <1>3 DEF Begin, IInv, TypeOK
  <2>5. Mine(w) /\ pc'[w] = "demote" /\ job'[w] = j
    BY <1>3, <2>3, <2>4, GoMine DEF Begin, Goto
  <2>6. /\ record' \in [Task -> Record]
        /\ \A u \in Task : /\ record'[u].sid = record[u].sid
                           /\ record'[u].req = IF u = t THEN job[w].req ELSE record[u].req
    BY <1>2, <1>3, <2>1 DEF Begin, Record, RequestOrNone
  <2>7. Rows' /\ Keeps
    <3>1. task' = task /\ Exists(t) BY <1>3 DEF Begin, Identified
    <3>2. \A u \in Task : Exists(u)' <=> Exists(u) BY <3>1 DEF Exists
    <3>3. \A u \in Task : Recorded(u) => Recorded(u)'
      BY <1>2, <2>6, Constants DEF Recorded
    <3>4. \A u \in Task : Recorded(u)' => Exists(u)
      BY <2>6, <3>1 DEF IInv, TypeOK, Recorded
    <3>5. RowInv' BY <2>6, <3>1, <3>2, <3>3 DEF IInv, RowInv
    <3>6. Keeps BY <2>6, <3>1, <3>2, <3>3 DEF Keeps
    <3>. QED BY <2>1, <2>6, <3>1, <3>2, <3>4, <3>5, <3>6 DEF Rows
  <2>8. View(w)'
    <3>1. task' = task BY <1>3 DEF Begin
    <3>2. record'[t].req # None /\ record'[t].sid = j.sid
      BY <1>2, <2>3, <2>6, Constants
    <3>3. j.kept => j.sid \in Session BY <2>2, <2>3 DEF SessionOrNone
    <3>. HIDE DEF j
    <3>. QED BY <1>2, <2>3, <2>5, <3>1, <3>2, <3>3 DEF View, Recorded, Exists
  <2>. QED BY <1>3, <2>5, <2>7, <2>8, StepKeeps DEF Begin, IInv, TypeOK
<1>4. CASE BeginRefused(w)
  <2>1. Rows' /\ Keeps
    <3>1. CASE job[w].own /\ task[t].life = "planned"
      BY <1>2, <1>4, <3>1, DeletedRows DEF BeginRefused
    <3>2. CASE ~(job[w].own /\ task[t].life = "planned")
      BY <1>4, <3>2, SameRows DEF BeginRefused
    <3>. QED BY <3>1, <3>2
  <2>. QED BY <1>4, <2>1, LeaveKeeps DEF BeginRefused, IInv, TypeOK
<1>5. CASE Settle(w)
  <2>1. Rows' /\ Keeps
    <3>1. CASE job[w].own /\ task[t].life = "planned"
      BY <1>2, <1>5, <3>1, DeletedRows DEF Settle
    <3>2. CASE ~(job[w].own /\ task[t].life = "planned") /\ task[t].life = "orphaned" /\ ~job[w].undo
      BY <1>5, <3>2, SameRows DEF Settle
    <3>3. CASE ~(job[w].own /\ task[t].life = "planned") /\ ~(task[t].life = "orphaned" /\ ~job[w].undo)
      BY <1>2, <1>5, <3>3, MovedRows DEF Settle
    <3>. QED BY <3>1, <3>2, <3>3
  <2>. QED BY <1>5, <2>1, LeaveKeeps DEF Settle, IInv, TypeOK
<1>. QED BY <1>3, <1>4, <1>5

\* Recovery of an earlier start: the session it verifies is the recorded one.
LEMMA RecoveryKeeps ==
  ASSUME IInv, NEW w \in Starter,
         \/ Demote(w) \/ Recover(w) \/ RecoverEnded(w) \/ RecoverFails(w) \/ Reattach(w)
         \/ Reactivate(w) \/ ReattachFails(w) \/ Recheck(w) \/ RecheckActive(w)
  PROVE  IInv' /\ Keeps
<1>. DEFINE t == job[w].task
<1>1. View(w) /\ pc[w] \in Working
  BY DEF IInv, Demote, Recover, RecoverEnded, RecoverFails, Reattach, Reactivate,
         ReattachFails, Recheck, RecheckActive
<1>2. t \in Task BY <1>1 DEF View
<1>3. CASE Demote(w)
  <2>. DEFINE j == [job[w] EXCEPT !.demoted = task[t].life = "active"]
  <2>1. /\ j \in Job /\ j.req = job[w].req /\ j.task = t
        /\ j.kept = job[w].kept /\ j.sid = job[w].sid
    BY JobFields DEF Job
  <2>2. job' = [job EXCEPT ![w] = j] BY <1>3 DEF Demote, IInv, TypeOK
  <2>3. PICK next \in {"recover", "recheck"} :
          (next = "recover" => job[w].kept) /\ pc' = [pc EXCEPT ![w] = next]
    BY <1>3 DEF Demote, Goto
  <2>4. Mine(w) /\ pc'[w] = next /\ job'[w] = j BY <2>1, <2>2, <2>3, GoMine
  <2>5. Rows' /\ Keeps
    BY <1>2, <1>3, MovedRows, SameRows DEF Demote
  <2>6. task'[t].life # "free" BY <1>1, <1>2, <2>5 DEF View, Keeps
  <2>7. j.kept => ((task'[t].life \notin {"free", "deleted"}) =>
                     record'[t].req # None /\ record'[t].sid = job[w].sid)
    <3>1. record' = record BY <1>3 DEF Demote
    <3>2. task'[t].life \notin {"free", "deleted"} => Exists(t)
      BY <1>1, <1>2, <2>5 DEF View, Keeps, Exists
    <3>. QED BY <1>1, <1>3, <2>1, <3>1, <3>2 DEF Demote, View, Recorded
  <2>8. View(w)'
    <3>. HIDE DEF j
    <3>. QED BY <1>1, <1>2, <2>1, <2>3, <2>4, <2>6, <2>7 DEF View, Exists, Recorded
  <2>. QED BY <1>3, <2>4, <2>5, <2>8, StepKeeps DEF Demote, IInv, TypeOK
<1>4. CASE Recover(w)
  BY <1>1, <1>4, PassKeeps DEF Recover, View
<1>5. CASE RecoverEnded(w) \/ RecoverFails(w) \/ ReattachFails(w) \/ RecheckActive(w)
  BY <1>1, <1>5, GiveUpKeeps DEF RecoverEnded, RecoverFails, ReattachFails, RecheckActive
<1>6. CASE Reattach(w)
  <2>1. Rows' /\ Keeps BY <1>1, <1>2, <1>6, BoundRows DEF Reattach, View
  <2>. QED BY <1>1, <1>6, <2>1, StayKeeps DEF Reattach, IInv, TypeOK
<1>7. CASE Reactivate(w)
  <2>1. Rows' /\ Keeps BY <1>2, <1>7, MovedRows DEF Reactivate
  <2>. QED BY <1>7, <2>1, LeaveKeeps DEF Reactivate, IInv, TypeOK
<1>8. CASE Recheck(w)
  BY <1>1, <1>8, PassKeeps DEF Recheck, View
<1>. QED BY <1>3, <1>4, <1>5, <1>6, <1>7, <1>8

\* w takes a session in hand that the reconciliation row names, or is about to.
LEMMA HandMine ==
  ASSUME IInv, NEW w \in Starter, pc[w] \in Working, Keeps, NEW s \in Session,
         NEW next \in {"claim", "record", "compensate"}, pc' = [pc EXCEPT ![w] = next],
         job' = [job EXCEPT ![w].sid = s],
         next = "claim" => record'[job[w].task].req # None /\ record'[job[w].task].sid = s
  PROVE  Mine(w) /\ View(w)'
<1>. DEFINE j == [job[w] EXCEPT !.sid = s]
<1>1. View(w) /\ job[w].task \in Task BY DEF IInv, View
<1>2. /\ j \in Job /\ j.req = job[w].req /\ j.task = job[w].task
      /\ j.kept = job[w].kept /\ j.sid = s
  BY JobFields DEF Job, SessionOrNone
<1>3. job' = [job EXCEPT ![w] = j] BY DEF IInv, TypeOK
<1>4. Mine(w) /\ pc'[w] = next /\ job'[w] = j BY <1>2, <1>3, GoMine DEF Goto
<1>5. task'[job[w].task].life # "free" BY <1>1 DEF View, Keeps
<1>. HIDE DEF j
<1>. QED BY <1>1, <1>2, <1>4, <1>5 DEF View, Recorded

\* Nawabari's registry keeps its columns.
LEMMA SessionKinds ==
  ASSUME IInv, NEW s \in Session
  PROVE  /\ Closed(s) \in [Session -> SessionRow]
         /\ [session EXCEPT ![s].state = "stale"] \in [Session -> SessionRow]
         /\ \A t \in Task, r \in Request : Created(s, t, r) => session' \in [Session -> SessionRow]
<1>1. session \in [Session -> SessionRow] BY DEF IInv, TypeOK
<1>2. /\ Closed(s) \in [Session -> SessionRow]
      /\ [session EXCEPT ![s].state = "stale"] \in [Session -> SessionRow]
  BY <1>1 DEF SessionRow, Closed
<1>3. ASSUME NEW t \in Task, NEW r \in Request, Created(s, t, r)
      PROVE  session' \in [Session -> SessionRow]
  <2>1. [state |-> "active", label |-> t, branch |-> BranchOf[r]] \in SessionRow
    BY DEF SessionRow, TaskOrNone
  <2>. QED BY <1>1, <1>3, <2>1 DEF Created
<1>. QED BY <1>2, <1>3

\* Finding, adopting, creating and recording the session
LEMMA SessionKeeps ==
  ASSUME IInv, NEW w \in Starter,
         \/ LookKept(w) \/ LookNone(w) \/ Adopt(w) \/ AdoptRefused(w) \/ LookFails(w)
         \/ Create(w) \/ CreateRefused(w) \/ CreateFails(w) \/ CreateLost(w)
         \/ RecordSession(w) \/ RecordRefused(w)
  PROVE  IInv' /\ Keeps
<1>. DEFINE t == job[w].task
<1>1. View(w) /\ pc[w] \in Working
  BY DEF IInv, LookKept, LookNone, Adopt, AdoptRefused, LookFails, Create, CreateRefused,
         CreateFails, CreateLost, RecordSession, RecordRefused
<1>2. t \in Task /\ job[w].req \in Request BY <1>1 DEF View
<1>3. CASE LookKept(w)
  BY <1>1, <1>3, PassKeeps, FailKeeps DEF LookKept, View
<1>4. CASE LookNone(w)
  <2>1. Rows' /\ Keeps BY <1>4, SameRows DEF LookNone
  <2>2. session' \in [Session -> SessionRow] BY <1>4 DEF LookNone, IInv, TypeOK
  <2>. QED BY <1>1, <1>4, <2>1, <2>2, LeaveKeeps, StayKeeps DEF LookNone
<1>5. CASE Adopt(w)
  <2>1. PICK s \in Session :
          /\ Recordable(t, s) /\ record' = Linked(t, s)
          /\ \/ job' = [job EXCEPT ![w].sid = s] /\ pc' = [pc EXCEPT ![w] = "claim"] /\ task' = task
             \/ (task' = task \/ task' = Moved(t, "abandoned")) /\ End(w)
    BY <1>5 DEF Adopt, Goto
  <2>2. SameTasks
    BY <1>2, <2>1, MovedTasks DEF SameTasks, Exists, IInv, TypeOK
  <2>3. Rows' /\ Keeps /\ record'[t].req # None /\ record'[t].sid = s
    BY <1>2, <2>1, <2>2, LinkedRows
  <2>4. Mine(w) /\ View(w)'
    BY <1>1, <2>1, <2>3, EndMine, HandMine
  <2>. QED BY <1>5, <2>3, <2>4, StepKeeps DEF Adopt, IInv, TypeOK
<1>6. CASE AdoptRefused(w) \/ LookFails(w) \/ CreateRefused(w) \/ CreateFails(w) \/ RecordRefused(w)
  BY <1>1, <1>6, FailKeeps DEF AdoptRefused, LookFails, CreateRefused, CreateFails, RecordRefused
<1>7. CASE Create(w)
  <2>1. PICK s \in Session :
          Created(s, t, job[w].req) /\ job' = [job EXCEPT ![w].sid = s]
    BY <1>7 DEF Create
  <2>2. Rows' /\ Keeps BY <1>7, SameRows DEF Create
  <2>3. session' \in [Session -> SessionRow] BY <1>2, <2>1, SessionKinds
  <2>4. Mine(w) /\ View(w)' BY <1>1, <1>7, <2>1, <2>2, HandMine DEF Create, Goto
  <2>. QED BY <1>7, <2>2, <2>3, <2>4, StepKeeps DEF Create, IInv, TypeOK
<1>8. CASE CreateLost(w)
  <2>1. Rows' /\ Keeps BY <1>8, SameRows DEF CreateLost
  <2>2. session' \in [Session -> SessionRow] BY <1>2, <1>8, SessionKinds DEF CreateLost
  <2>. QED BY <1>1, <1>8, <2>1, <2>2, StayKeeps DEF CreateLost
<1>9. CASE RecordSession(w)
  <2>1. SameTasks BY <1>9 DEF RecordSession, SameTasks, Exists, IInv, TypeOK
  <2>2. job[w].sid \in Session BY <1>1, <1>9 DEF RecordSession, View
  <2>3. Rows' /\ Keeps /\ record'[t].req # None /\ record'[t].sid = job[w].sid
    BY <1>2, <1>9, <2>1, <2>2, LinkedRows DEF RecordSession
  <2>4. job' = [job EXCEPT ![w].sid = job[w].sid]
    BY <1>9, JobFields DEF RecordSession, IInv, TypeOK, Job
  <2>5. Mine(w) /\ View(w)'
    BY <1>1, <1>9, <2>2, <2>3, <2>4, HandMine DEF RecordSession, Goto
  <2>. QED BY <1>9, <2>3, <2>5, StepKeeps DEF RecordSession, IInv, TypeOK
<1>. QED BY <1>3, <1>4, <1>5, <1>6, <1>7, <1>8, <1>9

\* Claims, attachment and activation
LEMMA AttachmentKeeps ==
  ASSUME IInv, NEW w \in Starter,
         \/ Claim(w) \/ ClaimRefused(w) \/ ClaimFails(w) \/ Attach(w) \/ Activate(w)
         \/ Deliver(w) \/ AttachRefused(w) \/ DeliverFails(w)
  PROVE  IInv' /\ Keeps
<1>. DEFINE t == job[w].task
<1>1. View(w) /\ pc[w] \in Working
  BY DEF IInv, Claim, ClaimRefused, ClaimFails, Attach, Activate, Deliver, AttachRefused,
         DeliverFails
<1>2. t \in Task BY <1>1 DEF View
<1>3. CASE Claim(w)
  BY <1>1, <1>3, PassKeeps DEF Claim, View
<1>4. CASE ClaimRefused(w) \/ ClaimFails(w)
  BY <1>1, <1>4, FailKeeps DEF ClaimRefused, ClaimFails
<1>5. CASE Attach(w)
  <2>1. Rows' /\ Keeps BY <1>1, <1>2, <1>5, BoundRows DEF Attach, View
  <2>2. PICK next \in {"deliver", "activate"} : Goto(w, next) BY <1>5 DEF Attach
  <2>. QED BY <1>1, <1>5, <2>1, <2>2, StayKeeps DEF Attach, Goto, IInv, TypeOK
<1>6. CASE Activate(w)
  <2>1. Rows' /\ Keeps BY <1>2, <1>6, MovedRows DEF Activate
  <2>. QED BY <1>1, <1>6, <2>1, StayKeeps DEF Activate, IInv, TypeOK
<1>7. CASE Deliver(w)
  <2>1. Rows' /\ Keeps BY <1>7, SameRows DEF Deliver
  <2>. QED BY <1>7, <2>1, LeaveKeeps DEF Deliver, IInv, TypeOK
<1>8. CASE AttachRefused(w) \/ DeliverFails(w)
  BY <1>1, <1>8, PassKeeps DEF AttachRefused, DeliverFails
<1>. QED BY <1>3, <1>4, <1>5, <1>6, <1>7, <1>8

\* Compensation
LEMMA CompensationKeeps ==
  ASSUME IInv, NEW w \in Starter,
         \/ Compensate(w) \/ Search(w) \/ SearchNone(w) \/ SearchFails(w) \/ ObserveSession(w)
         \/ ObserveFails(w) \/ Close(w) \/ CloseFails(w) \/ CloseLost(w)
  PROVE  IInv' /\ Keeps
<1>. DEFINE t == job[w].task
<1>1. View(w) /\ pc[w] \in Working
  BY DEF IInv, Compensate, Search, SearchNone, SearchFails, ObserveSession, ObserveFails,
         Close, CloseFails, CloseLost
<1>2. t \in Task BY <1>1 DEF View
<1>3. CASE Compensate(w)
  <2>. DEFINE j == [job[w] EXCEPT !.sid = Suspect(w), !.undo = task[t].life = "active"]
  <2>1. Suspect(w) \in SessionOrNone /\ (job[w].kept => Suspect(w) \in Session)
    <3>1. /\ record[t].sid \in SessionOrNone /\ task[t].sid \in SessionOrNone
          /\ job[w].sid \in SessionOrNone
      BY <1>2, JobFields DEF IInv, TypeOK, Record, TaskRow
    <3>. QED BY <1>1, <3>1 DEF Suspect, View, SessionOrNone
  <2>2. /\ j \in Job /\ j.req = job[w].req /\ j.task = t
        /\ j.kept = job[w].kept /\ j.sid = Suspect(w)
    BY <2>1, JobFields DEF Job
  <2>3. job' = [job EXCEPT ![w] = j] BY <1>3 DEF Compensate, IInv, TypeOK
  <2>4. PICK next \in {"search", "observe"} :
          (next = "observe" => Suspect(w) # None) /\ pc' = [pc EXCEPT ![w] = next]
    BY <1>3 DEF Compensate, Goto
  <2>5. Mine(w) /\ pc'[w] = next /\ job'[w] = j BY <2>2, <2>3, <2>4, GoMine
  <2>6. Rows' /\ Keeps BY <1>2, <1>3, MovedRows, SameRows DEF Compensate
  <2>7. task'[t].life # "free" BY <1>1, <1>2, <2>6 DEF View, Keeps
  <2>8. View(w)'
    <3>. HIDE DEF j
    <3>. QED BY <1>1, <1>2, <2>1, <2>2, <2>4, <2>5, <2>7 DEF View, SessionOrNone
  <2>. QED BY <1>3, <2>5, <2>6, <2>8, StepKeeps DEF Compensate, IInv, TypeOK
<1>4. CASE Search(w)
  <2>1. PICK s \in Session : /\ Recordable(t, s) /\ record' = Linked(t, s)
                             /\ job' = [job EXCEPT ![w].sid = s]
    BY <1>4 DEF Search
  <2>2. SameTasks BY <1>4 DEF Search, SameTasks, Exists, IInv, TypeOK
  <2>3. Rows' /\ Keeps BY <1>2, <2>1, <2>2, LinkedRows
  <2>4. Mine(w) /\ View(w)' BY <1>1, <1>4, <2>1, <2>3, HandMine DEF Search, Goto
  <2>. QED BY <1>4, <2>3, <2>4, StepKeeps DEF Search, IInv, TypeOK
<1>5. CASE SearchNone(w) \/ SearchFails(w) \/ ObserveFails(w) \/ CloseFails(w)
  BY <1>1, <1>5, GiveUpKeeps DEF SearchNone, SearchFails, ObserveFails, CloseFails
<1>6. CASE ObserveSession(w)
  BY <1>1, <1>6, PassKeeps DEF ObserveSession, View
<1>7. CASE Close(w)
  <2>1. Rows' /\ Keeps BY <1>7, SameRows DEF Close
  <2>2. session' \in [Session -> SessionRow] BY <1>1, <1>7, SessionKinds DEF Close, View
  <2>. QED BY <1>1, <1>7, <2>1, <2>2, StayKeeps DEF Close
<1>8. CASE CloseLost(w)
  <2>1. Rows' /\ Keeps BY <1>2, <1>8, MovedRows DEF CloseLost
  <2>2. session' \in [Session -> SessionRow] BY <1>1, <1>8, SessionKinds DEF CloseLost, View
  <2>. QED BY <1>8, <2>1, <2>2, LeaveKeeps DEF CloseLost
<1>. QED BY <1>3, <1>4, <1>5, <1>6, <1>7, <1>8

\* A process that dies, the task's first commit, a session that ends
LEMMA OutsideKeeps ==
  ASSUME IInv, (\E w \in Starter : Interrupt(w)) \/ World \/ UNCHANGED vars
  PROVE  IInv' /\ Keeps
<1>1. ASSUME NEW w \in Starter, Interrupt(w) PROVE IInv' /\ Keeps
  <2>1. Rows' /\ Keeps BY <1>1, SameRows DEF Interrupt
  <2>. QED BY <1>1, <2>1, LeaveKeeps DEF Interrupt, IInv, TypeOK
<1>2. ASSUME NEW t \in Task, Commit(t) PROVE IInv' /\ Keeps
  <2>1. Rows' /\ Keeps BY <1>2, MovedRows DEF Commit
  <2>. QED BY <1>2, <2>1, WorldKeeps DEF Commit, IInv, TypeOK
<1>3. ASSUME NEW s \in Session, Expire(s) PROVE IInv' /\ Keeps
  <2>1. Rows' /\ Keeps BY <1>3, SameRows DEF Expire
  <2>2. session' \in [Session -> SessionRow] BY <1>3, SessionKinds DEF Expire
  <2>. QED BY <1>3, <2>1, <2>2, WorldKeeps DEF Expire
<1>4. CASE UNCHANGED vars
  <2>1. Rows' /\ Keeps BY <1>4, SameRows DEF vars
  <2>. QED BY <1>4, <2>1, WorldKeeps DEF vars, IInv, TypeOK
<1>. QED BY <1>1, <1>2, <1>3, <1>4 DEF World

-----------------------------------------------------------------------------
(* Theorems *)

\* No start has begun, and no row exists.
LEMMA InitInv == Init => IInv
<1>. SUFFICES ASSUME Init PROVE IInv OBVIOUS
<1>1. NoJob \in Job /\ ~NoJob.kept
  BY DEF NoJob, Job, RequestOrNone, TaskOrNone, SessionOrNone
<1>2. task \in [Task -> TaskRow] BY DEF Init, TaskRow, SessionOrNone, RequestOrNone
<1>3. record \in [Task -> Record] BY DEF Init, Record, SessionOrNone, RequestOrNone
<1>4. session \in [Session -> SessionRow] BY DEF Init, SessionRow, TaskOrNone
<1>5. \A t \in Task : task[t].life = "free" /\ record[t].req = None BY DEF Init
<1>6. RowInv BY <1>5 DEF RowInv, Exists
<1>7. \A w \in Starter : pc[w] = "idle" /\ job[w] = NoJob BY DEF Init
<1>8. TypeOK
  <2>1. pc \in [Starter -> Pc] /\ job \in [Starter -> Job] BY <1>1 DEF Init
  <2>. QED BY <1>2, <1>3, <1>4, <1>5, <2>1 DEF Init, TypeOK, Recorded
<1>9. \A w \in Starter : View(w) BY <1>1, <1>7 DEF View
<1>. QED BY <1>6, <1>8, <1>9 DEF IInv

\* Every step of the starts and of the world around them keeps the invariant.
LEMMA NextKeeps == ASSUME IInv, [Next]_vars PROVE IInv' /\ Keeps
<1>1. ASSUME NEW w \in Starter, Start(w) \/ Step(w) \/ Fault(w) PROVE IInv' /\ Keeps
  <2>1. CASE Start(w) BY <2>1, ReservationKeeps
  <2>2. CASE Step(w)
    BY <2>2, ReservationKeeps, BeginKeeps, RecoveryKeeps, SessionKeeps, AttachmentKeeps,
       CompensationKeeps DEF Step
  <2>3. CASE Fault(w)
    BY <2>3, RecoveryKeeps, SessionKeeps, AttachmentKeeps, CompensationKeeps, OutsideKeeps
    DEF Fault
  <2>. QED BY <1>1, <2>1, <2>2, <2>3
<1>. QED BY <1>1, OutsideKeeps DEF Next

LEMMA NextInv == ASSUME IInv, [Next]_vars PROVE IInv' BY NextKeeps

\* The inductive invariant holds in every reachable state: whatever starts of
\* one Issue do to each other (nawabari-task.ts), the two rows stay consistent.
THEOREM Invariance == Spec => []IInv
  BY InitInv, NextInv, PTL DEF Spec

\* Every variable keeps its kind, and a reconciliation row only exists with its
\* task (deleteReservedTask).
THEOREM TypeCorrect == Spec => []TypeOK
<1>1. IInv => TypeOK BY DEF IInv
<1>. QED BY <1>1, Invariance, PTL

\* The task row never names another session than its reconciliation row, for any
\* number of concurrent starts (attachNawabariSession, recordTaskStartSession).
THEOREM NeverTwoIdentities == Spec => []OneIdentity
<1>1. IInv => OneIdentity BY DEF IInv, TypeOK, RowInv, OneIdentity
<1>. QED BY <1>1, Invariance, PTL

\* However many starts work on one task at once, the session recorded for it is
\* never exchanged for another while it exists, and a reservation taken back is
\* not revived (recordTaskStartSession, attachNawabariSession, deleteReservedTask).
THEOREM BoundForGood == Spec => NeverRebound
<1>1. ASSUME IInv, [Next]_vars
      PROVE  [\A t \in Task : Exists(t)' => StillBound(t)]_vars
  <2>1. IInv' /\ Keeps BY <1>1, NextKeeps
  <2>2. ASSUME NEW t \in Task, Exists(t)' PROVE StillBound(t)
    <3>1. Exists(t) \/ task[t].life = "free" BY <2>1, <2>2 DEF Keeps
    <3>2. record[t].sid # None => record'[t].sid = record[t].sid BY <2>1, <2>2 DEF Keeps
    <3>3. CASE task[t].sid = None BY <3>1, <3>2, <3>3 DEF StillBound
    <3>4. CASE task[t].sid # None /\ Exists(t)
      <4>1. record[t].sid = task[t].sid BY <1>1, <3>4 DEF IInv, RowInv
      <4>2. task'[t].sid \in {None, record'[t].sid} BY <2>1, <2>2 DEF IInv, RowInv
      <4>. QED BY <3>1, <3>2, <3>4, <4>1, <4>2 DEF StillBound
    <3>. QED BY <3>1, <3>2, <3>3, <3>4 DEF StillBound
  <2>. QED BY <2>2
<1>. QED BY <1>1, Invariance, PTL DEF Spec, NeverRebound
=============================================================================
