----------------------------- MODULE TaskStart -----------------------------
(***************************************************************************)
(* Starting a managed task (src/src/workflow/domain/nawabari-task.ts and   *)
(* the task rows of src/src/workflow/state/sqlite-store.ts).               *)
(*                                                                         *)
(* A start reserves a task row, opens the start's reconciliation row, asks *)
(* Nawabari for a session, binds that session to the task, takes its       *)
(* claims and activates the task. Rows and sessions live in two stores no  *)
(* transaction spans; a failed start compensates, a crashed one is picked  *)
(* up by whoever starts the same task again, and nothing serialises starts.*)
(*                                                                         *)
(* Abstracted: the state and detail columns of the reconciliation row (no  *)
(* decision reads them), the claims themselves, and the preview checks     *)
(* that refuse a start before it writes anything. One Issue, under the     *)
(* policy that allows it one unfinished task.                              *)
(***************************************************************************)
EXTENDS TaskLifecycle, Integers, FiniteSets

CONSTANTS
  Starter,   \* processes that may run `task start`
  Request,   \* start inputs for the Issue: slug, branch, key and base commit
  BranchOf,  \* the branch a request asks for
  KeyOf,     \* its idempotency key, or None
  Task,      \* bound: task identities that may be allocated
  Session,   \* bound: Nawabari sessions that may be created
  None

VARIABLES
  task,       \* tasks rows: lifecycle, attached session, request
  record,     \* task_start_reconciliations rows: request (None: no row), session
  session,    \* Nawabari's registry: state, label (the task) and branch
  pc, job,    \* per starter: control and local variables
  contended   \* history: tasks two starts were working on at once

vars == <<task, record, session, pc, job, contended>>

SessionOrNone == Session \cup {None}
TaskOrNone == Task \cup {None}
RequestOrNone == Request \cup {None}

TaskRow == [life: LifecycleState \cup {"free", "deleted"},
            sid: SessionOrNone, req: RequestOrNone]
Record == [req: RequestOrNone, sid: SessionOrNone]

\* "stale" stands for every way a session ends outside of a start.
SessionRow == [state: {"free", "active", "stale", "closed"}, label: TaskOrNone,
               branch: {BranchOf[r] : r \in Request} \cup {None}]

\* own: this start inserted the row; orphan: the row it read was orphaned;
\* sid: the session in hand; kept: sid was persisted by an earlier start;
\* demoted: the start took an active task back to orphaned to verify it;
\* undo: its compensation did.
Job == [req: RequestOrNone, task: TaskOrNone, own: BOOLEAN, orphan: BOOLEAN,
        sid: SessionOrNone, kept: BOOLEAN, demoted: BOOLEAN, undo: BOOLEAN]

Pc == {"idle", "find", "reserve", "begin", "demote", "recover", "reattach", "reactivate",
       "recheck", "look", "create", "record", "claim", "attach", "activate", "deliver",
       "compensate", "search", "observe", "close", "settle"}

ASSUME StartAssumption ==
  /\ None \notin Task \cup Session \cup Request
  /\ DOMAIN BranchOf = Request /\ DOMAIN KeyOf = Request

-----------------------------------------------------------------------------
(* Rows *)

Exists(t) == task[t].life \notin {"free", "deleted"}
Recorded(t) == record[t].req # None

\* Mutant of Startable: an orphaned start is not picked up again
StartableFresh(t) == task[t].life \in {"planned", "active"}

\* The lifecycle a start may still be continued in
Startable(t) == task[t].life \in {"planned", "active", "orphaned"}

\* sameTaskStartInput: the row and its reconciliation row are of this request
SameStart(t, r) == Startable(t) /\ task[t].req = r /\ record[t].req = r

\* Mutant of Labelled: ended sessions are not looked at
LabelledActive(t) == {s \in Session : session[s].label = t /\ session[s].state = "active"}

Labelled(t) == {s \in Session : session[s].label = t}

\* transitionTask: an illegal transition leaves the row alone
Moved(t, to) ==
  IF Exists(t) /\ to \in Allowed(task[t].life) THEN [task EXCEPT ![t].life = to] ELSE task

\* attachNawabariSession, recordTaskStartSession: only over no session or itself
Attachable(t, s) == Exists(t) /\ task[t].sid \in {None, s}
Recordable(t, s) == Recorded(t) /\ record[t].sid \in {None, s}

Bound(t, s) == [task EXCEPT ![t].sid = s]
Linked(t, s) == [record EXCEPT ![t].sid = s]

\* Mutant of Unrecorded: foreign keys are off and nothing cascades
StillRecorded(t) == record

\* deleteReservedTask: the reconciliation row goes with it (ON DELETE CASCADE)
Unrecorded(t) == [record EXCEPT ![t] = [req |-> None, sid |-> None]]

-----------------------------------------------------------------------------
(* Control *)

NoJob == [req |-> None, task |-> None, own |-> FALSE, orphan |-> FALSE,
          sid |-> None, kept |-> FALSE, demoted |-> FALSE, undo |-> FALSE]

Goto(w, next) == pc' = [pc EXCEPT ![w] = next]

\* The step only moves control
Pass(w, next) == Goto(w, next) /\ UNCHANGED <<task, record, session, job, contended>>

End(w) ==
  /\ pc' = [pc EXCEPT ![w] = "idle"]
  /\ job' = [job EXCEPT ![w] = NoJob]

Others(w) == {job[v].task : v \in Starter \ {w}}

\* The task a start works on from now on
Take(w, t, own) ==
  /\ job' = [job EXCEPT ![w].task = t, ![w].own = own,
                        ![w].orphan = task[t].life = "orphaned"]
  /\ contended' = IF t \in Others(w) THEN contended \cup {t} ELSE contended
  /\ Goto(w, "begin")

\* transitionTaskBestEffort, then a refusal
GiveUp(w, to) ==
  /\ task' = Moved(job[w].task, to)
  /\ End(w)
  /\ UNCHANGED <<record, session, contended>>

\* The catch of the session phase: compensation is not told of a session the
\* start created or adopted, it reads the rows again.
Fail(w) ==
  /\ Goto(w, "compensate")
  /\ job' = IF job[w].kept THEN job ELSE [job EXCEPT ![w].sid = None]
  /\ UNCHANGED <<task, record, session, contended>>

Init ==
  /\ task = [t \in Task |-> [life |-> "free", sid |-> None, req |-> None]]
  /\ record = [t \in Task |-> [req |-> None, sid |-> None]]
  /\ session = [s \in Session |-> [state |-> "free", label |-> None, branch |-> None]]
  /\ pc = [w \in Starter |-> "idle"]
  /\ job = [w \in Starter |-> NoJob]
  /\ contended = {}

-----------------------------------------------------------------------------
(* Reservation *)

Start(w) ==
  /\ pc[w] = "idle"
  /\ \E r \in Request : job' = [job EXCEPT ![w].req = r]
  /\ Goto(w, "find")
  /\ UNCHANGED <<task, record, session, contended>>

\* findRecoverableTaskStart: the same start again continues its own record.
\* One Issue has one unfinished task, so at most one matches.
Find(w) ==
  LET matches == {t \in Task : SameStart(t, job[w].req)} IN
  /\ pc[w] = "find"
  /\ IF matches = {} THEN Goto(w, "reserve") /\ UNCHANGED <<job, contended>>
                     ELSE \E t \in matches : Take(w, t, FALSE)
  /\ UNCHANGED <<task, record, session>>

\* Rows reserveTask answers with instead of inserting one
SameKey(r) == {t \in Task : Exists(t) /\ KeyOf[r] # None /\ KeyOf[task[t].req] = KeyOf[r]}
SameIssue == {t \in Task : Exists(t) /\ task[t].life \notin {"cleaned", "abandoned"}}
Claimants(r) == IF SameKey(r) # {} THEN SameKey(r) ELSE SameIssue

Reserve(w) ==
  LET r == job[w].req IN
  /\ pc[w] = "reserve"
  /\ Claimants(r) = {}
  /\ \E t \in Task :
       /\ task[t].life = "free"
       /\ task' = [task EXCEPT ![t] = [life |-> "planned", sid |-> None, req |-> r]]
       /\ Take(w, t, TRUE)
  /\ UNCHANGED <<record, session>>

\* Someone else's row: continued when it is this very start, refused otherwise
Continuable(t, r) == SameStart(t, r) \/ (t \in SameKey(r) /\ Startable(t))

Continue(w) ==
  LET r == job[w].req IN
  /\ pc[w] = "reserve"
  /\ \E t \in Claimants(r) :
       IF Continuable(t, r) THEN Take(w, t, FALSE) ELSE End(w) /\ UNCHANGED contended
  /\ UNCHANGED <<task, record, session>>

\* beginTaskStartReconciliation: the first start to get here fixes the row's
\* identity. The persisted session is read with it.
Identified(t, r) == Exists(t) /\ record[t].req \in {None, r}

Begin(w) ==
  LET t == job[w].task
      r == job[w].req
  IN
  /\ pc[w] = "begin"
  /\ Identified(t, r)
  /\ record' = [record EXCEPT ![t].req = r]
  /\ job' = [job EXCEPT ![w].sid = record[t].sid, ![w].kept = record[t].sid # None]
  /\ Goto(w, "demote")
  /\ UNCHANGED <<task, session, contended>>

\* Another start's identity, or a row deleted meanwhile: a start that inserted
\* the row takes it back.
BeginRefused(w) ==
  LET t == job[w].task
      delete == job[w].own /\ task[t].life = "planned"
  IN
  /\ pc[w] = "begin"
  /\ ~Identified(t, job[w].req)
  /\ task' = IF delete THEN [task EXCEPT ![t].life = "deleted"] ELSE task
  /\ record' = IF delete THEN Unrecorded(t) ELSE record
  /\ End(w)
  /\ UNCHANGED <<session, contended>>

-----------------------------------------------------------------------------
(* Recovery of an earlier start *)

\* An active task is not trusted either: it is verified as an orphan.
Demote(w) ==
  LET t == job[w].task
      active == task[t].life = "active"
  IN
  /\ pc[w] = "demote"
  /\ task' = IF active THEN Moved(t, "orphaned") ELSE task
  /\ job' = [job EXCEPT ![w].demoted = active]
  /\ Goto(w, IF job[w].kept THEN "recover" ELSE "recheck")
  /\ UNCHANGED <<record, session, contended>>

\* recoverSessionById
Recover(w) ==
  /\ pc[w] = "recover"
  /\ session[job[w].sid].state = "active"
  /\ Pass(w, IF job[w].demoted THEN "reattach" ELSE "recheck")

RecoverEnded(w) ==
  LET orphan == ~job[w].demoted /\ task[job[w].task].life = "orphaned" IN
  /\ pc[w] = "recover"
  /\ session[job[w].sid].state # "active"
  /\ GiveUp(w, IF orphan THEN "orphaned" ELSE "abandoned")

\* Mutant of RecoverFails: an unreadable session is taken for an ended one
RecoverUnseen(w) == pc[w] = "recover" /\ GiveUp(w, "abandoned")

RecoverFails(w) == pc[w] = "recover" /\ GiveUp(w, "orphaned")

Reattach(w) ==
  LET t == job[w].task IN
  /\ pc[w] = "reattach"
  /\ Attachable(t, job[w].sid)
  /\ task' = Bound(t, job[w].sid)
  /\ Goto(w, "reactivate")
  /\ UNCHANGED <<record, session, job, contended>>

Activatable(t) == Exists(t) /\ "active" \in Allowed(task[t].life)

\* Another start may have activated it since
Reactivate(w) ==
  LET t == job[w].task IN
  /\ pc[w] = "reactivate"
  /\ task[t].life = "active" \/ Activatable(t)
  /\ task' = Moved(t, "active")
  /\ End(w)
  /\ UNCHANGED <<record, session, contended>>

ReattachFails(w) ==
  LET t == job[w].task IN
  /\ \/ pc[w] = "reattach" /\ ~Attachable(t, job[w].sid)
     \/ pc[w] = "reactivate" /\ task[t].life # "active" /\ ~Activatable(t)
  /\ GiveUp(w, "orphaned")

Recheck(w) ==
  /\ pc[w] = "recheck"
  /\ task[job[w].task].life # "active"
  /\ Pass(w, "look")

\* Activated by another start meanwhile: its ownership is not proven here.
RecheckActive(w) ==
  /\ pc[w] = "recheck"
  /\ task[job[w].task].life = "active"
  /\ GiveUp(w, "orphaned")

-----------------------------------------------------------------------------
(* Finding or creating the session *)

\* A persisted session is looked at a second time
LookKept(w) ==
  /\ pc[w] = "look" /\ job[w].kept
  /\ IF session[job[w].sid].state = "active" THEN Pass(w, "claim") ELSE Fail(w)

\* No session carries the task's label. An active task must have had one.
LookNone(w) ==
  /\ pc[w] = "look" /\ ~job[w].kept
  /\ Labelled(job[w].task) = {}
  /\ IF job[w].demoted THEN End(w) ELSE Goto(w, "create") /\ UNCHANGED job
  /\ UNCHANGED <<task, record, session, contended>>

\* One does: it is adopted, or the start is given up because it has ended
Adopt(w) ==
  LET t == job[w].task IN
  /\ pc[w] = "look" /\ ~job[w].kept
  /\ \E s \in Session :
       /\ Labelled(t) = {s}
       /\ Recordable(t, s)
       /\ record' = Linked(t, s)
       /\ IF session[s].state = "active"
          THEN /\ job' = [job EXCEPT ![w].sid = s]
               /\ Goto(w, "claim")
               /\ UNCHANGED task
          ELSE /\ task' = IF job[w].orphan THEN task ELSE Moved(t, "abandoned")
               /\ End(w)
  /\ UNCHANGED <<session, contended>>

\* Several do, or it cannot be recorded
AdoptRefused(w) ==
  LET t == job[w].task IN
  /\ pc[w] = "look" /\ ~job[w].kept
  /\ Labelled(t) # {}
  /\ \A s \in Session : Labelled(t) = {s} => ~Recordable(t, s)
  /\ Fail(w)

\* Nawabari could not be asked
LookFails(w) == pc[w] = "look" /\ Fail(w)

\* Nawabari puts one open worktree on a branch.
Creatable(r) == \A s \in Session : session[s].state = "active" => session[s].branch # BranchOf[r]

Created(s, t, r) ==
  /\ session[s].state = "free"
  /\ session' = [session EXCEPT ![s] = [state |-> "active", label |-> t, branch |-> BranchOf[r]]]

Create(w) ==
  /\ pc[w] = "create"
  /\ Creatable(job[w].req)
  /\ \E s \in Session :
       /\ Created(s, job[w].task, job[w].req)
       /\ job' = [job EXCEPT ![w].sid = s]
  /\ Goto(w, "record")
  /\ UNCHANGED <<task, record, contended>>

CreateRefused(w) == pc[w] = "create" /\ ~Creatable(job[w].req) /\ Fail(w)
CreateFails(w) == pc[w] = "create" /\ Fail(w)

\* The session was created and the reply is lost.
CreateLost(w) ==
  /\ pc[w] = "create"
  /\ Creatable(job[w].req)
  /\ \E s \in Session : Created(s, job[w].task, job[w].req)
  /\ Goto(w, "compensate")
  /\ UNCHANGED <<task, record, job, contended>>

\* onSessionCreated, before any claim
RecordSession(w) ==
  LET t == job[w].task IN
  /\ pc[w] = "record"
  /\ Recordable(t, job[w].sid)
  /\ record' = Linked(t, job[w].sid)
  /\ Goto(w, "claim")
  /\ UNCHANGED <<task, session, job, contended>>

RecordRefused(w) ==
  /\ pc[w] = "record"
  /\ ~Recordable(job[w].task, job[w].sid)
  /\ Fail(w)

-----------------------------------------------------------------------------
(* Claims, attachment and activation *)

Claim(w) ==
  /\ pc[w] = "claim"
  /\ session[job[w].sid].state = "active"
  /\ Pass(w, "attach")

\* The session has ended, or another session holds what this one claims
ClaimRefused(w) == pc[w] = "claim" /\ session[job[w].sid].state # "active" /\ Fail(w)
ClaimFails(w) == pc[w] = "claim" /\ Fail(w)

Attach(w) ==
  LET t == job[w].task IN
  /\ pc[w] = "attach"
  /\ Attachable(t, job[w].sid)
  /\ task' = Bound(t, job[w].sid)
  /\ Goto(w, IF task[t].life = "active" THEN "deliver" ELSE "activate")
  /\ UNCHANGED <<record, session, job, contended>>

Activate(w) ==
  /\ pc[w] = "activate"
  /\ Activatable(job[w].task)
  /\ task' = Moved(job[w].task, "active")
  /\ Goto(w, "deliver")
  /\ UNCHANGED <<record, session, job, contended>>

\* Bootstrap runs in the worktree, then the start reports the task
Deliver(w) ==
  /\ pc[w] = "deliver"
  /\ End(w)
  /\ UNCHANGED <<task, record, session, contended>>

\* The row is gone, names another session, or has moved on
AttachRefused(w) ==
  /\ \/ pc[w] = "attach" /\ ~Attachable(job[w].task, job[w].sid)
     \/ pc[w] = "activate" /\ ~Activatable(job[w].task)
  /\ Pass(w, "compensate")

DeliverFails(w) == pc[w] = "deliver" /\ Pass(w, "compensate")

-----------------------------------------------------------------------------
(* Compensation: compensateTaskStart *)

\* The session to undo: as recorded, as attached, or as handed over
Suspect(w) ==
  LET t == job[w].task IN
  IF record[t].sid # None THEN record[t].sid
  ELSE IF task[t].sid # None THEN task[t].sid
  ELSE job[w].sid

\* Mutant of Compensate: the row is left as it is until the session is closed
CompensateLate(w) ==
  /\ pc[w] = "compensate"
  /\ job' = [job EXCEPT ![w].sid = Suspect(w), ![w].undo = task[job[w].task].life = "active"]
  /\ Goto(w, IF Suspect(w) = None THEN "search" ELSE "observe")
  /\ UNCHANGED <<task, record, session, contended>>

\* An active task is demoted before anything is asked of Nawabari.
Compensate(w) ==
  LET t == job[w].task
      active == task[t].life = "active"
  IN
  /\ pc[w] = "compensate"
  /\ task' = IF active THEN Moved(t, "orphaned") ELSE task
  /\ job' = [job EXCEPT ![w].sid = Suspect(w), ![w].undo = active]
  /\ Goto(w, IF Suspect(w) = None THEN "search" ELSE "observe")
  /\ UNCHANGED <<record, session, contended>>

\* No session is known, which does not say that there is none: one that
\* carries the label is recorded, and compensation starts over.
Search(w) ==
  LET t == job[w].task IN
  /\ pc[w] = "search"
  /\ \E s \in Session :
       /\ Labelled(t) = {s}
       /\ Recordable(t, s)
       /\ record' = Linked(t, s)
       /\ job' = [job EXCEPT ![w].sid = s]
  /\ Goto(w, "compensate")
  /\ UNCHANGED <<task, session, contended>>

SearchNone(w) ==
  LET t == job[w].task IN
  /\ pc[w] = "search"
  /\ \A s \in Session : Labelled(t) = {s} => ~Recordable(t, s)
  /\ GiveUp(w, "orphaned")

SearchFails(w) == pc[w] = "search" /\ GiveUp(w, "orphaned")

ObserveSession(w) ==
  /\ pc[w] = "observe"
  /\ Pass(w, IF session[job[w].sid].state = "active" THEN "close" ELSE "settle")

ObserveFails(w) == pc[w] = "observe" /\ GiveUp(w, "orphaned")

Closed(s) == [session EXCEPT ![s].state = "closed"]

Close(w) ==
  /\ pc[w] = "close"
  /\ session' = Closed(job[w].sid)
  /\ Goto(w, "settle")
  /\ UNCHANGED <<task, record, job, contended>>

CloseFails(w) == pc[w] = "close" /\ GiveUp(w, "orphaned")

\* The session was closed and the reply is lost.
CloseLost(w) ==
  /\ pc[w] = "close"
  /\ session' = Closed(job[w].sid)
  /\ task' = Moved(job[w].task, "orphaned")
  /\ End(w)
  /\ UNCHANGED <<record, contended>>

\* The session has ended: an unused reservation is deleted, another start's
\* orphan is left alone, anything else is abandoned.
Settle(w) ==
  LET t == job[w].task
      delete == job[w].own /\ task[t].life = "planned"
      keep == task[t].life = "orphaned" /\ ~job[w].undo
  IN
  /\ pc[w] = "settle"
  /\ task' = IF delete THEN [task EXCEPT ![t].life = "deleted"]
             ELSE IF keep THEN task ELSE Moved(t, "abandoned")
  /\ record' = IF delete THEN Unrecorded(t) ELSE record
  /\ End(w)
  /\ UNCHANGED <<session, contended>>

-----------------------------------------------------------------------------
(* Everyone else *)

\* The process dies, or a best-effort write it ends with fails.
Interrupt(w) ==
  /\ pc[w] # "idle"
  /\ End(w)
  /\ UNCHANGED <<task, record, session, contended>>

\* commitWorkflowTask, whose commit needs an active task and its session
Commit(t) ==
  /\ task[t].life = "active"
  /\ task[t].sid # None /\ session[task[t].sid].state = "active"
  /\ task' = Moved(t, "committed")
  /\ UNCHANGED <<record, session, pc, job, contended>>

\* Nawabari, or its user, ends a session
Expire(s) ==
  /\ session[s].state = "active"
  /\ session' = [session EXCEPT ![s].state = "stale"]
  /\ UNCHANGED <<task, record, pc, job, contended>>

\* What a start does by itself, and what goes wrong around it
Step(w) ==
  \/ Find(w) \/ Reserve(w) \/ Continue(w) \/ Begin(w) \/ BeginRefused(w)
  \/ Demote(w) \/ Recover(w) \/ RecoverEnded(w) \/ Reattach(w) \/ Reactivate(w)
  \/ ReattachFails(w) \/ Recheck(w) \/ RecheckActive(w)
  \/ LookKept(w) \/ LookNone(w) \/ Adopt(w) \/ AdoptRefused(w)
  \/ Create(w) \/ CreateRefused(w) \/ RecordSession(w) \/ RecordRefused(w)
  \/ Claim(w) \/ ClaimRefused(w) \/ Attach(w) \/ Activate(w) \/ AttachRefused(w) \/ Deliver(w)
  \/ Compensate(w) \/ Search(w) \/ SearchNone(w) \/ ObserveSession(w) \/ Close(w) \/ Settle(w)

Fault(w) ==
  \/ RecoverFails(w) \/ LookFails(w) \/ CreateFails(w) \/ CreateLost(w)
  \/ ClaimFails(w) \/ DeliverFails(w)
  \/ SearchFails(w) \/ ObserveFails(w) \/ CloseFails(w) \/ CloseLost(w) \/ Interrupt(w)

World == (\E t \in Task : Commit(t)) \/ (\E s \in Session : Expire(s))

Next == (\E w \in Starter : Start(w) \/ Step(w) \/ Fault(w)) \/ World

Spec == Init /\ [][Next]_vars

-----------------------------------------------------------------------------
(* Properties *)

\* Values are well-formed, and the rows agree: a reconciliation row exists
\* only with its task (ON DELETE CASCADE), and a start past "begin" works on
\* a task.
TypeOK ==
  /\ task \in [Task -> TaskRow]
  /\ record \in [Task -> Record]
  /\ session \in [Session -> SessionRow]
  /\ pc \in [Starter -> Pc]
  /\ job \in [Starter -> Job]
  /\ contended \subseteq Task
  /\ \A t \in Task : Recorded(t) => Exists(t)

AtRest(t) == \A w \in Starter : job[w].task # t
Alone(t) == t \notin contended

\* A task only one start worked on at a time is active only while the session
\* its two rows name was not closed by a start: compensateTaskStart demotes
\* before it closes, and recovery demotes before it trusts.
ActiveIsLive ==
  \A t \in Task : task[t].life = "active" /\ Alone(t) =>
    /\ task[t].sid # None
    /\ record[t].sid = task[t].sid
    /\ session[task[t].sid].state # "closed"

\* No start walks away from an open session: whatever failed, was lost or
\* died, the task whose label the session carries is still there to lead a
\* retry to it, and nobody wrote it off.
NoLeak ==
  \A s \in Session :
    LET t == session[s].label IN
    session[s].state = "active" /\ Alone(t) =>
      Exists(t) /\ task[t].life \notin {"abandoned", "cleaned"}

\* The task row never names another session than its reconciliation row, even
\* when several starts create, adopt and record sessions for one task.
OneIdentity ==
  \A t \in Task : Recorded(t) => task[t].sid \in {None, record[t].sid}

\* However many starts work on a task at once, the session recorded for it is
\* never exchanged for another while the task exists, and a reservation taken
\* back is not revived (recordTaskStartSession, attachNawabariSession).
StillBound(t) ==
  /\ Exists(t) \/ task[t].life = "free"
  /\ record[t].sid # None => record'[t].sid = record[t].sid
  /\ Exists(t) /\ task[t].sid # None => task'[t].sid \in {None, task[t].sid}

NeverRebound == [][\A t \in Task : Exists(t)' => StillBound(t)]_vars

\* A start that lost its reply, or its process, finds its session again: a
\* task never gets a second one.
OneSession ==
  \A t \in Task : Alone(t) => Cardinality({s \in Session : session[s].label = t}) <= 1

-----------------------------------------------------------------------------
(* The inductive invariant *)

Working == Pc \ {"idle", "find", "reserve"}

\* Points at which the session in hand is the one the reconciliation row names
Identifying == {"recover", "reattach", "claim", "attach"}

\* A task row names a session only after the reconciliation row does.
RowInv ==
  \A t \in Task : Exists(t) /\ task[t].sid # None =>
    Recorded(t) /\ record[t].sid = task[t].sid

\* What the program points of a start have established: its task was reserved,
\* and unless somebody deleted the task, its rows know the session in hand.
View(w) ==
  LET j == job[w] IN
  /\ pc[w] # "idle" => j.req \in Request
  /\ pc[w] \in Working => j.task \in Task /\ task[j.task].life # "free"
  /\ j.kept \/ pc[w] \in Identifying \cup {"record", "observe", "close"} => j.sid \in Session
  /\ pc[w] \in Identifying \/ (j.kept /\ pc[w] \in {"demote", "recheck", "look"}) =>
       (Exists(j.task) => Recorded(j.task) /\ record[j.task].sid = j.sid)

IInv == TypeOK /\ RowInv /\ \A w \in Starter : View(w)
-----------------------------------------------------------------------------
(* ... and what holds besides of a task only one start works on at a time *)

Live(t) == Exists(t) /\ task[t].life \notin {"abandoned", "cleaned"}
Open(t) == {s \in Labelled(t) : session[s].state = "active"}

\* Whatever names a session names one that carries the task's label, for ever.
LabelInv ==
  /\ \A t \in Task : record[t].sid # None => session[record[t].sid].label = t
  /\ \A t \in Task : task[t].sid # None => session[task[t].sid].label = t
  /\ \A s \in Session :
       /\ session[s].label = None <=> session[s].state = "free"
       /\ session[s].label # None => task[session[s].label].life # "free"

SoloRows(t) ==
  /\ task[t].life = "active" => task[t].sid # None /\ session[task[t].sid].state # "closed"
  /\ \A r, s \in Labelled(t) : r = s
  /\ Open(t) # {} => Live(t)

\* What the start that works on the task knows of it
SoloView(w) ==
  LET j == job[w]
      t == job[w].task
  IN
  /\ pc[w] \notin Working => t = None /\ j.sid = None
  /\ j.sid # None => session[j.sid].label = t
  /\ pc[w] = "settle" => j.sid # None /\ session[j.sid].state # "active"
  /\ pc[w] \in Working /\ Alone(t) =>
       /\ Live(t) /\ t \notin Others(w)
       /\ pc[w] = "create" \/ (pc[w] = "begin" /\ j.own) => Labelled(t) = {}
       /\ pc[w] \in {"reattach", "reactivate", "record", "claim", "attach", "activate"} =>
            j.sid # None /\ session[j.sid].state # "closed"
       /\ pc[w] \in {"reactivate", "activate"} => task[t].sid = j.sid
       /\ pc[w] \in {"search", "observe", "close"} => task[t].life # "active"

SoloInv ==
  /\ LabelInv
  /\ \A t \in Task : Alone(t) => SoloRows(t)
  /\ \A w \in Starter : SoloView(w)
=============================================================================
