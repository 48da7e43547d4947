------------------------------ MODULE Manager ------------------------------
(***************************************************************************)
(* The Manager's session service: one `mottainai manager` process, its     *)
(* durable session rows, and the two runtimes that execute agents for it.  *)
(* A session runs either in a Zellij session of its own ("zellij") or as a *)
(* sequence of Tsukai AgentRuns, one per launch attempt ("run").           *)
(*                                                                         *)
(* A thread is one call in flight (an HTTP request or a poll).  Every      *)
(* await of the service is a step boundary; calls on one session are       *)
(* serialised by withSessionOperation, everything else interleaves.  The   *)
(* process may crash: its calls and its memory of admitted manifests are   *)
(* lost, the rows and the runtimes stay.                                   *)
(***************************************************************************)
EXTENDS Integers, FiniteSets

CONSTANTS
    Threads,      \* calls that may be in flight at once
    Sessions,     \* session ids crypto.randomUUID() may draw
    Keys,         \* idempotency keys callers pass
    NoKey,        \* no idempotency key; in Keys when a caller may pass none
    Kinds,        \* runtimes configured: "zellij", and "run" when Tsukai is
    Notes,        \* follow-up instructions of continueWork
    MaxAttempt,   \* bound on restartCount
    MaxFaults,    \* bound on failing commands and vanishing directories
    MaxCrashes    \* bound on crashes of the Manager process

NoRow == [life |-> "none"]

ASSUME KindsAreKnown == Kinds \subseteq {"zellij", "run"}

ASSUME BoundsAreNatural ==
    /\ MaxAttempt \in Nat
    /\ MaxFaults \in Nat
    /\ MaxCrashes \in Nat

VARIABLES
    row,        \* manager_sessions, by session id
    th,         \* the calls in flight
    manifests,  \* admittedPiManifests: sessions this process admitted
    zel,        \* the Zellij session named after each id
    run,        \* the AgentRun Tsukai holds for each launch attempt
    sem,        \* the task lifecycle behind each session
    valid,      \* whether the execution directory still exists
    missed,     \* sessions for which a command to end the runtime failed
    faults, crashes

external == <<zel, run>>
task == <<sem, valid>>
meter == <<faults, crashes>>
vars == <<row, th, manifests, zel, run, sem, valid, missed, faults, crashes>>

Attempts == 0 .. MaxAttempt
Ended == {"exited", "stopped", "failed"}
Live == {"starting", "running"}
RuntimeStates == Ended \cup Live \cup {"stale"}
Lifecycles == Ended \cup Live
Semantics == {"active", "done"}

Rows == [life: Lifecycles, rt: RuntimeStates, sem: Semantics, attempt: Attempts,
         kind: Kinds, key: Keys \cup {NoKey}, notes: SUBSET Notes]
Recorded(s) == row[s] # NoRow

Operations == {"start", "resume", "reconcile", "stop", "restart", "continue", "pause", "settle"}
Observations == {"none", "absent", "running", "uncertain", "error"} \cup Ended
Idle == [pc |-> "idle"]

(***************************************************************************)
(* withSessionOperation: a call past the wait holds its session.           *)
(***************************************************************************)
\* Mutant of Holds: resuming calls restart() with the session lock in hand
KeepsWhileRestarting(t, s) ==
    th[t].pc # "idle" /\ th[t].s = s /\ (th[t].pc = "wait" => th[t].op = "restart")
Holds(t, s) == th[t].pc \notin {"idle", "wait"} /\ th[t].s = s
\* Mutant of AtRest: calls on one session are not serialised
NotSerialised(s) == s \in Sessions
AtRest(s) == \A t \in Threads: ~Holds(t, s)

At(t, pc) == th[t].pc = pc
Become(t, call) == th' = [th EXCEPT ![t] = call]
Goto(t, pc) == Become(t, [th[t] EXCEPT !.pc = pc])
Return(t) == Become(t, Idle)
Fails == faults < MaxFaults /\ faults' = faults + 1

(***************************************************************************)
(* Zellij.  live counts the agent panes still executing, dead the exited   *)
(* ones; a session without an agent pane shows its default shell, whose    *)
(* directory may or may not be taken for the agent's.                      *)
(***************************************************************************)
NoSession == [up |-> FALSE, live |-> 0, dead |-> 0]
BareSession == [up |-> TRUE, live |-> 0, dead |-> 0]

Observed(z) ==
    {o \in {"absent", "running", "exited", "uncertain"}:
        \/ o = "absent" /\ ~z.up
        \/ o = "running" /\ z.up /\ (z.live > 0 \/ z.dead = 0)
        \/ o = "exited" /\ z.up /\ z.dead > 0
        \/ o = "uncertain" /\ z.up /\ z.live = 0 /\ z.dead = 0}

(* An inspection, or the failure of its command.  "error" is a throw. *)
Inspects(t, o) ==
    \/ o \in Observed(zel[th[t].s]) /\ UNCHANGED faults
    \/ o = "error" /\ Fails

(***************************************************************************)
(* Tsukai.  recover() finds a run by its bound id or, unbound, by the      *)
(* start key in its metadata; its snapshot may be uncertain.               *)
(***************************************************************************)
NoRun == [made |-> 0, state |-> "none", bound |-> FALSE]
\* Mutant of Recoverable: a run that was never bound is not looked for
BoundOnly(s, n) == run[s][n].bound
Recoverable(s, n) == run[s][n].made > 0

Evidence(s, n) ==
    IF ~Recoverable(s, n) THEN {"absent"}
    ELSE {"uncertain", IF run[s][n].state = "live" THEN "running" ELSE run[s][n].state}

Bind(s, n) == [run EXCEPT ![s][n].bound = @ \/ Recoverable(s, n)]

-----------------------------------------------------------------------------
Init ==
    /\ row = [s \in Sessions |-> NoRow]
    /\ th = [t \in Threads |-> Idle]
    /\ manifests = {}
    /\ zel = [s \in Sessions |-> NoSession]
    /\ run = [s \in Sessions |-> [n \in Attempts |-> NoRun]]
    /\ sem = [s \in Sessions |-> "active"]
    /\ valid = [s \in Sessions |-> TRUE]
    /\ missed = {}
    /\ faults = 0
    /\ crashes = 0

Call(op, pc, s, kind, key, note) ==
    [op |-> op, pc |-> pc, s |-> s, kind |-> kind, key |-> key, note |-> note,
     seen |-> NoRow, ok |-> TRUE, obs |-> "none"]

\* Mutant of Bound: a row that no longer runs does not count for its key
BoundLive(key) == {e \in Sessions: Recorded(e) /\ key # NoKey /\ row[e].key = key /\ row[e].rt \in Live}
Bound(key) == {e \in Sessions: Recorded(e) /\ key # NoKey /\ row[e].key = key}
Resumed(e) == Call("resume", "wait", e, row[e].kind, NoKey, {})

(* start(): a key that names a row resumes it (unless the request differs);  *)
(* otherwise a fresh id is drawn and its lock taken.                         *)
Start(t, s, key, kind) ==
    /\ At(t, "idle")
    /\ \/ /\ Bound(key) = {}
          /\ ~Recorded(s)
          /\ {u \in Threads: ~At(u, "idle") /\ th[u].s = s} = {}
          /\ Become(t, Call("start", "prepare", s, kind, key, {}))
       \/ \E e \in Bound(key): row[e].kind = kind /\ Become(t, Resumed(e))
    /\ UNCHANGED <<row, manifests, external, task, missed, meter>>

(* Preflight, the name check or the task start refuse the launch. *)
Refuse(t) ==
    /\ At(t, "prepare")
    /\ Return(t)
    /\ UNCHANGED <<row, manifests, external, task, missed, meter>>

(* createManagerSession: the key is unique; a call that lost the race      *)
(* resumes the row that won.                                               *)
Persist(t) ==
    /\ At(t, "prepare")
    /\ LET call == th[t] IN
       \/ /\ Bound(call.key) = {}
          /\ row' = [row EXCEPT ![call.s] =
                 [life |-> "starting", rt |-> "starting", sem |-> "active", attempt |-> 0,
                  kind |-> call.kind, key |-> call.key, notes |-> {}]]
          /\ Goto(t, "validate")
       \/ \E e \in Bound(call.key): Become(t, Resumed(e)) /\ UNCHANGED row
    /\ UNCHANGED <<manifests, external, task, missed, meter>>

(* The three statuses a failed launch writes are one here. *)
Failed(r) == [r EXCEPT !.life = "failed", !.rt = "failed"]

(* A launch uses the row, and none of what the call has seen before. *)
Launch(t, pc) ==
    Become(t, [th[t] EXCEPT !.pc = pc, !.op = "restart", !.seen = NoRow, !.key = NoKey, !.note = {}])

LaunchPc(kind) == IF kind = "run" THEN "admit" ELSE "probe"

Validate(t) ==
    /\ At(t, "validate")
    /\ LET s == th[t].s IN
       \/ /\ valid[s]
          /\ Launch(t, LaunchPc(th[t].kind))
          /\ UNCHANGED row
       \/ /\ ~valid[s]
          /\ row' = [row EXCEPT ![s] = Failed(@)]
          /\ Return(t)
    /\ UNCHANGED <<manifests, external, task, missed, meter>>

(* stop, restart, continueWork and the reconciliation pass, per session. *)
Request(t, op, s, note) ==
    /\ At(t, "idle")
    /\ Recorded(s)
    /\ op = "continue" => note \notin row[s].notes
    /\ Become(t, Call(op, "wait", s, row[s].kind, NoKey, IF op = "continue" THEN {note} ELSE {}))
    /\ UNCHANGED <<row, manifests, external, task, missed, meter>>

Acquire(t) ==
    /\ At(t, "wait")
    /\ AtRest(th[t].s)
    /\ Goto(t, "read")
    /\ UNCHANGED <<row, manifests, external, task, missed, meter>>

-----------------------------------------------------------------------------
(***************************************************************************)
(* reconcileOneUnlocked: the row is read, the task and the directory are   *)
(* looked at, the runtime is asked, and only then is the row patched.      *)
(***************************************************************************)
RuntimeOver(r) == r.kind = "zellij" /\ r.life \in {"failed", "stopped"}

Read(t) ==
    /\ At(t, "read")
    /\ LET seen == [row[th[t].s] EXCEPT !.sem = sem[th[t].s]] IN
       Become(t, [th[t] EXCEPT
           !.seen = seen, !.ok = valid[th[t].s], !.obs = "none",
           !.pc = IF seen.kind = "run" THEN "evidence"
                  ELSE IF RuntimeOver(seen) THEN "apply" ELSE "inspect"])
    /\ UNCHANGED <<row, manifests, external, task, missed, meter>>

Inspect(t) ==
    /\ At(t, "inspect")
    /\ \E o \in Observations:
        /\ Inspects(t, o)
        /\ Become(t, [th[t] EXCEPT !.obs = o,
               !.pc = IF ~th[t].ok /\ o = "running" THEN "evict" ELSE "apply"])
        /\ missed' = IF ~th[t].ok /\ o = "error" THEN missed \cup {th[t].s} ELSE missed
    /\ UNCHANGED <<row, manifests, external, task, crashes>>

(* kill-session takes every pane with it; terminate() kills only what its  *)
(* own inspection recognises, and throws otherwise.                        *)
Kill(s) == zel' = [zel EXCEPT ![s] = NoSession]
Ends(s) == Observed(zel[s]) \cap {"running", "exited"} # {} /\ Kill(s)
Spares(s) == Observed(zel[s]) \cap {"absent", "uncertain"} # {} /\ UNCHANGED zel

(* The directory is gone: the runtime is ended, a failure is swallowed. *)
Evict(t) ==
    /\ At(t, "evict")
    /\ LET s == th[t].s IN
       \/ (Ends(s) \/ Spares(s)) /\ UNCHANGED <<missed, faults>>
       \/ Fails /\ missed' = missed \cup {s} /\ UNCHANGED zel
    /\ Goto(t, "apply")
    /\ UNCHANGED <<row, manifests, run, task, crashes>>

(* reconcileAgentRunEvidence: never creates a run, may bind one. *)
Ask(t) ==
    /\ At(t, "evidence")
    /\ LET s == th[t].s
           n == th[t].seen.attempt IN
       \/ /\ \E o \in Evidence(s, n): Become(t, [th[t] EXCEPT !.obs = o, !.pc = "apply"])
          /\ run' = Bind(s, n)
          /\ UNCHANGED faults
       \/ /\ Fails
          /\ Become(t, [th[t] EXCEPT !.obs = "error", !.pc = "apply"])
          /\ UNCHANGED run
    /\ UNCHANGED <<row, manifests, zel, task, missed, crashes>>

(* agentRunSessionPatch and the absent and unavailable branches around it. *)
RunPatch(r, o) ==
    CASE o = "running"                     -> [r EXCEPT !.life = "running", !.rt = "running"]
      [] o \in Ended                       -> [r EXCEPT !.life = o, !.rt = o]
      [] o = "uncertain"                   -> [r EXCEPT !.rt = "stale"]
      [] o = "absent" /\ r.rt \notin Ended -> Failed(r)
      [] OTHER                             -> r

\* Mutants of RuntimeFor: the observation stored as it is, or not at all
RawObservation(r, o) == IF r.rt = "exited" THEN r.rt ELSE o
KeptUnlessSeen(r, o) == IF o \in {"absent", "uncertain"} THEN r.rt ELSE o
RuntimeFor(r, o) ==
    IF o = "absent" /\ r.rt = "exited" THEN "exited"
    ELSE IF o \in {"absent", "uncertain"} THEN "stale" ELSE o

LifecycleFor(rt, life) ==
    IF rt = "running" THEN "running"
    ELSE IF life \in {"stopped", "failed"} THEN life ELSE "exited"

ZellijPatch(r, o, ok) ==
    IF RuntimeOver(r) THEN r
    ELSE IF ~ok THEN [r EXCEPT !.life = "failed", !.rt = "stale"]
    ELSE IF o = "error" THEN [r EXCEPT !.rt = "stale"]
    ELSE [r EXCEPT !.rt = RuntimeFor(r, o), !.life = LifecycleFor(RuntimeFor(r, o), r.life)]

Patched(call) ==
    IF call.kind = "run" THEN RunPatch(call.seen, call.obs)
    ELSE ZellijPatch(call.seen, call.obs, call.ok)

(* updateManagerSession merges the patched fields into the stored row. *)
Merge(r, patch) == [r EXCEPT !.life = patch.life, !.rt = patch.rt, !.sem = patch.sem]

Apply(t) ==
    /\ At(t, "apply")
    /\ row' = [row EXCEPT ![th[t].s] = Merge(@, Patched(th[t]))]
    /\ Become(t, [th[t] EXCEPT !.seen = Patched(th[t]), !.ok = TRUE, !.obs = "none", !.pc = "decide"])
    /\ UNCHANGED <<manifests, external, task, missed, meter>>

-----------------------------------------------------------------------------
(* What a reconciled session makes the caller do. *)
Deciding(t, op) == At(t, "decide") /\ th[t].op = op

DecideReconcile(t) ==
    /\ Deciding(t, "reconcile")
    /\ Return(t)
    /\ UNCHANGED <<row, manifests, external, task, missed, meter>>

(* resumeIdempotentSession: the lock is given back before restart() takes it. *)
DecideResume(t) ==
    /\ Deciding(t, "resume")
    /\ IF th[t].seen.rt \in Live \/ th[t].seen.sem = "done" THEN Return(t)
       ELSE Become(t, [th[t] EXCEPT !.op = "restart", !.pc = "wait"])
    /\ UNCHANGED <<row, manifests, external, task, missed, meter>>

(* What follows a stopUnlocked that did not throw: stop() returns, while   *)
(* continueWork first lets a cancelled AgentRun settle.                    *)
AfterStop(t) ==
    LET s == th[t].s
        current == run[s][th[t].seen.attempt] IN
    IF th[t].op = "stop" THEN Idle
    ELSE IF th[t].kind = "run" /\ current.bound /\ current.state = "live"
         THEN [th[t] EXCEPT !.op = "settle", !.pc = "read"]
         ELSE [th[t] EXCEPT !.pc = "followUp"]

DecideStop(t) ==
    /\ Deciding(t, "stop") \/ Deciding(t, "pause")
    /\ IF th[t].seen.rt \notin Live THEN Become(t, AfterStop(t))
       ELSE Goto(t, IF th[t].kind = "run" THEN "cancel" ELSE "identify")
    /\ UNCHANGED <<row, manifests, external, task, missed, meter>>

DecideContinue(t) ==
    /\ Deciding(t, "continue")
    /\ IF th[t].seen.sem # "active" THEN Return(t)
       ELSE IF th[t].seen.rt \in Live THEN Become(t, [th[t] EXCEPT !.op = "pause", !.pc = "read"])
       ELSE Goto(t, "followUp")
    /\ UNCHANGED <<row, manifests, external, task, missed, meter>>

DecideSettle(t) ==
    /\ Deciding(t, "settle")
    /\ Goto(t, "followUp")
    /\ UNCHANGED <<row, manifests, external, task, missed, meter>>

RestartPc(r) ==
    IF r.kind = "run" THEN "retry" ELSE IF r.rt = "stale" THEN "confirm" ELSE "relaunch"

DecideRestart(t) ==
    /\ Deciding(t, "restart")
    /\ IF th[t].seen.sem = "done" \/ th[t].seen.rt \in Live THEN Return(t)
       ELSE Goto(t, RestartPc(th[t].seen))
    /\ UNCHANGED <<row, manifests, external, task, missed, meter>>

-----------------------------------------------------------------------------
(* stopUnlocked, Zellij: the identity is checked again before the kill. *)
Identify(t) ==
    /\ At(t, "identify")
    /\ \E o \in Observations:
        /\ Inspects(t, o)
        /\ \/ o \in {"running", "exited"} /\ Goto(t, "terminate") /\ UNCHANGED row
           \/ o = "error" /\ Return(t) /\ UNCHANGED row
           \/ /\ o \in {"absent", "uncertain"}
              /\ row' = [row EXCEPT ![th[t].s].rt = "stale"]
              /\ Become(t, AfterStop(t))
    /\ UNCHANGED <<manifests, external, task, missed, crashes>>

Terminate(t) ==
    /\ At(t, "terminate")
    /\ LET s == th[t].s IN
       \/ Ends(s) /\ Goto(t, "stopped") /\ UNCHANGED faults
       \/ Spares(s) /\ Return(t) /\ UNCHANGED faults
       \/ Fails /\ Return(t) /\ UNCHANGED zel
    /\ UNCHANGED <<row, manifests, run, task, missed, crashes>>

RecordStopped(t) ==
    /\ At(t, "stopped")
    /\ row' = [row EXCEPT ![th[t].s].life = "stopped", ![th[t].s].rt = "stopped"]
    /\ Become(t, AfterStop(t))
    /\ UNCHANGED <<manifests, external, task, missed, meter>>

(* stopAgentRun: cancel the run of the current attempt; it may be stopping *)
(* for a while.                                                            *)
Cancel(t) ==
    /\ At(t, "cancel")
    /\ LET s == th[t].s
           n == th[t].seen.attempt IN
       \/ /\ Recoverable(s, n)
          /\ run[s][n].state = "live"
          /\ \E state \in {"live", "stopped"}: run' = [Bind(s, n) EXCEPT ![s][n].state = state]
          /\ UNCHANGED faults
          /\ Goto(t, "cancelled")
       \/ /\ Recoverable(s, n)
          /\ run[s][n].state # "live"
          /\ run' = Bind(s, n)
          /\ UNCHANGED faults
          /\ Goto(t, "cancelled")
       \/ ~Recoverable(s, n) /\ Return(t) /\ UNCHANGED <<run, faults>>
       \/ Fails /\ Return(t) /\ UNCHANGED run
    /\ UNCHANGED <<row, manifests, zel, task, missed, crashes>>

RecordCancelled(t) ==
    /\ At(t, "cancelled")
    /\ LET s == th[t].s IN
       /\ \E o \in Evidence(s, th[t].seen.attempt): row' = [row EXCEPT ![s] = RunPatch(@, o)]
       /\ Become(t, AfterStop(t))
    /\ UNCHANGED <<manifests, external, task, missed, meter>>

(* continueWork records the follow-up on the instruction it read, then     *)
(* relaunches under the same lock.                                         *)
FollowUp(t) ==
    /\ At(t, "followUp")
    /\ row' = [row EXCEPT ![th[t].s].notes = th[t].seen.notes \cup th[t].note]
    /\ Become(t, [th[t] EXCEPT !.op = "restart", !.pc = "read"])
    /\ UNCHANGED <<manifests, external, task, missed, meter>>

-----------------------------------------------------------------------------
(* restartUnlocked: a stale runtime must be gone before it is replaced. *)
Confirm(t) ==
    /\ At(t, "confirm")
    /\ \E o \in Observations:
        /\ Inspects(t, o)
        /\ IF o = "absent" THEN Goto(t, "relaunch") ELSE Return(t)
    /\ UNCHANGED <<row, manifests, external, task, missed, crashes>>

Relaunched(r) == [r EXCEPT !.life = "starting", !.rt = "starting", !.attempt = @ + 1]

Relaunch(t) ==
    /\ At(t, "relaunch")
    /\ LET s == th[t].s IN
       \/ /\ valid[s]
          /\ row[s].attempt < MaxAttempt
          /\ row' = [row EXCEPT ![s] = Relaunched(@)]
          /\ Launch(t, IF th[t].seen.rt = "exited" THEN "clear" ELSE "probe")
       \/ ~valid[s] /\ Return(t) /\ UNCHANGED row
       \/ row[s].attempt = MaxAttempt /\ Return(t) /\ UNCHANGED row
    /\ UNCHANGED <<manifests, external, task, missed, meter>>

(* An exited session is killed first; a failure is swallowed. *)
Clear(t) ==
    /\ At(t, "clear")
    /\ \/ (Ends(th[t].s) \/ Spares(th[t].s)) /\ UNCHANGED faults
       \/ Fails /\ UNCHANGED zel
    /\ Goto(t, "probe")
    /\ UNCHANGED <<row, manifests, run, task, missed, crashes>>

(* ZellijCliRuntime.start: inspect, create in the background, open the     *)
(* agent's pane, and undo the creation when the pane does not open.        *)
Probe(t) ==
    /\ At(t, "probe")
    /\ \E o \in Observations:
        /\ Inspects(t, o)
        /\ Goto(t, IF o = "absent" THEN "create" ELSE "unlaunched")
    /\ UNCHANGED <<row, manifests, external, task, missed, crashes>>

CreateSession(t) ==
    /\ At(t, "create")
    /\ LET s == th[t].s
           created == [zel EXCEPT ![s] = BareSession] IN
       \/ zel' = created /\ Goto(t, "pane") /\ UNCHANGED faults
       \/ Fails /\ zel' \in {zel, created} /\ Goto(t, "unlaunched")
    /\ UNCHANGED <<row, manifests, run, task, missed, crashes>>

OpenPane(t) ==
    /\ At(t, "pane")
    /\ LET s == th[t].s
           opened == [zel EXCEPT ![s].live = @ + 1] IN
       \/ zel[s].up /\ zel' = opened /\ Goto(t, "launched") /\ UNCHANGED faults
       \/ ~zel[s].up /\ Goto(t, "undo") /\ UNCHANGED <<zel, faults>>
       \/ Fails /\ zel[s].up /\ zel' \in {zel, opened} /\ Goto(t, "undo")
    /\ UNCHANGED <<row, manifests, run, task, missed, crashes>>

\* Mutant of KillCreated: the session a failed pane leaves behind is kept
LeaveCreated(t) ==
    /\ At(t, "undo")
    /\ Goto(t, "unlaunched")
    /\ UNCHANGED <<row, manifests, external, task, missed, meter>>

KillCreated(t) ==
    /\ At(t, "undo")
    /\ \/ Kill(th[t].s) /\ UNCHANGED <<missed, faults>>
       \/ Fails /\ missed' = missed \cup {th[t].s} /\ UNCHANGED zel
    /\ Goto(t, "unlaunched")
    /\ UNCHANGED <<row, manifests, run, task, crashes>>

RecordLaunched(t) ==
    /\ At(t, "launched")
    /\ row' = [row EXCEPT ![th[t].s].life = "running", ![th[t].s].rt = "running"]
    /\ Return(t)
    /\ UNCHANGED <<manifests, external, task, missed, meter>>

RecordUnlaunched(t) ==
    /\ At(t, "unlaunched")
    /\ row' = [row EXCEPT ![th[t].s] = Failed(@)]
    /\ Return(t)
    /\ UNCHANGED <<manifests, external, task, missed, meter>>

-----------------------------------------------------------------------------
(* restartAgentRun: the run of the current attempt must be absent or over, *)
(* and this process must hold the manifest it admitted.                    *)
Retriable(s, o) == o \in Ended \cup {"absent"} /\ s \in manifests /\ valid[s]

Retry(t) ==
    /\ At(t, "retry")
    /\ LET s == th[t].s
           n == th[t].seen.attempt IN
       \/ /\ \E o \in Evidence(s, n):
              IF Retriable(s, o) /\ n < MaxAttempt
              THEN row' = [row EXCEPT ![s] = Relaunched(@)] /\ Launch(t, "admit")
              ELSE Return(t) /\ UNCHANGED row
          /\ run' = Bind(s, n)
          /\ UNCHANGED faults
       \/ Fails /\ Return(t) /\ UNCHANGED <<row, run>>
    /\ UNCHANGED <<manifests, zel, task, missed, crashes>>

(* startAgentRun: admission, then the run of the row's attempt. *)
Admit(t) ==
    /\ At(t, "admit")
    /\ \/ /\ valid[th[t].s]
          /\ manifests' = manifests \cup {th[t].s}
          /\ Goto(t, "createRun")
       \/ Goto(t, "unlaunched") /\ manifests' \in {manifests, manifests \cup {th[t].s}}
    /\ UNCHANGED <<row, external, task, missed, meter>>

(* startOnce: reserve, recover, and create only when nothing was found.    *)
(* create may fail after Tsukai accepted the run.                          *)
CreateRun(t) ==
    /\ At(t, "createRun")
    /\ LET s == th[t].s
           n == row[s].attempt
           created == [run EXCEPT ![s][n].made = @ + 1, ![s][n].state = "live"] IN
       \/ Recoverable(s, n) /\ run' = Bind(s, n) /\ Goto(t, "recordRun") /\ UNCHANGED faults
       \/ ~Recoverable(s, n) /\ run' = created /\ Goto(t, "bindRun") /\ UNCHANGED faults
       \/ Fails /\ ~Recoverable(s, n) /\ run' \in {run, created} /\ Goto(t, "unlaunched")
    /\ UNCHANGED <<row, manifests, zel, task, missed, crashes>>

BindRun(t) ==
    /\ At(t, "bindRun")
    /\ run' = Bind(th[t].s, row[th[t].s].attempt)
    /\ Goto(t, "recordRun")
    /\ UNCHANGED <<row, manifests, zel, task, missed, meter>>

RecordRun(t) ==
    /\ At(t, "recordRun")
    /\ LET s == th[t].s IN
       \E o \in Evidence(s, row[s].attempt): row' = [row EXCEPT ![s] = RunPatch(@, o)]
    /\ Return(t)
    /\ UNCHANGED <<manifests, external, task, missed, meter>>

-----------------------------------------------------------------------------
(* The world the Manager observes. *)
AgentExits(s) ==
    /\ zel[s].live > 0
    /\ zel' = [zel EXCEPT ![s].live = @ - 1, ![s].dead = 1]
    /\ UNCHANGED <<row, th, manifests, run, task, missed, meter>>

SessionKilled(s) ==
    /\ zel[s].up
    /\ Kill(s)
    /\ UNCHANGED <<row, th, manifests, run, task, missed, meter>>

RunEnds(s, n) ==
    /\ run[s][n].state = "live"
    /\ \E o \in Ended: run' = [run EXCEPT ![s][n].state = o]
    /\ UNCHANGED <<row, th, manifests, zel, task, missed, meter>>

TaskCompletes(s) ==
    /\ Recorded(s)
    /\ sem' = [sem EXCEPT ![s] = "done"]
    /\ UNCHANGED <<row, th, manifests, external, valid, missed, meter>>

WorktreeVanishes(s) ==
    /\ Recorded(s)
    /\ valid[s]
    /\ Fails
    /\ valid' = [valid EXCEPT ![s] = FALSE]
    /\ UNCHANGED <<row, th, manifests, external, sem, missed, crashes>>

(* The process dies: its calls and its admitted manifests are gone. *)
Crash ==
    /\ crashes < MaxCrashes
    /\ crashes' = crashes + 1
    /\ th' = [t \in Threads |-> Idle]
    /\ manifests' = {}
    /\ UNCHANGED <<row, external, task, missed, faults>>

Reconciling(t) == Read(t) \/ Inspect(t) \/ Evict(t) \/ Ask(t) \/ Apply(t)

Decision(t) ==
    \/ DecideReconcile(t) \/ DecideResume(t) \/ DecideStop(t)
    \/ DecideContinue(t) \/ DecideSettle(t) \/ DecideRestart(t)

Stopping(t) ==
    \/ Identify(t) \/ Terminate(t) \/ RecordStopped(t)
    \/ Cancel(t) \/ RecordCancelled(t) \/ FollowUp(t)

Launching(t) ==
    \/ Confirm(t) \/ Relaunch(t) \/ Clear(t) \/ Probe(t) \/ CreateSession(t) \/ OpenPane(t)
    \/ KillCreated(t) \/ RecordLaunched(t) \/ RecordUnlaunched(t)
    \/ Retry(t) \/ Admit(t) \/ CreateRun(t) \/ BindRun(t) \/ RecordRun(t)

Step(t) ==
    \/ Refuse(t) \/ Persist(t) \/ Validate(t) \/ Acquire(t)
    \/ Reconciling(t) \/ Decision(t) \/ Stopping(t) \/ Launching(t)

Requests(t) ==
    \/ \E s \in Sessions, key \in Keys, kind \in Kinds: Start(t, s, key, kind)
    \/ \E op \in {"reconcile", "stop", "restart"}, s \in Sessions: Request(t, op, s, {})
    \/ \E s \in Sessions, note \in Notes: Request(t, "continue", s, note)

World ==
    \/ \E s \in Sessions: AgentExits(s) \/ SessionKilled(s) \/ TaskCompletes(s) \/ WorktreeVanishes(s)
    \/ \E s \in Sessions, n \in Attempts: RunEnds(s, n)

Next ==
    \/ \E t \in Threads: Requests(t) \/ Step(t)
    \/ World
    \/ Crash

Spec == Init /\ [][Next]_vars

-----------------------------------------------------------------------------
(***************************************************************************)
(* Properties.                                                             *)
(***************************************************************************)
Places ==
    {"prepare", "validate", "wait", "read", "inspect", "evict", "evidence", "apply", "decide",
     "identify", "terminate", "stopped", "cancel", "cancelled", "followUp",
     "confirm", "relaunch", "clear", "probe", "create", "pane", "undo", "launched", "unlaunched",
     "retry", "admit", "createRun", "bindRun", "recordRun"}

Calls == [op: Operations, pc: Places, s: Sessions, kind: Kinds, key: Keys \cup {NoKey},
          note: SUBSET Notes, seen: Rows \cup {NoRow}, ok: BOOLEAN, obs: Observations]

(* Every variable stays in its range. *)
TypeOK ==
    /\ row \in [Sessions -> Rows \cup {NoRow}]
    /\ th \in [Threads -> Calls \cup {Idle}]
    /\ manifests \subseteq Sessions
    /\ zel \in [Sessions -> [up: BOOLEAN, live: Nat, dead: {0, 1}]]
    /\ run \in [Sessions -> [Attempts -> [made: Nat, state: Ended \cup {"none", "live"}, bound: BOOLEAN]]]
    /\ sem \in [Sessions -> Semantics]
    /\ valid \in [Sessions -> BOOLEAN]
    /\ missed \subseteq Sessions
    /\ faults \in 0 .. MaxFaults
    /\ crashes \in 0 .. MaxCrashes

LiveRuns(s) == {n \in Attempts: run[s][n].state = "live"}
HasAgent(s) == zel[s].live > 0 \/ LiveRuns(s) # {}

(* A session never executes two agents: no second pane, no AgentRun that   *)
(* overlaps an earlier attempt's, whatever crashes, retries, failed        *)
(* launches and concurrent calls come between ("a retry never overlaps or  *)
(* resurrects a run").                                                     *)
OneAgent ==
    \A s \in Sessions:
        /\ zel[s].live <= 1
        /\ zel[s].live = 1 => LiveRuns(s) = {}
        /\ \A m, n \in LiveRuns(s): m = n

(* Concurrent starts that share an idempotency key end with one row, and   *)
(* an agent only ever executes for a session that has its row: the call    *)
(* that lost createManagerSession launched nothing.                        *)
OneSessionPerKey ==
    /\ \A s, e \in Sessions:
          Recorded(s) /\ Recorded(e) /\ row[s].key = row[e].key /\ row[s].key # NoKey => s = e
    /\ \A s \in Sessions: HasAgent(s) => Recorded(s)

(* One launch attempt creates at most one AgentRun, also when the process  *)
(* dies between the creation and the durable binding, or when the creation *)
(* fails after Tsukai accepted it.                                         *)
AttemptCreatedOnce == \A s \in Sessions, n \in Attempts: run[s][n].made <= 1

(* A Zellij row that says failed or stopped is never inspected again, so   *)
(* its agent must be dead by the time the row says so, unless a command    *)
(* that should have ended it failed.                                       *)
EndedIsDead ==
    \A s \in Sessions:
        (Recorded(s) /\ RuntimeOver(row[s]) /\ s \notin missed) => zel[s].live = 0

(* Concurrent continueWork calls never lose a recorded follow-up, and no   *)
(* row is ever dropped.                                                    *)
FollowUpsKept ==
    [][\A s \in Sessions: Recorded(s) => row'[s] # NoRow /\ row[s].notes \subseteq row'[s].notes]_vars

(* An agent is launched only while its row says starting, so one that a    *)
(* failure or a crash leaves behind is found by the next reconciliation,   *)
(* which does not look behind rows that are over.                          *)
ShowsStarting(s) == Recorded(s) /\ row[s].life = "starting" /\ row[s].rt = "starting"
LaunchedInSight ==
    [][\A s \in Sessions: ~HasAgent(s) /\ HasAgent(s)' => ShowsStarting(s) /\ row'[s] = row[s]]_vars

\* What a row says for good
Book(s) ==
    IF Recorded(s) THEN [key |-> row[s].key, kind |-> row[s].kind,
                         attempt |-> row[s].attempt, notes |-> row[s].notes]
    ELSE NoRow

Used(s) == {n \in Attempts: run[s][n].made > 0}

S == INSTANCE SessionContract WITH
       Unknown <- NoRow, book <- [s \in Sessions |-> Book(s)],
       agent <- {s \in Sessions: HasAgent(s)}, used <- [s \in Sessions |-> Used(s)]

(* The service keeps its contract: whatever calls interleave, commands     *)
(* fail and processes die, a row once written keeps its key, kind and      *)
(* follow-ups, an agent is launched only for a recorded session that has   *)
(* none, and an attempt is left only when its AgentRun is over             *)
(* (createManagerSession, startOnce, restartUnlocked, continueWork).       *)
ImplementsSessions == S!Spec

(***************************************************************************)
(* Fairness: the event loop runs every call that can go on, the promise    *)
(* chain of withSessionOperation serves its waiters in order, and clients  *)
(* keep polling list(), which reconciles every session.                    *)
(***************************************************************************)
Polls(s) == \E t \in Threads: Request(t, "reconcile", s, {})

LiveSpec ==
    /\ Spec
    /\ \A t \in Threads: WF_vars(Step(t)) /\ SF_vars(Acquire(t))
    /\ \A s \in Sessions: SF_vars(Polls(s))

(* Every call returns: no chain of session locks waits for itself. *)
CallsReturn == \A t \in Threads: ~At(t, "idle") ~> At(t, "idle")

(* The row of an agent that ended stops saying running. *)
ShownRunning(s) == Recorded(s) /\ row[s].rt = "running"
DeadIsNoticed == \A s \in Sessions: ShownRunning(s) /\ ~HasAgent(s) ~> ~ShownRunning(s) \/ HasAgent(s)

-----------------------------------------------------------------------------
(***************************************************************************)
(* The inductive invariant behind the safety properties.  A session is     *)
(* held by one call at a time (Mutex); what holds of a session between     *)
(* steps (SessionOK) is complemented, while a call works on it, by what    *)
(* that call has established (CallOK).                                     *)
(***************************************************************************)
Mutex == \A t, u \in Threads, s \in Sessions: Holds(t, s) /\ Holds(u, s) => t = u

KeysUnique ==
    \A s, e \in Sessions:
        Recorded(s) /\ Recorded(e) /\ row[s].key = row[e].key /\ row[s].key # NoKey => s = e

SessionOK(s) ==
    /\ zel[s].live <= 1
    /\ ~zel[s].up => zel[s].live = 0
    /\ zel[s].live = 1 => zel[s].dead = 0
    /\ \A n \in Attempts: run[s][n].made <= 1 /\ (run[s][n].made = 0 <=> run[s][n].state = "none")
    /\ ~Recorded(s) => zel[s].live = 0 /\ \A n \in Attempts: run[s][n].made = 0
    /\ Recorded(s) /\ row[s].kind = "run" => zel[s].live = 0
    /\ Recorded(s) /\ row[s].kind = "zellij" => \A n \in Attempts: run[s][n].made = 0
    /\ Recorded(s) => \A n \in Attempts:
          /\ n > row[s].attempt => run[s][n].made = 0
          /\ n < row[s].attempt => run[s][n].state # "live"
    /\ Recorded(s) /\ (RuntimeOver(row[s]) \/ row[s].rt \in Ended) /\ s \notin missed => zel[s].live = 0

\* Where the call's copy of the row is the row
Seeing == {"inspect", "evict", "evidence", "apply", "decide", "identify", "terminate", "stopped",
           "cancel", "cancelled", "followUp", "confirm", "relaunch", "retry"}
OnZellij == {"inspect", "evict", "identify", "terminate", "stopped", "confirm", "relaunch",
             "clear", "probe", "create", "pane", "undo", "launched"}
OnTsukai == {"evidence", "cancel", "cancelled", "retry", "admit", "createRun", "bindRun", "recordRun"}
Starting == {"validate", "clear", "probe", "create", "pane", "undo", "launched", "admit", "createRun"}
AgentGone == {"validate", "stopped", "relaunch", "clear", "probe", "create", "unlaunched"}

InspectedOK(c) ==
    /\ c.obs \in {"absent", "running", "exited", "uncertain", "error"}
    /\ ~c.ok /\ c.s \notin missed => zel[c.s].live = 0
    /\ c.obs \in {"absent", "exited"} => zel[c.s].live = 0

CallOK(t) ==
    LET c == th[t] IN
    /\ c.pc = "prepare" => ~Recorded(c.s)
    /\ c.pc \notin {"idle", "prepare"} => Recorded(c.s) /\ row[c.s].kind = c.kind
    /\ c.pc \in OnZellij => c.kind = "zellij"
    /\ c.pc \in OnTsukai => c.kind = "run"
    /\ c.pc \in Seeing =>
          /\ c.seen \in Rows
          /\ c.seen.kind = c.kind
          /\ c.seen.attempt = row[c.s].attempt
          /\ c.seen.notes = row[c.s].notes
    /\ c.pc \in Seeing \ {"followUp"} => c.seen.life = row[c.s].life /\ c.seen.rt = row[c.s].rt
    /\ c.pc = "apply" /\ c.kind = "zellij" /\ ~RuntimeOver(c.seen) => InspectedOK(c)
    /\ c.pc = "evict" => c.obs = "running"
    /\ c.pc \in Starting => row[c.s].life = "starting" /\ row[c.s].rt = "starting"
    /\ c.pc \in AgentGone /\ c.kind = "zellij" /\ c.s \notin missed => zel[c.s].live = 0
    /\ c.pc \in {"create", "pane"} => zel[c.s].live = 0
    /\ c.pc = "pane" => zel[c.s].dead = 0

IInv ==
    /\ TypeOK
    /\ Mutex
    /\ KeysUnique
    /\ \A s \in Sessions: SessionOK(s)
    /\ \A t \in Threads: CallOK(t)
=============================================================================
