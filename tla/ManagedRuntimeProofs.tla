----------------------- MODULE ManagedRuntimeProofs -----------------------
(***************************************************************************)
(* IInv is inductive, for any writers, generations and manifests. What an  *)
(* action does falls into four kinds, one lemma each: it persists a record *)
(* (PersistKeeps), moves the pointer (SelectKeeps), only decides           *)
(* (DecideKeeps), or leaves the lock (ExitKeeps). Each lemma asks of the   *)
(* action the working view the next program point needs (View(w)').        *)
(***************************************************************************)
EXTENDS ManagedRuntime, TLAPS

USE DEF Phase, GenerationOrNone

Durable == OpenInv /\ NeverAmbiguous /\ KnownGood

Busy == Pc \ {"idle", "load"}

\* A record of the state file is not None and its fields have their types.
LEMMA StateFields ==
  ASSUME NEW s \in State
  PROVE  /\ s # None
         /\ s.desired \in Manifest /\ s.active \in GenerationOrNone
         /\ s.previous \in GenerationOrNone /\ s.phase \in Phase
         /\ s.candidate \in GenerationOrNone /\ s.txPrevious \in GenerationOrNone
  BY GenerationAssumption DEF State

\* A phase update changes the phase and nothing else.
LEMMA PhaseUpdate ==
  ASSUME NEW s \in State, NEW p \in Phase
  PROVE  LET t == [s EXCEPT !.phase = p] IN
         /\ t \in State /\ t.phase = p
         /\ t.desired = s.desired /\ t.active = s.active /\ t.previous = s.previous
         /\ t.candidate = s.candidate /\ t.txPrevious = s.txPrevious
  BY DEF State

\* Closing a transaction leaves an idle record that names no transaction.
LEMMA IdleRecord ==
  ASSUME NEW s \in State
  PROVE  /\ Idle(s) \in State
         /\ Idle(s).phase = "idle" /\ Idle(s).candidate = None /\ Idle(s).txPrevious = None
         /\ Idle(s).desired = s.desired
         /\ Idle(s).active = s.active /\ Idle(s).previous = s.previous
  BY DEF State, Idle

\* A rejected attempt keeps the active and previous generations.
LEMMA FailedRecord ==
  ASSUME NEW s \in State, NEW d \in Manifest
  PROVE  /\ Failed(s, d) \in State
         /\ Failed(s, d).phase = "idle"
         /\ Failed(s, d).candidate = None /\ Failed(s, d).txPrevious = None
         /\ Failed(s, d).active = s.active /\ Failed(s, d).previous = s.previous
  BY DEF State, Idle, Failed

\* A commit promotes the candidate and keeps its rollback target as previous.
LEMMA CommittedRecord ==
  ASSUME NEW s \in State
  PROVE  /\ Committed(s) \in State
         /\ Committed(s).phase = "idle"
         /\ Committed(s).candidate = None /\ Committed(s).txPrevious = None
         /\ Committed(s).active = s.candidate
         /\ Committed(s).previous \in {s.txPrevious, s.previous}
         /\ s.txPrevious # None => Committed(s).previous = s.txPrevious
  BY DEF State, Idle, Committed

\* A rollback makes the rollback target active again.
LEMMA RestoredRecord ==
  ASSUME NEW s \in State
  PROVE  /\ Restored(s) \in State
         /\ Restored(s).phase = "idle"
         /\ Restored(s).candidate = None /\ Restored(s).txPrevious = None
         /\ Restored(s).active = s.txPrevious /\ Restored(s).previous = s.previous
  BY DEF State, Idle, Restored

\* Staging keeps the known-good records and names the active one as rollback target.
LEMMA PreparedRecord ==
  ASSUME NEW s \in State, NEW d \in Manifest, NEW g \in Generation
  PROVE  LET t == Prepared(s, d, g) IN
         /\ t \in State /\ t.phase = "prepared" /\ t.desired = d /\ t.candidate = g
         /\ t.txPrevious = s.active /\ t.active = s.active /\ t.previous = s.previous
  BY DEF State, Prepared

\* The record of a Runtime that has none yet.
LEMMA InitialRecord ==
  ASSUME NEW d \in Manifest
  PROVE  LET t == InitialState(d) IN
         /\ t \in State /\ t.phase = "idle" /\ t.desired = d
         /\ t.active = None /\ t.previous = None
         /\ t.candidate = None /\ t.txPrevious = None
  BY DEF State, InitialState

-----------------------------------------------------------------------------

\* The SQLite write transaction: while one writer runs, every other is idle.
LEMMA OthersIdle ==
  ASSUME IInv, NEW w \in Writer, pc[w] # "idle", NEW v \in Writer, v # w
  PROVE  pc[v] = "idle"
  BY DEF IInv, LockInv

\* An idle writer knows nothing, so nothing can make its view wrong.
LEMMA OthersView ==
  ASSUME IInv, NEW w \in Writer, pc[w] # "idle", NEW n, pc' = [pc EXCEPT ![w] = n],
         NEW v \in Writer, v # w
  PROVE  View(v)' /\ pc'[v] = "idle"
  <1>1. pc[v] = "idle" BY OthersIdle
  <1>2. pc'[v] = "idle" BY <1>1 DEF IInv, TypeOK
  <1> QED BY <1>2 DEF View

\* The durable facts survive a step that leaves record and pointer alone.
LEMMA DurableKept ==
  ASSUME IInv, UNCHANGED <<file, current>>, proven \subseteq proven'
  PROVE  Durable'
  BY DEF IInv, Durable, OpenInv, NeverAmbiguous, KnownGood

\* A decision, a health check or a retention step between two durable updates.
LEMMA DecideKeeps ==
  ASSUME IInv, NEW w \in Writer, pc[w] # "idle", NEW n \in Busy,
         pc[w] # "load",
         Goto(w, n), UNCHANGED <<file, current, manifest, lock, ptr>>,
         roots' \in [Slot -> GenerationOrNone],
         realized' \in SUBSET Generation, proven' \in SUBSET Generation,
         proven \subseteq proven',
         st' \in [Writer -> State \cup {None}],
         goal' \in [Writer -> Manifest \cup {None}], mode' \in [Writer -> Mode],
         View(w)'
  PROVE  IInv'
  <1>1. TypeOK' BY DEF IInv, TypeOK, Goto, Busy
  <1>2. LockInv' BY DEF IInv, TypeOK, LockInv, Goto
  <1>3. PtrInv'
    <2> SUFFICES ASSUME NEW v \in Writer, pc'[v] \notin {"idle", "load"} PROVE ptr'[v] = current'
      BY DEF PtrInv
    <2>1. v = w BY OthersView DEF Goto
    <2> QED BY <2>1 DEF IInv, PtrInv
  <1>4. Durable' BY DurableKept
  <1>5. ASSUME NEW v \in Writer PROVE View(v)'
    BY OthersView DEF Goto
  <1> QED BY <1>1, <1>2, <1>3, <1>4, <1>5 DEF IInv, Durable

\* One atomic replacement of the state file.
LEMMA PersistKeeps ==
  ASSUME IInv, NEW w \in Writer, pc[w] \in Busy, NEW n \in Busy, NEW s \in State,
         Persist(w, s, n), Durable', View(w)'
  PROVE  IInv'
  <1> USE DEF Persist, Goto, Busy
  <1>1. TypeOK' BY DEF IInv, TypeOK
  <1>2. LockInv' BY DEF IInv, TypeOK, LockInv
  <1>3. PtrInv'
    <2> SUFFICES ASSUME NEW v \in Writer, pc'[v] \notin {"idle", "load"} PROVE ptr'[v] = current'
      BY DEF PtrInv
    <2>1. v = w BY OthersView
    <2> QED BY <2>1 DEF IInv, PtrInv
  <1>5. ASSUME NEW v \in Writer PROVE View(v)'
    BY OthersView
  <1> QED BY <1>1, <1>2, <1>3, <1>5 DEF IInv, Durable

\* One atomic replacement of the pointer.
LEMMA SelectKeeps ==
  ASSUME IInv, NEW w \in Writer, pc[w] \in Busy, NEW n \in Busy,
         NEW g \in GenerationOrNone, Select(w, g, n), Durable', View(w)'
  PROVE  IInv'
  <1> USE DEF Select, Goto, Busy
  <1>1. TypeOK' BY DEF IInv, TypeOK
  <1>2. LockInv' BY DEF IInv, TypeOK, LockInv
  <1>3. PtrInv'
    <2> SUFFICES ASSUME NEW v \in Writer, pc'[v] \notin {"idle", "load"} PROVE ptr'[v] = current'
      BY DEF PtrInv
    <2>1. v = w BY OthersView
    <2> QED BY <2>1 DEF IInv, PtrInv, TypeOK
  <1>5. ASSUME NEW v \in Writer PROVE View(v)'
    BY OthersView
  <1> QED BY <1>1, <1>2, <1>3, <1>5 DEF IInv, Durable

\* Leaving the lock, by a result, an exception or process death.
LEMMA ExitKeeps ==
  ASSUME IInv, NEW w \in Writer, pc[w] # "idle", Exit(w),
         file' \in State \cup {None}, UNCHANGED <<current, roots, realized, manifest, proven>>,
         Durable'
  PROVE  IInv'
  <1> USE DEF Exit
  <1>1. TypeOK' BY DEF IInv, TypeOK, Pc, Mode
  <1>2. ASSUME NEW v \in Writer PROVE View(v)' /\ pc'[v] = "idle"
    <2>1. CASE v = w BY <2>1 DEF IInv, TypeOK, View
    <2>2. CASE v # w BY <2>2, OthersView
    <2> QED BY <2>1, <2>2
  <1>3. LockInv' /\ PtrInv' BY <1>2 DEF LockInv, PtrInv
  <1> QED BY <1>1, <1>2, <1>3 DEF IInv, Durable

-----------------------------------------------------------------------------
(* One lemma per group of actions *)

\* Nothing is installed, and nobody holds the lock.
LEMMA InitInv == Init => IInv
  BY GenerationAssumption
  DEF Init, IInv, TypeOK, LockInv, PtrInv, OpenInv, NeverAmbiguous, KnownGood, View, Pc, Mode

\* A writer enters only a free lock.
LEMMA AcquireInv == ASSUME IInv, NEW w \in Writer, Acquire(w) PROVE IInv'
  <1> USE DEF Acquire, Goto, durable
  <1>0. mode' \in [Writer -> Mode] BY DEF IInv, TypeOK, Mode
  <1>1. TypeOK' BY <1>0 DEF IInv, TypeOK, Pc
  <1>2. \A v \in Writer : pc[v] = "idle"
    BY GenerationAssumption DEF IInv, LockInv
  <1>3. \A v \in Writer : pc'[v] \in {"idle", "load"} /\ (pc'[v] # "idle" => v = w)
    BY <1>2 DEF IInv, TypeOK
  <1>4. LockInv' /\ PtrInv' BY <1>3 DEF LockInv, PtrInv
  <1>5. ASSUME NEW v \in Writer PROVE View(v)' BY <1>3 DEF View
  <1>6. Durable' BY DurableKept
  <1> QED BY <1>1, <1>4, <1>5, <1>6 DEF IInv, Durable

\* The holder reads the record and the pointer it will decide on.
LEMMA LoadInv == ASSUME IInv, NEW w \in Writer, Load(w) PROVE IInv'
  <1> USE DEF Load, durable
  <1>0. PICK n \in {"manifest", "recover"} : Goto(w, n) BY DEF Goto
  <1>00. mode' \in [Writer -> Mode] BY DEF IInv, TypeOK, Mode
  <1>1. TypeOK' BY <1>0, <1>00 DEF IInv, TypeOK, Goto, Pc
  <1>2. LockInv' BY <1>0 DEF IInv, TypeOK, LockInv, Goto
  <1>3. PtrInv'
    <2> SUFFICES ASSUME NEW v \in Writer, pc'[v] \notin {"idle", "load"} PROVE ptr'[v] = current'
      BY DEF PtrInv
    <2>1. v = w BY <1>0, OthersView DEF Goto
    <2> QED BY <2>1 DEF IInv, TypeOK
  <1>4. Durable' BY DurableKept
  <1>5. ASSUME NEW v \in Writer PROVE View(v)'
    <2>1. CASE v = w
      <3>1. st'[w] = file BY DEF IInv, TypeOK
      <3>2. file # None => file.phase \in Phase BY StateFields DEF IInv, TypeOK
      <3>3. pc'[w] = IF file = None \/ file.phase = "idle" THEN "manifest" ELSE "recover"
        BY DEF IInv, TypeOK, Goto
      <3> QED BY <2>1, <3>1, <3>2, <3>3 DEF View, Same
    <2>2. CASE v # w BY <2>2, <1>0, OthersView DEF Goto
    <2> QED BY <2>1, <2>2
  <1> QED BY <1>1, <1>2, <1>3, <1>4, <1>5 DEF IInv, Durable

\* Retention touches neither record nor pointer.
LEMMA RetainInv == ASSUME IInv, NEW w \in Writer, RetainStep(w) PROVE IInv'
  <1>1. PICK s \in Slot, g \in GenerationOrNone : SetRoot(s, g) /\ pc[w] \in RetainPc
    <2>1. st[w] \in State
      BY CommittedRecord DEF IInv, TypeOK, View, Same, SameOrNew, Staged, RetainStep, InstallRoot, RemoveRoot, RetainPc
    <2>2. \A s \in Slot : Want(st[w])[s] \in GenerationOrNone
      BY <2>1, StateFields DEF Want, Slot
    <2> QED BY <2>2 DEF RetainStep, InstallRoot, RemoveRoot
  <1> USE <1>1 DEF SetRoot, local
  <1>2. TypeOK' BY DEF IInv, TypeOK
  <1>3. LockInv' /\ PtrInv' BY DEF IInv, LockInv, PtrInv
  <1>4. Durable' BY DurableKept
  <1>5. ASSUME NEW v \in Writer PROVE View(v)'
    BY DEF IInv, View, Same, SameOrNew, Staged
  <1> QED BY <1>2, <1>3, <1>4, <1>5 DEF IInv, Durable

\* Crashes and exceptions leave what the last durable update made.
LEMMA LeaveInv ==
  ASSUME IInv, NEW w \in Writer,
         Interrupt(w) \/ Return(w) \/ Aborted(w) \/ PreviousUnhealthy(w)
  PROVE  IInv'
  <1>1. pc[w] # "idle" /\ Exit(w) /\ UNCHANGED <<durable, proven>>
    BY DEF Interrupt, Return, Aborted, PreviousUnhealthy, Fails
  <1>2. Durable' BY <1>1, DurableKept DEF durable
  <1> QED BY <1>1, <1>2, ExitKeeps DEF durable, IInv, TypeOK

\* The host and the collector change neither record nor pointer.
LEMMA EnvironmentInv == ASSUME IInv, ChangeManifest \/ Collect PROVE IInv'
  <1> USE DEF ChangeManifest, Collect, local
  <1>1. TypeOK' BY DEF IInv, TypeOK
  <1>2. LockInv' /\ PtrInv' BY DEF IInv, LockInv, PtrInv
  <1>3. Durable' BY DurableKept
  <1>4. ASSUME NEW v \in Writer PROVE View(v)'
    BY DEF IInv, View, Same, SameOrNew, Staged
  <1> QED BY <1>1, <1>2, <1>3, <1>4 DEF IInv, Durable

\* A step that changes nothing
LEMMA StutterInv == ASSUME IInv, UNCHANGED vars PROVE IInv'
  <1> USE DEF vars, durable, local
  <1>1. TypeOK' /\ LockInv' /\ PtrInv' BY DEF IInv, TypeOK, LockInv, PtrInv
  <1>2. Durable' BY DurableKept
  <1>3. ASSUME NEW v \in Writer PROVE View(v)'
    BY DEF IInv, View, Same, SameOrNew, Staged
  <1> QED BY <1>1, <1>2, <1>3 DEF IInv, Durable

-----------------------------------------------------------------------------
(* recoverTransaction *)

\* Decisions of a run whose working state is the record on disk
LEMMA RecoverDecides ==
  ASSUME IInv, NEW w \in Writer,
         \/ Recover(w) \/ Resume(w) \/ CandidateUnhealthy(w) \/ PreviousHealthy(w)
  PROVE  IInv'
  <1>0. st[w] \in State /\ file = st[w]
    BY DEF IInv, TypeOK, View, Same, Recover, Resume, CandidateUnhealthy, PreviousHealthy
  <1>1. CASE Recover(w)
    <2> USE <1>1 DEF Recover, Decide, durable
    <2>1. View(w)' BY <1>0 DEF IInv, TypeOK, View, Same, Goto
    <2> QED BY <2>1, DecideKeeps DEF IInv, TypeOK, Busy, Pc, RetainPc
  <1>2. CASE Resume(w)
    <2> USE <1>2 DEF Resume, Decide, durable
    <2>0. /\ Same(w, Phase \ {"idle"}) /\ ptr[w] = current
      BY DEF IInv, View, PtrInv
    <2>1. PICK n \in {"mark-switched", "reselect", "probe-candidate", "rollback"} :
            /\ Goto(w, n)
            /\ n = "mark-switched" => file.phase = "prepared" /\ current = file.candidate
            /\ n = "reselect" => file.phase = "prepared" /\ current = file.txPrevious
            /\ n = "probe-candidate" => file.phase = "switched-health-pending"
            /\ n = "rollback" => file.phase \in Unwinding
      <3>1. file.phase = "switched-health-pending" => ptr[w] = file.candidate
        BY <2>0 DEF IInv, NeverAmbiguous, Same
      <3> QED BY <1>0, <2>0, <3>1 DEF Same, Unwinding
    <2>2. View(w)' BY <2>0, <2>1 DEF IInv, TypeOK, View, Same, Goto
    <2> QED BY <2>1, <2>2, DecideKeeps DEF IInv, TypeOK, Busy, Pc, RetainPc
  <1>3. CASE CandidateUnhealthy(w)
    <2> USE <1>3 DEF CandidateUnhealthy, Decide, Fails, durable
    <2>1. View(w)' BY DEF IInv, TypeOK, View, Same, Goto
    <2> QED BY <2>1, DecideKeeps DEF IInv, TypeOK, Busy, Pc, RetainPc
  <1>4. CASE PreviousHealthy(w)
    <2> USE <1>4 DEF PreviousHealthy, Decide, Passes, durable
    <2>1. View(w)'
      <3>1. Same(w, {"rollback-health-pending"}) BY DEF IInv, View
      <3>2. current = file.txPrevious BY <3>1 DEF IInv, NeverAmbiguous, Same
      <3> QED BY <3>1, <3>2 DEF IInv, TypeOK, View, Same, Goto, Unwinding
    <2> QED BY <2>1, DecideKeeps DEF IInv, TypeOK, Busy, Pc, RetainPc
  <1> QED BY <1>1, <1>2, <1>3, <1>4

\* A healthy candidate: the record it will be committed with, or the phase the
\* recovery path commits from.
LEMMA CandidateHealthyInv == ASSUME IInv, NEW w \in Writer, CandidateHealthy(w) PROVE IInv'
  <1> USE DEF CandidateHealthy, Passes, durable
  <1>0. st[w] \in State /\ file = st[w] /\ Same(w, {"switched-health-pending"})
    BY DEF IInv, TypeOK, View, Same
  <1>1. Committed(st[w]) \in State BY <1>0, CommittedRecord
  <1>2. PICK n \in {"retain-commit", "mark-recovered"} :
          /\ Goto(w, n)
          /\ n = "retain-commit" => st' = [st EXCEPT ![w] = Committed(st[w])]
          /\ n = "mark-recovered" => st' = st
    OBVIOUS
  <1>3. View(w)'
    BY <1>0, <1>2 DEF IInv, TypeOK, View, Same, Goto
  <1>4. proven' \in SUBSET Generation /\ proven \subseteq proven'
    BY <1>0 DEF IInv, TypeOK
  <1>5. st' \in [Writer -> State \cup {None}]
    BY <1>1, <1>2 DEF IInv, TypeOK
  <1> QED BY <1>2, <1>3, <1>4, <1>5, DecideKeeps DEF IInv, TypeOK, Busy, Pc, RetainPc

\* Pointer moves happen only between the two ends the record names.
LEMMA SelectsInv ==
  ASSUME IInv, NEW w \in Writer, Reselect(w) \/ Rollback(w) \/ Activate(w)
  PROVE  IInv'
  <1>0. st[w] \in State /\ file = st[w] /\ file # None
    BY DEF IInv, TypeOK, View, Same, Reselect, Rollback, Activate
  <1>1. st[w].candidate \in GenerationOrNone /\ st[w].txPrevious \in GenerationOrNone
    BY <1>0, StateFields
  <1>2. CASE Reselect(w) \/ Activate(w)
    <2> USE <1>2 DEF Reselect, Activate
    <2>0. Same(w, {"prepared"}) /\ Select(w, st[w].candidate, "mark-switched")
      BY DEF IInv, View
    <2>1. View(w)' BY <1>0, <2>0 DEF IInv, TypeOK, View, Same, Goto, Select
    <2>2. Durable'
      BY <1>0, <2>0 DEF IInv, Durable, OpenInv, NeverAmbiguous, KnownGood, Same, Select
    <2> QED BY <2>0, <1>1, <2>1, <2>2, SelectKeeps DEF Busy, Pc, RetainPc
  <1>3. CASE Rollback(w)
    <2> USE <1>3 DEF Rollback
    <2>0. PICK n \in {"mark-restored", "mark-rollback-health"} :
            /\ Select(w, st[w].txPrevious, n)
            /\ n = "mark-rollback-health" => st[w].txPrevious # None
      OBVIOUS
    <2>00. Same(w, Unwinding) BY DEF IInv, View
    <2>1. View(w)' BY <1>0, <2>0, <2>00 DEF IInv, TypeOK, View, Same, Goto, Select
    <2>2. Durable'
      BY <1>0, <2>0, <2>00
      DEF IInv, Durable, OpenInv, NeverAmbiguous, KnownGood, Same, Select, Unwinding
    <2> QED BY <2>0, <1>1, <2>1, <2>2, SelectKeeps DEF Busy, Pc, RetainPc
  <1> QED BY <1>2, <1>3

\* Phase updates keep the transaction and agree with the pointer.
LEMMA PhasesInv ==
  ASSUME IInv, NEW w \in Writer, MarkSwitched(w) \/ MarkRollback(w) \/ MarkRollbackHealth(w)
  PROVE  IInv'
  <1>0. st[w] \in State /\ file = st[w] /\ file # None /\ pc[w] \in Busy
    BY DEF IInv, TypeOK, View, Same, MarkSwitched, MarkRollback, MarkRollbackHealth, Busy, Pc
  <1>1. PICK p \in {"switched-health-pending", "rollback-pending", "rollback-health-pending"},
             n \in {"probe-candidate", "recover", "rollback", "probe-previous"} :
          /\ Persist(w, [st[w] EXCEPT !.phase = p], n)
          /\ p = "switched-health-pending" => n = "probe-candidate" /\ current = file.candidate
          /\ p = "rollback-pending" => n \in {"recover", "rollback"} /\ current = file.candidate
          /\ p = "rollback-health-pending" =>
               n = "probe-previous" /\ current = file.txPrevious /\ current # None
    <2>1. CASE MarkSwitched(w) BY <2>1, <1>0 DEF MarkSwitched, IInv, View
    <2>2. CASE MarkRollback(w)
      <3>1. file.phase = "switched-health-pending" BY <2>2 DEF MarkRollback, IInv, View, Same
      <3> QED BY <2>2, <1>0, <3>1 DEF MarkRollback, IInv, NeverAmbiguous
    <2>3. CASE MarkRollbackHealth(w) BY <2>3, <1>0 DEF MarkRollbackHealth, IInv, View
    <2> QED BY <2>1, <2>2, <2>3
  <1> DEFINE t == [st[w] EXCEPT !.phase = p]
  <1>2. /\ t \in State /\ t # None /\ t.phase = p
        /\ t.desired = file.desired /\ t.active = file.active /\ t.previous = file.previous
        /\ t.candidate = file.candidate /\ t.txPrevious = file.txPrevious
    <2>1. p \in Phase OBVIOUS
    <2>2. t \in State /\ t.phase = p
          /\ t.desired = st[w].desired /\ t.active = st[w].active /\ t.previous = st[w].previous
          /\ t.candidate = st[w].candidate /\ t.txPrevious = st[w].txPrevious
      <3>1. PICK s \in State : s = st[w] BY <1>0
      <3>2. /\ [s EXCEPT !.phase = p] \in State /\ [s EXCEPT !.phase = p].phase = p
            /\ [s EXCEPT !.phase = p].desired = s.desired
            /\ [s EXCEPT !.phase = p].active = s.active
            /\ [s EXCEPT !.phase = p].previous = s.previous
            /\ [s EXCEPT !.phase = p].candidate = s.candidate
            /\ [s EXCEPT !.phase = p].txPrevious = s.txPrevious
        BY <2>1, PhaseUpdate
      <3> QED BY <3>1, <3>2
    <2> HIDE DEF t
    <2> QED BY <1>0, <2>2, StateFields
  <1>3. Persist(w, t, n) BY <1>1
  <1> HIDE DEF t
  <1>31. file.phase # "idle"
    BY DEF IInv, View, Same, MarkSwitched, MarkRollback, MarkRollbackHealth, Unwinding
  <1>4. Durable'
    BY <1>0, <1>1, <1>2, <1>3, <1>31
    DEF IInv, Durable, OpenInv, NeverAmbiguous, KnownGood, Persist
  <1>5. View(w)'
    BY <1>1, <1>2, <1>3 DEF IInv, TypeOK, View, Same, Goto, Persist, Unwinding
  <1> QED BY <1>0, <1>2, <1>3, <1>4, <1>5, PersistKeeps DEF Busy, Pc, RetainPc

\* An idle record whose active generation is selected and known good
Settled(s) ==
  /\ s \in State /\ s.phase = "idle" /\ s.candidate = None /\ s.txPrevious = None
  /\ current = s.active
  /\ {s.active, s.previous} \ {None} \subseteq proven

\* A settled record may replace any other.
LEMMA SettledDurable ==
  ASSUME NEW s, Settled(s), file' = s, UNCHANGED <<current, proven>>
  PROVE  Durable'
  BY StateFields DEF Settled, Durable, OpenInv, NeverAmbiguous, KnownGood

\* Every record that closes a transaction is settled.
LEMMA ClosesInv ==
  ASSUME IInv, NEW w \in Writer,
         MarkRestored(w) \/ MarkRecovered(w) \/ MarkCommitted(w) \/ MarkAborted(w) \/ MarkNoop(w)
  PROVE  IInv'
  <1>1. PICK s \in State, n \in {"retain-recovered", "return", "retain-abort"} :
          Persist(w, s, n) /\ Settled(s)
    <2>1. CASE MarkRestored(w)
      <3>1. st[w] = file /\ file \in State /\ current = file.txPrevious
        BY <2>1 DEF MarkRestored, IInv, TypeOK, View, Same
      <3>2. {file.txPrevious, file.previous} \ {None} \subseteq proven
        BY <3>1, StateFields DEF IInv, KnownGood
      <3> QED BY <2>1, <3>1, <3>2, RestoredRecord DEF MarkRestored, Settled
    <2>2. CASE MarkRecovered(w)
      <3>1. st[w] = file /\ file \in State /\ current = file.candidate /\ file.candidate \in proven
        BY <2>2, StateFields DEF MarkRecovered, IInv, TypeOK, View, Same, NeverAmbiguous
      <3>2. {file.txPrevious, file.previous} \ {None} \subseteq proven
        BY <3>1, StateFields DEF IInv, KnownGood
      <3> QED BY <2>2, <3>1, <3>2, CommittedRecord DEF MarkRecovered, Settled
    <2>3. CASE MarkCommitted(w)
      <3>1. /\ st[w] = Committed(file) /\ file \in State
            /\ current = file.candidate /\ file.candidate \in proven
        BY <2>3, StateFields DEF MarkCommitted, IInv, TypeOK, View, NeverAmbiguous
      <3>2. {file.txPrevious, file.previous} \ {None} \subseteq proven
        BY <3>1, StateFields DEF IInv, KnownGood
      <3> QED BY <2>3, <3>1, <3>2, CommittedRecord DEF MarkCommitted, Settled
    <2>4. CASE MarkAborted(w)
      <3>1. /\ st[w] = file /\ file \in State /\ file.phase = "prepared"
            /\ current = file.txPrevious /\ goal[w] \in Manifest
        BY <2>4 DEF MarkAborted, IInv, TypeOK, View, Same
      <3>2. current = file.active /\ {file.active, file.previous} \ {None} \subseteq proven
        BY <3>1, StateFields DEF IInv, KnownGood, OpenInv
      <3> QED BY <2>4, <3>1, <3>2, FailedRecord DEF MarkAborted, Settled
    <2>5. CASE MarkNoop(w)
      <3>1. SameOrNew(w) /\ st[w].active # None /\ st[w] \in State
        BY <2>5 DEF MarkNoop, IInv, TypeOK, View, SameOrNew
      <3>2. st[w] = file /\ file.phase = "idle"
        BY <3>1, StateFields, InitialRecord DEF SameOrNew
      <3>3. Settled(st[w])
        BY <3>1, <3>2, StateFields DEF IInv, NeverAmbiguous, KnownGood, Settled
      <3> QED BY <2>5, <3>1, <3>3 DEF MarkNoop
    <2> QED BY <2>1, <2>2, <2>3, <2>4, <2>5
  <1>2. pc[w] \in Busy
    BY DEF MarkRestored, MarkRecovered, MarkCommitted, MarkAborted, MarkNoop, Busy, Pc
  <1>3. Durable' BY <1>1, SettledDurable DEF Persist
  <1>4. View(w)'
    BY <1>1, StateFields DEF IInv, TypeOK, View, Same, Goto, Persist, Settled
  <1> QED BY <1>1, <1>2, <1>3, <1>4, PersistKeeps DEF Busy, Pc, RetainPc

\* After recovery: on to the manifest, to the report, or to the thrown error.
LEMMA RecoveredInv == ASSUME IInv, NEW w \in Writer, Recovered(w) PROVE IInv'
  <1> USE DEF Recovered, Decide, durable
  <1>0. Same(w, {"idle"}) /\ mode[w] \in Mode BY DEF IInv, TypeOK, View
  <1>1. CASE mode[w] = "activate"
    <2>1. Durable' BY <1>1, DurableKept
    <2> QED BY <1>1, <2>1, ExitKeeps DEF IInv, TypeOK
  <1>2. CASE mode[w] # "activate"
    <2>1. PICK n \in {"manifest", "return"} : Goto(w, n) /\ UNCHANGED <<durable, lock, st, ptr, goal, mode>>
      BY <1>0, <1>2 DEF Mode
    <2>2. View(w)' BY <1>0, <2>1 DEF IInv, TypeOK, View, Same, Goto
    <2> QED BY <2>1, <2>2, DecideKeeps DEF IInv, TypeOK, Busy, Pc, RetainPc
  <1> QED BY <1>1, <1>2

-----------------------------------------------------------------------------
(* reconcileManagedRuntimeLocked *)

\* The working state a manifest decision starts from
LEMMA BaseRecord ==
  ASSUME IInv, NEW w \in Writer, pc[w] = "manifest", NEW d \in Manifest
  PROVE  /\ Base(w, d) \in State
         /\ IF file = None THEN Base(w, d) = InitialState(Base(w, d).desired)
            ELSE Base(w, d) = file /\ file.phase = "idle"
  BY InitialRecord DEF IInv, TypeOK, View, Base

\* Accepting or rejecting the manifest fixes the record the run works from.
LEMMA ManifestInv ==
  ASSUME IInv, NEW w \in Writer, AcceptManifest(w) \/ RejectManifest(w)
  PROVE  IInv'
  <1> USE DEF durable
  <1>1. PICK d \in Manifest, n \in {"retain-noop", "build", "mark-failed"} :
          /\ Goto(w, n)
          /\ st' = [st EXCEPT ![w] = Base(w, d)]
          /\ goal' = [goal EXCEPT ![w] = d]
          /\ n = "retain-noop" => Base(w, d).active # None
          /\ UNCHANGED <<durable, lock, ptr, mode, proven>>
          /\ pc[w] = "manifest"
    BY DEF AcceptManifest, RejectManifest, Matches, IInv, TypeOK
  <1> DEFINE b == Base(w, d)
  <1>2. /\ b \in State
        /\ IF file = None THEN b = InitialState(b.desired) ELSE b = file /\ file.phase = "idle"
    BY <1>1, BaseRecord
  <1>3. st'[w] = b /\ goal'[w] = d /\ pc'[w] = n BY <1>1 DEF IInv, TypeOK, Goto
  <1> HIDE DEF b
  <1>31. b # None /\ d # None BY <1>2, StateFields, GenerationAssumption
  <1>4. View(w)'
    BY <1>1, <1>2, <1>3, <1>31 DEF View, SameOrNew, b
  <1>5. st' \in [Writer -> State \cup {None}] /\ goal' \in [Writer -> Manifest \cup {None}]
    BY <1>1, <1>2 DEF IInv, TypeOK, b
  <1> QED BY <1>1, <1>4, <1>5, DecideKeeps DEF IInv, TypeOK, Busy, Pc, RetainPc

\* Decisions of a run that has not staged anything on disk
LEMMA ReconcileDecides ==
  ASSUME IInv, NEW w \in Writer,
         \/ Noop(w) \/ ActiveHealthy(w) \/ ActiveUnhealthy(w) \/ BuildFails(w)
         \/ RetainedPrepared(w) \/ RetainedCommit(w) \/ ActivationFails(w)
  PROVE  IInv'
  <1> USE DEF Decide, Fails, durable
  <1>1. CASE Noop(w) \/ ActiveUnhealthy(w) \/ BuildFails(w)
    <2> USE <1>1 DEF Noop, ActiveUnhealthy, BuildFails
    <2>1. PICK n \in {"probe-active", "mark-failed"} :
            /\ Goto(w, n)
            /\ n = "probe-active" => pc[w] = "retain-noop"
      OBVIOUS
    <2>2. View(w)' BY <2>1 DEF IInv, TypeOK, View, SameOrNew, Goto
    <2> QED BY <2>1, <2>2, DecideKeeps DEF IInv, TypeOK, Busy, Pc, RetainPc
  <1>2. CASE ActiveHealthy(w)
    <2> USE <1>2 DEF ActiveHealthy, Passes
    <2>1. View(w)' BY DEF IInv, TypeOK, View, SameOrNew, Goto
    <2>2. proven' \in SUBSET Generation /\ proven \subseteq proven' BY DEF IInv, TypeOK
    <2> QED BY <2>1, <2>2, DecideKeeps DEF IInv, TypeOK, Busy, Pc, RetainPc
  <1>3. CASE RetainedPrepared(w)
    <2> USE <1>3 DEF RetainedPrepared
    <2>1. View(w)' BY DEF IInv, TypeOK, View, Staged, Goto
    <2> QED BY <2>1, DecideKeeps DEF IInv, TypeOK, Busy, Pc, RetainPc
  <1>4. CASE RetainedCommit(w)
    <2> USE <1>4 DEF RetainedCommit
    <2>1. View(w)' BY DEF IInv, TypeOK, View, Goto
    <2> QED BY <2>1, DecideKeeps DEF IInv, TypeOK, Busy, Pc, RetainPc
  <1>5. CASE ActivationFails(w)
    <2> USE <1>5 DEF ActivationFails
    <2>1. View(w)' BY DEF IInv, TypeOK, View, Same, Goto
    <2> QED BY <2>1, DecideKeeps DEF IInv, TypeOK, Busy, Pc, RetainPc
  <1> QED BY <1>1, <1>2, <1>3, <1>4, <1>5

\* A built candidate is staged in the working state only.
LEMMA BuildInv == ASSUME IInv, NEW w \in Writer, Build(w) PROVE IInv'
  <1> USE DEF Build
  <1>0. SameOrNew(w) /\ st[w] \in State /\ goal[w] \in Manifest
    BY DEF IInv, TypeOK, View, SameOrNew
  <1>1. PICK g \in Generation :
          /\ ManifestOf[g] = goal[w]
          /\ realized' = realized \cup {g}
          /\ st' = [st EXCEPT ![w] = Prepared(st[w], goal[w], g)]
    OBVIOUS
  <1> DEFINE t == Prepared(st[w], goal[w], g)
  <1>2. /\ t \in State /\ t.phase = "prepared" /\ t.desired = goal[w] /\ t.candidate = g
        /\ t.txPrevious = t.active /\ t.active = st[w].active /\ t.previous = st[w].previous
    BY <1>0, PreparedRecord
  <1>3. st'[w] = t /\ goal'[w] = goal[w] /\ pc'[w] = "retain-prepared"
    BY <1>1 DEF IInv, TypeOK, Goto
  <1> HIDE DEF t
  <1>4. t # None /\ g # None BY <1>2, StateFields, GenerationAssumption
  <1>5. IF file = None THEN t.active = None /\ t.previous = None
        ELSE file.phase = "idle" /\ t.active = file.active /\ t.previous = file.previous
    BY <1>0, <1>2, InitialRecord, StateFields DEF SameOrNew
  <1>6. View(w)'
    BY <1>0, <1>1, <1>2, <1>3, <1>4, <1>5 DEF View, Staged, SameOrNew
  <1>7. st' \in [Writer -> State \cup {None}] BY <1>1, <1>2 DEF IInv, TypeOK, t
  <1>8. realized' \in SUBSET Generation BY <1>1 DEF IInv, TypeOK
  <1>9. mode' \in [Writer -> Mode] BY DEF IInv, TypeOK, Mode
  <1> QED BY <1>6, <1>7, <1>8, <1>9, DecideKeeps DEF IInv, TypeOK, Busy, Pc, RetainPc

\* The prepared record names both ends before the pointer moves.
LEMMA MarkPreparedInv == ASSUME IInv, NEW w \in Writer, MarkPrepared(w) PROVE IInv'
  <1> USE DEF MarkPrepared
  <1>0. Staged(w) /\ st[w] \in State BY DEF IInv, TypeOK, View, Staged
  <1>1. current = st[w].active /\ {st[w].active, st[w].previous} \ {None} \subseteq proven
    BY <1>0 DEF Staged, IInv, NeverAmbiguous, KnownGood
  <1>2. Durable'
    BY <1>0, <1>1 DEF Staged, Persist, Durable, OpenInv, NeverAmbiguous, KnownGood
  <1>3. View(w)'
    BY <1>0, <1>1 DEF Staged, Persist, IInv, TypeOK, View, Same, Goto
  <1> QED BY <1>0, <1>2, <1>3, PersistKeeps DEF Busy, Pc, RetainPc

\* Evidence of a rejected attempt changes neither active nor previous.
LEMMA MarkFailedInv == ASSUME IInv, NEW w \in Writer, MarkFailed(w) PROVE IInv'
  <1> USE DEF MarkFailed
  <1>0. SameOrNew(w) /\ st[w] \in State /\ goal[w] \in Manifest
    BY DEF IInv, TypeOK, View, SameOrNew
  <1>1. current = st[w].active /\ {st[w].active, st[w].previous} \ {None} \subseteq proven
    BY <1>0, InitialRecord, StateFields DEF SameOrNew, IInv, NeverAmbiguous, KnownGood
  <1>2. Settled(Failed(st[w], goal[w])) BY <1>0, <1>1, FailedRecord DEF Settled
  <1>3. Durable' BY <1>2, SettledDurable
  <1> QED BY <1>2, <1>3, ExitKeeps DEF Settled

-----------------------------------------------------------------------------
(* Theorems *)

\* Every step, and stuttering, keeps the inductive invariant.
LEMMA NextInv == ASSUME IInv, [Next]_vars PROVE IInv'
  <1>1. CASE \E w \in Writer : Acquire(w) BY <1>1, AcquireInv
  <1>2. CASE \E w \in Writer : Load(w) BY <1>2, LoadInv
  <1>3. CASE \E w \in Writer : RetainStep(w) BY <1>3, RetainInv
  <1>4. CASE \E w \in Writer : RecoverStep(w)
    BY <1>4, RecoverDecides, CandidateHealthyInv, SelectsInv, PhasesInv, ClosesInv,
       RecoveredInv, LeaveInv DEF RecoverStep
  <1>5. CASE \E w \in Writer : ReconcileStep(w)
    BY <1>5, ManifestInv, ReconcileDecides, BuildInv, MarkPreparedInv, MarkFailedInv,
       SelectsInv, ClosesInv, LeaveInv DEF ReconcileStep
  <1>6. CASE \E w \in Writer : Interrupt(w) BY <1>6, LeaveInv
  <1>7. CASE ChangeManifest \/ Collect BY <1>7, EnvironmentInv
  <1>8. CASE UNCHANGED vars BY <1>8, StutterInv
  <1> QED BY <1>1, <1>2, <1>3, <1>4, <1>5, <1>6, <1>7, <1>8 DEF Next, Step

\* IInv holds in every reachable state.
THEOREM Invariance == Spec => []IInv
  <1>1. Init => IInv BY InitInv
  <1>2. IInv /\ [Next]_vars => IInv' BY NextInv
  <1> QED BY <1>1, <1>2, PTL DEF Spec

\* The variables keep their types.
THEOREM TypeCorrect == Spec => []TypeOK
  <1>1. IInv => TypeOK BY DEF IInv
  <1> QED BY <1>1, Invariance, PTL

\* No crash or exception leaves a pointer the persisted phase does not account
\* for: the ambiguous_activation and state_corrupt refusals are unreachable.
THEOREM PointerAccountedFor == Spec => []NeverAmbiguous
  <1>1. IInv => NeverAmbiguous BY DEF IInv
  <1> QED BY <1>1, Invariance, PTL

\* Nothing is recorded as active, previous or rollback target that no health
\* check has passed.
THEOREM OnlyKnownGood == Spec => []KnownGood
  <1>1. IInv => KnownGood BY DEF IInv
  <1> QED BY <1>1, Invariance, PTL

\* The lock holder always decides on the record and pointer that are on disk.
THEOREM FreshDecisions == Spec => []NeverStale
  <1>1. ASSUME IInv PROVE NeverStale
    <2> SUFFICES ASSUME NEW w \in Writer, pc[w] \notin {"idle", "load"}
                 PROVE  /\ lock = w
                        /\ ptr[w] = current
                        /\ file # None => st[w] # None /\ st[w].active \in {file.active, file.candidate}
      BY DEF NeverStale
    <2>1. lock = w /\ ptr[w] = current BY <1>1 DEF IInv, LockInv, PtrInv
    <2>2. ASSUME file # None
          PROVE  st[w] # None /\ st[w].active \in {file.active, file.candidate}
      <3>1. file \in State /\ pc[w] \in Pc BY <1>1, <2>2 DEF IInv, TypeOK
      <3>2. Committed(file) # None /\ Committed(file).active = file.candidate
        BY <3>1, CommittedRecord, StateFields
      <3> QED
        BY <1>1, <2>2, <3>1, <3>2 DEF IInv, View, Same, SameOrNew, Staged, Pc, RetainPc
    <2> QED BY <2>1, <2>2
  <1> QED BY <1>1, Invariance, PTL

-----------------------------------------------------------------------------
(* Refinement of ActivationContract *)

\* The contract's view of the record
Active == IF file = None THEN None ELSE file.active
Open == IF file = None THEN None ELSE file.candidate

\* A step of the module is a step of the contract, or none.
LEMMA NextImplements == ASSUME IInv, IInv', [Next]_vars PROVE [Contract!Next]_(Contract!vars)
  <1> USE DEF Contract!vars
  <1> SUFFICES \/ UNCHANGED <<current, Active, Open, proven>> \/ Contract!Next
    BY DEF Active, Open
  <1>1. CASE UNCHANGED <<file, current, proven>>
    BY <1>1 DEF Active, Open
  <1>2. ASSUME NEW g \in GenerationOrNone, proven' = proven \cup {g}, proven' \in SUBSET Generation,
               UNCHANGED <<file, current>>
        PROVE  Contract!Next
    BY <1>2, GenerationAssumption DEF Contract!Next, Contract!Prove
  <1>3. ASSUME NEW w \in Writer,
               CandidateHealthy(w) \/ PreviousHealthy(w) \/ ActiveHealthy(w)
        PROVE  Contract!Next
    <2>1. PICK g : proven' = proven \cup {g} /\ g \in realized /\ UNCHANGED <<file, current>>
      BY <1>3 DEF CandidateHealthy, PreviousHealthy, ActiveHealthy, Passes, Decide, durable
    <2> QED BY <1>2, <2>1 DEF IInv, TypeOK
  <1>4. ASSUME NEW w \in Writer, Reselect(w) \/ Rollback(w) \/ Activate(w)
        PROVE  Contract!Next
    <2>1. /\ st[w] = file /\ file # None /\ file.phase # "idle"
      BY <1>4 DEF IInv, View, Same, Reselect, Rollback, Activate, Unwinding
    <2>2. file.candidate # None /\ file.txPrevious = file.active BY <2>1 DEF IInv, OpenInv
    <2>3. current' \in {file.candidate, file.txPrevious} /\ UNCHANGED <<file, proven>>
      BY <1>4, <2>1 DEF Reselect, Rollback, Activate, Select
    <2> QED BY <2>1, <2>2, <2>3 DEF Contract!Next, Contract!Switch
  <1>5. ASSUME NEW w \in Writer, MarkSwitched(w) \/ MarkRollback(w) \/ MarkRollbackHealth(w)
        PROVE  UNCHANGED <<current, Active, Open, proven>>
    <2>1. st[w] = file /\ file \in State
      BY <1>5 DEF IInv, TypeOK, View, Same, MarkSwitched, MarkRollback, MarkRollbackHealth
    <2>2. PICK p \in Phase : file' = [file EXCEPT !.phase = p] /\ UNCHANGED <<current, proven>>
      BY <1>5, <2>1 DEF MarkSwitched, MarkRollback, MarkRollbackHealth, Persist
    <2> DEFINE t == [file EXCEPT !.phase = p]
    <2>3. file' = t /\ t \in State /\ t.active = file.active /\ t.candidate = file.candidate
      <3>0. p \in Phase /\ file \in State BY <2>1, <2>2
      <3>1. t \in State /\ t.active = file.active /\ t.candidate = file.candidate
        BY <3>0, PhaseUpdate
      <3> QED BY <3>1, <2>2
    <2> HIDE DEF t
    <2> QED BY <2>1, <2>2, <2>3, StateFields DEF Active, Open
  <1>6. ASSUME NEW w \in Writer, MarkRestored(w) \/ MarkAborted(w)
        PROVE  Contract!Next
    <2>1. /\ st[w] = file /\ file \in State /\ file.phase # "idle" /\ current = file.txPrevious
          /\ pc[w] = "mark-aborted" => goal[w] \in Manifest
      BY <1>6 DEF IInv, TypeOK, View, Same, MarkRestored, MarkAborted, Unwinding
    <2>2. file # None /\ file.candidate # None /\ file.txPrevious = file.active
      BY <2>1, StateFields DEF IInv, OpenInv
    <2>3. file' \in State /\ file'.active = file.active /\ file'.candidate = None
      BY <1>6, <2>1, <2>2, RestoredRecord, FailedRecord DEF MarkRestored, MarkAborted, Persist
    <2>4. UNCHANGED <<current, proven>> BY <1>6 DEF MarkRestored, MarkAborted, Persist
    <2> QED BY <2>1, <2>2, <2>3, <2>4, StateFields DEF Contract!Next, Contract!Withdraw
  <1>7. ASSUME NEW w \in Writer, MarkRecovered(w) \/ MarkCommitted(w)
        PROVE  Contract!Next
    <2>1. /\ file # None /\ file \in State /\ file.phase = "switched-health-pending"
          /\ file.candidate \in proven /\ file' = Committed(file)
      BY <1>7 DEF IInv, TypeOK, View, Same, MarkRecovered, MarkCommitted, Persist
    <2>2. current = file.candidate /\ file.candidate # None
      BY <2>1 DEF IInv, NeverAmbiguous, OpenInv
    <2>3. file' # None /\ file'.active = file.candidate /\ file'.candidate = None
      BY <2>1, CommittedRecord, StateFields
    <2>4. UNCHANGED <<current, proven>> BY <1>7 DEF MarkRecovered, MarkCommitted, Persist
    <2> QED BY <2>1, <2>2, <2>3, <2>4 DEF Contract!Next, Contract!Commit
  <1>8. ASSUME NEW w \in Writer, MarkPrepared(w)
        PROVE  Contract!Next
    <2>1. Staged(w) /\ st[w] \in State BY <1>8 DEF IInv, TypeOK, View, MarkPrepared, Staged
    <2>2. /\ file' = st[w] /\ UNCHANGED <<current, proven>>
      BY <1>8 DEF MarkPrepared, Persist
    <2>3. st[w].candidate \in Generation BY <2>1, StateFields DEF Staged
    <2>4. file # None => file.candidate = None BY <2>1 DEF Staged, IInv, NeverAmbiguous
    <2> QED BY <2>1, <2>2, <2>3, <2>4, StateFields DEF Staged, Contract!Next, Contract!Begin
  <1>9. ASSUME NEW w \in Writer, MarkFailed(w) \/ MarkNoop(w)
        PROVE  UNCHANGED <<current, Active, Open, proven>>
    <2>1. SameOrNew(w) /\ st[w] \in State
      BY <1>9 DEF IInv, TypeOK, View, SameOrNew, MarkFailed, MarkNoop
    <2>2. /\ UNCHANGED <<current, proven>>
          /\ file' = st[w] \/ (file' = Failed(st[w], goal[w]) /\ goal[w] \in Manifest)
      BY <1>9, <2>1 DEF MarkFailed, MarkNoop, Persist, SameOrNew, IInv, TypeOK
    <2>3. st[w].candidate = None
      BY <2>1, InitialRecord, StateFields DEF SameOrNew, IInv, NeverAmbiguous
    <2>4. file' # None /\ file'.active = st[w].active /\ file'.candidate = None
      BY <2>1, <2>2, <2>3, FailedRecord, StateFields
    <2>5. Active = st[w].active /\ Open = None
      BY <2>1, <2>3, InitialRecord, StateFields DEF SameOrNew, Active, Open
    <2> QED BY <2>2, <2>4, <2>5 DEF Active, Open
  <1>10. CASE UNCHANGED vars BY <1>10, <1>1 DEF vars, durable
  <1>11. CASE ChangeManifest \/ Collect BY <1>11, <1>1 DEF ChangeManifest, Collect
  <1>12. ASSUME NEW w \in Writer, Acquire(w) \/ Load(w) \/ Interrupt(w) \/ RetainStep(w)
         PROVE  UNCHANGED <<file, current, proven>>
    BY <1>12 DEF Acquire, Load, Interrupt, RetainStep, InstallRoot, RemoveRoot, SetRoot, durable
  <1>13. ASSUME NEW w \in Writer,
                \/ Recover(w) \/ Resume(w) \/ CandidateUnhealthy(w) \/ PreviousUnhealthy(w)
                \/ Recovered(w)
         PROVE  UNCHANGED <<file, current, proven>>
    <2> mode[w] \in Mode BY DEF IInv, TypeOK
    <2> QED
      BY <1>13
      DEF Recover, Resume, CandidateUnhealthy, PreviousUnhealthy, Recovered, Decide, Fails,
          durable, Mode
  <1>14. ASSUME NEW w \in Writer,
                \/ AcceptManifest(w) \/ RejectManifest(w) \/ Noop(w) \/ ActiveUnhealthy(w)
                \/ Build(w) \/ BuildFails(w) \/ RetainedPrepared(w) \/ ActivationFails(w)
                \/ Aborted(w) \/ RetainedCommit(w) \/ Return(w)
         PROVE  UNCHANGED <<file, current, proven>>
    BY <1>14
    DEF AcceptManifest, RejectManifest, Noop, ActiveUnhealthy, Build, BuildFails,
        RetainedPrepared, ActivationFails, Aborted, RetainedCommit, Return, Decide, Fails, durable
  <1> QED
    BY <1>1, <1>3, <1>4, <1>5, <1>6, <1>7, <1>8, <1>9, <1>10, <1>11, <1>12, <1>13, <1>14
    DEF Next, Step, RecoverStep, ReconcileStep

\* The record and pointer implement the activation contract: consumers never
\* see a generation that is neither active nor an end of the open activation.
THEOREM Refinement == Spec => ImplementsContract
  <1>1. Init => Contract!Init BY DEF Init, Contract!Init
  <1>2. IInv /\ IInv' /\ [Next]_vars => [Contract!Next]_(Contract!vars) BY NextImplements
  <1> QED BY <1>1, <1>2, Invariance, PTL DEF Spec, ImplementsContract, Contract!Spec

-----------------------------------------------------------------------------
(* Retention: RootInv is inductive relative to IInv. *)

\* What RootInv says of one writer
RootView(w) ==
  /\ pc[w] \in RetainedPc => Retained(w)
  /\ pc[w] = "mark-recovered" => file.candidate \in realized
  /\ pc[w] \in {"retain-commit", "mark-committed"} =>
       /\ file.candidate \in Rooted \cap realized
       /\ file.txPrevious # None => roots["previous"] = file.txPrevious

\* Only the lock holder's view has to be shown.
LEMMA RootOthers ==
  ASSUME IInv, NEW w \in Writer, pc[w] # "idle", NEW n, pc' = [pc EXCEPT ![w] = n],
         RollbackTargetKept', RootView(w)'
  PROVE  RootInv'
  <1> SUFFICES ASSUME NEW v \in Writer, v # w PROVE RootView(v)'
    BY DEF RootInv, RootView
  <1>1. pc'[v] = "idle" BY OthersView
  <1> QED BY <1>1 DEF RootView, RetainedPc

\* The roots a record asks for do not depend on its phase.
LEMMA WantPhase ==
  ASSUME NEW s \in State, NEW p \in Phase
  PROVE  Want([s EXCEPT !.phase = p]) = Want(s)
  BY PhaseUpdate DEF Want

\* A slot's target is rooted.
LEMMA SlotRooted ==
  ASSUME NEW s \in Slot, roots[s] # None
  PROVE  roots[s] \in Rooted
  BY DEF Rooted

\* In an open transaction the only generation to keep is the active one.
LEMMA KeptIsActive ==
  ASSUME IInv
  PROVE  RollbackTargetKept <=>
           (file # None /\ file.active # None => file.active \in Rooted \cap realized)
  <1>1. file # None => file.txPrevious \in {None, file.active}
    BY StateFields DEF IInv, TypeOK, OpenInv, NeverAmbiguous
  <1> QED BY <1>1 DEF RollbackTargetKept

\* Steps that touch neither roots, record nor outputs, and stop at a point of
\* which RootInv says nothing
LEMMA RootLeave ==
  ASSUME IInv, RootInv, NEW w \in Writer,
         Load(w) \/ Interrupt(w) \/ Return(w) \/ Aborted(w) \/ PreviousUnhealthy(w)
  PROVE  RootInv'
  <1>1. PICK n \in {"idle", "manifest", "recover"} :
          /\ pc' = [pc EXCEPT ![w] = n] /\ pc[w] # "idle"
          /\ UNCHANGED <<file, roots, realized>>
    BY DEF Load, Interrupt, Return, Aborted, PreviousUnhealthy, Exit, Goto, durable
  <1>2. RootView(w)' BY <1>1 DEF RootView, RetainedPc, IInv, TypeOK
  <1>3. RollbackTargetKept' BY <1>1 DEF RootInv, RollbackTargetKept, Rooted
  <1> QED BY <1>1, <1>2, <1>3, RootOthers

\* Taking the lock changes no root.
LEMMA RootAcquire == ASSUME IInv, RootInv, NEW w \in Writer, Acquire(w) PROVE RootInv'
  <1> USE DEF Acquire, Goto, durable
  <1>1. \A v \in Writer : pc'[v] \in {"idle", "load"}
    BY GenerationAssumption DEF IInv, LockInv, TypeOK
  <1>2. RollbackTargetKept' BY DEF RootInv, RollbackTargetKept, Rooted
  <1> QED BY <1>1, <1>2 DEF RootInv, RetainedPc

\* The collector takes nothing RootInv needs.
LEMMA RootEnvironment ==
  ASSUME IInv, RootInv, ChangeManifest \/ Collect \/ UNCHANGED vars
  PROVE  RootInv'
  <1> USE DEF vars, durable, local
  <1>1. CASE ChangeManifest \/ UNCHANGED vars
    BY <1>1 DEF ChangeManifest, RootInv, RollbackTargetKept, Rooted, Retained
  <1>2. CASE Collect
    <2>1. UNCHANGED <<file, roots, pc, st>> BY <1>2 DEF Collect
    <2>2. \A g \in Rooted \cap realized : g \in Rooted' \cap realized'
      BY <1>2 DEF Collect, Rooted
    <2>3. RollbackTargetKept' BY <2>1, <2>2 DEF RootInv, RollbackTargetKept
    <2>4. ASSUME NEW w \in Writer PROVE RootView(w)'
      <3>1. pc[w] = "mark-recovered" => file.candidate \in Rooted
        <4> SUFFICES ASSUME pc[w] = "mark-recovered" PROVE file.candidate \in Rooted
          OBVIOUS
        <4>1. roots["candidate"] = file.candidate
          BY DEF IInv, View, Same, RootInv, RetainedPc, Retained, Want
        <4>2. file.candidate # None BY DEF IInv, View, Same, OpenInv
        <4> QED BY <4>1, <4>2, SlotRooted DEF Slot
      <3> QED BY <2>1, <2>2, <3>1 DEF RootInv, RootView, Retained
    <2> QED BY <2>3, <2>4 DEF RootInv, RootView
  <1> QED BY <1>1, <1>2

\* Each slot update keeps the active generation rooted, and during a commit the
\* candidate too: installs go first, and active before previous before candidate.
LEMMA RootRetain == ASSUME IInv, RootInv, NEW w \in Writer, RetainStep(w) PROVE RootInv'
  <1> DEFINE want == Want(st[w])
  <1>1. PICK s \in Slot : InstallRoot(w, s) \/ RemoveRoot(w, s) BY DEF RetainStep
  <1>2. /\ pc[w] \in RetainPc
        /\ UNCHANGED <<file, realized, pc, st>>
        /\ roots' = [roots EXCEPT ![s] = want[s]] /\ roots[s] # want[s]
        /\ \A t \in Before(s) : want[t] # None => roots[t] = want[t]
        /\ want[s] = None => \A t \in Slot : want[t] # None => roots[t] = want[t]
    BY <1>1 DEF InstallRoot, RemoveRoot, SetRoot, local, Before, Slot
  <1>3. roots \in [Slot -> GenerationOrNone] /\ roots'[s] = want[s]
        /\ \A t \in Slot \ {s} : roots'[t] = roots[t]
    BY <1>2 DEF IInv, TypeOK
  <1>4. want.active = st[w].active /\ want.candidate = st[w].candidate
    BY DEF Want
  <1>5. CASE pc[w] = "retain-commit"
    <2>1. /\ file \in State /\ file.phase = "switched-health-pending"
          /\ st[w] = Committed(file)
          /\ file.candidate # None /\ file.active = file.txPrevious
      BY <1>5 DEF IInv, TypeOK, View, OpenInv
    <2>2. /\ want.active = file.candidate /\ want.candidate = None
          /\ file.txPrevious # None => want.previous = file.txPrevious
      BY <2>1, <1>4, CommittedRecord DEF Want
    <2>3. /\ file.candidate \in Rooted \cap realized
          /\ file.txPrevious # None => roots["previous"] = file.txPrevious
      BY <1>5 DEF RootInv
    <2>4. file.txPrevious # None => roots'["previous"] = file.txPrevious
      BY <1>2, <1>3, <2>2, <2>3 DEF Slot
    <2>5. file.candidate \in Rooted'
      <3>1. CASE s = "active" BY <3>1, <1>3, <2>1, <2>2 DEF Rooted
      <3>2. CASE s # "active"
        <4>1. roots["active"] = file.candidate
          BY <3>2, <1>2, <2>1, <2>2 DEF Before, Slot
        <4> QED BY <4>1, <3>2, <1>3, <2>1 DEF Rooted, Slot
      <3> QED BY <3>1, <3>2
    <2>6. file.active # None => file.active \in Rooted' \cap realized'
      <3>1. file.active # None => roots'["previous"] = file.active BY <2>1, <2>4
      <3>2. file.active # None => file.active \in realized
        BY <2>1, StateFields, KeptIsActive DEF RootInv
      <3> QED BY <1>2, <3>1, <3>2 DEF Rooted, Slot
    <2>7. RollbackTargetKept'
      BY <1>2, <2>1, <2>6 DEF RollbackTargetKept
    <2>8. RootView(w)' BY <1>2, <1>5, <2>3, <2>4, <2>5 DEF RootView, RetainedPc
    <2>9. pc' = [pc EXCEPT ![w] = pc[w]] BY <1>2 DEF IInv, TypeOK
    <2> QED BY <1>5, <2>7, <2>8, <2>9, RootOthers
  <1>6. CASE pc[w] # "retain-commit"
    <2>1. file # None => st[w].active = file.active
      BY <1>2, <1>6 DEF RetainPc, IInv, View, Same, SameOrNew, Staged
    <2>2. file # None /\ file.active # None => file.active \in Rooted'
      <3> SUFFICES ASSUME file # None, file.active # None PROVE file.active \in Rooted'
        OBVIOUS
      <3>1. want.active = file.active BY <1>4, <2>1
      <3>2. CASE s = "active" BY <3>1, <3>2, <1>3 DEF Rooted
      <3>3. CASE s # "active"
        <4>1. roots["active"] = file.active BY <3>1, <3>3, <1>2 DEF Before, Slot
        <4> QED BY <4>1, <3>3, <1>3 DEF Rooted, Slot
      <3> QED BY <3>2, <3>3
    <2>3. file # None /\ file.active # None => file.active \in realized
      BY KeptIsActive DEF RootInv
    <2>4. file # None => file.txPrevious \in {None, file.active}
      BY StateFields DEF IInv, TypeOK, OpenInv, NeverAmbiguous
    <2>5. RollbackTargetKept' BY <1>2, <2>2, <2>3, <2>4 DEF RollbackTargetKept
    <2>6. RootView(w)' BY <1>2, <1>6 DEF RootView, RetainedPc, RetainPc
    <2>7. pc' = [pc EXCEPT ![w] = pc[w]] /\ pc[w] # "idle" BY <1>2 DEF IInv, TypeOK, RetainPc
    <2> QED BY <2>5, <2>6, <2>7, RootOthers
  <1> QED BY <1>5, <1>6

\* KeptIsActive, for the state after a step
LEMMA KeptAfter ==
  ASSUME IInv', file' # None /\ file'.active # None => file'.active \in Rooted' \cap realized'
  PROVE  RollbackTargetKept'
  <1>1. file' # None => file'.txPrevious \in {None, file'.active}
    BY StateFields DEF IInv, TypeOK, OpenInv, NeverAmbiguous
  <1> QED BY <1>1 DEF RollbackTargetKept

\* Decisions and pointer moves leave roots and working state as they were.
LEMMA RootDecide ==
  ASSUME IInv, RootInv, NEW w \in Writer,
         \/ Resume(w) \/ CandidateUnhealthy(w) \/ PreviousHealthy(w)
         \/ RetainedPrepared(w) \/ ActivationFails(w) \/ RetainedCommit(w)
         \/ Reselect(w) \/ Rollback(w) \/ Activate(w)
  PROVE  RootInv'
  <1>1. PICK n \in RetainedPc \ {"mark-recovered"} :
          /\ pc' = [pc EXCEPT ![w] = n] /\ pc[w] # "idle"
          /\ n = "mark-committed" => pc[w] = "retain-commit"
          /\ UNCHANGED <<file, roots, realized, st>>
    BY DEF Resume, CandidateUnhealthy, PreviousHealthy, RetainedPrepared, ActivationFails,
           RetainedCommit, Reselect, Rollback, Activate, Select, Decide, Goto, durable, RetainedPc
  <1>2. Retained(w)
    BY DEF Resume, CandidateUnhealthy, PreviousHealthy, RetainedPrepared, ActivationFails,
           RetainedCommit, Reselect, Rollback, Activate, RootInv, RetainedPc
  <1>3. pc'[w] = n BY <1>1 DEF IInv, TypeOK
  <1>4. RootView(w)'
    BY <1>1, <1>2, <1>3 DEF RootInv, RootView, Retained, Rooted, RetainedPc
  <1>5. RollbackTargetKept' BY <1>1 DEF RootInv, RollbackTargetKept, Rooted
  <1> QED BY <1>1, <1>4, <1>5, RootOthers

\* Steps towards a retention update or a report, of which RootInv says nothing
LEMMA RootGo ==
  ASSUME IInv, RootInv, NEW w \in Writer,
         \/ Recover(w) \/ Recovered(w) \/ AcceptManifest(w) \/ RejectManifest(w)
         \/ Noop(w) \/ ActiveHealthy(w) \/ ActiveUnhealthy(w) \/ Build(w) \/ BuildFails(w)
  PROVE  RootInv'
  <1>0. mode[w] \in Mode BY DEF IInv, TypeOK
  <1>1. PICK n \in Pc \ (RetainedPc \cup {"retain-commit"}) :
          /\ pc' = [pc EXCEPT ![w] = n] /\ pc[w] # "idle"
          /\ UNCHANGED <<file, roots>> /\ realized \subseteq realized'
    BY <1>0
    DEF Recover, Recovered, AcceptManifest, RejectManifest, Noop, ActiveHealthy, Exit,
        ActiveUnhealthy, Build, BuildFails, Decide, Goto, durable, RetainedPc, Pc, RetainPc, Mode
  <1>2. RootView(w)' BY <1>1 DEF RootView, RetainedPc, IInv, TypeOK
  <1>3. RollbackTargetKept' BY <1>1 DEF RootInv, RollbackTargetKept, Rooted
  <1> QED BY <1>1, <1>2, <1>3, RootOthers

\* The candidate that passed is realized, and its root is set.
LEMMA RootCandidateHealthy ==
  ASSUME IInv, RootInv, NEW w \in Writer, CandidateHealthy(w)
  PROVE  RootInv'
  <1> USE DEF CandidateHealthy, Passes, durable
  <1>0. /\ st[w] = file /\ file \in State /\ file.candidate # None
        /\ roots = Want(file) /\ file.candidate \in realized
    BY DEF IInv, TypeOK, View, Same, OpenInv, RootInv, RetainedPc, Retained
  <1>1. PICK n \in {"retain-commit", "mark-recovered"} :
          /\ pc' = [pc EXCEPT ![w] = n]
          /\ n = "mark-recovered" => st' = st
    BY DEF Goto
  <1>2. UNCHANGED <<file, roots, realized, Rooted>> BY DEF Rooted
  <1>3. file.candidate \in Rooted BY <1>0 DEF Want, Rooted, Slot
  <1>4. file.txPrevious # None => roots["previous"] = file.txPrevious BY <1>0 DEF Want
  <1>5. RootView(w)'
    BY <1>0, <1>1, <1>2, <1>3, <1>4 DEF RootView, RetainedPc, Retained, IInv, TypeOK
  <1>6. RollbackTargetKept' BY <1>2 DEF RootInv, RollbackTargetKept
  <1> QED BY <1>1, <1>5, <1>6, RootOthers

\* Phase updates keep the roots the record asks for.
LEMMA RootPhases ==
  ASSUME IInv, RootInv, IInv', NEW w \in Writer,
         MarkSwitched(w) \/ MarkRollback(w) \/ MarkRollbackHealth(w)
  PROVE  RootInv'
  <1> USE DEF MarkSwitched, MarkRollback, MarkRollbackHealth
  <1>0. st[w] = file /\ file \in State /\ file # None /\ roots = Want(file)
    BY DEF IInv, TypeOK, View, Same, RootInv, RetainedPc, Retained
  <1>1. PICK p \in Phase, n \in {"probe-candidate", "recover", "rollback", "probe-previous"} :
          Persist(w, [st[w] EXCEPT !.phase = p], n) /\ pc[w] # "idle"
    OBVIOUS
  <1> DEFINE t == [st[w] EXCEPT !.phase = p]
  <1>2. /\ t \in State /\ t.active = file.active /\ Want(t) = Want(file)
    <2>1. p \in Phase /\ st[w] \in State BY <1>0, <1>1
    <2>2. t \in State /\ t.active = st[w].active BY <2>1, PhaseUpdate
    <2>3. Want(t) = Want(st[w]) BY <2>1, WantPhase
    <2> HIDE DEF t
    <2> QED BY <1>0, <2>2, <2>3
  <1>3. /\ file' = t /\ st'[w] = t /\ pc' = [pc EXCEPT ![w] = n] /\ pc'[w] = n
        /\ UNCHANGED <<roots, realized, Rooted>>
    BY <1>1 DEF Persist, Goto, IInv, TypeOK, Rooted
  <1> HIDE DEF t
  <1>4. RootView(w)' BY <1>0, <1>1, <1>2, <1>3 DEF RootView, RetainedPc, Retained
  <1>5. RollbackTargetKept'
    BY <1>0, <1>2, <1>3, KeptAfter, KeptIsActive DEF RootInv
  <1> QED BY <1>1, <1>3, <1>4, <1>5, RootOthers

\* A record that closes a transaction makes a rooted generation the active one.
LEMMA RootCloses ==
  ASSUME IInv, RootInv, IInv', NEW w \in Writer,
         \/ MarkRestored(w) \/ MarkRecovered(w) \/ MarkAborted(w) \/ MarkNoop(w)
         \/ MarkCommitted(w) \/ MarkFailed(w) \/ MarkPrepared(w)
  PROVE  RootInv'
  <1>1. PICK n \in {"retain-recovered", "retain-abort", "return", "idle", "boundary"} :
          /\ pc' = [pc EXCEPT ![w] = n] /\ pc[w] # "idle"
          /\ UNCHANGED <<roots, realized>>
          /\ n = "boundary" => pc[w] = "mark-prepared" /\ st'[w] = st[w]
    BY DEF MarkRestored, MarkRecovered, MarkAborted, MarkNoop, MarkCommitted, MarkFailed,
           MarkPrepared, Persist, Goto, Exit, IInv, TypeOK
  <1>2. UNCHANGED Rooted BY <1>1 DEF Rooted
  <1>3. file # None /\ file.active # None => file.active \in Rooted \cap realized
    BY KeptIsActive DEF RootInv
  <1>4. file' # None /\ file'.active # None => file'.active \in Rooted \cap realized
    <2>1. CASE MarkRestored(w) \/ MarkAborted(w)
      <3>1. /\ st[w] = file /\ file \in State /\ file # None /\ file.txPrevious = file.active
            /\ pc[w] = "mark-aborted" => goal[w] \in Manifest
        BY <2>1 DEF IInv, TypeOK, View, Same, OpenInv, MarkRestored, MarkAborted, Unwinding
      <3>2. file'.active = file.active
        BY <2>1, <3>1, RestoredRecord, FailedRecord DEF MarkRestored, MarkAborted, Persist
      <3> QED BY <1>3, <3>1, <3>2
    <2>2. CASE MarkRecovered(w)
      <3>1. /\ st[w] = file /\ file \in State /\ file.candidate # None
            /\ roots = Want(file) /\ file.candidate \in realized
        BY <2>2 DEF IInv, TypeOK, View, Same, OpenInv, MarkRecovered, RootInv, RetainedPc, Retained
      <3>2. file'.active = file.candidate
        BY <2>2, <3>1, CommittedRecord DEF MarkRecovered, Persist
      <3>3. file.candidate \in Rooted BY <3>1 DEF Want, Rooted, Slot
      <3> QED BY <3>1, <3>2, <3>3
    <2>3. CASE MarkCommitted(w)
      <3>1. file' = Committed(file) /\ file \in State
        BY <2>3 DEF IInv, TypeOK, View, MarkCommitted, Persist
      <3> QED BY <2>3, <3>1, CommittedRecord DEF MarkCommitted, RootInv
    <2>4. CASE MarkFailed(w) \/ MarkNoop(w)
      <3>1. SameOrNew(w) /\ st[w] \in State /\ (pc[w] = "mark-failed" => goal[w] \in Manifest)
        BY <2>4 DEF IInv, TypeOK, View, SameOrNew, MarkFailed, MarkNoop
      <3>2. file'.active = st[w].active
        BY <2>4, <3>1, FailedRecord DEF MarkFailed, MarkNoop, Persist
      <3> QED BY <1>3, <3>1, <3>2, InitialRecord, StateFields DEF SameOrNew
    <2>5. CASE MarkPrepared(w)
      <3>1. Staged(w) /\ file' = st[w]
        BY <2>5 DEF IInv, View, MarkPrepared, Persist
      <3> QED BY <1>3, <3>1 DEF Staged
    <2> QED BY <2>1, <2>2, <2>3, <2>4, <2>5
  <1>5. RollbackTargetKept' BY <1>1, <1>2, <1>4, KeptAfter
  <1>6. RootView(w)' BY <1>1 DEF RootInv, RootView, RetainedPc, Retained, IInv, TypeOK
  <1> QED BY <1>1, <1>5, <1>6, RootOthers

\* Every step keeps the retention roots accounted for.
LEMMA NextRoots == ASSUME IInv, RootInv, IInv', [Next]_vars PROVE RootInv'
  <1>1. CASE \E w \in Writer : Acquire(w) BY <1>1, RootAcquire
  <1>2. CASE \E w \in Writer : Load(w) \/ Interrupt(w) BY <1>2, RootLeave
  <1>3. CASE \E w \in Writer : RetainStep(w) BY <1>3, RootRetain
  <1>4. CASE \E w \in Writer : RecoverStep(w)
    BY <1>4, RootDecide, RootGo, RootCandidateHealthy, RootPhases, RootCloses, RootLeave
    DEF RecoverStep
  <1>5. CASE \E w \in Writer : ReconcileStep(w)
    BY <1>5, RootDecide, RootGo, RootCloses, RootLeave DEF ReconcileStep
  <1>6. CASE ChangeManifest \/ Collect \/ UNCHANGED vars BY <1>6, RootEnvironment
  <1> QED BY <1>1, <1>2, <1>3, <1>4, <1>5, <1>6 DEF Next, Step

\* Whatever is interrupted, and whenever the collector runs, the active
\* generation, which is what a rollback returns to, is rooted and realized.
THEOREM RollbackTargetAvailable == Spec => []RollbackTargetKept
  <1>1. Init => RootInv
    BY DEF Init, RootInv, RollbackTargetKept, RetainedPc
  <1>2. IInv /\ RootInv /\ IInv' /\ [Next]_vars => RootInv' BY NextRoots
  <1>3. RootInv => RollbackTargetKept BY DEF RootInv
  <1> QED BY <1>1, <1>2, <1>3, Invariance, PTL DEF Spec

-----------------------------------------------------------------------------
(* A reported success: ReturnInv is inductive relative to IInv and RootInv. *)

\* The points ReturnView says something of
ReturnPc ==
  {"load", "recover", "retain-recover", "reselect", "mark-switched", "probe-candidate",
   "retain-noop", "probe-active", "mark-noop", "boundary", "retain-commit",
   "mark-committed", "return"}

\* Only the lock holder's view has to be shown.
LEMMA ReturnOthers ==
  ASSUME IInv, NEW w \in Writer, pc[w] # "idle", NEW n, pc' = [pc EXCEPT ![w] = n],
         ReturnView(w)'
  PROVE  ReturnInv'
  <1> SUFFICES ASSUME NEW v \in Writer, v # w PROVE ReturnView(v)'
    BY DEF ReturnInv
  <1>1. pc'[v] = "idle" BY OthersView
  <1> QED BY <1>1 DEF ReturnView

\* Steps that stop at a point no success is reported from directly
LEMMA ReturnSilent ==
  ASSUME IInv, NEW w \in Writer,
         \/ Interrupt(w) \/ Return(w) \/ Aborted(w) \/ PreviousUnhealthy(w)
         \/ CandidateUnhealthy(w) \/ Rollback(w) \/ MarkRollbackHealth(w) \/ PreviousHealthy(w)
         \/ MarkRestored(w) \/ MarkRecovered(w) \/ RejectManifest(w) \/ ActiveUnhealthy(w)
         \/ MarkFailed(w) \/ Build(w) \/ BuildFails(w) \/ RetainedPrepared(w)
         \/ ActivationFails(w) \/ MarkAborted(w)
  PROVE  ReturnInv'
  <1>1. PICK n \in Pc \ ReturnPc : pc' = [pc EXCEPT ![w] = n] /\ pc[w] # "idle"
    BY DEF Interrupt, Return, Aborted, PreviousUnhealthy, CandidateUnhealthy, Rollback,
           MarkRollbackHealth, PreviousHealthy, MarkRestored, MarkRecovered, RejectManifest,
           ActiveUnhealthy, MarkFailed, Build, BuildFails, RetainedPrepared, ActivationFails,
           MarkAborted, Exit, Decide, Select, Persist, Goto, Pc, RetainPc, ReturnPc
  <1>2. ReturnView(w)' BY <1>1 DEF ReturnView, ReturnPc, IInv, TypeOK
  <1> QED BY <1>1, <1>2, ReturnOthers

\* A run enters in one of the two entry modes.
LEMMA ReturnAcquire == ASSUME IInv, NEW w \in Writer, Acquire(w) PROVE ReturnInv'
  <1> USE DEF Acquire, Goto
  <1>1. \A v \in Writer : pc'[v] \in {"idle", "load"} /\ (pc'[v] # "idle" => v = w)
    BY GenerationAssumption DEF IInv, LockInv, TypeOK
  <1>2. mode'[w] # "activate" BY DEF IInv, TypeOK
  <1> QED BY <1>1, <1>2 DEF ReturnInv, ReturnView

\* The entry modes recover without an identity of their own.
LEMMA ReturnLoad == ASSUME IInv, ReturnInv, NEW w \in Writer, Load(w) PROVE ReturnInv'
  <1> USE DEF Load, Goto
  <1>1. PICK n \in {"manifest", "recover"} :
          /\ pc' = [pc EXCEPT ![w] = n] /\ pc[w] = "load"
          /\ n = "recover" => UNCHANGED mode
    OBVIOUS
  <1>2. ReturnView(w)' BY <1>1 DEF ReturnInv, ReturnView, IInv, TypeOK
  <1> QED BY <1>1, <1>2, ReturnOthers

\* Slot updates, the host and the collector change nothing ReturnView reads at
\* the points where they can happen.
LEMMA ReturnRetain ==
  ASSUME IInv, ReturnInv, NEW w \in Writer, RetainStep(w)
  PROVE  ReturnInv'
  <1>1. pc[w] \in RetainPc /\ UNCHANGED <<pc, st, goal, mode>>
    BY DEF RetainStep, InstallRoot, RemoveRoot, SetRoot, local
  <1>2. pc' = [pc EXCEPT ![w] = pc[w]] /\ pc[w] # "idle" BY <1>1 DEF IInv, TypeOK, RetainPc
  <1>3. ReturnView(w)' BY <1>1 DEF ReturnInv, ReturnView, RetainPc
  <1> QED BY <1>2, <1>3, ReturnOthers

\* See ReturnRetain.
LEMMA ReturnEnvironment ==
  ASSUME ReturnInv, ChangeManifest \/ Collect \/ UNCHANGED vars
  PROVE  ReturnInv'
  <1>1. UNCHANGED <<roots, local>> BY DEF ChangeManifest, Collect, vars, durable
  <1> QED BY <1>1 DEF local, ReturnInv, ReturnView, Retained

\* An update that re-enters recovery unwinds; only an entry mode resumes forward.
LEMMA ReturnRecover ==
  ASSUME IInv, ReturnInv, NEW w \in Writer,
         \/ Recover(w) \/ Resume(w) \/ Reselect(w) \/ MarkSwitched(w) \/ MarkRollback(w)
  PROVE  ReturnInv'
  <1>0. /\ st[w] = file /\ file \in State
        /\ pc[w] = "mark-rollback" => file.phase = "switched-health-pending"
    BY DEF IInv, TypeOK, View, Same, Recover, Resume, Reselect, MarkSwitched, MarkRollback
  <1>1. CASE Recover(w)
    <2> USE <1>1 DEF Recover, Decide, Goto
    <2>1. ReturnView(w)' BY DEF ReturnInv, ReturnView, IInv, TypeOK
    <2> QED BY <2>1, ReturnOthers
  <1>2. CASE Resume(w)
    <2> USE <1>2 DEF Resume, Decide, Goto
    <2>1. PICK n \in {"mark-switched", "reselect", "probe-candidate", "rollback"} :
            /\ pc' = [pc EXCEPT ![w] = n] /\ UNCHANGED <<st, goal, mode>>
            /\ st[w].phase = "rollback-pending" => n = "rollback"
      OBVIOUS
    <2>2. ReturnView(w)' BY <2>1 DEF ReturnInv, ReturnView, IInv, TypeOK
    <2> QED BY <2>1, <2>2, ReturnOthers
  <1>3. CASE Reselect(w)
    <2> USE <1>3 DEF Reselect, Select, Goto
    <2>1. ReturnView(w)' BY DEF ReturnInv, ReturnView, IInv, TypeOK
    <2> QED BY <2>1, ReturnOthers
  <1>4. CASE MarkSwitched(w)
    <2> USE <1>4 DEF MarkSwitched, Persist, Goto
    <2>1. st'[w].candidate = st[w].candidate BY <1>0, PhaseUpdate DEF IInv, TypeOK
    <2>2. ReturnView(w)' BY <2>1 DEF ReturnInv, ReturnView, IInv, TypeOK
    <2> QED BY <2>2, ReturnOthers
  <1>5. CASE MarkRollback(w)
    <2> USE <1>5 DEF MarkRollback, Persist, Goto
    <2>1. st'[w].phase = "rollback-pending" BY <1>0, PhaseUpdate DEF IInv, TypeOK
    <2>2. ReturnView(w)' BY <2>1 DEF ReturnInv, ReturnView, IInv, TypeOK
    <2> QED BY <2>2, ReturnOthers
  <1> QED BY <1>1, <1>2, <1>3, <1>4, <1>5

\* The update path commits the candidate it built for the desired identity.
LEMMA ReturnCandidateHealthy ==
  ASSUME IInv, ReturnInv, NEW w \in Writer, CandidateHealthy(w)
  PROVE  ReturnInv'
  <1> USE DEF CandidateHealthy, Goto
  <1>0. st[w] \in State BY DEF IInv, TypeOK, View, Same
  <1>1. CASE mode[w] = "activate"
    <2>1. st'[w].active = st[w].candidate BY <1>0, <1>1, CommittedRecord DEF IInv, TypeOK
    <2>2. ReturnView(w)' BY <1>1, <2>1 DEF ReturnInv, ReturnView, IInv, TypeOK
    <2> QED BY <1>1, <2>2, ReturnOthers
  <1>2. CASE mode[w] # "activate"
    <2>1. ReturnView(w)' BY <1>2 DEF ReturnView, IInv, TypeOK
    <2> QED BY <1>2, <2>1, ReturnOthers
  <1> QED BY <1>1, <1>2

\* An explicit recovery reports once the roots are those of the closed record.
LEMMA ReturnRecovered ==
  ASSUME IInv, ReturnInv, NEW w \in Writer, Recovered(w)
  PROVE  ReturnInv'
  <1> USE DEF Recovered, Decide, Exit, Goto, durable
  <1>1. PICK n \in {"manifest", "return", "idle"} :
          /\ pc' = [pc EXCEPT ![w] = n]
          /\ n = "return" => Retained(w) /\ mode[w] = "recover" /\ UNCHANGED <<roots, st, mode>>
    BY DEF IInv, TypeOK, Mode
  <1>2. ReturnView(w)' BY <1>1 DEF ReturnView, Retained, IInv, TypeOK
  <1> QED BY <1>1, <1>2, ReturnOthers

\* An accepted manifest the active generation answers is not built again.
LEMMA ReturnManifest ==
  ASSUME IInv, ReturnInv, NEW w \in Writer, AcceptManifest(w)
  PROVE  ReturnInv'
  <1> USE DEF AcceptManifest, Matches, Goto
  <1>1. PICK n \in {"retain-noop", "build"} :
          /\ pc' = [pc EXCEPT ![w] = n]
          /\ n = "retain-noop" => ManifestOf[Base(w, manifest).active] = manifest
    OBVIOUS
  <1>2. ReturnView(w)' BY <1>1 DEF ReturnView, IInv, TypeOK
  <1> QED BY <1>1, <1>2, ReturnOthers

\* Neither the steps of a no-op nor those of a commit touch what was checked.
LEMMA ReturnFinishes ==
  ASSUME IInv, RootInv, ReturnInv, NEW w \in Writer,
         \/ Noop(w) \/ ActiveHealthy(w) \/ MarkNoop(w)
         \/ RetainedCommit(w) \/ MarkCommitted(w)
  PROVE  ReturnInv'
  <1>0. pc[w] \in {"mark-noop", "mark-committed"} => st[w].active # None
    <2>1. ASSUME pc[w] = "mark-committed" PROVE st[w].active # None
      BY <2>1, CommittedRecord DEF IInv, TypeOK, View, OpenInv
    <2> QED BY <2>1 DEF IInv, View
  <1>1. PICK n \in {"probe-active", "mark-noop", "mark-committed", "return"} :
          /\ pc' = [pc EXCEPT ![w] = n] /\ pc[w] # "idle"
          /\ pc[w] \in {"retain-noop", "probe-active", "mark-noop", "retain-commit", "mark-committed"}
          /\ n = "return" => pc[w] \in {"mark-noop", "mark-committed"}
          /\ UNCHANGED <<roots, goal, mode>> /\ st'[w] = st[w]
    BY DEF Noop, ActiveHealthy, MarkNoop, RetainedCommit, MarkCommitted, Persist, Decide, Goto,
           durable, IInv, TypeOK
  <1>2. Retained(w)
    BY DEF Noop, ActiveHealthy, MarkNoop, RetainedCommit, MarkCommitted, ReturnInv, ReturnView,
           RootInv, RetainedPc
  <1>3. ManifestOf[st[w].active] = goal[w] BY <1>1 DEF ReturnInv, ReturnView
  <1>4. ReturnView(w)' BY <1>0, <1>1, <1>2, <1>3 DEF ReturnView, Retained, IInv, TypeOK
  <1> QED BY <1>1, <1>4, ReturnOthers

\* The staged transaction names a generation of the desired identity.
LEMMA ReturnStages ==
  ASSUME IInv, ReturnInv, NEW w \in Writer, MarkPrepared(w) \/ Activate(w)
  PROVE  ReturnInv'
  <1>1. PICK n \in {"boundary", "mark-switched"} :
          pc' = [pc EXCEPT ![w] = n] /\ pc[w] # "idle" /\ st'[w] = st[w] /\ UNCHANGED goal
    BY DEF MarkPrepared, Activate, Persist, Select, Goto, IInv, TypeOK
  <1>2. ManifestOf[st[w].candidate] = goal[w]
    BY DEF MarkPrepared, Activate, IInv, View, Staged, ReturnInv, ReturnView
  <1>3. ReturnView(w)' BY <1>1, <1>2 DEF ReturnView, IInv, TypeOK
  <1> QED BY <1>1, <1>3, ReturnOthers

\* Every step keeps what a report of success relies on.
LEMMA NextReturn == ASSUME IInv, RootInv, ReturnInv, [Next]_vars PROVE ReturnInv'
  <1>1. CASE \E w \in Writer : Acquire(w) \/ Load(w) \/ Interrupt(w)
    BY <1>1, ReturnAcquire, ReturnLoad, ReturnSilent
  <1>2. CASE \E w \in Writer : RetainStep(w) BY <1>2, ReturnRetain
  <1>3. CASE \E w \in Writer : RecoverStep(w)
    BY <1>3, ReturnRecover, ReturnCandidateHealthy, ReturnRecovered, ReturnSilent
    DEF RecoverStep
  <1>4. CASE \E w \in Writer : ReconcileStep(w)
    BY <1>4, ReturnManifest, ReturnFinishes, ReturnStages, ReturnSilent DEF ReconcileStep
  <1>5. CASE ChangeManifest \/ Collect \/ UNCHANGED vars BY <1>5, ReturnEnvironment
  <1> QED BY <1>1, <1>2, <1>3, <1>4, <1>5 DEF Next, Step

\* A run that reports success left an idle record on disk whose active
\* generation is selected and rooted, and, unless it only recovered, answers the
\* manifest it converged to; interrupted runs before it change nothing of that.
THEOREM SuccessIsConverged == Spec => []ReturnConverged
  <1>1. Init => RootInv /\ ReturnInv
    BY DEF Init, RootInv, RollbackTargetKept, RetainedPc, ReturnInv, ReturnView
  <1>2. IInv /\ RootInv /\ IInv' /\ [Next]_vars => RootInv' BY NextRoots
  <1>3. IInv /\ RootInv /\ ReturnInv /\ [Next]_vars => ReturnInv' BY NextReturn
  <1>4. ASSUME IInv, ReturnInv PROVE ReturnConverged
    <2> SUFFICES ASSUME NEW w \in Writer, pc[w] = "return"
                 PROVE  /\ file = st[w] /\ file.phase = "idle"
                        /\ current = file.active
                        /\ roots = Want(file)
                        /\ mode[w] # "recover" => current # None /\ ManifestOf[current] = goal[w]
      BY DEF ReturnConverged
    <2>1. file # None /\ st[w] = file /\ file.phase = "idle" BY <1>4 DEF IInv, View, Same
    <2>2. current = file.active BY <1>4, <2>1 DEF IInv, NeverAmbiguous
    <2> QED BY <1>4, <2>1, <2>2 DEF ReturnInv, ReturnView, Retained
  <1> QED BY <1>1, <1>2, <1>3, <1>4, Invariance, PTL DEF Spec
===========================================================================
