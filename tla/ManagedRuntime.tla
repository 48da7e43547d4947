--------------------------- MODULE ManagedRuntime ---------------------------
(***************************************************************************)
(* Activation, rollback and crash recovery of a managed generation         *)
(* (src/src/runtime-contract/managed-runtime.ts, managed-runtime-state.ts).*)
(*                                                                         *)
(* Writers (`mottainai-bootstrap reconcile` processes and the explicit     *)
(* recover entry point) serialise on reconcile.lock and move three durable *)
(* things, none of which is updated together with another:                 *)
(*   file     managed-runtime/state.json, the activation record;           *)
(*   current  the symlink consumers resolve executables through;           *)
(*   roots    the three GC-root slots that keep store outputs alive.       *)
(* One action is one such update, one external call or one decision, so a  *)
(* crash, a thrown error or the Nix collector fits between any two.        *)
(*                                                                         *)
(* Abstracted: failure and observed evidence, timestamps and transaction   *)
(* ids (no decision reads them); a generation stands for its identity,     *)
(* store path and metadata, and names the manifest it satisfies.           *)
(***************************************************************************)
EXTENDS FiniteSets

CONSTANTS
  Writer,      \* processes that may call reconcile or recover
  Generation,  \* buildable generations, one store path each
  Manifest,    \* semantic identities of desired manifests
  ManifestOf,  \* the manifest a generation was built for
  None         \* an absent field, pointer or root

VARIABLES
  file,      \* parsed state.json, None while the file does not exist
  current,   \* target of the `current` symlink
  roots,     \* target of each GC-root slot
  realized,  \* generations whose store output exists
  manifest,  \* semantic identity of managed-packages/manifest.json
  lock,      \* writer holding the SQLite write transaction
  pc, st, ptr, goal, mode,  \* per writer: control, `state`, `pointer`, desired identity, entry
  proven     \* history: generations some health check has passed

durable == <<file, current, roots, realized, manifest>>
local == <<pc, st, ptr, goal, mode>>
vars == <<durable, lock, local, proven>>

Phase == {"idle", "prepared", "switched-health-pending",
          "rollback-pending", "rollback-health-pending"}
Slot == {"active", "previous", "candidate"}
GenerationOrNone == Generation \cup {None}

\* The fields of state.json that decide anything; txPrevious is activation.previous.
State == [desired: Manifest, active: GenerationOrNone, previous: GenerationOrNone,
          phase: Phase, candidate: GenerationOrNone, txPrevious: GenerationOrNone]

ASSUME GenerationAssumption ==
  /\ ManifestOf \in [Generation -> Manifest]
  /\ None \notin Generation \cup Manifest \cup Writer \cup State

RetainPc == {"retain-recover", "retain-recovered", "retain-noop",
             "retain-prepared", "retain-abort", "retain-commit"}
Pc == RetainPc \cup
      {"idle", "load", "recover", "reselect", "mark-switched", "probe-candidate",
       "mark-rollback", "rollback", "mark-rollback-health", "probe-previous",
       "mark-restored", "mark-recovered", "manifest", "probe-active", "mark-noop",
       "mark-failed", "build", "mark-prepared", "boundary", "mark-aborted",
       "mark-committed", "return"}
Mode == {"reconcile", "recover", "activate"}

-----------------------------------------------------------------------------
(* Records the code derives from the working state *)

InitialState(d) ==
  [desired |-> d, active |-> None, previous |-> None, phase |-> "idle",
   candidate |-> None, txPrevious |-> None]

\* withoutActivationFields: an idle activation names no transaction
Idle(s) == [s EXCEPT !.phase = "idle", !.candidate = None, !.txPrevious = None]

\* stateWithFailure: the record a rejected attempt leaves behind
Failed(s, d) == [Idle(s) EXCEPT !.desired = d]

Prepared(s, d, g) ==
  [s EXCEPT !.desired = d, !.phase = "prepared", !.candidate = g, !.txPrevious = s.active]

Committed(s) ==
  [Idle(s) EXCEPT !.active = s.candidate,
                  !.previous = IF s.txPrevious = None THEN s.previous ELSE s.txPrevious]

\* The rollback target becomes active again; without one nothing is active.
Restored(s) == [Idle(s) EXCEPT !.active = s.txPrevious]

\* Mutant of Want: the open transaction's rollback target gets no slot
WantForgettingRollbackTarget(s) ==
  [active |-> s.active, previous |-> s.previous, candidate |-> s.candidate]

\* retainStateGenerations: the root each slot must have for record s
Want(s) ==
  [active |-> s.active,
   previous |-> IF s.txPrevious # None THEN s.txPrevious ELSE s.previous,
   candidate |-> s.candidate]

\* Slots are visited in the order active, previous, candidate.
Before(s) ==
  CASE s = "active" -> {}
    [] s = "previous" -> {"active"}
    [] s = "candidate" -> {"active", "previous"}

Rooted == {roots[s] : s \in Slot} \ {None}

-----------------------------------------------------------------------------
(* Control helpers *)

Goto(w, next) == pc' = [pc EXCEPT ![w] = next]

\* A result or an exception leaves withWriterLock; process death does the same
\* because the kernel drops the SQLite lock.
Exit(w) ==
  /\ lock' = None
  /\ pc' = [pc EXCEPT ![w] = "idle"]
  /\ st' = [st EXCEPT ![w] = None]
  /\ ptr' = [ptr EXCEPT ![w] = None]
  /\ goal' = [goal EXCEPT ![w] = None]
  /\ mode' = [mode EXCEPT ![w] = "reconcile"]

\* persist: replaceFileAtomically puts the whole record in place with one rename.
Persist(w, s, next) ==
  /\ file' = s
  /\ st' = [st EXCEPT ![w] = s]
  /\ Goto(w, next)
  /\ UNCHANGED <<current, roots, realized, manifest, lock, ptr, goal, mode, proven>>

\* atomicallySelectManagedRuntimeGeneration, or clearManagedRuntimePointer for None
Select(w, target, next) ==
  /\ current' = target
  /\ ptr' = [ptr EXCEPT ![w] = target]
  /\ Goto(w, next)
  /\ UNCHANGED <<file, roots, realized, manifest, lock, st, goal, mode, proven>>

\* A decision or an external call that changes nothing durable
Decide(w, next) ==
  /\ Goto(w, next)
  /\ UNCHANGED <<durable, lock, st, ptr, goal, mode>>

\* A health check can only pass on a realized output, and may always fail.
Passes(g) == g \in realized /\ proven' = proven \cup {g}
Fails == UNCHANGED proven

-----------------------------------------------------------------------------
(* Entry and loading *)

Init ==
  /\ file = None /\ current = None
  /\ roots = [s \in Slot |-> None]
  /\ realized = {} /\ proven = {}
  /\ manifest \in Manifest
  /\ lock = None
  /\ pc = [w \in Writer |-> "idle"]
  /\ st = [w \in Writer |-> None]
  /\ ptr = [w \in Writer |-> None]
  /\ goal = [w \in Writer |-> None]
  /\ mode = [w \in Writer |-> "reconcile"]

\* Mutant of Acquire: the busy check is missing
AcquireBusy(w) ==
  /\ pc[w] = "idle"
  /\ lock' = w
  /\ mode' \in {[mode EXCEPT ![w] = m] : m \in {"reconcile", "recover"}}
  /\ Goto(w, "load")
  /\ UNCHANGED <<durable, st, ptr, goal, proven>>

\* A second writer gets `reconcile_busy` and leaves no trace.
Acquire(w) ==
  /\ pc[w] = "idle" /\ lock = None
  /\ lock' = w
  /\ mode' \in {[mode EXCEPT ![w] = m] : m \in {"reconcile", "recover"}}
  /\ Goto(w, "load")
  /\ UNCHANGED <<durable, st, ptr, goal, proven>>

\* A pointer without a record is ambiguous_activation: only Interrupt remains.
Load(w) ==
  /\ pc[w] = "load"
  /\ file = None => current = None
  /\ st' = [st EXCEPT ![w] = file]
  /\ ptr' = [ptr EXCEPT ![w] = current]
  /\ IF file = None \/ file.phase = "idle"
     THEN Goto(w, "manifest") /\ mode' = [mode EXCEPT ![w] = "reconcile"]
     ELSE Goto(w, "recover") /\ UNCHANGED mode
  /\ UNCHANGED <<durable, lock, goal, proven>>

\* An exception, a refused check (fail closed) or process death.
Interrupt(w) ==
  /\ pc[w] # "idle"
  /\ Exit(w)
  /\ UNCHANGED <<durable, proven>>

-----------------------------------------------------------------------------
(* updateManagedRuntimeRetentionRoots: one rename or unlink per action *)

Retained(w) == roots = Want(st[w])

SetRoot(s, g) ==
  /\ roots' = [roots EXCEPT ![s] = g]
  /\ UNCHANGED <<file, current, realized, manifest, lock, local, proven>>

InstallRoot(w, s) ==
  LET want == Want(st[w]) IN
  /\ pc[w] \in RetainPc
  /\ want[s] # None /\ roots[s] # want[s]
  /\ \A t \in Before(s) : want[t] # None => roots[t] = want[t]
  /\ SetRoot(s, want[s])

RemoveRoot(w, s) ==
  LET want == Want(st[w]) IN
  /\ pc[w] \in RetainPc
  /\ want[s] = None /\ roots[s] # None
  /\ \A t \in Slot : want[t] # None => roots[t] = want[t]
  /\ \A t \in Before(s) : want[t] = None => roots[t] = None
  /\ SetRoot(s, None)

-----------------------------------------------------------------------------
(* recoverTransaction *)

Recover(w) ==
  /\ pc[w] = "recover"
  /\ st[w].desired = ManifestOf[st[w].candidate]
  /\ Decide(w, "retain-recover") /\ UNCHANGED proven

\* Mutant of Resume: a rollback whose pointer is already back is not resumed
ResumeOnlyForward(w) ==
  /\ pc[w] = "retain-recover" /\ Retained(w)
  /\ ptr[w] = st[w].candidate \/ st[w].phase = "prepared"
  /\ Decide(w, CASE st[w].phase = "prepared" /\ ptr[w] = st[w].candidate -> "mark-switched"
                 [] st[w].phase = "prepared" /\ ptr[w] # st[w].candidate -> "reselect"
                 [] st[w].phase = "switched-health-pending" -> "probe-candidate"
                 [] OTHER -> "rollback")
  /\ UNCHANGED proven

\* Dispatch on the persisted phase and the observed pointer; a pointer that is
\* neither end of the transaction is ambiguous_activation.
Resume(w) ==
  LET s == st[w]
      toCandidate == ptr[w] = s.candidate
      toPrevious == ptr[w] = s.txPrevious
  IN
  /\ pc[w] = "retain-recover" /\ Retained(w)
  /\ toCandidate \/ toPrevious \/ (ptr[w] = None /\ s.phase \in {"rollback-pending", "rollback-health-pending"})
  /\ Decide(w, CASE s.phase = "prepared" /\ toCandidate -> "mark-switched"
                 [] s.phase = "prepared" /\ ~toCandidate -> "reselect"
                 [] s.phase = "switched-health-pending" /\ toCandidate -> "probe-candidate"
                 [] OTHER -> "rollback")
  /\ UNCHANGED proven

Reselect(w) ==
  /\ pc[w] = "reselect"
  /\ Select(w, st[w].candidate, "mark-switched")

\* Mutant of MarkSwitched: a phase the schema does not know
MarkSwitchedUntyped(w) ==
  /\ pc[w] = "mark-switched"
  /\ Persist(w, [st[w] EXCEPT !.phase = "switched"], "probe-candidate")

MarkSwitched(w) ==
  /\ pc[w] = "mark-switched"
  /\ Persist(w, [st[w] EXCEPT !.phase = "switched-health-pending"], "probe-candidate")

\* The update path installs the final roots before it persists the commit; the
\* recovery path persists the commit first.
CandidateHealthy(w) ==
  /\ pc[w] = "probe-candidate"
  /\ Passes(st[w].candidate)
  /\ IF mode[w] = "activate"
     THEN st' = [st EXCEPT ![w] = Committed(st[w])] /\ Goto(w, "retain-commit")
     ELSE UNCHANGED st /\ Goto(w, "mark-recovered")
  /\ UNCHANGED <<durable, lock, ptr, goal, mode>>

CandidateUnhealthy(w) ==
  /\ pc[w] = "probe-candidate"
  /\ Decide(w, "mark-rollback") /\ Fails

\* A live update re-enters recoverTransaction with the rollback-pending record.
MarkRollback(w) ==
  /\ pc[w] = "mark-rollback"
  /\ Persist(w, [st[w] EXCEPT !.phase = "rollback-pending"],
             IF mode[w] = "activate" THEN "recover" ELSE "rollback")

\* Mutant of Rollback: a failed first generation stays selected
RollbackKeepingFirst(w) ==
  /\ pc[w] = "rollback"
  /\ IF st[w].txPrevious = None
     THEN Decide(w, "mark-restored") /\ UNCHANGED proven
     ELSE Select(w, st[w].txPrevious, "mark-rollback-health")

Rollback(w) ==
  /\ pc[w] = "rollback"
  /\ Select(w, st[w].txPrevious,
            IF st[w].txPrevious = None THEN "mark-restored" ELSE "mark-rollback-health")

MarkRollbackHealth(w) ==
  /\ pc[w] = "mark-rollback-health"
  /\ Persist(w, [st[w] EXCEPT !.phase = "rollback-health-pending"], "probe-previous")

PreviousHealthy(w) ==
  /\ pc[w] = "probe-previous"
  /\ Passes(st[w].txPrevious)
  /\ Decide(w, "mark-restored")

\* The evidence written on the way out changes no field a decision reads.
PreviousUnhealthy(w) ==
  /\ pc[w] = "probe-previous"
  /\ Exit(w) /\ Fails
  /\ UNCHANGED durable

MarkRestored(w) ==
  /\ pc[w] = "mark-restored"
  /\ Persist(w, Restored(st[w]), "retain-recovered")

MarkRecovered(w) ==
  /\ pc[w] = "mark-recovered"
  /\ Persist(w, Committed(st[w]), "retain-recovered")

\* reconcile goes on to the desired manifest and recover reports; an update
\* whose candidate failed throws health_failure after its rollback.
Recovered(w) ==
  /\ pc[w] = "retain-recovered" /\ Retained(w)
  /\ CASE mode[w] = "reconcile" -> Decide(w, "manifest")
       [] mode[w] = "recover" -> Decide(w, "return")
       [] mode[w] = "activate" -> Exit(w) /\ UNCHANGED durable
  /\ UNCHANGED proven

-----------------------------------------------------------------------------
(* reconcileManagedRuntimeLocked *)

Base(w, d) == IF st[w] = None THEN InitialState(d) ELSE st[w]

\* Mutant of Matches: the recorded desired identity alone decides
MatchesRecordOnly(s, d) == s.active # None /\ s.desired = d

\* Satisfied by the active generation: `activeMatchesDesired`
Matches(s, d) ==
  /\ s.active # None
  /\ s.desired = d
  /\ ManifestOf[s.active] = d

\* assertStablePointer guards both ways; generationIsCurrent may answer false.
AcceptManifest(w) ==
  LET s == Base(w, manifest) IN
  /\ pc[w] = "manifest"
  /\ ptr[w] = s.active
  /\ goal' = [goal EXCEPT ![w] = manifest]
  /\ st' = [st EXCEPT ![w] = s]
  /\ \/ Matches(s, manifest) /\ Goto(w, "retain-noop")
     \/ Goto(w, "build")
  /\ UNCHANGED <<durable, lock, ptr, mode, proven>>

\* Invalid, incompatible or unprojectable. An unparsable manifest has no
\* identity of its own: the recorded one stays.
RejectManifest(w) ==
  /\ pc[w] = "manifest"
  /\ \E d \in Manifest :
       /\ d = manifest \/ (st[w] # None /\ d = st[w].desired)
       /\ goal' = [goal EXCEPT ![w] = d]
       /\ st' = [st EXCEPT ![w] = Base(w, d)]
  /\ Goto(w, "mark-failed")
  /\ UNCHANGED <<durable, lock, ptr, mode, proven>>

Noop(w) ==
  /\ pc[w] = "retain-noop" /\ Retained(w)
  /\ Decide(w, "probe-active") /\ UNCHANGED proven

ActiveHealthy(w) ==
  /\ pc[w] = "probe-active"
  /\ Passes(st[w].active)
  /\ Decide(w, "mark-noop")

ActiveUnhealthy(w) ==
  /\ pc[w] = "probe-active"
  /\ Decide(w, "mark-failed") /\ Fails

MarkNoop(w) ==
  /\ pc[w] = "mark-noop"
  /\ Persist(w, st[w], "return")

\* Evidence of a rejected attempt; the primary error is thrown either way.
MarkFailed(w) ==
  /\ pc[w] = "mark-failed"
  /\ file' = Failed(st[w], goal[w])
  /\ Exit(w)
  /\ UNCHANGED <<current, roots, realized, manifest, proven>>

\* The output is built without a result link, so nothing roots it yet.
Build(w) ==
  /\ pc[w] = "build"
  /\ current = ptr[w]
  /\ \E g \in Generation :
       /\ ManifestOf[g] = goal[w]
       /\ realized' = realized \cup {g}
       /\ st' = [st EXCEPT ![w] = Prepared(st[w], goal[w], g)]
  /\ mode' = [mode EXCEPT ![w] = "activate"]
  /\ Goto(w, "retain-prepared")
  /\ UNCHANGED <<file, current, roots, manifest, lock, ptr, goal, proven>>

BuildFails(w) ==
  /\ pc[w] = "build"
  /\ Decide(w, "mark-failed") /\ UNCHANGED proven

\* Mutant of RetainedPrepared: the pointer moves before the prepared record
RetainedUnprepared(w) ==
  /\ pc[w] = "retain-prepared" /\ Retained(w)
  /\ Decide(w, "boundary") /\ UNCHANGED proven

RetainedPrepared(w) ==
  /\ pc[w] = "retain-prepared" /\ Retained(w)
  /\ Decide(w, "mark-prepared") /\ UNCHANGED proven

MarkPrepared(w) ==
  /\ pc[w] = "mark-prepared"
  /\ Persist(w, st[w], "boundary")

Activate(w) ==
  /\ pc[w] = "boundary"
  /\ Select(w, st[w].candidate, "mark-switched")

\* Last verification or the pointer replacement failed; the pointer still is
\* the one this run loaded, so the staged transaction is withdrawn.
ActivationFails(w) ==
  /\ pc[w] = "boundary"
  /\ current = ptr[w]
  /\ Decide(w, "mark-aborted") /\ UNCHANGED proven

MarkAborted(w) ==
  /\ pc[w] = "mark-aborted"
  /\ Persist(w, Failed(st[w], goal[w]), "retain-abort")

Aborted(w) ==
  /\ pc[w] = "retain-abort" /\ Retained(w)
  /\ Exit(w)
  /\ UNCHANGED <<durable, proven>>

RetainedCommit(w) ==
  /\ pc[w] = "retain-commit" /\ Retained(w)
  /\ Decide(w, "mark-committed") /\ UNCHANGED proven

MarkCommitted(w) ==
  /\ pc[w] = "mark-committed"
  /\ Persist(w, st[w], "return")

Return(w) ==
  /\ pc[w] = "return"
  /\ Exit(w)
  /\ UNCHANGED <<durable, proven>>

-----------------------------------------------------------------------------
(* Environment *)

\* The host writes another desired manifest.
ChangeManifest ==
  /\ manifest' \in Manifest \ {manifest}
  /\ UNCHANGED <<file, current, roots, realized, lock, local, proven>>

\* The Nix collector deletes an output no root names.
Collect ==
  /\ \E g \in realized \ Rooted : realized' = realized \ {g}
  /\ UNCHANGED <<file, current, roots, manifest, lock, local, proven>>

-----------------------------------------------------------------------------

RecoverStep(w) ==
  \/ Recover(w) \/ Resume(w) \/ Reselect(w) \/ MarkSwitched(w)
  \/ CandidateHealthy(w) \/ CandidateUnhealthy(w) \/ MarkRollback(w)
  \/ Rollback(w) \/ MarkRollbackHealth(w) \/ PreviousHealthy(w) \/ PreviousUnhealthy(w)
  \/ MarkRestored(w) \/ MarkRecovered(w) \/ Recovered(w)

ReconcileStep(w) ==
  \/ AcceptManifest(w) \/ RejectManifest(w)
  \/ Noop(w) \/ ActiveHealthy(w) \/ ActiveUnhealthy(w) \/ MarkNoop(w) \/ MarkFailed(w)
  \/ Build(w) \/ BuildFails(w) \/ RetainedPrepared(w) \/ MarkPrepared(w)
  \/ Activate(w) \/ ActivationFails(w) \/ MarkAborted(w) \/ Aborted(w)
  \/ RetainedCommit(w) \/ MarkCommitted(w) \/ Return(w)

RetainStep(w) == \E s \in Slot : InstallRoot(w, s) \/ RemoveRoot(w, s)

Step(w) == Load(w) \/ RetainStep(w) \/ RecoverStep(w) \/ ReconcileStep(w)

Next ==
  \/ \E w \in Writer : Acquire(w) \/ Step(w) \/ Interrupt(w)
  \/ ChangeManifest \/ Collect

Spec == Init /\ [][Next]_vars

-----------------------------------------------------------------------------
(* Properties *)

\* Every variable holds a value of its kind.
TypeOK ==
  /\ file \in State \cup {None}
  /\ current \in GenerationOrNone
  /\ roots \in [Slot -> GenerationOrNone]
  /\ realized \in SUBSET Generation
  /\ proven \in SUBSET Generation
  /\ manifest \in Manifest
  /\ lock \in Writer \cup {None}
  /\ pc \in [Writer -> Pc]
  /\ st \in [Writer -> State \cup {None}]
  /\ ptr \in [Writer -> GenerationOrNone]
  /\ goal \in [Writer -> Manifest \cup {None}]
  /\ mode \in [Writer -> Mode]

\* Whatever step a crash or an exception cuts off, the pointer it leaves is one
\* the persisted phase accounts for, so loadStateAndPointer, assertStablePointer
\* and recoverTransaction never answer ambiguous_activation or state_corrupt.
NeverAmbiguous ==
  IF file = None THEN current = None
  ELSE /\ file.phase = "idle" =>
            /\ current = file.active
            /\ file.candidate = None /\ file.txPrevious = None
       /\ file.phase \in {"prepared", "rollback-pending"} =>
            current \in {file.candidate, file.txPrevious}
       /\ file.phase = "switched-health-pending" => current = file.candidate
       /\ file.phase = "rollback-health-pending" =>
            current = file.txPrevious /\ current # None

\* Only a generation a health check has passed is ever recorded as active,
\* previous or rollback target, whatever interrupts an activation.
KnownGood ==
  file # None => {file.active, file.previous, file.txPrevious} \ {None} \subseteq proven

\* The active generation, which is the rollback target of an open transaction,
\* is rooted and realized at every instant, also between two slot updates.
RollbackTargetKept ==
  file # None => {file.active, file.txPrevious} \ {None} \subseteq Rooted \cap realized

\* A run that reports success left an idle record whose active generation is
\* selected, answers the manifest it converged to, and has its roots in place.
ReturnConverged ==
  \A w \in Writer : pc[w] = "return" =>
    /\ file = st[w] /\ file.phase = "idle"
    /\ current = file.active
    /\ roots = Want(file)
    /\ mode[w] # "recover" => current # None /\ ManifestOf[current] = goal[w]

\* What the lock holder decides on is what is on disk: no other writer and no
\* restart ever leaves it with an out-of-date pointer or record.
NeverStale ==
  \A w \in Writer : pc[w] \notin {"idle", "load"} =>
    /\ lock = w
    /\ ptr[w] = current
    /\ file # None => st[w] # None /\ st[w].active \in {file.active, file.candidate}

-----------------------------------------------------------------------------
(* Inductive invariant: what the lock holder knows at each point *)

LockInv == \A w \in Writer : pc[w] # "idle" => lock = w

\* The record of an open transaction names its candidate; its rollback target
\* is the active generation.
OpenInv ==
  file # None /\ file.phase # "idle" =>
    /\ file.candidate # None
    /\ file.txPrevious = file.active
    /\ file.desired = ManifestOf[file.candidate]

\* The working state is the record on disk.
Same(w, phases) == file # None /\ st[w] = file /\ file.phase \in phases

Unwinding == {"rollback-pending", "rollback-health-pending"}

\* The working state is the idle record, or a new one while there is none.
SameOrNew(w) ==
  /\ st[w] # None /\ goal[w] # None
  /\ IF file = None THEN st[w] = InitialState(st[w].desired)
     ELSE st[w] = file /\ file.phase = "idle"

\* The working state stages a transaction the idle record does not have yet.
Staged(w) ==
  LET s == st[w] IN
  /\ s # None /\ goal[w] # None
  /\ s.phase = "prepared" /\ s.candidate # None /\ s.txPrevious = s.active
  /\ s.desired = goal[w] /\ ManifestOf[s.candidate] = goal[w]
  /\ IF file = None THEN s.active = None /\ s.previous = None
     ELSE file.phase = "idle" /\ s.active = file.active /\ s.previous = file.previous

View(w) ==
  /\ pc[w] \in {"recover", "retain-recover"} => Same(w, Phase \ {"idle"})
  /\ pc[w] = "reselect" => Same(w, {"prepared"}) /\ current = file.txPrevious
  /\ pc[w] = "mark-switched" => Same(w, {"prepared"}) /\ current = file.candidate
  /\ pc[w] \in {"probe-candidate", "mark-rollback", "mark-recovered"} =>
       Same(w, {"switched-health-pending"})
  /\ pc[w] \in {"rollback", "mark-rollback-health", "mark-restored"} => Same(w, Unwinding)
  /\ pc[w] \in {"mark-rollback-health", "mark-restored"} => current = file.txPrevious
  /\ pc[w] = "mark-rollback-health" => current # None
  /\ pc[w] = "probe-previous" => Same(w, {"rollback-health-pending"})
  /\ pc[w] = "mark-recovered" => file.candidate \in proven
  /\ pc[w] \in {"boundary", "mark-aborted"} =>
       Same(w, {"prepared"}) /\ current = file.txPrevious /\ goal[w] # None
  /\ pc[w] \in {"retain-recovered", "retain-abort", "return"} => Same(w, {"idle"})
  /\ pc[w] = "manifest" => file = st[w] /\ (file # None => file.phase = "idle")
  /\ pc[w] \in {"retain-noop", "probe-active", "mark-noop", "mark-failed", "build"} =>
       SameOrNew(w)
  /\ pc[w] \in {"retain-noop", "probe-active", "mark-noop"} => st[w].active # None
  /\ pc[w] \in {"retain-prepared", "mark-prepared"} => Staged(w)
  /\ pc[w] \in {"retain-commit", "mark-committed"} =>
       /\ file # None /\ file.phase = "switched-health-pending"
       /\ st[w] = Committed(file) /\ file.candidate \in proven

PtrInv == \A w \in Writer : pc[w] \notin {"idle", "load"} => ptr[w] = current

IInv ==
  /\ TypeOK /\ LockInv /\ PtrInv /\ OpenInv
  /\ NeverAmbiguous /\ KnownGood
  /\ \A w \in Writer : View(w)

\* Between these points the roots are those of the working state.
RetainedPc ==
  {"reselect", "mark-switched", "probe-candidate", "mark-rollback", "rollback",
   "mark-rollback-health", "probe-previous", "mark-restored", "mark-recovered",
   "mark-prepared", "boundary", "mark-aborted", "mark-committed"}

\* While the commit's roots go in, the old active generation keeps its slot and
\* the candidate stays rooted.
RootInv ==
  /\ RollbackTargetKept
  /\ \A w \in Writer :
       /\ pc[w] \in RetainedPc => Retained(w)
       /\ pc[w] = "mark-recovered" => file.candidate \in realized
       /\ pc[w] \in {"retain-commit", "mark-committed"} =>
            /\ file.candidate \in Rooted \cap realized
            /\ file.txPrevious # None => roots["previous"] = file.txPrevious

\* Towards a reported success: the roots are in place before the last record is
\* written, and the generation that record names answers the desired identity
\* this run fixed. An update that re-enters recovery only unwinds.
ReturnView(w) ==
  /\ pc[w] = "load" => mode[w] # "activate"
  /\ pc[w] \in {"probe-active", "mark-noop", "return"} => Retained(w)
  /\ pc[w] \in {"retain-noop", "probe-active", "mark-noop", "retain-commit", "mark-committed"} =>
       ManifestOf[st[w].active] = goal[w]
  /\ pc[w] = "boundary" => ManifestOf[st[w].candidate] = goal[w]
  /\ pc[w] \in {"mark-switched", "probe-candidate"} /\ mode[w] = "activate" =>
       ManifestOf[st[w].candidate] = goal[w]
  /\ pc[w] \in {"recover", "retain-recover"} /\ mode[w] = "activate" =>
       st[w].phase = "rollback-pending"
  /\ pc[w] = "reselect" => mode[w] # "activate"
  /\ pc[w] = "return" /\ mode[w] # "recover" =>
       st[w].active # None /\ ManifestOf[st[w].active] = goal[w]

ReturnInv == \A w \in Writer : ReturnView(w)

\* The durable record and pointer implement the activation contract.
Contract == INSTANCE ActivationContract WITH
  selected <- current,
  active <- IF file = None THEN None ELSE file.active,
  open <- IF file = None THEN None ELSE file.candidate

\* Crashes, retries and collection included, consumers see nothing the
\* contract does not allow: no generation is active before its health check,
\* and a failed or interrupted activation ends at its candidate or its fallback.
ImplementsContract == Contract!Spec

=============================================================================
