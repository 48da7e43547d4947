--------------------------- MODULE SemanticSource ---------------------------
(***************************************************************************)
(* The on-disk store of semantic sources (src/src/semantics/source/store.ts) *)
(* as several processes use it at once: load, compute a transaction, take   *)
(* the lock, compare with what was loaded, journal, replay, release.  The   *)
(* lock is a directory that names its owner; the lock of a dead owner is    *)
(* broken through a claim file and a quarantine directory.  Loads finish a  *)
(* journal they find without taking the lock.                               *)
(*                                                                          *)
(* A token <<p, n>> names the n-th lock attempt of process p; it stamps the *)
(* lock, the staging directory and every file version the commit writes.    *)
(***************************************************************************)
EXTENDS Integers, FiniteSets

CONSTANTS
    Procs,        \* operating system processes
    NoProc,
    Files,        \* paths of source files, numbered in a journal's order
    Plans,        \* transactions: per file "write", "delete" or "keep"
    MaxTries,     \* bound: lock attempts of a process
    MaxFailures   \* bound: processes that die and file operations that fail

ASSUME SourceAssumption ==
    /\ NoProc \notin Procs
    /\ Files \subseteq Int
    /\ Plans \subseteq [Files -> {"write", "delete", "keep"}]
    /\ {MaxTries, MaxFailures} \subseteq Nat

VARIABLES
    disk,         \* per file, the token of the commit that wrote it
    journal,      \* the journal file: whose commit, and its plan
    staged,       \* per token, the files that lie in its staging directory
    lock,         \* the lock directory: the token its owner file names
    quarantine,   \* per token, the lock moved into its quarantine directory
    claim,        \* per token, the process its removal claim names
    job,          \* what each process is doing
    tries, failures,
    tainted       \* history: which of the store's known gaps has been hit

store == <<disk, journal, staged>>
locking == <<lock, quarantine, claim>>
counts == <<tries, failures>>
vars == <<store, locking, job, counts, tainted>>

Tokens == Procs \X (1 .. MaxTries)
None == <<NoProc, 0>>
Nameless == <<NoProc, 1>>    \* a lock directory without an owner file
Absent == <<NoProc, 0>>
Original == <<NoProc, 1>>    \* what the files held at the start
Token(p) == <<p, tries[p]>>

NoJournal == [by |-> None, plan |-> [f \in Files |-> "keep"]]
Initial == [f \in Files |-> Original]
Touched(plan) == {f \in Files : plan[f] # "keep"}

At(p, pc) == job[p].pc = pc
\* Mutant of Abandoned: a lock whose owner is still being written counts as left.
AbandonedUnlessOwned(t) == t # None /\ ~(t \in Tokens /\ ~At(t[1], "dead"))

Fails == failures < MaxFailures /\ failures' = failures + 1
Abandoned(t) == t \in Tokens /\ At(t[1], "dead")

Idle == [pc |-> "idle", phase |-> "load", todo |-> {}, replay |-> NoJournal,
         seen |-> Initial, plan |-> NoJournal.plan, target |-> None, then |-> "end"]

Init ==
    /\ disk = Initial /\ journal = NoJournal /\ staged = [t \in Tokens |-> {}]
    /\ lock = None
    /\ quarantine = [t \in Tokens |-> None]
    /\ claim = [t \in Tokens |-> NoProc]
    /\ job = [p \in Procs |-> Idle]
    /\ tries = [p \in Procs |-> 0] /\ failures = 0
    /\ tainted = {}

End(p) == job' = [job EXCEPT ![p] = Idle]
Again(p) == job' = [job EXCEPT ![p] = [Idle EXCEPT !.pc = "look"]]
Go(p, pc) == job' = [job EXCEPT ![p].pc = pc]
Release(p, then) ==
    job' = [job EXCEPT ![p] = [Idle EXCEPT !.pc = "claim", !.target = Token(p), !.then = then]]

------------------------------------------------------------------------------
(* Loading: finish a pending commit, then read file by file.                *)

\* A call that loads, and goes on to apply a transaction if it has one.
Begin(p) == At(p, "idle") /\ Again(p) /\ UNCHANGED <<store, locking, counts, tainted>>

After(phase) ==
    CASE phase = "load" -> "read" [] phase = "recover" -> "compare" [] OTHER -> "clean"

Recovered(p) == job' = [job EXCEPT ![p] =
    [@ EXCEPT !.pc = After(job[p].phase), !.replay = NoJournal,
              !.todo = IF job[p].phase = "load" THEN Files ELSE {}]]

Look(p) ==
    /\ At(p, "look")
    /\ IF journal = NoJournal THEN Recovered(p)
       ELSE job' = [job EXCEPT ![p] = [@ EXCEPT !.pc = "replay", !.replay = journal,
                                                !.todo = Touched(journal.plan)]]
    /\ UNCHANGED <<store, locking, counts, tainted>>

\* A staged file that is gone is taken for one that has been renamed already.
Applied(j, f) ==
    IF j.plan[f] = "delete" THEN Absent ELSE IF f \in staged[j.by] THEN j.by ELSE disk[f]

Replay(p) == \E f \in job[p].todo :
    /\ At(p, "replay") /\ \A g \in job[p].todo : f <= g
    /\ LET j == job[p].replay IN
       /\ disk' = [disk EXCEPT ![f] = Applied(j, f)]
       /\ staged' = [staged EXCEPT ![j.by] = @ \ {f}]
    /\ job' = [job EXCEPT ![p].todo = @ \ {f}]
    /\ UNCHANGED <<journal, locking, counts, tainted>>

\* The journal is unlinked by its path, whichever journal lies there by now.
DropJournal(p) ==
    /\ At(p, "replay") /\ job[p].todo = {}
    /\ journal' = NoJournal
    /\ Recovered(p)
    /\ UNCHANGED <<disk, staged, locking, counts, tainted>>

Read(p) == \E f \in job[p].todo :
    /\ At(p, "read")
    /\ job' = [job EXCEPT ![p].seen[f] = disk[f], ![p].todo = @ \ {f}]
    /\ UNCHANGED <<store, locking, counts, tainted>>

\* The caller wanted no more, or its request is refused on what was read.
Loaded(p) ==
    /\ At(p, "read") /\ job[p].todo = {}
    /\ End(p)
    /\ UNCHANGED <<store, locking, counts, tainted>>

Apply(p) == \E plan \in Plans :
    /\ At(p, "read") /\ job[p].todo = {} /\ tries[p] < MaxTries
    /\ job' = [job EXCEPT ![p] = [@ EXCEPT !.pc = "acquire", !.plan = plan]]
    /\ tries' = [tries EXCEPT ![p] = @ + 1]
    /\ UNCHANGED <<store, locking, failures, tainted>>

------------------------------------------------------------------------------
(* The lock.                                                                *)

MakeLock(p) ==
    /\ At(p, "acquire") /\ lock = None
    /\ lock' = Nameless
    /\ Go(p, "publish")
    /\ UNCHANGED <<store, quarantine, claim, counts, tainted>>

\* The owner file is renamed into place within the directory, if it exists.
Publish(p) ==
    /\ At(p, "publish")
    /\ IF lock = None THEN lock' = lock /\ End(p)
       ELSE /\ lock' = Token(p)
            /\ job' = [job EXCEPT ![p] = [@ EXCEPT !.pc = "look", !.phase = "recover"]]
    /\ UNCHANGED <<store, quarantine, claim, counts, tainted>>

PublishFails(p) ==
    /\ At(p, "publish") /\ Fails
    /\ lock' = None
    /\ End(p)
    /\ UNCHANGED <<store, quarantine, claim, tries, tainted>>

Observe(p) ==
    /\ At(p, "acquire") /\ Abandoned(lock)
    /\ job' = [job EXCEPT ![p] = [@ EXCEPT !.pc = "claim", !.target = lock]]
    /\ UNCHANGED <<store, locking, counts, tainted>>

\* A conflict is retried from the load, up to a number of attempts that is
\* abstracted to a choice.
Timeout(p) ==
    /\ At(p, "acquire") /\ lock # None /\ ~Abandoned(lock)
    /\ Again(p) \/ End(p)
    /\ UNCHANGED <<store, locking, counts, tainted>>

\* Removing a lock is over, for better or worse: a waiter tries again to make
\* it, an owner is done.
Back(p) ==
    IF job[p].target # Token(p)
    THEN job' = [job EXCEPT ![p] = [@ EXCEPT !.pc = "acquire", !.target = None]]
    ELSE End(p) \/ (job[p].then = "retry" /\ Again(p))

\* Mutant of Claim: the claim of a dead process is respected for ever.
ClaimRespected(p) == LET t == job[p].target IN
    /\ At(p, "claim")
    /\ IF claim[t] = NoProc THEN claim' = [claim EXCEPT ![t] = p] /\ Go(p, "remove")
       ELSE claim' = claim /\ Back(p)
    /\ UNCHANGED <<store, lock, quarantine, counts, tainted>>

Claim(p) == LET t == job[p].target IN
    /\ At(p, "claim")
    /\ IF claim[t] = NoProc THEN claim' = [claim EXCEPT ![t] = p] /\ Go(p, "remove")
       ELSE /\ claim' = claim
            /\ IF At(claim[t], "dead") THEN Go(p, "steal") ELSE Back(p)
    /\ UNCHANGED <<store, lock, quarantine, counts, tainted>>

\* The dead process's claim is unlinked by its path, whoever's it is by now.
Steal(p) == LET t == job[p].target IN
    /\ At(p, "steal")
    /\ claim' = [claim EXCEPT ![t] = NoProc]
    /\ tainted' = IF claim[t] \in Procs /\ ~At(claim[t], "dead")
                  THEN tainted \cup {"stolen"} ELSE tainted
    /\ Go(p, "claim")
    /\ UNCHANGED <<store, lock, quarantine, counts>>

\* The lock has another owner by now: what is left of this one is removed.
Gone(p) == LET t == job[p].target IN
    /\ quarantine' = IF quarantine[t] = t THEN [quarantine EXCEPT ![t] = None] ELSE quarantine
    /\ claim' = [claim EXCEPT ![t] = NoProc]
    /\ Back(p)

\* Mutant of Remove: whichever lock lies there by now is taken for the dead one.
RemoveWhatever(p) ==
    /\ At(p, "remove")
    /\ IF lock # None THEN Go(p, "rename") /\ UNCHANGED <<quarantine, claim>>
       ELSE Gone(p)
    /\ UNCHANGED <<store, lock, counts, tainted>>

Remove(p) ==
    /\ At(p, "remove")
    /\ IF lock = job[p].target THEN Go(p, "rename") /\ UNCHANGED <<quarantine, claim>>
       ELSE Gone(p)
    /\ UNCHANGED <<store, lock, counts, tainted>>

\* Renaming onto a quarantine that holds another lock throws and keeps the claim.
Rename(p) == LET t == job[p].target IN
    /\ At(p, "rename")
    /\ IF lock = None THEN lock' = lock /\ Gone(p)
       ELSE IF quarantine[t] # None THEN Back(p) /\ UNCHANGED locking
       ELSE /\ quarantine' = [quarantine EXCEPT ![t] = lock]
            /\ lock' = None
            /\ claim' = claim
            /\ Go(p, "discard")
    /\ UNCHANGED <<store, counts, tainted>>

Discard(p) == LET t == job[p].target IN
    /\ At(p, "discard")
    /\ IF quarantine[t] = t THEN Gone(p) ELSE Back(p) /\ UNCHANGED <<quarantine, claim>>
    /\ UNCHANGED <<store, lock, counts, tainted>>

------------------------------------------------------------------------------
(* Committing, under the lock.                                              *)

\* Mutant of Compare: the lock is taken for enough.
CompareNothing(p) ==
    /\ At(p, "compare") /\ Go(p, "journal")
    /\ UNCHANGED <<store, locking, counts, tainted>>

Compare(p) ==
    /\ At(p, "compare")
    /\ IF job[p].seen = disk THEN Go(p, "journal") ELSE Release(p, "retry")
    /\ UNCHANGED <<store, locking, counts, tainted>>

WriteJournal(p) ==
    LET j == [by |-> Token(p), plan |-> job[p].plan] IN
    /\ At(p, "journal")
    /\ staged' = [staged EXCEPT ![Token(p)] = {f \in Files : j.plan[f] = "write"}]
    /\ journal' = j
    /\ job' = [job EXCEPT ![p] = [@ EXCEPT !.pc = "replay", !.phase = "commit", !.replay = j,
                                           !.todo = Touched(j.plan)]]
    /\ tainted' = IF \E q \in Procs \ {p} : At(q, "replay")
                  THEN tainted \cup {"overlap"} ELSE tainted
    /\ UNCHANGED <<disk, locking, counts>>

\* The staging directory goes whether the commit came through or not.
Clean(p) ==
    /\ At(p, "clean")
    /\ staged' = [staged EXCEPT ![Token(p)] = {}]
    /\ Release(p, "end")
    /\ tainted' = IF journal.by = Token(p) /\ staged[Token(p)] # {}
                  THEN tainted \cup {"dropped"} ELSE tainted
    /\ UNCHANGED <<disk, journal, locking, counts>>

\* A file operation fails while staging or replaying.
WriteFails(p) ==
    /\ Fails
    /\ \/ At(p, "journal") /\ Go(p, "clean")
       \/ At(p, "replay") /\ job[p].phase = "commit" /\ Go(p, "clean")
       \/ At(p, "replay") /\ job[p].phase = "recover" /\ Release(p, "end")
       \/ At(p, "replay") /\ job[p].phase = "load" /\ End(p)
    /\ UNCHANGED <<store, locking, tries, tainted>>

Crash(p) ==
    /\ Fails
    /\ ~At(p, "idle") /\ ~At(p, "dead")
    /\ job' = [job EXCEPT ![p] = [Idle EXCEPT !.pc = "dead"]]
    /\ UNCHANGED <<store, locking, tries, tainted>>

Step(p) ==
    \/ Look(p) \/ Replay(p) \/ DropJournal(p) \/ Read(p) \/ Loaded(p) \/ Apply(p)
    \/ MakeLock(p) \/ Publish(p) \/ Observe(p) \/ Timeout(p)
    \/ Claim(p) \/ Steal(p) \/ Remove(p) \/ Rename(p) \/ Discard(p)
    \/ Compare(p) \/ WriteJournal(p) \/ Clean(p)

Next == \E p \in Procs :
    Begin(p) \/ Step(p) \/ PublishFails(p) \/ WriteFails(p) \/ Crash(p)

Spec == Init /\ [][Next]_vars

\* A process that has begun a call keeps running it.
LiveSpec == Spec /\ \A p \in Procs : WF_vars(Step(p))

------------------------------------------------------------------------------
Versions == Tokens \cup {Absent, Original}
Locks == Tokens \cup {None, Nameless}
Journals == [by : Tokens, plan : Plans] \cup {NoJournal}
Jobs == [
    pc : {"idle", "look", "replay", "read", "acquire", "publish", "compare", "journal",
          "clean", "claim", "steal", "remove", "rename", "discard", "dead"},
    phase : {"load", "recover", "commit"},
    todo : SUBSET Files,
    replay : Journals,
    seen : [Files -> Versions],
    plan : Plans \cup {NoJournal.plan},
    target : Tokens \cup {None},
    then : {"end", "retry"}]

TypeOK ==
    /\ disk \in [Files -> Versions]
    /\ journal \in Journals
    /\ staged \in [Tokens -> SUBSET Files]
    /\ lock \in Locks
    /\ quarantine \in [Tokens -> Locks]
    /\ claim \in [Tokens -> Procs \cup {NoProc}]
    /\ job \in [Procs -> Jobs]
    /\ tries \in [Procs -> 0 .. MaxTries]
    /\ failures \in 0 .. MaxFailures
    /\ tainted \subseteq {"stolen", "overlap", "dropped"}

Holds(p) ==
    \/ At(p, "compare") \/ At(p, "journal") \/ At(p, "clean")
    \/ (At(p, "look") \/ At(p, "replay")) /\ job[p].phase # "load"

\* At most one process works under the lock, unless a claim was taken from a
\* live process (acquireSemanticSourceLock, removeLockGeneration).
MutualExclusion ==
    "stolen" \in tainted \/ \A p, q \in Procs : Holds(p) /\ Holds(q) => p = q

\* What a load that finished the journal would find.
Converged == [f \in Files |-> IF journal = NoJournal THEN disk[f]
    ELSE CASE journal.plan[f] = "delete" -> Absent
           [] journal.plan[f] = "write" /\ f \in staged[journal.by] -> journal.by
           [] OTHER -> disk[f]]

Source == INSTANCE AtomicSource WITH Stamps <- Tokens, First <- Initial,
    content <- Converged, base <- [p \in Procs |-> job[p].seen]

\* Whatever dies or fails, the content changes by whole transactions and only
\* from the content a transaction was computed from (persistSemanticMutation,
\* recoverPendingCommit), until one of the known gaps has been hit.
AtomicCommits == [][tainted' # {} \/ [Source!Next]_Source!vars]_vars

\* recoverPendingCommit's promise, gaps or no gaps: a pending commit converges
\* forward to the whole of it, never to a torn mix.
NeverTorn == [][Source!Next]_Source!vars

\* Every call returns or dies: no lock of a dead process, claimed or not, keeps
\* a writer waiting for ever, unless a claim was taken from a live process.
CallsEnd == \A p \in Procs :
    ~At(p, "idle") ~> At(p, "idle") \/ At(p, "dead") \/ "stolen" \in tainted
=============================================================================
