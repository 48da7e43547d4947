------------------------ MODULE SemanticSourceProofs ------------------------
(***************************************************************************)
(* The store of semantic sources for any number of processes, files and     *)
(* attempts.  JobOK says what a process knows at each point; LockOK what    *)
(* lock and claims say of it, as long as no claim was taken from a live      *)
(* process; ReplayOK what a pending journal means to whoever replays it, as *)
(* long as none of the known gaps has been hit.                             *)
(***************************************************************************)
EXTENDS SemanticSource, TLAPS

Removing(p) == At(p, "claim") \/ At(p, "steal") \/ At(p, "remove") \/ At(p, "rename") \/ At(p, "discard")

Applying(p) ==
    \/ At(p, "acquire") \/ At(p, "publish") \/ At(p, "compare") \/ At(p, "journal")
    \/ (At(p, "look") \/ At(p, "replay")) /\ job[p].phase = "recover"

JobOK(p) ==
    /\ Applying(p) => job[p].plan \in Plans
    /\ Applying(p) \/ Holds(p) => tries[p] \in 1 .. MaxTries
    /\ Removing(p) => /\ job[p].target \in Tokens
                      /\ job[p].target = Token(p) \/ Abandoned(job[p].target)
                      /\ job[p].target # Token(p) =>
                           job[p].plan \in Plans /\ tries[p] \in 1 .. MaxTries
    /\ At(p, "replay") => /\ job[p].replay \in [by : Tokens, plan : Plans]
                          /\ job[p].todo \subseteq Touched(job[p].replay.plan)

StoreType ==
    /\ disk \in [Files -> Versions]
    /\ journal \in Journals
    /\ staged \in [Tokens -> SUBSET Files]
    /\ lock \in Locks
    /\ quarantine \in [Tokens -> Locks]
    /\ claim \in [Tokens -> Procs \cup {NoProc}]
    /\ tries \in [Procs -> 0 .. MaxTries]
    /\ failures \in 0 .. MaxFailures
    /\ tainted \subseteq {"stolen", "overlap", "dropped"}

JobInv == TypeOK /\ \A p \in Procs : JobOK(p)

------------------------------------------------------------------------------
LEMMA Names ==
  /\ None # Nameless /\ None \notin Tokens /\ Nameless \notin Tokens
  /\ \A t \in Tokens : t[1] \in Procs
  /\ \A p \in Procs : \A n : (<<p, n>>)[1] = p
  BY SourceAssumption DEF None, Nameless, Tokens

LEMMA JournalFields ==
  /\ NoJournal \in Journals /\ Touched(NoJournal.plan) = {}
  /\ Journals \subseteq [by : Tokens \cup {None}, plan : [Files -> {"write", "delete", "keep"}]]
  /\ \A j \in Journals : j # NoJournal => j \in [by : Tokens, plan : Plans]
  BY SourceAssumption DEF Journals, NoJournal, Touched

LEMMA IdleType == Idle \in Jobs
  BY JournalFields DEF Idle, Jobs, Initial, Versions, None, NoJournal

\* A step of p changes p's job to one of the right kind.
LEMMA JobStep ==
  ASSUME TypeOK, NEW p \in Procs, NEW r \in Jobs, job' = [job EXCEPT ![p] = r]
  PROVE  /\ job' \in [Procs -> Jobs]
         /\ job'[p] = r
         /\ \A q \in Procs : q # p => job'[q] = job[q]
  BY DEF TypeOK

\* What holds of the other processes is not disturbed by a step of p.
LEMMA OtherJobs ==
  ASSUME JobInv, NEW p \in Procs, ~At(p, "dead"), NEW r \in Jobs, job' = [job EXCEPT ![p] = r],
         \A q \in Procs : q # p => tries'[q] = tries[q]
  PROVE  \A q \in Procs : q # p => JobOK(q)'
  <1> SUFFICES ASSUME NEW q \in Procs, q # p PROVE JobOK(q)'
    OBVIOUS
  <1>1. job'[q] = job[q] /\ tries'[q] = tries[q] BY JobStep DEF JobInv
  <1>2. JobOK(q) BY DEF JobInv
  <1>3. ASSUME Abandoned(job[q].target) PROVE Abandoned(job[q].target)'
    <2>1. job[q].target[1] \in Procs /\ At(job[q].target[1], "dead") BY <1>3, Names DEF Abandoned
    <2>2. job'[job[q].target[1]] = job[job[q].target[1]] BY <2>1, JobStep DEF JobInv
    <2> QED BY <1>1, <1>3, <2>1, <2>2 DEF Abandoned, At
  <1>4. Removing(q) => /\ job[q].target \in Tokens
                       /\ job[q].target = Token(q) \/ Abandoned(job[q].target)'
    BY <1>2, <1>3 DEF JobOK
  <1> QED BY <1>1, <1>2, <1>4 DEF JobOK, Applying, Holds, Removing, At, Token

LEMMA JobAndStore ==
  ASSUME JobInv, NEW p \in Procs, ~At(p, "dead"), NEW r \in Jobs, job' = [job EXCEPT ![p] = r],
         \A q \in Procs : q # p => tries'[q] = tries[q],
         StoreType', JobOK(p)'
  PROVE  JobInv'
  <1>1. TypeOK' BY JobStep DEF JobInv, TypeOK, StoreType
  <1>2. \A q \in Procs : q # p => JobOK(q)' BY OtherJobs
  <1> QED BY <1>1, <1>2 DEF JobInv

\* A step that changes p's job only.
LEMMA JobChange ==
  ASSUME JobInv, NEW p \in Procs, ~At(p, "dead"), NEW r \in Jobs, job' = [job EXCEPT ![p] = r],
         UNCHANGED <<disk, journal, staged, lock, quarantine, claim, tries, failures, tainted>>,
         JobOK(p)'
  PROVE  JobInv'
  <1>1. TypeOK' BY JobStep DEF JobInv, TypeOK
  <1>2. \A q \in Procs : q # p => JobOK(q)' BY OtherJobs
  <1> QED BY <1>1, <1>2 DEF JobInv

LEMMA Loads ==
  ASSUME JobInv, NEW p \in Procs
  PROVE  /\ Begin(p) => JobInv'
         /\ Look(p) => JobInv'
         /\ Read(p) => JobInv'
         /\ Loaded(p) => JobInv'
  <1> USE DEF store, locking, counts
  <1>1. CASE Begin(p)
    <2> DEFINE r == [Idle EXCEPT !.pc = "look"]
    <2>1. r \in Jobs /\ r.pc = "look" /\ r.phase = "load" BY IdleType DEF Idle, Jobs
    <2>2. job' = [job EXCEPT ![p] = r] BY <1>1 DEF Begin, Again
    <2> HIDE DEF r
    <2>3. job'[p] = r BY <2>1, <2>2, JobStep DEF JobInv
    <2>4. JobOK(p)' BY <2>1, <2>3 DEF JobOK, Applying, Holds, Removing, At
    <2> QED BY <1>1, <2>1, <2>2, <2>4, JobChange DEF Begin, At
  <1>2. CASE Look(p)
    <2>1. CASE journal = NoJournal
      <3> DEFINE r == [job[p] EXCEPT !.pc = After(job[p].phase), !.replay = NoJournal,
                                     !.todo = IF job[p].phase = "load" THEN Files ELSE {}]
      <3>a. job[p] \in Jobs /\ NoJournal \in Journals BY JournalFields DEF JobInv, TypeOK
      <3>b. After(job[p].phase) \in {"read", "compare", "clean"} BY DEF After
      <3>1. r \in Jobs /\ r.pc = After(job[p].phase) /\ r.phase = job[p].phase /\ r.plan = job[p].plan
        BY <3>a, <3>b DEF Jobs
      <3>2. job' = [job EXCEPT ![p] = r] BY <1>2, <2>1 DEF Look, Recovered
      <3> HIDE DEF r
      <3>3. job'[p] = r BY <3>1, <3>2, JobStep DEF JobInv
      <3>4. JobOK(p)'
        BY <1>2, <3>1, <3>3 DEF JobInv, JobOK, Applying, Holds, Removing, At, Look, After
      <3> QED BY <1>2, <3>1, <3>2, <3>4, JobChange DEF Look, At
    <2>2. CASE journal # NoJournal
      <3> DEFINE r == [job[p] EXCEPT !.pc = "replay", !.replay = journal, !.todo = Touched(journal.plan)]
      <3>1. r \in Jobs /\ r.pc = "replay" /\ r.phase = job[p].phase /\ r.plan = job[p].plan
              /\ r.replay = journal /\ r.todo = Touched(journal.plan)
        <4>1. job[p] \in Jobs /\ journal \in Journals BY DEF JobInv, TypeOK
        <4>2. Touched(journal.plan) \in SUBSET Files BY DEF Touched
        <4> QED BY <4>1, <4>2 DEF Jobs
      <3>2. job' = [job EXCEPT ![p] = r] BY <1>2, <2>2 DEF Look
      <3> HIDE DEF r
      <3>3. job'[p] = r BY <3>1, <3>2, JobStep DEF JobInv
      <3>4. JobOK(p)'
        BY <1>2, <2>2, <3>1, <3>3, JournalFields
        DEF JobInv, TypeOK, JobOK, Applying, Holds, Removing, At, Look
      <3> QED BY <1>2, <3>1, <3>2, <3>4, JobChange DEF Look, At
    <2> QED BY <2>1, <2>2
  <1>3. CASE Read(p)
    <2> PICK f \in job[p].todo :
          /\ At(p, "read")
          /\ job' = [job EXCEPT ![p].seen[f] = disk[f], ![p].todo = @ \ {f}]
          /\ UNCHANGED <<store, locking, counts, tainted>>
      BY <1>3 DEF Read
    <2> DEFINE r == [job[p] EXCEPT !.seen[f] = disk[f], !.todo = @ \ {f}]
    <2>1. r \in Jobs /\ r.pc = "read"
      BY DEF JobInv, TypeOK, Jobs, At
    <2>2. job' = [job EXCEPT ![p] = r] BY DEF JobInv, TypeOK, Jobs
    <2> HIDE DEF r
    <2>3. job'[p] = r BY <2>1, <2>2, JobStep DEF JobInv
    <2>4. JobOK(p)' BY <2>1, <2>3 DEF JobOK, Applying, Holds, Removing, At
    <2> QED BY <2>1, <2>2, <2>4, JobChange DEF At
  <1>4. CASE Loaded(p)
    <2>2. job' = [job EXCEPT ![p] = Idle] BY <1>4 DEF Loaded, End
    <2>3. job'[p] = Idle BY <2>2, JobStep, IdleType DEF JobInv
    <2>4. JobOK(p)' BY <2>3 DEF JobOK, Applying, Holds, Removing, At, Idle
    <2> QED BY <1>4, <2>2, <2>4, JobChange, IdleType DEF Loaded, At
  <1> QED BY <1>1, <1>2, <1>3, <1>4

LEMMA Replays ==
  ASSUME JobInv, NEW p \in Procs
  PROVE  /\ Replay(p) => JobInv'
         /\ DropJournal(p) => JobInv'
  <1> USE DEF store, locking, counts
  <1>1. CASE Replay(p)
    <2> DEFINE j == job[p].replay
    <2> PICK f \in job[p].todo :
          /\ At(p, "replay")
          /\ disk' = [disk EXCEPT ![f] = Applied(j, f)]
          /\ staged' = [staged EXCEPT ![j.by] = @ \ {f}]
          /\ job' = [job EXCEPT ![p].todo = @ \ {f}]
          /\ UNCHANGED <<journal, locking, counts, tainted>>
      BY <1>1 DEF Replay
    <2> DEFINE r == [job[p] EXCEPT !.todo = job[p].todo \ {f}]
    <2>1. j \in [by : Tokens, plan : Plans] /\ job[p].todo \subseteq Touched(j.plan) /\ f \in Files
      BY DEF JobInv, JobOK, Touched
    <2>2. r \in Jobs /\ r.pc = "replay" /\ r.phase = job[p].phase /\ r.plan = job[p].plan
            /\ r.replay = j /\ r.todo = job[p].todo \ {f}
      <3>1. PICK q \in Jobs : q = job[p] BY DEF JobInv, TypeOK
      <3>2. PICK todo \in SUBSET Files : todo = job[p].todo \ {f}
        BY <3>1 DEF Jobs
      <3>3. /\ [q EXCEPT !.todo = todo] \in Jobs /\ [q EXCEPT !.todo = todo].pc = q.pc
            /\ [q EXCEPT !.todo = todo].phase = q.phase /\ [q EXCEPT !.todo = todo].plan = q.plan
            /\ [q EXCEPT !.todo = todo].replay = q.replay /\ [q EXCEPT !.todo = todo].todo = todo
        BY DEF Jobs
      <3>4. q.pc = "replay" BY <3>1 DEF At
      <3> QED BY <3>1, <3>2, <3>3, <3>4
    <2>3. job' = [job EXCEPT ![p] = r] BY DEF JobInv, TypeOK, Jobs
    <2>4. Applied(j, f) \in Versions BY <2>1 DEF Applied, Versions, JobInv, TypeOK
    <2>5. StoreType' BY <2>1, <2>4 DEF StoreType, JobInv, TypeOK
    <2> HIDE DEF r
    <2>6. job'[p] = r BY <2>2, <2>3, JobStep DEF JobInv
    <2> HIDE DEF j
    <2>7. JobOK(p)' BY <2>1, <2>2, <2>6 DEF JobInv, JobOK, Applying, Holds, Removing, At
    <2> QED BY <2>2, <2>3, <2>5, <2>7, JobAndStore DEF At
  <1>2. CASE DropJournal(p)
    <2> DEFINE r == [job[p] EXCEPT !.pc = After(job[p].phase), !.replay = NoJournal,
                                   !.todo = IF job[p].phase = "load" THEN Files ELSE {}]
    <2>a. job[p] \in Jobs /\ NoJournal \in Journals BY JournalFields DEF JobInv, TypeOK
    <2>b. After(job[p].phase) \in {"read", "compare", "clean"} BY DEF After
    <2>1. r \in Jobs /\ r.pc = After(job[p].phase) /\ r.phase = job[p].phase /\ r.plan = job[p].plan
      BY <2>a, <2>b DEF Jobs
    <2>2. job' = [job EXCEPT ![p] = r] BY <1>2 DEF DropJournal, Recovered
    <2> HIDE DEF r
    <2>3. job'[p] = r BY <2>1, <2>2, JobStep DEF JobInv
    <2>4. JobOK(p)'
      BY <1>2, <2>1, <2>3 DEF JobInv, JobOK, Applying, Holds, Removing, At, DropJournal, After
    <2>5. StoreType' BY <1>2, <2>a DEF StoreType, JobInv, TypeOK, DropJournal
    <2> QED BY <1>2, <2>1, <2>2, <2>4, <2>5, JobAndStore DEF DropJournal, At
  <1> QED BY <1>1, <1>2

LEMMA Waits ==
  ASSUME JobInv, NEW p \in Procs
  PROVE  /\ Apply(p) => JobInv'
         /\ MakeLock(p) => JobInv'
         /\ Publish(p) => JobInv'
         /\ PublishFails(p) => JobInv'
         /\ Observe(p) => JobInv'
         /\ Timeout(p) => JobInv'
  <1> USE DEF store, locking, counts
  <1>0. job[p] \in Jobs /\ JobOK(p) /\ Nameless \in Locks /\ None \in Locks
    BY DEF JobInv, TypeOK, Locks
  <1>a. ASSUME job' = [job EXCEPT ![p] = Idle] PROVE JobOK(p)'
    <2>1. job'[p] = Idle BY <1>a, JobStep, IdleType DEF JobInv
    <2> QED BY <2>1 DEF JobOK, Applying, Holds, Removing, At, Idle
  <1>b. ASSUME Again(p) PROVE \E r \in Jobs : job' = [job EXCEPT ![p] = r] /\ JobOK(p)'
    <2> DEFINE r == [Idle EXCEPT !.pc = "look"]
    <2>1. r \in Jobs /\ r.pc = "look" /\ r.phase = "load" BY IdleType DEF Idle, Jobs
    <2>2. job' = [job EXCEPT ![p] = r] BY <1>b DEF Again
    <2> HIDE DEF r
    <2>3. job'[p] = r BY <2>1, <2>2, JobStep DEF JobInv
    <2> QED BY <2>1, <2>2, <2>3 DEF JobOK, Applying, Holds, Removing, At
  <1>1. CASE Apply(p)
    <2> PICK plan \in Plans :
          /\ At(p, "read") /\ tries[p] < MaxTries
          /\ job' = [job EXCEPT ![p] = [@ EXCEPT !.pc = "acquire", !.plan = plan]]
          /\ tries' = [tries EXCEPT ![p] = @ + 1]
          /\ UNCHANGED <<store, locking, failures, tainted>>
      BY <1>1 DEF Apply
    <2> DEFINE r == [job[p] EXCEPT !.pc = "acquire", !.plan = plan]
    <2>1. r \in Jobs /\ r.pc = "acquire" /\ r.plan = plan BY <1>0 DEF Jobs
    <2>2. job' = [job EXCEPT ![p] = r] OBVIOUS
    <2> HIDE DEF r
    <2>3. job'[p] = r BY <2>1, <2>2, JobStep DEF JobInv
    <2>4. tries[p] \in 0 .. MaxTries /\ MaxTries \in Nat BY SourceAssumption DEF JobInv, TypeOK
    <2>5. tries'[p] \in 1 .. MaxTries /\ tries' \in [Procs -> 0 .. MaxTries]
      BY <2>4 DEF JobInv, TypeOK
    <2>6. StoreType' BY <2>5 DEF StoreType, JobInv, TypeOK
    <2>7. JobOK(p)' BY <2>1, <2>3, <2>5 DEF JobOK, Applying, Holds, Removing, At
    <2>8. \A q \in Procs : q # p => tries'[q] = tries[q] BY DEF JobInv, TypeOK
    <2> QED BY <2>1, <2>2, <2>6, <2>7, <2>8, JobAndStore DEF At
  <1>2. CASE MakeLock(p)
    <2> DEFINE r == [job[p] EXCEPT !.pc = "publish"]
    <2>1. r \in Jobs /\ r.pc = "publish" /\ r.plan = job[p].plan BY <1>0 DEF Jobs
    <2>2. job' = [job EXCEPT ![p] = r] BY <1>2, <1>0 DEF MakeLock, Go, JobInv, TypeOK
    <2> HIDE DEF r
    <2>3. job'[p] = r BY <2>1, <2>2, JobStep DEF JobInv
    <2>4. StoreType' BY <1>0, <1>2 DEF StoreType, JobInv, TypeOK, MakeLock
    <2>5. JobOK(p)' BY <1>0, <1>2, <2>1, <2>3 DEF MakeLock, JobOK, Applying, Holds, Removing, At
    <2> QED BY <1>2, <2>1, <2>2, <2>4, <2>5, JobAndStore DEF At, MakeLock
  <1>3. CASE Publish(p)
    <2>1. Token(p) \in Tokens BY <1>0, <1>3 DEF Publish, JobOK, Applying, Token, Tokens
    <2>2. StoreType' BY <2>1, <1>3 DEF Publish, StoreType, JobInv, TypeOK, Locks
    <2>3. CASE lock = None
      <3>1. job' = [job EXCEPT ![p] = Idle] BY <1>3, <2>3 DEF Publish, End
      <3> QED BY <1>3, <1>a, <2>2, <3>1, IdleType, JobAndStore DEF Publish, At
    <2>4. CASE lock # None
      <3> DEFINE r == [job[p] EXCEPT !.pc = "look", !.phase = "recover"]
      <3>1. r \in Jobs /\ r.pc = "look" /\ r.phase = "recover" /\ r.plan = job[p].plan BY <1>0 DEF Jobs
      <3>2. job' = [job EXCEPT ![p] = r] BY <1>3, <2>4 DEF Publish
      <3> HIDE DEF r
      <3>3. job'[p] = r BY <3>1, <3>2, JobStep DEF JobInv
      <3>4. JobOK(p)' BY <1>0, <1>3, <3>1, <3>3 DEF Publish, JobOK, Applying, Holds, Removing, At
      <3> QED BY <1>3, <2>2, <3>1, <3>2, <3>4, JobAndStore DEF Publish, At
    <2> QED BY <2>3, <2>4
  <1>4. CASE PublishFails(p)
    <2>1. failures' \in 0 .. MaxFailures
      BY <1>4, SourceAssumption DEF PublishFails, Fails, JobInv, TypeOK
    <2>2. StoreType' BY <1>0, <1>4, <2>1 DEF PublishFails, StoreType, JobInv, TypeOK
    <2>3. job' = [job EXCEPT ![p] = Idle] BY <1>4 DEF PublishFails, End
    <2> QED BY <1>4, <1>a, <2>2, <2>3, IdleType, JobAndStore DEF PublishFails, At
  <1>5. CASE Observe(p)
    <2> DEFINE r == [job[p] EXCEPT !.pc = "claim", !.target = lock]
    <2>0. lock \in Tokens BY <1>5 DEF Observe, Abandoned
    <2>1. r \in Jobs /\ r.pc = "claim" /\ r.target = lock /\ r.plan = job[p].plan BY <1>0, <2>0 DEF Jobs
    <2>2. job' = [job EXCEPT ![p] = r] BY <1>5 DEF Observe
    <2> HIDE DEF r
    <2>3. job'[p] = r BY <2>1, <2>2, JobStep DEF JobInv
    <2>4. lock[1] \in Procs /\ lock[1] # p /\ At(lock[1], "dead")
      BY <1>5, <2>0, Names DEF Observe, Abandoned, At
    <2>5. Abandoned(lock)' BY <1>5, <2>0, <2>1, <2>2, <2>4, JobStep DEF Observe, Abandoned, At, JobInv
    <2>6. JobOK(p)' BY <1>0, <1>5, <2>0, <2>1, <2>3, <2>5 DEF Observe, JobOK, Applying, Holds, Removing, At
    <2> QED BY <1>5, <2>1, <2>2, <2>6, JobChange DEF Observe, At
  <1>6. CASE Timeout(p)
    <2>1. \E r \in Jobs : job' = [job EXCEPT ![p] = r] /\ JobOK(p)'
      BY <1>6, <1>a, <1>b, IdleType DEF Timeout, End
    <2> QED BY <1>6, <2>1, JobChange DEF Timeout, At
  <1> QED BY <1>1, <1>2, <1>3, <1>4, <1>5, <1>6

\* Where a process goes once it is done with a lock.
LEMMA BackTo ==
  ASSUME JobInv, NEW p \in Procs, Removing(p), Back(p)
  PROVE  \E r \in Jobs : /\ job' = [job EXCEPT ![p] = r]
                         /\ r.pc \in {"idle", "look", "acquire"} /\ (r.pc = "look" => r.phase = "load")
                         /\ tries' = tries => JobOK(p)'
  <1>0. job[p] \in Jobs /\ JobOK(p) BY DEF JobInv, TypeOK
  <1>1. CASE job[p].target # Token(p)
    <2> DEFINE r == [job[p] EXCEPT !.pc = "acquire", !.target = None]
    <2>1. r \in Jobs /\ r.pc = "acquire" /\ r.plan = job[p].plan BY <1>0 DEF Jobs
    <2>2. job' = [job EXCEPT ![p] = r] BY <1>1 DEF Back
    <2> HIDE DEF r
    <2>3. job'[p] = r BY <2>1, <2>2, JobStep DEF JobInv
    <2>4. tries' = tries => JobOK(p)'
      BY <1>0, <1>1, <2>1, <2>3 DEF JobOK, Applying, Holds, Removing, At
    <2> QED BY <2>1, <2>2, <2>4
  <1>2. CASE job' = [job EXCEPT ![p] = Idle]
    <2>1. job'[p] = Idle BY <1>2, JobStep, IdleType DEF JobInv
    <2>2. JobOK(p)' BY <2>1 DEF JobOK, Applying, Holds, Removing, At, Idle
    <2> QED BY <1>2, <2>2, IdleType DEF Idle
  <1>3. CASE job' = [job EXCEPT ![p] = [Idle EXCEPT !.pc = "look"]]
    <2> DEFINE r == [Idle EXCEPT !.pc = "look"]
    <2>1. r \in Jobs /\ r.pc = "look" /\ r.phase = "load" BY IdleType DEF Idle, Jobs
    <2>2. job' = [job EXCEPT ![p] = r] BY <1>3
    <2> HIDE DEF r
    <2>3. job'[p] = r BY <2>1, <2>2, JobStep DEF JobInv
    <2>4. JobOK(p)' BY <2>1, <2>3 DEF JobOK, Applying, Holds, Removing, At
    <2> QED BY <2>1, <2>2, <2>4
  <1> QED BY <1>1, <1>2, <1>3 DEF Back, End, Again

\* Moving on within the removal.
LEMMA GoOn ==
  ASSUME JobInv, NEW p \in Procs, Removing(p), NEW pc \in {"claim", "steal", "remove", "rename", "discard"},
         Go(p, pc)
  PROVE  \E r \in Jobs : /\ job' = [job EXCEPT ![p] = r]
                         /\ r.pc = pc /\ r.target = job[p].target
                         /\ tries' = tries => JobOK(p)'
  <1>0. job[p] \in Jobs /\ JobOK(p) BY DEF JobInv, TypeOK
  <1> DEFINE r == [job[p] EXCEPT !.pc = pc]
  <1>1. r \in Jobs /\ r.pc = pc /\ r.plan = job[p].plan /\ r.target = job[p].target BY <1>0 DEF Jobs
  <1>2. job' = [job EXCEPT ![p] = r] BY <1>0 DEF Go, JobInv, TypeOK
  <1> HIDE DEF r
  <1>3. job'[p] = r BY <1>1, <1>2, JobStep DEF JobInv
  <1>4. ASSUME NEW t, Abandoned(t) PROVE t \in Tokens /\ job'[t[1]].pc = "dead"
    <2>1. t[1] \in Procs /\ t[1] # p
      BY <1>4, Names DEF Abandoned, At, Removing
    <2> QED BY <1>4, <1>1, <1>2, <2>1, JobStep DEF Abandoned, At, JobInv
  <1>5. ASSUME tries' = tries PROVE JobOK(p)'
    <2>1. job'[p].target = job[p].target /\ job'[p].plan = job[p].plan /\ job'[p].pc = pc
      BY <1>1, <1>3
    <2>2. Abandoned(job[p].target) =>
            job'[p].target \in Tokens /\ job'[job'[p].target[1]].pc = "dead"
      BY <1>4, <2>1
    <2> QED BY <1>0, <1>5, <2>1, <2>2 DEF JobOK, Applying, Holds, Removing, At, Token, Abandoned
  <1> QED BY <1>1, <1>2, <1>5

LEMMA Removals ==
  ASSUME JobInv, NEW p \in Procs
  PROVE  /\ Claim(p) => JobInv'
         /\ Steal(p) => JobInv'
         /\ Remove(p) => JobInv'
         /\ Rename(p) => JobInv'
         /\ Discard(p) => JobInv'
  <1> USE DEF store, locking, counts
  <1> DEFINE t == job[p].target
  <1> DEFINE Moves == \E r \in Jobs : job' = [job EXCEPT ![p] = r] /\ (tries' = tries => JobOK(p)')
  <1>0. Removing(p) => t \in Tokens /\ ~At(p, "dead") BY DEF JobInv, JobOK, Removing, At
  <1>a. ASSUME Removing(p), Gone(p)
        PROVE  Moves /\ quarantine' \in [Tokens -> Locks] /\ claim' \in [Tokens -> Procs \cup {NoProc}]
    <2>1. Moves BY <1>a, BackTo DEF Gone
    <2> QED BY <1>a, <1>0, <2>1 DEF Gone, JobInv, TypeOK, Locks
  <1> HIDE DEF Moves
  <1>b. Removing(p) /\ Back(p) => Moves BY BackTo DEF Moves
  <1>c. \A pc \in {"claim", "steal", "remove", "rename", "discard"} : Removing(p) /\ Go(p, pc) => Moves
    BY GoOn DEF Moves
  <1>d. ASSUME Removing(p), Moves, StoreType', tries' = tries PROVE JobInv'
    BY <1>d, <1>0, JobAndStore DEF Moves
  <1>1. CASE Claim(p)
    <2>1. Removing(p) /\ Moves BY <1>1, <1>b, <1>c DEF Claim, Removing
    <2>2. StoreType' BY <1>0, <1>1, <2>1 DEF Claim, StoreType, JobInv, TypeOK
    <2> QED BY <1>1, <1>d, <2>1, <2>2 DEF Claim
  <1>2. CASE Steal(p)
    <2>1. Removing(p) /\ Moves BY <1>2, <1>c DEF Steal, Removing
    <2>2. StoreType' BY <1>0, <1>2, <2>1 DEF Steal, StoreType, JobInv, TypeOK
    <2> QED BY <1>2, <1>d, <2>1, <2>2 DEF Steal
  <1>3. CASE Remove(p)
    <2>1. Removing(p) BY <1>3 DEF Remove, Removing
    <2>2. Moves /\ quarantine' \in [Tokens -> Locks] /\ claim' \in [Tokens -> Procs \cup {NoProc}]
      BY <1>3, <1>a, <1>c, <2>1 DEF Remove, JobInv, TypeOK
    <2>3. StoreType' BY <1>3, <2>2 DEF Remove, StoreType, JobInv, TypeOK
    <2> QED BY <1>3, <1>d, <2>1, <2>2, <2>3 DEF Remove
  <1>4. CASE Rename(p)
    <2>1. Removing(p) BY <1>4 DEF Rename, Removing
    <2>2. Moves /\ quarantine' \in [Tokens -> Locks] /\ claim' \in [Tokens -> Procs \cup {NoProc}]
            /\ lock' \in Locks
      BY <1>0, <1>4, <1>a, <1>b, <1>c, <2>1 DEF Rename, JobInv, TypeOK, Locks
    <2>3. StoreType' BY <1>4, <2>2 DEF Rename, StoreType, JobInv, TypeOK
    <2> QED BY <1>4, <1>d, <2>1, <2>2, <2>3 DEF Rename
  <1>5. CASE Discard(p)
    <2>1. Removing(p) BY <1>5 DEF Discard, Removing
    <2>2. Moves /\ quarantine' \in [Tokens -> Locks] /\ claim' \in [Tokens -> Procs \cup {NoProc}]
      BY <1>5, <1>a, <1>b, <2>1 DEF Discard, JobInv, TypeOK
    <2>3. StoreType' BY <1>5, <2>2 DEF Discard, StoreType, JobInv, TypeOK
    <2> QED BY <1>5, <1>d, <2>1, <2>2, <2>3 DEF Discard
  <1> QED BY <1>1, <1>2, <1>3, <1>4, <1>5

\* An owner lets go of the lock.
LEMMA Releases ==
  ASSUME JobInv, NEW p \in Procs, Holds(p), NEW then \in {"end", "retry"}, Release(p, then)
  PROVE  \E r \in Jobs : /\ job' = [job EXCEPT ![p] = r]
                         /\ r.pc = "claim" /\ r.target = Token(p)
                         /\ tries' = tries => JobOK(p)'
  <1> DEFINE r == [Idle EXCEPT !.pc = "claim", !.target = Token(p), !.then = then]
  <1>1. JobOK(p) /\ Token(p) \in Tokens BY DEF JobInv, JobOK, Token, Tokens
  <1>2. r \in Jobs /\ r.pc = "claim" /\ r.target = Token(p) BY <1>1, IdleType DEF Idle, Jobs
  <1>3. job' = [job EXCEPT ![p] = r] BY DEF Release
  <1> HIDE DEF r
  <1>4. job'[p] = r BY <1>2, <1>3, JobStep DEF JobInv
  <1>5. tries' = tries => JobOK(p)' BY <1>1, <1>2, <1>4 DEF JobOK, Applying, Holds, Removing, At, Token
  <1> QED BY <1>2, <1>3, <1>5

LEMMA Commits ==
  ASSUME JobInv, NEW p \in Procs
  PROVE  /\ Compare(p) => JobInv'
         /\ WriteJournal(p) => JobInv'
         /\ Clean(p) => JobInv'
         /\ WriteFails(p) => JobInv'
         /\ Crash(p) => JobInv'
  <1> USE DEF store, locking, counts
  <1> DEFINE Moves == \E r \in Jobs : job' = [job EXCEPT ![p] = r] /\ (tries' = tries => JobOK(p)')
  <1>0. job[p] \in Jobs /\ JobOK(p) BY DEF JobInv, TypeOK
  <1>a. ASSUME Holds(p), NEW pc \in {"journal", "clean"}, Go(p, pc), pc = "journal" => Applying(p)
        PROVE  Moves
    <2> DEFINE r == [job[p] EXCEPT !.pc = pc]
    <2>1. r \in Jobs /\ r.pc = pc /\ r.plan = job[p].plan BY <1>0 DEF Jobs
    <2>2. job' = [job EXCEPT ![p] = r] BY <1>a DEF Go, JobInv, TypeOK
    <2> HIDE DEF r
    <2>3. job'[p] = r BY <2>1, <2>2, JobStep DEF JobInv
    <2>4. tries' = tries => JobOK(p)'
      BY <1>0, <1>a, <2>1, <2>3 DEF JobOK, Applying, Holds, Removing, At
    <2> QED BY <2>1, <2>2, <2>4
  <1>b. ASSUME End(p) PROVE Moves
    <2>1. job'[p] = Idle /\ job' = [job EXCEPT ![p] = Idle] BY <1>b, JobStep, IdleType DEF JobInv, End
    <2>2. JobOK(p)' BY <2>1 DEF JobOK, Applying, Holds, Removing, At, Idle
    <2> QED BY <2>1, <2>2, IdleType
  <1>c. Holds(p) /\ (Release(p, "end") \/ Release(p, "retry")) => Moves BY Releases
  <1> HIDE DEF Moves
  <1>d. ASSUME ~At(p, "dead"), Moves, StoreType', tries' = tries PROVE JobInv'
    BY <1>d, JobAndStore DEF Moves
  <1>e. Fails => failures' \in 0 .. MaxFailures BY SourceAssumption DEF Fails, JobInv, TypeOK
  <1>1. CASE Compare(p)
    <2>1. Moves BY <1>1, <1>a, <1>c DEF Compare, Holds, Applying, At
    <2>2. StoreType' BY <1>1 DEF Compare, StoreType, JobInv, TypeOK
    <2> QED BY <1>1, <1>d, <2>1, <2>2 DEF Compare, At
  <1>2. CASE WriteJournal(p)
    <2> DEFINE j == [by |-> Token(p), plan |-> job[p].plan]
    <2> DEFINE r == [job[p] EXCEPT !.pc = "replay", !.phase = "commit", !.replay = j,
                                   !.todo = Touched(j.plan)]
    <2>1. Token(p) \in Tokens /\ job[p].plan \in Plans
      BY <1>0, <1>2 DEF WriteJournal, JobOK, Holds, Applying, At, Token, Tokens
    <2>2. j \in [by : Tokens, plan : Plans] /\ j \in Journals BY <2>1 DEF Journals
    <2>3. Touched(j.plan) \in SUBSET Files /\ {f \in Files : j.plan[f] = "write"} \in SUBSET Files
      BY DEF Touched
    <2>4. job' = [job EXCEPT ![p] = r] BY <1>2 DEF WriteJournal
    <2>5. StoreType' BY <1>2, <2>1, <2>2, <2>3 DEF WriteJournal, StoreType, JobInv, TypeOK
    <2> HIDE DEF j
    <2>6. r \in Jobs /\ r.pc = "replay" /\ r.phase = "commit" /\ r.replay = j /\ r.todo = Touched(j.plan)
      BY <1>0, <2>2, <2>3 DEF Jobs
    <2> HIDE DEF r
    <2>7. job'[p] = r BY <2>4, <2>6, JobStep DEF JobInv
    <2>8. tries' = tries BY <1>2 DEF WriteJournal
    <2>9. JobOK(p)'
      BY <1>0, <1>2, <2>2, <2>6, <2>7, <2>8 DEF WriteJournal, JobOK, Applying, Holds, Removing, At
    <2> QED BY <1>2, <2>4, <2>5, <2>6, <2>8, <2>9, JobAndStore DEF WriteJournal, At
  <1>3. CASE Clean(p)
    <2>1. Holds(p) BY <1>3 DEF Clean, Holds
    <2>2. StoreType' BY <1>3 DEF Clean, StoreType, JobInv, TypeOK
    <2> QED BY <1>3, <1>c, <1>d, <2>1, <2>2 DEF Clean, At
  <1>4. CASE WriteFails(p)
    <2>1. Moves BY <1>4, <1>a, <1>b, <1>c DEF WriteFails, Holds, At
    <2>2. StoreType' BY <1>4, <1>e DEF WriteFails, StoreType, JobInv, TypeOK
    <2> QED BY <1>4, <1>d, <2>1, <2>2 DEF WriteFails, At
  <1>5. CASE Crash(p)
    <2> DEFINE r == [Idle EXCEPT !.pc = "dead"]
    <2>1. r \in Jobs /\ r.pc = "dead" BY IdleType DEF Idle, Jobs
    <2>2. job' = [job EXCEPT ![p] = r] BY <1>5 DEF Crash
    <2> HIDE DEF r
    <2>3. job'[p] = r BY <2>1, <2>2, JobStep DEF JobInv
    <2>4. JobOK(p)' BY <2>1, <2>3 DEF JobOK, Applying, Holds, Removing, At
    <2>5. StoreType' BY <1>5, <1>e DEF Crash, StoreType, JobInv, TypeOK
    <2> QED BY <1>5, <2>1, <2>2, <2>4, <2>5, JobAndStore DEF Crash
  <1> QED BY <1>1, <1>2, <1>3, <1>4, <1>5

LEMMA JobInitially == Init => JobInv
  <1> SUFFICES ASSUME Init PROVE JobInv
    OBVIOUS
  <1>1. TypeOK
    BY IdleType, JournalFields, SourceAssumption
    DEF Init, TypeOK, Initial, Versions, Locks
  <1>2. ASSUME NEW p \in Procs PROVE JobOK(p)
    BY DEF Init, JobOK, Applying, Holds, Removing, At, Idle
  <1> QED BY <1>1, <1>2 DEF JobInv

LEMMA JobKept == JobInv /\ [Next]_vars => JobInv'
  <1> SUFFICES ASSUME JobInv, [Next]_vars PROVE JobInv'
    OBVIOUS
  <1>1. CASE UNCHANGED vars
    BY <1>1 DEF vars, store, locking, counts, JobInv, TypeOK, JobOK, Applying, Holds, Removing, At,
                Token, Abandoned
  <1>2. ASSUME NEW p \in Procs,
               Begin(p) \/ Step(p) \/ PublishFails(p) \/ WriteFails(p) \/ Crash(p)
        PROVE  JobInv'
    BY <1>2, Loads, Replays, Waits, Removals, Commits DEF Step
  <1> QED BY <1>1, <1>2 DEF Next

\* Lock, claims, journal and jobs keep their kinds, whatever dies or fails.
THEOREM TypeCorrect == Spec => []TypeOK
  <1>1. JobInv => TypeOK BY DEF JobInv
  <1> QED BY <1>1, JobInitially, JobKept, PTL DEF Spec

------------------------------------------------------------------------------
(* Mutual exclusion.                                                        *)

Exclusive(p) == At(p, "remove") \/ At(p, "rename") \/ At(p, "discard")

LockOK(p) ==
    /\ Holds(p) => lock = Token(p)
    /\ At(p, "publish") => lock = Nameless
    /\ Exclusive(p) => claim[job[p].target] = p
    /\ At(p, "rename") => lock = job[p].target

OnePublisher == \A p, q \in Procs : At(p, "publish") /\ At(q, "publish") => p = q

Locked == (\A p \in Procs : LockOK(p)) /\ OnePublisher

LockInv == "stolen" \in tainted \/ Locked

\* How a step of p may change the lock and the claims.
MayLock(p) ==
    \/ lock' = lock
    \/ lock = None
    \/ lock = Nameless /\ At(p, "publish")
    \/ lock = job[p].target /\ At(p, "rename")

MayClaim(p) ==
    \/ claim' = claim
    \/ \E t \in Tokens, x \in {p, NoProc} :
         /\ claim' = [claim EXCEPT ![t] = x]
         /\ claim[t] \in {p, NoProc} \/ At(claim[t], "dead")

\* Neither disturbs the other processes.
LEMMA LockOthers ==
  ASSUME JobInv, Locked, NEW p \in Procs, NEW q \in Procs, p # q,
         job'[q] = job[q], tries'[q] = tries[q], MayLock(p), MayClaim(p)
  PROVE  LockOK(q)'
  <1>0. JobOK(p) /\ JobOK(q) /\ LockOK(p) /\ LockOK(q) BY DEF JobInv, Locked
  <1>1. Holds(q) => Token(q) \in Tokens BY <1>0 DEF JobOK, Token, Tokens
  <1>2. Exclusive(q) => job[q].target \in Tokens BY <1>0 DEF JobOK, Removing, Exclusive
  <1>3. At(p, "rename") => /\ job[p].target \in Tokens
                           /\ job[p].target = Token(p) \/ At(job[p].target[1], "dead")
                           /\ claim[job[p].target] = p
    BY <1>0 DEF JobOK, Removing, Abandoned, LockOK, Exclusive
  <1>4. ASSUME Holds(q) PROVE lock' = Token(q)
    <2>1. lock = Token(q) /\ lock # None /\ lock # Nameless BY <1>0, <1>1, <1>4, Names DEF LockOK
    <2>2. Token(q) # Token(p) /\ Token(q)[1] = q BY DEF Token
    <2>3. ~At(q, "dead") BY <1>4 DEF Holds, At
    <2>4. ~(lock = job[p].target /\ At(p, "rename")) BY <1>3, <2>1, <2>2, <2>3
    <2> QED BY <2>1, <2>4 DEF MayLock
  <1>5. ASSUME At(q, "publish") PROVE lock' = Nameless
    <2>1. lock = Nameless /\ ~At(p, "publish") BY <1>0, <1>5 DEF LockOK, Locked, OnePublisher
    <2> QED BY <1>3, <2>1, Names DEF MayLock
  <1>6. ASSUME Exclusive(q) PROVE claim'[job[q].target] = q
    <2>1. claim[job[q].target] = q /\ ~At(q, "dead") BY <1>0, <1>6 DEF LockOK, Exclusive, At
    <2>2. claim \in [Tokens -> Procs \cup {NoProc}] /\ NoProc # q
      BY SourceAssumption DEF JobInv, TypeOK
    <2> QED BY <1>2, <1>6, <2>1, <2>2 DEF MayClaim
  <1>7. ASSUME At(q, "rename") PROVE lock' = job[q].target
    <2>1. lock = job[q].target /\ lock \in Tokens /\ claim[lock] = q
      BY <1>0, <1>2, <1>7 DEF LockOK, Exclusive
    <2> QED BY <1>3, <2>1, Names DEF MayLock
  <1>8. Token(q)' = Token(q) BY DEF Token
  <1> QED BY <1>4, <1>5, <1>6, <1>7, <1>8 DEF LockOK, Holds, Exclusive, At

\* A step of p is one: no other process's job or attempts change.
Alone(p) == \A q \in Procs : q # p => job'[q] = job[q] /\ tries'[q] = tries[q]

LEMMA Aloneness ==
  ASSUME JobInv, NEW p \in Procs,
         Begin(p) \/ Step(p) \/ PublishFails(p) \/ WriteFails(p) \/ Crash(p)
  PROVE  Alone(p)
  <1>0. job \in [Procs -> Jobs] /\ tries \in [Procs -> 0 .. MaxTries] BY DEF JobInv, TypeOK
  <1> USE DEF counts, Alone
  <1>1. CASE Begin(p) BY <1>0, <1>1 DEF Begin, Again
  <1>2. CASE Look(p) \/ DropJournal(p) BY <1>0, <1>2 DEF Look, DropJournal, Recovered
  <1>3. CASE Replay(p) \/ Read(p) BY <1>0, <1>3 DEF Replay, Read
  <1>4. CASE Loaded(p) \/ Apply(p) BY <1>0, <1>4 DEF Loaded, Apply, End
  <1>5. CASE MakeLock(p) \/ Observe(p) BY <1>0, <1>5 DEF MakeLock, Observe, Go
  <1>6. CASE Publish(p) \/ PublishFails(p) BY <1>0, <1>6 DEF Publish, PublishFails, End
  <1>7. CASE Timeout(p) BY <1>0, <1>7 DEF Timeout, Again, End
  <1>8. CASE Claim(p) \/ Steal(p) BY <1>0, <1>8 DEF Claim, Steal, Go, Back, End, Again
  <1>9. CASE Remove(p) \/ Rename(p) \/ Discard(p)
    BY <1>0, <1>9 DEF Remove, Rename, Discard, Gone, Go, Back, End, Again
  <1>10. CASE Compare(p) \/ Clean(p) BY <1>0, <1>10 DEF Compare, Clean, Go, Release
  <1>11. CASE WriteJournal(p) BY <1>0, <1>11 DEF WriteJournal
  <1>12. CASE WriteFails(p) BY <1>0, <1>12 DEF WriteFails, Go, Release, End
  <1>13. CASE Crash(p) BY <1>0, <1>13 DEF Crash
  <1> QED BY <1>1, <1>2, <1>3, <1>4, <1>5, <1>6, <1>7, <1>8, <1>9, <1>10, <1>11, <1>12, <1>13 DEF Step

LEMMA LockStep ==
  ASSUME JobInv, Locked, NEW p \in Procs, Alone(p),
         MayLock(p), MayClaim(p), LockOK(p)', At(p, "publish")' => lock = None
  PROVE  Locked'
  <1>1. \A q \in Procs : LockOK(q)' BY LockOthers DEF Alone
  <1>2. lock = None => \A q \in Procs : ~At(q, "publish") BY Names DEF Locked, LockOK
  <1>3. OnePublisher' BY <1>2 DEF Alone, OnePublisher, At, Locked
  <1> QED BY <1>1, <1>3 DEF Locked

\* Where a job may go when its process neither takes nor breaks a lock.
LEMMA Elsewhere ==
  ASSUME NEW p \in Procs,
         \/ job'[p].pc \in {"idle", "read", "acquire", "claim", "steal", "dead"}
         \/ job'[p].pc \in {"look", "replay"} /\ job'[p].phase = "load"
  PROVE  LockOK(p)' /\ ~At(p, "publish")'
  BY DEF LockOK, Holds, Exclusive, At

\* Where loading leads.
LEMMA LoadsTo ==
  ASSUME JobInv, NEW p \in Procs
  PROVE  /\ Recovered(p) => /\ job'[p].pc = After(job[p].phase) /\ job'[p].phase = job[p].phase
                            /\ job'[p].seen = job[p].seen /\ job'[p].plan = job[p].plan
         /\ Look(p) /\ journal # NoJournal =>
              /\ job'[p].pc = "replay" /\ job'[p].phase = job[p].phase
              /\ job'[p].seen = job[p].seen /\ job'[p].plan = job[p].plan
              /\ job'[p].replay = journal /\ job'[p].todo = Touched(journal.plan)
         /\ Replay(p) => \E f \in job[p].todo :
              /\ job'[p].pc = "replay" /\ job'[p].phase = job[p].phase
              /\ job'[p].seen = job[p].seen /\ job'[p].plan = job[p].plan
              /\ job'[p].replay = job[p].replay /\ job'[p].todo = job[p].todo \ {f}
              /\ disk' = [disk EXCEPT ![f] = Applied(job[p].replay, f)]
              /\ staged' = [staged EXCEPT ![job[p].replay.by] = @ \ {f}]
  <1>0. job \in [Procs -> Jobs] /\ job[p] \in Jobs BY DEF JobInv, TypeOK
  <1>1. ASSUME Recovered(p)
        PROVE  /\ job'[p].pc = After(job[p].phase) /\ job'[p].phase = job[p].phase
               /\ job'[p].seen = job[p].seen /\ job'[p].plan = job[p].plan
    BY <1>0, <1>1 DEF Recovered, Jobs
  <1>2. ASSUME Look(p), journal # NoJournal
        PROVE  /\ job'[p].pc = "replay" /\ job'[p].phase = job[p].phase
               /\ job'[p].seen = job[p].seen /\ job'[p].plan = job[p].plan
               /\ job'[p].replay = journal /\ job'[p].todo = Touched(journal.plan)
    <2>1. job' = [job EXCEPT ![p] = [job[p] EXCEPT !.pc = "replay", !.replay = journal,
                                                  !.todo = Touched(journal.plan)]]
      BY <1>2 DEF Look
    <2>2. job'[p] = [job[p] EXCEPT !.pc = "replay", !.replay = journal,
                                  !.todo = Touched(journal.plan)]
      BY <1>0, <2>1
    <2> QED BY <1>0, <2>2 DEF Jobs
  <1>3. ASSUME Replay(p)
        PROVE  \E f \in job[p].todo :
                 /\ job'[p].pc = "replay" /\ job'[p].phase = job[p].phase
                 /\ job'[p].seen = job[p].seen /\ job'[p].plan = job[p].plan
                 /\ job'[p].replay = job[p].replay /\ job'[p].todo = job[p].todo \ {f}
                 /\ disk' = [disk EXCEPT ![f] = Applied(job[p].replay, f)]
                 /\ staged' = [staged EXCEPT ![job[p].replay.by] = @ \ {f}]
    <2> PICK f \in job[p].todo :
          /\ At(p, "replay")
          /\ disk' = [disk EXCEPT ![f] = Applied(job[p].replay, f)]
          /\ staged' = [staged EXCEPT ![job[p].replay.by] = @ \ {f}]
          /\ job' = [job EXCEPT ![p].todo = @ \ {f}]
      BY <1>3 DEF Replay
    <2>1. job'[p] = [job[p] EXCEPT !.todo = job[p].todo \ {f}] BY <1>0
    <2>2. /\ job'[p].pc = "replay" /\ job'[p].phase = job[p].phase
          /\ job'[p].seen = job[p].seen /\ job'[p].plan = job[p].plan
          /\ job'[p].replay = job[p].replay /\ job'[p].todo = job[p].todo \ {f}
      BY <1>0, <2>1 DEF Jobs, At
    <2> QED BY <2>2
  <1> QED BY <1>1, <1>2, <1>3

LEMMA LoadsLocked ==
  ASSUME JobInv, Locked, NEW p \in Procs, Alone(p),
         Begin(p) \/ Look(p) \/ Replay(p) \/ DropJournal(p) \/ Read(p) \/ Loaded(p)
  PROVE  Locked'
  <1>0. job[p] \in Jobs /\ JobOK(p) /\ LockOK(p) /\ job \in [Procs -> Jobs]
    BY DEF JobInv, Locked, TypeOK
  <1> USE DEF store, locking, counts
  <1>1. lock' = lock /\ claim' = claim /\ tries' = tries
    BY DEF Begin, Look, Replay, DropJournal, Read, Loaded
  <1>2. MayLock(p) /\ MayClaim(p) BY <1>1 DEF MayLock, MayClaim
  <1>3. CASE job[p].phase # "load" /\ (Look(p) \/ Replay(p) \/ DropJournal(p))
    <2>1. Holds(p) BY <1>3 DEF Look, Replay, DropJournal, Holds, At
    <2>2. /\ job'[p].pc \in {"replay", "compare", "clean"}
      BY <1>3, LoadsTo DEF Look, DropJournal, After
    <2>3. LockOK(p)' /\ ~At(p, "publish")' BY <1>0, <1>1, <2>1, <2>2 DEF LockOK, Exclusive, At, Token
    <2> QED BY <1>2, <2>3, LockStep
  <1>4. CASE job[p].phase = "load" /\ (Look(p) \/ Replay(p) \/ DropJournal(p))
    <2>1. job'[p].pc \in {"replay", "read"} /\ job'[p].phase = "load"
      BY <1>4, LoadsTo DEF Look, DropJournal, After
    <2> QED BY <1>2, <2>1, Elsewhere, LockStep
  <1>5. CASE Begin(p) \/ Read(p) \/ Loaded(p)
    <2>1. Read(p) => job'[p].pc = "read" BY <1>0 DEF Read, Jobs, At
    <2>2. Begin(p) => job'[p].pc = "look" /\ job'[p].phase = "load"
      BY <1>0 DEF Begin, Again, Idle
    <2>3. Loaded(p) => job'[p].pc = "idle" BY <1>0 DEF Loaded, End, Idle
    <2>4. CASE Read(p) BY <1>2, <2>1, <2>4, Elsewhere, LockStep
    <2>5. CASE Begin(p) BY <1>2, <2>2, <2>5, Elsewhere, LockStep
    <2>6. CASE Loaded(p) BY <1>2, <2>3, <2>6, Elsewhere, LockStep
    <2> QED BY <1>5, <2>4, <2>5, <2>6
  <1> QED BY <1>3, <1>4, <1>5

LEMMA WaitsLocked ==
  ASSUME JobInv, Locked, NEW p \in Procs, Alone(p),
         Apply(p) \/ MakeLock(p) \/ Publish(p) \/ PublishFails(p) \/ Observe(p) \/ Timeout(p)
  PROVE  Locked'
  <1>0. job[p] \in Jobs /\ LockOK(p) /\ job \in [Procs -> Jobs] /\ lock \in Locks
    BY DEF JobInv, Locked, TypeOK
  <1> USE DEF store, locking, counts
  <1>1. claim' = claim /\ MayClaim(p)
    BY DEF Apply, MakeLock, Publish, PublishFails, Observe, Timeout, MayClaim
  <1>2. CASE Apply(p)
    <2> PICK plan \in Plans : job' = [job EXCEPT ![p] = [@ EXCEPT !.pc = "acquire", !.plan = plan]]
      BY <1>2 DEF Apply
    <2>0. job'[p] = [job[p] EXCEPT !.pc = "acquire", !.plan = plan] BY <1>0
    <2>1. job'[p].pc = "acquire" /\ lock' = lock BY <1>0, <1>2, <2>0 DEF Apply, Jobs
    <2> QED BY <1>1, <2>1, Elsewhere, LockStep DEF MayLock
  <1>3. CASE MakeLock(p)
    <2>1. job'[p].pc = "publish" /\ lock = None /\ lock' = Nameless BY <1>0, <1>3 DEF MakeLock, Go, Jobs
    <2>2. LockOK(p)' BY <2>1 DEF LockOK, Holds, Exclusive, At
    <2> QED BY <1>1, <2>1, <2>2, LockStep DEF MayLock
  <1>4. CASE Publish(p)
    <2>1. At(p, "publish") /\ lock = Nameless BY <1>0, <1>4 DEF Publish, LockOK
    <2>2. /\ job'[p].pc = "look" /\ job'[p].phase = "recover"
          /\ lock' = Token(p) /\ tries' = tries
      <3>1. /\ lock' = Token(p) /\ tries' = tries
            /\ job' = [job EXCEPT ![p] = [job[p] EXCEPT !.pc = "look", !.phase = "recover"]]
        BY <1>4, <2>1, Names DEF Publish
      <3>2. job'[p] = [job[p] EXCEPT !.pc = "look", !.phase = "recover"] BY <1>0, <3>1
      <3> QED BY <1>0, <3>1, <3>2 DEF Jobs
    <2>3. LockOK(p)' /\ ~At(p, "publish")' BY <2>2 DEF LockOK, Holds, Exclusive, At, Token
    <2> QED BY <1>1, <2>1, <2>3, LockStep DEF MayLock
  <1>5. CASE PublishFails(p)
    <2>1. At(p, "publish") /\ lock = Nameless BY <1>0, <1>5 DEF PublishFails, LockOK
    <2>2. job'[p].pc = "idle" BY <1>0, <1>5 DEF PublishFails, End, Idle
    <2> QED BY <1>1, <2>1, <2>2, Elsewhere, LockStep DEF MayLock
  <1>6. CASE Observe(p)
    <2>1. job'[p].pc = "claim" /\ lock' = lock BY <1>0, <1>6 DEF Observe, Jobs
    <2> QED BY <1>1, <2>1, Elsewhere, LockStep DEF MayLock
  <1>7. CASE Timeout(p)
    <2>1. lock' = lock BY <1>7 DEF Timeout
    <2>2. job'[p] \in {Idle, [Idle EXCEPT !.pc = "look"]} BY <1>0, <1>7 DEF Timeout, End, Again
    <2>3. job'[p].pc = "idle" \/ (job'[p].pc = "look" /\ job'[p].phase = "load") BY <2>2 DEF Idle
    <2> QED BY <1>1, <2>1, <2>3, Elsewhere, LockStep DEF MayLock
  <1> QED BY <1>2, <1>3, <1>4, <1>5, <1>6, <1>7

LEMMA RemovalsLocked ==
  ASSUME JobInv, Locked, NEW p \in Procs, Alone(p), "stolen" \notin tainted',
         Claim(p) \/ Steal(p) \/ Remove(p) \/ Rename(p) \/ Discard(p)
  PROVE  Locked'
  <1> DEFINE t == job[p].target
  <1>0. /\ job[p] \in Jobs /\ JobOK(p) /\ LockOK(p) /\ job \in [Procs -> Jobs] /\ lock \in Locks
        /\ claim \in [Tokens -> Procs \cup {NoProc}]
    BY DEF JobInv, Locked, TypeOK
  <1>r. Removing(p) BY DEF Claim, Steal, Remove, Rename, Discard, Removing
  <1>t. t \in Tokens BY <1>0, <1>r DEF JobOK
  <1> USE DEF store, locking, counts
  <1>a. ASSUME Back(p)
        PROVE  \/ job'[p].pc \in {"idle", "acquire"}
               \/ job'[p].pc = "look" /\ job'[p].phase = "load"
    BY <1>a, <1>r, BackTo, JobStep DEF JobInv
  <1>b. ASSUME NEW pc \in {"claim", "steal", "remove", "rename", "discard"}, Go(p, pc)
        PROVE  job'[p].pc = pc /\ job'[p].target = t
    BY <1>b, <1>0 DEF Go, Jobs
  <1>c. ASSUME Back(p), MayLock(p), MayClaim(p) PROVE Locked'
    BY <1>a, <1>c, Elsewhere, LockStep
  <1>d. ASSUME Exclusive(p), Gone(p), lock' = lock PROVE Locked'
    <2>1. claim[t] = p BY <1>0, <1>d DEF LockOK
    <2>2. claim' = [claim EXCEPT ![t] = NoProc] /\ Back(p) BY <1>d DEF Gone
    <2>3. MayLock(p) /\ MayClaim(p) BY <1>t, <1>d, <2>1, <2>2 DEF MayLock, MayClaim
    <2> QED BY <1>c, <2>2, <2>3
  <1>1. CASE Claim(p)
    <2>0. lock' = lock /\ MayLock(p) BY <1>1 DEF Claim, MayLock
    <2>1. CASE claim[t] = NoProc
      <3>1. claim' = [claim EXCEPT ![t] = p] /\ Go(p, "remove") BY <1>1, <2>1 DEF Claim
      <3>2. MayClaim(p) BY <1>t, <2>1, <3>1 DEF MayClaim
      <3>3. job'[p].pc = "remove" /\ job'[p].target = t BY <1>b, <3>1
      <3>4. claim'[t] = p BY <1>0, <1>t, <3>1
      <3>5. LockOK(p)' /\ ~At(p, "publish")' BY <3>3, <3>4 DEF LockOK, Holds, Exclusive, At
      <3> QED BY <2>0, <3>2, <3>5, LockStep
    <2>2. CASE claim[t] # NoProc
      <3>1. claim' = claim /\ (Go(p, "steal") \/ Back(p)) BY <1>1, <2>2 DEF Claim
      <3>2. MayClaim(p) BY <3>1 DEF MayClaim
      <3>3. CASE Go(p, "steal")
        <4>1. job'[p].pc = "steal" BY <1>b, <3>3
        <4> QED BY <2>0, <3>2, <4>1, Elsewhere, LockStep
      <3> QED BY <1>c, <2>0, <3>1, <3>2, <3>3
    <2> QED BY <2>1, <2>2
  <1>2. CASE Steal(p)
    <2>1. claim[t] = NoProc \/ At(claim[t], "dead") BY <1>0, <1>t, <1>2 DEF Steal
    <2>2. claim' = [claim EXCEPT ![t] = NoProc] /\ lock' = lock /\ Go(p, "claim") BY <1>2 DEF Steal
    <2>3. MayLock(p) /\ MayClaim(p) BY <1>t, <2>1, <2>2 DEF MayLock, MayClaim
    <2>4. job'[p].pc = "claim" BY <1>b, <2>2
    <2> QED BY <2>3, <2>4, Elsewhere, LockStep
  <1>3. CASE Remove(p)
    <2>1. Exclusive(p) /\ lock' = lock BY <1>3 DEF Remove, Exclusive
    <2>2. CASE lock = t
      <3>1. claim' = claim /\ Go(p, "rename") BY <1>3, <2>2 DEF Remove
      <3>2. job'[p].pc = "rename" /\ job'[p].target = t BY <1>b, <3>1
      <3>3. LockOK(p)' /\ ~At(p, "publish")'
        BY <1>0, <2>1, <2>2, <3>1, <3>2 DEF LockOK, Holds, Exclusive, At
      <3> QED BY <2>1, <3>1, <3>3, LockStep DEF MayLock, MayClaim
    <2> QED BY <1>3, <1>d, <2>1, <2>2 DEF Remove
  <1>4. CASE Rename(p)
    <2>1. Exclusive(p) /\ At(p, "rename") /\ lock = t /\ lock # None
      BY <1>0, <1>t, <1>4, Names DEF Rename, Exclusive, LockOK
    <2>2. CASE quarantine[t] # None
      <3>1. Back(p) /\ lock' = lock /\ claim' = claim BY <1>4, <2>1, <2>2 DEF Rename
      <3> QED BY <1>c, <3>1 DEF MayLock, MayClaim
    <2>3. CASE quarantine[t] = None
      <3>1. claim' = claim /\ Go(p, "discard") BY <1>4, <2>1, <2>3 DEF Rename
      <3>2. job'[p].pc = "discard" /\ job'[p].target = t BY <1>b, <3>1
      <3>3. LockOK(p)' /\ ~At(p, "publish")'
        BY <1>0, <2>1, <3>1, <3>2 DEF LockOK, Holds, Exclusive, At
      <3> QED BY <2>1, <3>1, <3>3, LockStep DEF MayLock, MayClaim
    <2> QED BY <2>2, <2>3
  <1>5. CASE Discard(p)
    <2>1. Exclusive(p) /\ lock' = lock BY <1>5 DEF Discard, Exclusive
    <2>2. CASE quarantine[t] = t BY <1>5, <1>d, <2>1, <2>2 DEF Discard
    <2>3. CASE quarantine[t] # t
      <3>1. Back(p) /\ claim' = claim BY <1>5, <2>3 DEF Discard
      <3> QED BY <1>c, <2>1, <3>1 DEF MayLock, MayClaim
    <2> QED BY <2>2, <2>3
  <1> QED BY <1>1, <1>2, <1>3, <1>4, <1>5

LEMMA CommitsLocked ==
  ASSUME JobInv, Locked, NEW p \in Procs, Alone(p),
         Compare(p) \/ WriteJournal(p) \/ Clean(p) \/ WriteFails(p) \/ Crash(p)
  PROVE  Locked'
  <1>0. job[p] \in Jobs /\ LockOK(p) /\ job \in [Procs -> Jobs] BY DEF JobInv, Locked, TypeOK
  <1> USE DEF store, locking, counts
  <1>1. lock' = lock /\ claim' = claim /\ tries' = tries
    BY DEF Compare, WriteJournal, Clean, WriteFails, Crash
  <1>2. MayLock(p) /\ MayClaim(p) BY <1>1 DEF MayLock, MayClaim
  <1>3. ASSUME Holds(p), job'[p].pc \in {"journal", "replay", "clean"} PROVE Locked'
    <2>1. LockOK(p)' /\ ~At(p, "publish")' BY <1>0, <1>1, <1>3 DEF LockOK, Exclusive, At, Token
    <2> QED BY <1>2, <2>1, LockStep
  <1>4. ASSUME job'[p].pc \in {"idle", "claim", "dead"} PROVE Locked'
    BY <1>2, <1>4, Elsewhere, LockStep
  <1>5. \A then \in {"end", "retry"} : Release(p, then) => job'[p].pc = "claim"
    BY <1>0 DEF Release, Idle
  <1>6. End(p) => job'[p].pc = "idle" BY <1>0 DEF End, Idle
  <1>7. \A pc \in {"journal", "clean"} : Go(p, pc) => job'[p].pc = pc BY <1>0 DEF Go, Jobs
  <1>8. CASE Compare(p) BY <1>3, <1>4, <1>5, <1>7, <1>8 DEF Compare, Holds
  <1>9. CASE WriteJournal(p)
    <2>1. Holds(p) /\ job'[p].pc = "replay" BY <1>0, <1>9 DEF WriteJournal, Holds, Jobs
    <2> QED BY <1>3, <2>1
  <1>10. CASE Clean(p) BY <1>4, <1>5, <1>10 DEF Clean
  <1>11. CASE WriteFails(p)
    <2>1. CASE Holds(p) BY <1>3, <1>4, <1>5, <1>6, <1>7, <1>11, <2>1 DEF WriteFails
    <2>2. CASE ~Holds(p)
      <3>1. End(p) BY <1>11, <2>2 DEF WriteFails, Holds, At
      <3> QED BY <1>4, <1>6, <3>1
    <2> QED BY <2>1, <2>2
  <1>12. CASE Crash(p)
    <2>1. job'[p].pc = "dead" BY <1>0, <1>12 DEF Crash, Idle
    <2> QED BY <1>4, <2>1
  <1> QED BY <1>8, <1>9, <1>10, <1>11, <1>12

LEMMA LockKept == JobInv /\ LockInv /\ [Next]_vars => LockInv'
  <1> SUFFICES ASSUME JobInv, LockInv, [Next]_vars, "stolen" \notin tainted' PROVE Locked'
    BY DEF LockInv
  <1>1. CASE UNCHANGED vars
    <2>1. Locked BY <1>1 DEF LockInv, vars
    <2> QED BY <1>1, <2>1 DEF vars, store, locking, counts, Locked, LockOK, OnePublisher, Holds,
                              Exclusive, At, Token
  <1>2. ASSUME NEW p \in Procs,
               Begin(p) \/ Step(p) \/ PublishFails(p) \/ WriteFails(p) \/ Crash(p)
        PROVE  Locked'
    <2>1. Alone(p) BY <1>2, Aloneness
    <2>2. "stolen" \notin tainted
      BY <1>2 DEF Step, Begin, Look, Replay, DropJournal, Read, Loaded, Apply, MakeLock, Publish,
        PublishFails, Observe, Timeout, Claim, Steal, Remove, Rename, Discard, Compare, WriteJournal,
        Clean, WriteFails, Crash
    <2>3. Locked BY <2>2 DEF LockInv
    <2> QED BY <1>2, <2>1, <2>3, LoadsLocked, WaitsLocked, RemovalsLocked, CommitsLocked DEF Step
  <1> QED BY <1>1, <1>2 DEF Next

LEMMA LockInitially == Init => LockInv
  BY DEF Init, LockInv, Locked, LockOK, OnePublisher, Holds, Exclusive, At, Idle

LEMMA Excludes ==
  ASSUME Locked PROVE \A p, q \in Procs : Holds(p) /\ Holds(q) => p = q
  <1>1. \A p, q \in Procs : Token(p) = Token(q) => p = q BY DEF Token
  <1> QED BY <1>1 DEF Locked, LockOK

\* One process at a time works under the lock, whoever dies and breaks whose
\* lock, unless a claim was taken from a live process (removeLockGeneration).
THEOREM OneWriter == Spec => []MutualExclusion
  <1>1. LockInv => MutualExclusion BY Excludes DEF LockInv, MutualExclusion
  <1>2. Init => JobInv /\ LockInv BY JobInitially, LockInitially
  <1>3. JobInv /\ LockInv /\ [Next]_vars => (JobInv /\ LockInv)' BY JobKept, LockKept
  <1> QED BY <1>1, <1>2, <1>3, PTL DEF Spec

------------------------------------------------------------------------------
(* Whole transactions.                                                      *)

\* An operation of a journal that has been applied.
Done(j, f) == (j.plan[f] = "delete" => disk[f] = Absent) /\ f \notin staged[j.by]

\* Whoever replays, replays the journal that is there, or one that is done.
ReplayOK(p) == At(p, "replay") =>
    /\ \A f \in Touched(job[p].replay.plan) \ job[p].todo : Done(job[p].replay, f)
    /\ \/ journal = job[p].replay
       \/ journal = NoJournal /\ \A f \in Touched(job[p].replay.plan) : Done(job[p].replay, f)

\* Under the lock nothing moves between the recovery and the journal.
QuietOK(p) ==
    /\ At(p, "compare") \/ At(p, "journal") => journal = NoJournal
    /\ At(p, "journal") => job[p].seen = disk

Pending == \A p \in Procs : ReplayOK(p) /\ QuietOK(p)

PendInv == tainted = {} => Pending

LEMMA StoreFrame ==
  ASSUME Pending, NEW p \in Procs, Alone(p), UNCHANGED <<disk, journal, staged>>,
         ReplayOK(p)', QuietOK(p)'
  PROVE  Pending' /\ Converged' = Converged
  <1>1. ASSUME NEW q \in Procs, q # p PROVE ReplayOK(q)' /\ QuietOK(q)'
    BY <1>1 DEF Pending, Alone, ReplayOK, QuietOK, Done, At
  <1> QED BY <1>1 DEF Pending, Converged

\* A replayed operation leads to what it was going to lead to.
LEMMA ReplayPends ==
  ASSUME JobInv, Pending, NEW p \in Procs, Alone(p), Replay(p)
  PROVE  Pending' /\ Converged' = Converged
  <1> PICK j : j = job[p].replay OBVIOUS
  <1>0. /\ At(p, "replay") /\ ReplayOK(p) /\ journal' = journal
        /\ j \in [by : Tokens, plan : Plans] /\ job[p].todo \subseteq Touched(j.plan)
        /\ disk \in [Files -> Versions] /\ staged \in [Tokens -> SUBSET Files]
    BY DEF Replay, Pending, JobInv, JobOK, TypeOK
  <1>1. PICK f \in job[p].todo :
          /\ job'[p].pc = "replay" /\ job'[p].replay = j /\ job'[p].todo = job[p].todo \ {f}
          /\ disk' = [disk EXCEPT ![f] = Applied(j, f)]
          /\ staged' = [staged EXCEPT ![j.by] = @ \ {f}]
    BY LoadsTo
  <1>2. f \in Files /\ f \in Touched(j.plan) /\ j.by \in Tokens BY <1>0, <1>1 DEF Touched
  <1>3. /\ \A g \in Files : disk'[g] = IF g = f THEN Applied(j, f) ELSE disk[g]
        /\ staged'[j.by] = staged[j.by] \ {f}
        /\ \A t \in Tokens : t # j.by => staged'[t] = staged[t]
    BY <1>0, <1>1, <1>2
  <1>4. \A g \in Touched(j.plan) : Done(j, g) => Done(j, g)'
    BY <1>3 DEF Done, Applied, Touched
  <1>5. Done(j, f)' BY <1>2, <1>3 DEF Done, Applied
  <1>6. CASE journal = j
    <2>1. j # NoJournal BY <1>2, JournalFields
    <2>2. Converged' = Converged
      <3> DEFINE C(g) == CASE j.plan[g] = "delete" -> Absent [] j.plan[g] = "write" /\ g \in staged[j.by] -> j.by [] OTHER -> disk[g]
      <3>1. Converged = [g \in Files |-> C(g)] BY <1>6, <2>1 DEF Converged
      <3> DEFINE D(g) == CASE j.plan[g] = "delete" -> Absent [] j.plan[g] = "write" /\ g \in staged'[j.by] -> j.by [] OTHER -> disk'[g]
      <3>2. Converged' = [g \in Files |-> D(g)] BY <1>0, <1>6, <2>1 DEF Converged
      <3>3. ASSUME NEW g \in Files PROVE D(g) = C(g)
        <4>1. CASE g # f BY <1>3, <4>1
        <4>2. CASE g = f /\ j.plan[f] = "delete"
          <5>1. C(f) = Absent /\ D(f) = Absent BY <4>2
          <5> QED BY <4>2, <5>1
        <4>3. CASE g = f /\ j.plan[f] # "delete"
          <5>1. disk'[f] = IF f \in staged[j.by] THEN j.by ELSE disk[f] BY <1>2, <1>3, <4>3 DEF Applied
          <5>2. f \notin staged'[j.by] BY <1>3
          <5>3. j.plan[f] = "write" BY <1>0, <1>2, <4>3, SourceAssumption DEF Touched
          <5> QED BY <4>3, <5>1, <5>2, <5>3
        <4> QED BY <4>1, <4>2, <4>3
      <3> HIDE DEF C, D
      <3> QED BY <3>1, <3>2, <3>3
    <2>3. ReplayOK(p)' /\ QuietOK(p)'
      BY <1>0, <1>1, <1>4, <1>5, <1>6 DEF ReplayOK, QuietOK, At
    <2>4. ASSUME NEW q \in Procs, q # p PROVE ReplayOK(q)' /\ QuietOK(q)'
      <3>1. job'[q] = job[q] /\ ReplayOK(q) /\ QuietOK(q) BY <2>4 DEF Alone, Pending
      <3>2. At(q, "replay") => job[q].replay = j BY <1>6, <2>1, <3>1 DEF ReplayOK
      <3>3. ReplayOK(q)' BY <1>0, <1>4, <1>6, <3>1, <3>2 DEF ReplayOK, At
      <3>4. QuietOK(q)' BY <1>6, <2>1, <3>1 DEF QuietOK, At
      <3> QED BY <3>3, <3>4
    <2> QED BY <2>2, <2>3, <2>4 DEF Pending
  <1>7. CASE journal # j
    <2>1. journal = NoJournal /\ Done(j, f) BY <1>0, <1>2, <1>7 DEF ReplayOK
    <2>2. disk' = disk /\ staged' = staged
      BY <1>0, <1>1, <1>2, <2>1 DEF Done, Applied, Touched
    <2>3. ReplayOK(p)' /\ QuietOK(p)'
      BY <1>0, <1>1, <1>4, <1>5, <1>7 DEF ReplayOK, QuietOK, At
    <2> QED BY <1>0, <2>2, <2>3, StoreFrame
  <1> QED BY <1>6, <1>7

LEMMA DropPends ==
  ASSUME JobInv, Pending, NEW p \in Procs, Alone(p), DropJournal(p)
  PROVE  Pending' /\ Converged' = Converged
  <1> PICK j : j = job[p].replay OBVIOUS
  <1>0. /\ At(p, "replay") /\ job[p].todo = {} /\ ReplayOK(p)
        /\ j \in [by : Tokens, plan : Plans]
        /\ journal' = NoJournal /\ disk' = disk /\ staged' = staged
    BY DEF DropJournal, Pending, JobInv, JobOK
  <1>1. \A f \in Touched(j.plan) : Done(j, f) BY <1>0 DEF ReplayOK
  <1>2. Converged' = Converged
    <2>1. CASE journal = NoJournal BY <1>0, <2>1 DEF Converged
    <2>2. CASE journal # NoJournal
      <3>1. journal = j BY <1>0, <2>2 DEF ReplayOK
      <3> DEFINE C(g) == CASE j.plan[g] = "delete" -> Absent [] j.plan[g] = "write" /\ g \in staged[j.by] -> j.by [] OTHER -> disk[g]
      <3>2. Converged = [g \in Files |-> C(g)] BY <2>2, <3>1 DEF Converged
      <3>3. ASSUME NEW g \in Files PROVE C(g) = disk[g]
        <4>1. CASE j.plan[g] = "delete" BY <1>1, <4>1 DEF Done, Touched
        <4>2. CASE j.plan[g] # "delete"
          <5>1. j.plan[g] = "write" => g \in Touched(j.plan) BY DEF Touched
          <5> QED BY <1>1, <4>2, <5>1 DEF Done
        <4> QED BY <4>1, <4>2
      <3>4. Converged' = [g \in Files |-> disk[g]] BY <1>0 DEF Converged
      <3> HIDE DEF C
      <3> QED BY <3>2, <3>3, <3>4
    <2> QED BY <2>1, <2>2
  <1>3. ASSUME NEW q \in Procs, q # p PROVE ReplayOK(q)' /\ QuietOK(q)'
    <2>1. job'[q] = job[q] /\ ReplayOK(q) /\ QuietOK(q) BY <1>3 DEF Alone, Pending
    <2>2. At(q, "replay") /\ journal = job[q].replay /\ journal # NoJournal => job[q].replay = j
      BY <1>0 DEF ReplayOK
    <2>3. At(q, "replay") => \A f \in Touched(job[q].replay.plan) : Done(job[q].replay, f)
      BY <1>1, <2>1, <2>2, JournalFields DEF ReplayOK
    <2> QED BY <1>0, <2>1, <2>3 DEF ReplayOK, QuietOK, Done, At
  <1>4. job'[p].pc = After(job[p].phase) BY LoadsTo DEF DropJournal
  <1>5. ReplayOK(p)' /\ QuietOK(p)' BY <1>0, <1>4 DEF ReplayOK, QuietOK, After, At
  <1> QED BY <1>2, <1>3, <1>5 DEF Pending

\* Steps that leave the files, the journal and the staging directories alone.
LEMMA QuietPends ==
  ASSUME JobInv, Pending, NEW p \in Procs, Alone(p),
         \/ Begin(p) \/ Look(p) \/ Read(p) \/ Loaded(p) \/ Apply(p)
         \/ MakeLock(p) \/ Publish(p) \/ PublishFails(p) \/ Observe(p) \/ Timeout(p)
         \/ Claim(p) \/ Steal(p) \/ Remove(p) \/ Rename(p) \/ Discard(p)
         \/ Compare(p) \/ WriteFails(p) \/ Crash(p)
  PROVE  Pending' /\ Converged' = Converged
  <1>0. /\ job[p] \in Jobs /\ job \in [Procs -> Jobs] /\ journal \in Journals
        /\ ReplayOK(p) /\ QuietOK(p)
    BY DEF JobInv, Pending, TypeOK
  <1> USE DEF store, locking, counts
  <1>1. UNCHANGED <<disk, journal, staged>>
    BY DEF Begin, Look, Read, Loaded, Apply, MakeLock, Publish, PublishFails, Observe, Timeout, Claim,
           Steal, Remove, Rename, Discard, Compare, WriteFails, Crash
  <1>2. ASSUME job'[p].pc \notin {"replay", "compare", "journal"} PROVE ReplayOK(p)' /\ QuietOK(p)'
    BY <1>2 DEF ReplayOK, QuietOK, At
  <1>3. CASE Look(p)
    <2>1. CASE journal = NoJournal
      <3>1. job'[p].pc = After(job[p].phase) BY <1>3, <2>1, LoadsTo DEF Look
      <3>2. ReplayOK(p)' /\ QuietOK(p)' BY <1>1, <2>1, <3>1 DEF After, ReplayOK, QuietOK, At
      <3> QED BY <1>1, <3>2, StoreFrame
    <2>2. CASE journal # NoJournal
      <3>1. job'[p].pc = "replay" /\ job'[p].replay = journal /\ job'[p].todo = Touched(journal.plan)
        BY <1>3, <2>2, LoadsTo
      <3>2. ReplayOK(p)' /\ QuietOK(p)' BY <1>1, <3>1 DEF ReplayOK, QuietOK, At
      <3> QED BY <1>1, <3>2, StoreFrame
    <2> QED BY <2>1, <2>2
  <1>4. CASE Compare(p) /\ job[p].seen = disk
    <2>1. job'[p].pc = "journal" /\ job'[p].seen = job[p].seen /\ journal = NoJournal
      BY <1>0, <1>4 DEF Compare, Go, Jobs, QuietOK
    <2>2. ReplayOK(p)' /\ QuietOK(p)' BY <1>1, <1>4, <2>1 DEF ReplayOK, QuietOK, At
    <2> QED BY <1>1, <2>2, StoreFrame
  <1>5. ASSUME End(p) \/ Again(p) \/ \E then \in {"end", "retry"} : Release(p, then)
        PROVE  job'[p].pc \notin {"replay", "compare", "journal"}
    <2>1. End(p) => job'[p].pc = "idle" BY <1>0 DEF End, Idle
    <2>2. Again(p) => job'[p].pc = "look" BY <1>0 DEF Again, Idle
    <2>3. ASSUME NEW then, Release(p, then) PROVE job'[p].pc = "claim" BY <1>0, <2>3 DEF Release, Idle
    <2> QED BY <1>5, <2>1, <2>2, <2>3
  <1>6. ASSUME NEW pc, Go(p, pc) PROVE job'[p].pc = pc BY <1>0, <1>6 DEF Go, Jobs
  <1>7. ASSUME Back(p) PROVE job'[p].pc \notin {"replay", "compare", "journal"}
    <2>1. CASE job[p].target # Token(p)
      <3>1. job'[p].pc = "acquire" BY <1>0, <1>7, <2>1 DEF Back, Jobs
      <3> QED BY <3>1
    <2> QED BY <1>5, <1>7, <2>1 DEF Back
  <1>8. CASE Begin(p) \/ Loaded(p) \/ PublishFails(p) \/ Timeout(p)
    <2>1. job'[p].pc \notin {"replay", "compare", "journal"}
      BY <1>5, <1>8 DEF Begin, Loaded, PublishFails, Timeout
    <2> QED BY <1>1, <1>2, <2>1, StoreFrame
  <1>9. CASE Read(p)
    <2>1. job'[p].pc = "read" BY <1>0, <1>9 DEF Read, Jobs, At
    <2> QED BY <1>1, <1>2, <2>1, StoreFrame
  <1>10. CASE Apply(p)
    <2> PICK plan \in Plans : job' = [job EXCEPT ![p] = [@ EXCEPT !.pc = "acquire", !.plan = plan]]
      BY <1>10 DEF Apply
    <2>1. job'[p] = [job[p] EXCEPT !.pc = "acquire", !.plan = plan] BY <1>0
    <2>2. job'[p].pc = "acquire" BY <1>0, <2>1 DEF Jobs
    <2> QED BY <1>1, <1>2, <2>2, StoreFrame
  <1>11. CASE MakeLock(p) \/ Steal(p)
    <2>1. job'[p].pc \in {"publish", "claim"} BY <1>6, <1>11 DEF MakeLock, Steal
    <2> QED BY <1>1, <1>2, <2>1, StoreFrame
  <1>12. CASE Publish(p) \/ Observe(p)
    <2>1. Observe(p) => job'[p].pc = "claim" BY <1>0 DEF Observe, Jobs
    <2>2. Publish(p) /\ lock = None => job'[p].pc = "idle" BY <1>0 DEF Publish, End, Idle
    <2>4. Publish(p) /\ lock # None => job'[p].pc = "look" BY <1>0 DEF Publish, Jobs
    <2>3. job'[p].pc \notin {"replay", "compare", "journal"} BY <1>12, <2>1, <2>2, <2>4
    <2> QED BY <1>1, <1>2, <2>3, StoreFrame
  <1>13. CASE Claim(p) \/ Remove(p) \/ Rename(p) \/ Discard(p)
    <2>1. \/ Back(p) \/ Go(p, "remove") \/ Go(p, "steal") \/ Go(p, "rename") \/ Go(p, "discard")
      BY <1>13 DEF Claim, Remove, Rename, Discard, Gone
    <2>2. job'[p].pc \notin {"replay", "compare", "journal"} BY <1>6, <1>7, <2>1
    <2> QED BY <1>1, <1>2, <2>2, StoreFrame
  <1>14. CASE Compare(p) /\ job[p].seen # disk
    <2>1. job'[p].pc \notin {"replay", "compare", "journal"} BY <1>5, <1>14 DEF Compare
    <2> QED BY <1>1, <1>2, <2>1, StoreFrame
  <1>15. CASE WriteFails(p)
    <2>1. Go(p, "clean") \/ Release(p, "end") \/ End(p) BY <1>15 DEF WriteFails
    <2>2. job'[p].pc \notin {"replay", "compare", "journal"} BY <1>5, <1>6, <2>1
    <2> QED BY <1>1, <1>2, <2>2, StoreFrame
  <1>16. CASE Crash(p)
    <2>1. job'[p].pc = "dead" BY <1>0, <1>16 DEF Crash, Idle
    <2> QED BY <1>1, <1>2, <2>1, StoreFrame
  <1> QED BY <1>3, <1>4, <1>8, <1>9, <1>10, <1>11, <1>12, <1>13, <1>14, <1>15, <1>16

\* Staging is removed from under nothing, or it is the known gap.
LEMMA CleanPends ==
  ASSUME JobInv, Pending, NEW p \in Procs, Alone(p), Clean(p), tainted' = {}
  PROVE  Pending' /\ Converged' = Converged
  <1>0. /\ job \in [Procs -> Jobs] /\ JobOK(p) /\ staged \in [Tokens -> SUBSET Files]
        /\ \A q \in Procs : JobOK(q)
    BY DEF JobInv, TypeOK
  <1>1. Token(p) \in Tokens BY <1>0 DEF Clean, JobOK, Holds, Token, Tokens
  <1>2. /\ staged' = [staged EXCEPT ![Token(p)] = {}]
        /\ disk' = disk /\ journal' = journal /\ Release(p, "end")
        /\ ~(journal.by = Token(p) /\ staged[Token(p)] # {})
    BY DEF Clean
  <1>3. \A t \in Tokens : staged'[t] \subseteq staged[t] BY <1>0, <1>1, <1>2
  <1>4. job'[p].pc = "claim" BY <1>0, <1>2 DEF Release, Idle
  <1>5. ReplayOK(p)' /\ QuietOK(p)' BY <1>4 DEF ReplayOK, QuietOK, At
  <1>6. ASSUME NEW q \in Procs, q # p PROVE ReplayOK(q)' /\ QuietOK(q)'
    <2>1. job'[q] = job[q] /\ ReplayOK(q) /\ QuietOK(q) BY <1>6 DEF Alone, Pending
    <2>2. At(q, "replay") => job[q].replay.by \in Tokens BY <1>0 DEF JobOK
    <2> QED BY <1>2, <1>3, <2>1, <2>2 DEF ReplayOK, QuietOK, Done, At
  <1>7. Converged' = Converged
    <2>1. journal.by \in Tokens => staged'[journal.by] = staged[journal.by] BY <1>0, <1>1, <1>2
    <2>2. journal # NoJournal => journal.by \in Tokens BY JournalFields DEF JobInv, TypeOK
    <2> QED BY <1>2, <2>1, <2>2 DEF Converged
  <1> QED BY <1>5, <1>6, <1>7 DEF Pending

\* The journal, once it lies there, stands for the whole transaction.
LEMMA CommitPends ==
  ASSUME JobInv, Locked, Pending, NEW p \in Procs, Alone(p), WriteJournal(p), tainted' = {}
  PROVE  Pending' /\ Source!Commit(p)
  <1> PICK t : t = Token(p) OBVIOUS
  <1> PICK plan : plan = job[p].plan OBVIOUS
  <1> PICK j : j = [by |-> t, plan |-> plan] OBVIOUS
  <1>0. /\ job[p] \in Jobs /\ job \in [Procs -> Jobs] /\ JobOK(p) /\ QuietOK(p)
        /\ disk \in [Files -> Versions] /\ staged \in [Tokens -> SUBSET Files]
    BY DEF JobInv, Pending, TypeOK
  <1>1. /\ At(p, "journal") /\ journal' = j /\ disk' = disk /\ tries' = tries
        /\ staged' = [staged EXCEPT ![t] = {f \in Files : j.plan[f] = "write"}]
        /\ job' = [job EXCEPT ![p] = [@ EXCEPT !.pc = "replay", !.phase = "commit", !.replay = j,
                                             !.todo = Touched(j.plan)]]
        /\ \A q \in Procs \ {p} : ~At(q, "replay")
    BY DEF WriteJournal, counts
  <1>2. t \in Tokens /\ plan \in Plans
    BY <1>0, <1>1 DEF JobOK, Applying, Holds, Token, Tokens
  <1>3. /\ j.by = t /\ j.plan = plan /\ j # NoJournal /\ plan \in [Files -> {"write", "delete", "keep"}]
    BY <1>2, Names, SourceAssumption DEF NoJournal
  <1>4. job[p].seen = disk /\ journal = NoJournal BY <1>0, <1>1 DEF QuietOK
  <1>5. /\ job'[p].pc = "replay" /\ job'[p].replay = j /\ job'[p].todo = Touched(j.plan)
        /\ job'[p].seen = job[p].seen
    <2>1. job'[p] = [job[p] EXCEPT !.pc = "replay", !.phase = "commit", !.replay = j,
                                   !.todo = Touched(j.plan)]
      BY <1>0, <1>1
    <2> QED BY <1>0, <2>1 DEF Jobs
  <1>6. ReplayOK(p)' /\ QuietOK(p)' BY <1>1, <1>5 DEF ReplayOK, QuietOK, At
  <1>7. ASSUME NEW q \in Procs, q # p PROVE ReplayOK(q)' /\ QuietOK(q)'
    <2>1. job'[q] = job[q] /\ ~At(q, "replay") BY <1>1, <1>7 DEF Alone
    <2>2. Holds(p) BY <1>1 DEF Holds
    <2>3. ~Holds(q) BY <1>7, <2>2, Excludes
    <2> QED BY <2>1, <2>3 DEF ReplayOK, QuietOK, Holds, At
  <1>8. Converged = disk
    <2>1. Converged = [f \in Files |-> disk[f]] BY <1>4 DEF Converged
    <2> QED BY <1>0, <2>1
  <1>9. Converged' = Source!Revision(plan, t)
    <2>1. staged'[t] = {f \in Files : plan[f] = "write"} BY <1>0, <1>1, <1>2, <1>3
    <2> DEFINE C(f) == CASE plan[f] = "delete" -> Absent
                         [] plan[f] = "write" /\ f \in staged'[t] -> t
                         [] OTHER -> disk[f]
    <2> DEFINE D(f) == CASE plan[f] = "write" -> t
                         [] plan[f] = "delete" -> Absent
                         [] OTHER -> Converged[f]
    <2>2. Converged' = [f \in Files |-> C(f)] BY <1>1, <1>3 DEF Converged
    <2>3. Source!Revision(plan, t) = [f \in Files |-> D(f)] BY DEF Source!Revision
    <2>4. ASSUME NEW f \in Files PROVE C(f) = D(f)
      <3>1. CASE plan[f] = "write" BY <2>1, <3>1
      <3>2. CASE plan[f] = "delete" BY <3>2
      <3>3. CASE plan[f] = "keep" BY <1>8, <3>3
      <3> QED BY <1>3, <3>1, <3>2, <3>3
    <2> HIDE DEF C, D
    <2> QED BY <2>2, <2>3, <2>4
  <1>10. \A q \in Procs : job'[q].seen = job[q].seen BY <1>5 DEF Alone
  <1>11. Source!Commit(p)
    <2>1. [q \in Procs |-> job[q].seen][p] = Converged BY <1>4, <1>8
    <2>2. [q \in Procs |-> job[q].seen]' = [q \in Procs |-> job[q].seen] BY <1>10
    <2> QED BY <1>2, <1>9, <2>1, <2>2 DEF Source!Commit
  <1> QED BY <1>6, <1>7, <1>11 DEF Pending

LEMMA PendInitially == Init => PendInv
  BY DEF Init, PendInv, Pending, ReplayOK, QuietOK, At, Idle

\* Before one of the known gaps is hit, none was hit before.
LEMMA TaintGrows ==
  ASSUME NEW p \in Procs,
         Begin(p) \/ Step(p) \/ PublishFails(p) \/ WriteFails(p) \/ Crash(p), tainted' = {}
  PROVE  tainted = {}
  BY DEF Step, Begin, Look, Replay, DropJournal, Read, Loaded, Apply, MakeLock, Publish, PublishFails,
         Observe, Timeout, Claim, Steal, Remove, Rename, Discard, Compare, WriteJournal, Clean,
         WriteFails, Crash

LEMMA PendStep ==
  ASSUME JobInv, LockInv, PendInv, NEW p \in Procs,
         Begin(p) \/ Step(p) \/ PublishFails(p) \/ WriteFails(p) \/ Crash(p), tainted' = {}
  PROVE  Pending' /\ Source!Next
  <1>1. tainted = {} BY TaintGrows
  <1>2. Locked /\ Pending BY <1>1 DEF LockInv, PendInv
  <1>3. Alone(p) BY Aloneness
  <1>4. CASE WriteJournal(p)
    <2>1. Pending' /\ Source!Commit(p) BY <1>2, <1>3, <1>4, CommitPends
    <2> QED BY <2>1 DEF Source!Next
  <1>5. CASE ~WriteJournal(p)
    <2>1. Pending' /\ Converged' = Converged
      BY <1>2, <1>3, <1>5, ReplayPends, DropPends, QuietPends, CleanPends DEF Step
    <2> QED BY <2>1 DEF Source!Next, Source!Rebase
  <1> QED BY <1>4, <1>5

LEMMA PendKept ==
  ASSUME JobInv, LockInv, PendInv, [Next]_vars
  PROVE  PendInv' /\ (tainted' # {} \/ [Source!Next]_Source!vars)
  <1>1. CASE UNCHANGED vars
    <2>1. Converged' = Converged /\ [p \in Procs |-> job[p].seen]' = [p \in Procs |-> job[p].seen]
      BY <1>1 DEF vars, store, Converged
    <2>2. UNCHANGED Source!vars BY <2>1 DEF Source!vars
    <2>3. PendInv' BY <1>1 DEF vars, store, PendInv, Pending, ReplayOK, QuietOK, Done, At
    <2> QED BY <2>2, <2>3
  <1>2. CASE Next /\ tainted' = {}
    <2>1. PICK p \in Procs : Begin(p) \/ Step(p) \/ PublishFails(p) \/ WriteFails(p) \/ Crash(p)
      BY <1>2 DEF Next
    <2> QED BY <1>2, <2>1, PendStep DEF PendInv
  <1>3. CASE tainted' # {} BY <1>3 DEF PendInv
  <1> QED BY <1>1, <1>2, <1>3

\* Until one of the known gaps is hit, the content changes by whole transactions,
\* each from the content it was computed from (persistSemanticMutation,
\* recoverPendingCommit).
THEOREM WholeCommits == Spec => AtomicCommits
  <1>1. Init => JobInv /\ LockInv /\ PendInv BY JobInitially, LockInitially, PendInitially
  <1>2. JobInv /\ LockInv /\ PendInv /\ [Next]_vars =>
          (JobInv /\ LockInv /\ PendInv)' /\ (tainted' # {} \/ [Source!Next]_Source!vars)
    BY JobKept, LockKept, PendKept
  <1>3. JobInv /\ LockInv /\ PendInv /\ [Next]_vars => [tainted' # {} \/ [Source!Next]_Source!vars]_vars
    BY <1>2
  <1> QED BY <1>1, <1>2, <1>3, PTL DEF Spec, AtomicCommits
=============================================================================
