--------------------------- MODULE ManagerProofs ---------------------------
(***************************************************************************)
(* IInv is inductive for any number of calls, sessions, keys, attempts,    *)
(* faults and crashes.  A step of a call changes its own session only, and *)
(* no other call holds that session, so what the others have established   *)
(* survives (Quiet, Work); the world only ever takes agents away.          *)
(***************************************************************************)
EXTENDS Manager, TLAPS

Pcs == Places \cup {"idle"}

\* A call that is in flight is a record of calls.
LEMMA InFlight ==
  ASSUME TypeOK, NEW t \in Threads, ~At(t, "idle")
  PROVE  th[t] \in Calls
  BY DEF TypeOK, At, Idle

\* The fields of a call after it moves on.
LEMMA Moves ==
  ASSUME NEW c \in Calls, NEW pc \in Places
  PROVE  /\ [c EXCEPT !.pc = pc] \in Calls
         /\ [c EXCEPT !.pc = pc].pc = pc
         /\ [c EXCEPT !.pc = pc].op = c.op
         /\ [c EXCEPT !.pc = pc].s = c.s
         /\ [c EXCEPT !.pc = pc].kind = c.kind
         /\ [c EXCEPT !.pc = pc].key = c.key
         /\ [c EXCEPT !.pc = pc].note = c.note
         /\ [c EXCEPT !.pc = pc].seen = c.seen
         /\ [c EXCEPT !.pc = pc].ok = c.ok
         /\ [c EXCEPT !.pc = pc].obs = c.obs
  BY DEF Calls

\* Replacing one call keeps the type of the calls.
LEMMA BecomeType ==
  ASSUME TypeOK, NEW t \in Threads, NEW c \in Calls \cup {Idle}, Become(t, c)
  PROVE  /\ th' \in [Threads -> Calls \cup {Idle}]
         /\ th'[t] = c
         /\ \A u \in Threads \ {t}: th'[u] = th[u]
  BY DEF TypeOK, Become

\* Nothing but th and manifests changes.
World0 == UNCHANGED <<row, zel, run, sem, valid, missed, faults, crashes>>

\* Whoever may hold a session after the step had it before, or finds it free.
MayHold(t, c) ==
  c.pc \notin {"idle", "wait"} =>
    Holds(t, c.s) \/ \A u \in Threads: ~Holds(u, c.s)

LEMMA Quiet ==
  ASSUME IInv, NEW t \in Threads, NEW c \in Calls \cup {Idle}, Become(t, c),
         World0, manifests' \subseteq Sessions, MayHold(t, c), CallOK(t)'
  PROVE  IInv'
  <1>1. /\ th' \in [Threads -> Calls \cup {Idle}]
        /\ th'[t] = c
        /\ \A u \in Threads \ {t}: th'[u] = th[u]
    BY BecomeType DEF IInv
  <1>2. TypeOK' BY <1>1 DEF IInv, TypeOK, World0
  <1>3. Mutex' BY <1>1 DEF IInv, Mutex, MayHold, Holds
  <1>4. KeysUnique' BY DEF IInv, KeysUnique, World0, Recorded
  <1>5. ASSUME NEW s \in Sessions PROVE SessionOK(s)'
    BY DEF IInv, SessionOK, World0, Recorded, RuntimeOver
  <1>6. ASSUME NEW u \in Threads \ {t} PROVE CallOK(u)'
    <2>1. CallOK(u) /\ th'[u] = th[u] BY <1>1 DEF IInv
    <2>2. row' = row /\ zel' = zel /\ missed' = missed BY DEF World0
    <2>3. InspectedOK(th[u])' <=> InspectedOK(th[u]) BY <2>1, <2>2 DEF InspectedOK
    <2> QED BY <2>1, <2>2, <2>3 DEF CallOK, Recorded
  <1> QED BY <1>2, <1>3, <1>4, <1>5, <1>6 DEF IInv

\* Only session s changes, and it stays what it is.
Only(s) ==
  /\ \A e \in Sessions \ {s}: row'[e] = row[e] /\ zel'[e] = zel[e] /\ run'[e] = run[e]
  /\ \A e \in Sessions \ {s}: e \in missed' <=> e \in missed
  /\ Recorded(s) => row'[s] # NoRow /\ row'[s].kind = row[s].kind

LEMMA Work ==
  ASSUME IInv, NEW t \in Threads, NEW s \in Sessions, Holds(t, s),
         NEW c \in Calls \cup {Idle}, Become(t, c),
         c.pc \notin {"idle", "wait"} => c.s = s,
         Only(s), TypeOK', KeysUnique', SessionOK(s)', CallOK(t)'
  PROVE  IInv'
  <1>1. /\ th'[t] = c
        /\ \A u \in Threads \ {t}: th'[u] = th[u]
    BY BecomeType DEF IInv
  <1>2. Mutex' BY <1>1 DEF IInv, Mutex, Holds
  <1>3. ASSUME NEW e \in Sessions \ {s} PROVE SessionOK(e)'
    BY DEF IInv, SessionOK, Only, Recorded, RuntimeOver
  <1>4. ASSUME NEW u \in Threads \ {t} PROVE CallOK(u)'
    <2>1. CallOK(u) /\ th'[u] = th[u] /\ ~Holds(u, s) BY <1>1 DEF IInv, Mutex
    <2>2. CASE At(u, "idle")
      BY <2>1, <2>2 DEF At, CallOK, Seeing, OnZellij, OnTsukai, Starting, AgentGone
    <2>3. CASE ~At(u, "idle") /\ th[u].s = s
      <3>1. th[u].pc = "wait" BY <2>1, <2>3 DEF Holds, At
      <3> QED BY <2>1, <2>3, <3>1 DEF CallOK, Seeing, OnZellij, OnTsukai, Starting, AgentGone,
                                      Only, Recorded
    <2>4. CASE ~At(u, "idle") /\ th[u].s # s
      <3>1. th[u].s \in Sessions \ {s} BY <2>4, InFlight DEF IInv, Calls
      <3>2. PICK d : d = th[u] /\ d = th'[u] BY <2>1
      <3>3. /\ row'[d.s] = row[d.s] /\ zel'[d.s] = zel[d.s]
            /\ d.s \in missed' <=> d.s \in missed
        BY <3>1, <3>2 DEF Only
      <3>4. Recorded(d.s) <=> Recorded(d.s)' BY <3>3 DEF Recorded
      <3>5. InspectedOK(d) <=> InspectedOK(d)' BY <3>3 DEF InspectedOK
      <3> QED BY <2>1, <3>2, <3>3, <3>4, <3>5 DEF CallOK
    <2> QED BY <2>2, <2>3, <2>4
  <1> QED BY <1>2, <1>3, <1>4 DEF IInv

-----------------------------------------------------------------------------
(***************************************************************************)
(* Steps that only move a call.                                            *)
(***************************************************************************)
\* A call that ends or gives its session back owes nothing.
LEMMA Ends0 == Idle \in Calls \cup {Idle} /\ Idle.pc = "idle"
  BY DEF Idle

LEMMA GivesBack ==
  ASSUME IInv, NEW t \in Threads, Return(t), World0, manifests' \subseteq Sessions
  PROVE  IInv'
  <1>1. Become(t, Idle) BY DEF Return
  <1>2. th'[t] = Idle BY <1>1, BecomeType, Ends0 DEF IInv
  <1>3. CallOK(t)' BY <1>2, Ends0 DEF CallOK, Seeing, OnZellij, OnTsukai, Starting, AgentGone
  <1> QED BY <1>1, <1>3, Ends0, Quiet DEF MayHold

LEMMA StartKeeps ==
  ASSUME IInv, NEW t \in Threads, NEW s \in Sessions, NEW key \in Keys, NEW kind \in Kinds,
         Start(t, s, key, kind)
  PROVE  IInv'
  <1>1. World0 /\ manifests' \subseteq Sessions
    BY DEF Start, World0, external, task, meter, IInv, TypeOK
  <1>2. CASE /\ ~Recorded(s)
             /\ {u \in Threads: ~At(u, "idle") /\ th[u].s = s} = {}
             /\ Become(t, Call("start", "prepare", s, kind, key, {}))
    <2> DEFINE c == Call("start", "prepare", s, kind, key, {})
    <2>1. c \in Calls /\ c.pc = "prepare" /\ c.s = s
      BY DEF Call, Calls, Operations, Places, Observations
    <2>2. th'[t] = c BY <1>2, <2>1, BecomeType DEF IInv
    <2>3. CallOK(t)'
      BY <1>1, <1>2, <2>1, <2>2 DEF CallOK, World0, Recorded, Seeing, OnZellij, OnTsukai, Starting, AgentGone
    <2>4. MayHold(t, c) BY <1>2, <2>1 DEF MayHold, Holds, At
    <2> HIDE DEF c
    <2> QED BY <1>1, <1>2, <2>1, <2>3, <2>4, Quiet DEF c
  <1>3. CASE \E e \in Bound(key): row[e].kind = kind /\ Become(t, Resumed(e))
    <2>1. PICK e \in Bound(key): Become(t, Resumed(e)) BY <1>3
    <2>2. e \in Sessions /\ Recorded(e) /\ row[e] \in Rows BY <2>1 DEF Bound, Recorded, IInv, TypeOK
    <2> DEFINE c == Resumed(e)
    <2>3. c \in Calls /\ c.pc = "wait" /\ c.s = e /\ c.kind = row[e].kind
      BY <2>2 DEF Resumed, Call, Calls, Operations, Places, Observations, Rows
    <2>4. th'[t] = c BY <2>1, <2>3, BecomeType DEF IInv
    <2>5. CallOK(t)'
      BY <1>1, <2>2, <2>3, <2>4 DEF CallOK, World0, Recorded, Seeing, OnZellij, OnTsukai, Starting, AgentGone
    <2> HIDE DEF c
    <2> QED BY <1>1, <2>1, <2>3, <2>5, Quiet DEF c, MayHold
  <1> QED BY <1>2, <1>3 DEF Start

LEMMA RequestKeeps ==
  ASSUME IInv, NEW t \in Threads, NEW s \in Sessions, NEW op \in Operations, NEW note,
         op = "continue" => note \in Notes, Request(t, op, s, note)
  PROVE  IInv'
  <1>1. World0 /\ manifests' \subseteq Sessions
    BY DEF Request, World0, external, task, meter, IInv, TypeOK
  <1> DEFINE c == Call(op, "wait", s, row[s].kind, NoKey, IF op = "continue" THEN {note} ELSE {})
  <1>2. Recorded(s) /\ row[s] \in Rows BY DEF Request, Recorded, IInv, TypeOK
  <1>3. c \in Calls /\ c.pc = "wait" /\ c.s = s /\ c.kind = row[s].kind
    BY <1>2 DEF Call, Calls, Places, Observations, Rows
  <1>4. Become(t, c) BY DEF Request
  <1>5. th'[t] = c BY <1>3, <1>4, BecomeType DEF IInv
  <1>6. CallOK(t)'
    BY <1>1, <1>2, <1>3, <1>5 DEF CallOK, World0, Recorded, Seeing, OnZellij, OnTsukai, Starting, AgentGone
  <1> HIDE DEF c
  <1> QED BY <1>1, <1>3, <1>4, <1>6, Quiet DEF MayHold

LEMMA AcquireKeeps ==
  ASSUME IInv, NEW t \in Threads, Acquire(t)
  PROVE  IInv'
  <1>1. World0 /\ manifests' \subseteq Sessions
    BY DEF Acquire, World0, external, task, meter, IInv, TypeOK
  <1>2. th[t] \in Calls /\ CallOK(t) /\ th[t].pc = "wait" BY InFlight DEF Acquire, At, IInv
  <1> DEFINE c == [th[t] EXCEPT !.pc = "read"]
  <1>3. "read" \in Places BY DEF Places
  <1>4. c \in Calls /\ c.pc = "read" /\ c.s = th[t].s /\ c.kind = th[t].kind BY <1>2, <1>3, Moves
  <1>5. Become(t, c) BY DEF Acquire, Goto
  <1>6. th'[t] = c BY <1>4, <1>5, BecomeType DEF IInv
  <1>7. CallOK(t)'
    BY <1>1, <1>2, <1>4, <1>6 DEF CallOK, World0, Recorded, Seeing, OnZellij, OnTsukai, Starting, AgentGone
  <1>8. MayHold(t, c) BY <1>4 DEF MayHold, Acquire, AtRest
  <1> HIDE DEF c
  <1> QED BY <1>1, <1>4, <1>5, <1>7, <1>8, Quiet

LEMMA ReadKeeps ==
  ASSUME IInv, NEW t \in Threads, Read(t)
  PROVE  IInv'
  <1>1. World0 /\ manifests' \subseteq Sessions
    BY DEF Read, World0, external, task, meter, IInv, TypeOK
  <1>2. th[t] \in Calls /\ CallOK(t) /\ th[t].pc = "read" BY InFlight DEF Read, At, IInv
  <1>3. Recorded(th[t].s) /\ row[th[t].s].kind = th[t].kind BY <1>2 DEF CallOK
  <1> DEFINE r == row[th[t].s]
             seen == [r EXCEPT !.sem = sem[th[t].s]]
             pc == IF seen.kind = "run" THEN "evidence" ELSE IF RuntimeOver(seen) THEN "apply" ELSE "inspect"
             c == [th[t] EXCEPT !.seen = seen, !.ok = valid[th[t].s], !.obs = "none", !.pc = pc]
  <1>4. r \in Rows /\ th[t].s \in Sessions BY <1>2, <1>3 DEF IInv, TypeOK, Recorded, Calls
  <1>5. /\ seen \in Rows /\ seen.kind = r.kind /\ seen.attempt = r.attempt /\ seen.notes = r.notes
        /\ seen.life = r.life /\ seen.rt = r.rt
    BY <1>4 DEF Rows, IInv, TypeOK
  <1>6. /\ c \in Calls /\ c.pc = pc /\ c.s = th[t].s /\ c.kind = th[t].kind /\ c.seen = seen
        /\ pc \in {"evidence", "apply", "inspect"}
    <2>1. pc \in {"evidence", "apply", "inspect"} OBVIOUS
    <2>2. pc \in Places BY <2>1 DEF Places
    <2>3. "none" \in Observations /\ valid[th[t].s] \in BOOLEAN BY <1>4 DEF Observations, IInv, TypeOK
    <2> HIDE DEF seen, pc
    <2> QED BY <1>2, <1>5, <2>1, <2>2, <2>3 DEF Calls
  <1>7. Become(t, c) BY DEF Read
  <1>8. th'[t] = c BY <1>6, <1>7, BecomeType DEF IInv
  <1>9. r.kind \in {"zellij", "run"} BY <1>4, KindsAreKnown DEF Rows
  <1>10. CallOK(t)'
    <2>1. /\ pc = "evidence" => th[t].kind = "run"
          /\ pc = "inspect" => th[t].kind = "zellij"
          /\ pc = "apply" => RuntimeOver(seen)
      BY <1>3, <1>5, <1>9 DEF RuntimeOver
    <2>2. row' = row BY <1>1 DEF World0
    <2> HIDE DEF c, seen, pc
    <2>3. /\ c.pc \in {"evidence", "apply", "inspect"} /\ c.s = th[t].s /\ c.kind = th[t].kind
          /\ c.seen = seen
      BY <1>6
    <2> QED BY <1>3, <1>5, <1>6, <1>8, <2>1, <2>2, <2>3
        DEF CallOK, Recorded, Seeing, OnZellij, OnTsukai, Starting, AgentGone
  <1>11. MayHold(t, c) BY <1>2, <1>6 DEF MayHold, Holds
  <1> HIDE DEF c
  <1> QED BY <1>1, <1>6, <1>7, <1>10, <1>11, Quiet

-----------------------------------------------------------------------------
(***************************************************************************)
(* Steps that work on the session the call holds.  SessionFine and         *)
(* CallFine say SessionOK and CallOK of values: the row r, the Zellij      *)
(* session z, the runs q, and whether a command to end it failed (m).      *)
(***************************************************************************)
Panes == [up: BOOLEAN, live: Nat, dead: {0, 1}]
Runs == [Attempts -> [made: Nat, state: Ended \cup {"none", "live"}, bound: BOOLEAN]]

PaneFine(r, z, m) ==
  /\ z.live <= 1
  /\ ~z.up => z.live = 0
  /\ z.live = 1 => z.dead = 0
  /\ r.kind = "run" => z.live = 0
  /\ (RuntimeOver(r) \/ r.rt \in Ended) /\ ~m => z.live = 0

RunsFine(r, q) ==
  /\ r.kind = "zellij" => \A n \in Attempts: q[n].made = 0
  /\ \A n \in Attempts:
        /\ q[n].made <= 1
        /\ q[n].made = 0 <=> q[n].state = "none"
        /\ n > r.attempt => q[n].made = 0
        /\ n < r.attempt => q[n].state # "live"

CallFine(c, r, z, m) ==
  /\ r.kind = c.kind
  /\ c.pc \in OnZellij => c.kind = "zellij"
  /\ c.pc \in OnTsukai => c.kind = "run"
  /\ c.pc \in Seeing =>
        /\ c.seen \in Rows
        /\ c.seen.kind = c.kind
        /\ c.seen.attempt = r.attempt
        /\ c.seen.notes = r.notes
  /\ c.pc \in Seeing \ {"followUp"} => c.seen.life = r.life /\ c.seen.rt = r.rt
  /\ c.pc = "apply" /\ c.kind = "zellij" /\ ~RuntimeOver(c.seen) =>
        /\ c.obs \in {"absent", "running", "exited", "uncertain", "error"}
        /\ ~c.ok /\ ~m => z.live = 0
        /\ c.obs \in {"absent", "exited"} => z.live = 0
  /\ c.pc = "evict" => c.obs = "running"
  /\ c.pc \in Starting => r.life = "starting" /\ r.rt = "starting"
  /\ c.pc \in AgentGone /\ c.kind = "zellij" /\ ~m => z.live = 0
  /\ c.pc \in {"create", "pane"} => z.live = 0
  /\ c.pc = "pane" => z.dead = 0

Working == Places \ {"prepare", "wait"}

\* What a call that is working may rely on.
Facts(t) ==
  /\ th[t] \in Calls /\ th[t].s \in Sessions
  /\ Holds(t, th[t].s) /\ Recorded(th[t].s)
  /\ row[th[t].s] \in Rows /\ zel[th[t].s] \in Panes /\ run[th[t].s] \in Runs
  /\ th[t].kind \in {"zellij", "run"}
  /\ row[th[t].s].attempt \in Attempts
  /\ PaneFine(row[th[t].s], zel[th[t].s], th[t].s \in missed)
  /\ RunsFine(row[th[t].s], run[th[t].s])
  /\ CallFine(th[t], row[th[t].s], zel[th[t].s], th[t].s \in missed)

LEMMA Turn ==
  ASSUME IInv, NEW t \in Threads, NEW pc \in Working, At(t, pc)
  PROVE  Facts(t) /\ th[t].pc = pc
  <1>1. pc \in Places /\ pc \notin {"idle", "prepare", "wait"} BY DEF Working, Places
  <1>2. th[t] \in Calls /\ th[t].pc = pc BY <1>1, InFlight DEF IInv, At
  <1>3. th[t].s \in Sessions /\ th[t].kind \in {"zellij", "run"} BY <1>2, KindsAreKnown DEF Calls
  <1>4. CallOK(t) /\ SessionOK(th[t].s) BY <1>3 DEF IInv
  <1>5. Recorded(th[t].s) BY <1>1, <1>2, <1>4 DEF CallOK
  <1>6. row[th[t].s] \in Rows /\ zel[th[t].s] \in Panes /\ run[th[t].s] \in Runs
    BY <1>3, <1>5 DEF IInv, TypeOK, Recorded, Panes, Runs
  <1>7. PaneFine(row[th[t].s], zel[th[t].s], th[t].s \in missed)
    BY <1>4, <1>5 DEF SessionOK, PaneFine
  <1>8. RunsFine(row[th[t].s], run[th[t].s]) BY <1>4, <1>5 DEF SessionOK, RunsFine
  <1>9. CallFine(th[t], row[th[t].s], zel[th[t].s], th[t].s \in missed)
    BY <1>1, <1>2, <1>4 DEF CallOK, InspectedOK, CallFine
  <1>10. Holds(t, th[t].s) BY <1>1, <1>2 DEF Holds
  <1>11. row[th[t].s].attempt \in Attempts BY <1>6 DEF Rows
  <1> QED BY <1>2, <1>3, <1>5, <1>6, <1>7, <1>8, <1>9, <1>10, <1>11 DEF Facts

\* A step of a call that works on its session.
LEMMA Change ==
  ASSUME IInv, NEW t \in Threads, NEW pc \in Working, At(t, pc),
         NEW c, c = Idle \/ (c \in Calls /\ c.s = th[t].s /\ c.pc # "prepare"), Become(t, c),
         NEW r \in Rows, row' = [row EXCEPT ![th[t].s] = r],
         r.kind = row[th[t].s].kind, r.key = row[th[t].s].key,
         NEW z \in Panes, zel' = [zel EXCEPT ![th[t].s] = z],
         NEW q \in Runs, run' = [run EXCEPT ![th[t].s] = q],
         manifests' \subseteq Sessions, UNCHANGED <<sem, valid, crashes>>,
         missed' = missed \/ missed' = missed \cup {th[t].s},
         UNCHANGED faults \/ Fails,
         PaneFine(r, z, th[t].s \in missed'), RunsFine(r, q),
         c # Idle => CallFine(c, r, z, th[t].s \in missed')
  PROVE  IInv'
  <1>0. PICK s \in Sessions: s = th[t].s BY Turn DEF Facts
  <1>1. th[t] \in Calls /\ Holds(t, s) /\ Recorded(s) BY <1>0, Turn DEF Facts
  <1>2. /\ c \in Calls \cup {Idle}
        /\ th' \in [Threads -> Calls \cup {Idle}]
        /\ th'[t] = c
    BY BecomeType DEF IInv
  <1>3. row'[s] = r /\ zel'[s] = z /\ run'[s] = q
    BY <1>0, <1>1 DEF IInv, TypeOK
  <1>4. r # NoRow
    BY DEF Rows, NoRow, Lifecycles, Ended, Live
  <1>5. Only(s)
    BY <1>0, <1>1, <1>3, <1>4 DEF Only, IInv, TypeOK
  <1>6. faults' \in 0 .. MaxFaults
    BY BoundsAreNatural DEF Fails, IInv, TypeOK
  <1>7. TypeOK'
    BY <1>0, <1>1, <1>2, <1>6 DEF IInv, TypeOK, Panes, Runs
  <1>8. KeysUnique'
    BY <1>0, <1>1, <1>3, <1>4, <1>5 DEF IInv, KeysUnique, Only, Recorded
  <1>9. SessionOK(s)'
    BY <1>0, <1>3, <1>4, <1>1 DEF SessionOK, PaneFine, RunsFine, Recorded
  <1>10. CallOK(t)'
    <2>1. CASE c = Idle
      BY <2>1, <1>2, Ends0 DEF CallOK, Seeing, OnZellij, OnTsukai, Starting, AgentGone
    <2>2. CASE c # Idle
      <3>1. c.s = s /\ c.pc # "prepare" /\ CallFine(c, r, z, s \in missed')
        BY <1>0, <2>2
      <3> QED BY <3>1, <1>2, <1>3, <1>4 DEF CallOK, InspectedOK, CallFine, Recorded
    <2> QED BY <2>1, <2>2
  <1>11. c.pc \notin {"idle", "wait"} => c.s = s
    BY <1>0, Ends0
  <1> QED BY <1>0, <1>1, <1>2, <1>5, <1>7, <1>8, <1>9, <1>10, <1>11, Work

\* Writing what is there changes nothing.
LEMMA Same ==
  ASSUME TypeOK, NEW s \in Sessions
  PROVE  /\ row = [row EXCEPT ![s] = row[s]]
         /\ zel = [zel EXCEPT ![s] = zel[s]]
         /\ run = [run EXCEPT ![s] = run[s]]
  BY DEF TypeOK

\* A step that only moves its call.
LEMMA Goes ==
  ASSUME IInv, NEW t \in Threads, NEW pc \in Working, At(t, pc),
         NEW c, c = Idle \/ (c \in Calls /\ c.s = th[t].s /\ c.pc # "prepare"), Become(t, c),
         UNCHANGED <<row, zel, run>>,
         manifests' \subseteq Sessions, UNCHANGED <<sem, valid, missed, crashes>>,
         UNCHANGED faults \/ Fails,
         c # Idle => CallFine(c, row[th[t].s], zel[th[t].s], th[t].s \in missed)
  PROVE  IInv'
  <1>1. /\ th[t].s \in Sessions
        /\ row[th[t].s] \in Rows /\ zel[th[t].s] \in Panes /\ run[th[t].s] \in Runs
        /\ PaneFine(row[th[t].s], zel[th[t].s], th[t].s \in missed)
        /\ RunsFine(row[th[t].s], run[th[t].s])
    BY Turn DEF Facts
  <1>2. /\ row' = [row EXCEPT ![th[t].s] = row[th[t].s]]
        /\ zel' = [zel EXCEPT ![th[t].s] = zel[th[t].s]]
        /\ run' = [run EXCEPT ![th[t].s] = run[th[t].s]]
    BY <1>1, Same DEF IInv
  <1> QED BY <1>1, <1>2, Change

-----------------------------------------------------------------------------
(***************************************************************************)
(* The records of calls that take another turn.                            *)
(***************************************************************************)
LEMMA Launches ==
  ASSUME NEW t, th[t] \in Calls, NEW pc \in Places, Launch(t, pc)
  PROVE  \E c \in Calls: /\ Become(t, c) /\ c.pc = pc
                         /\ c.s = th[t].s /\ c.kind = th[t].kind
  <1> DEFINE c == [th[t] EXCEPT !.pc = pc, !.op = "restart", !.seen = NoRow, !.key = NoKey, !.note = {}]
  <1>1. c \in Calls /\ c.pc = pc /\ c.s = th[t].s /\ c.kind = th[t].kind
    BY DEF Calls, Operations
  <1>2. Become(t, c) BY DEF Launch
  <1> HIDE DEF c
  <1> QED BY <1>1, <1>2

\* A call that waits or reads again relies on nothing but the kind.
LEMMA Afresh ==
  ASSUME NEW c, c.pc \in {"wait", "read"}, NEW r, r.kind = c.kind, NEW z, NEW m
  PROVE  CallFine(c, r, z, m)
  BY DEF CallFine, Seeing, OnZellij, OnTsukai, Starting, AgentGone

\* What follows a stop is fine with any row of the same attempt and notes.
LEMMA AfterStopFine ==
  ASSUME NEW t, Facts(t), th[t].pc \in Seeing, NEW r, r.kind = row[th[t].s].kind,
         r.attempt = row[th[t].s].attempt, r.notes = row[th[t].s].notes,
         NEW z, NEW m
  PROVE  \/ AfterStop(t) = Idle
         \/ /\ AfterStop(t) \in Calls /\ AfterStop(t).s = th[t].s /\ AfterStop(t).pc # "prepare"
            /\ CallFine(AfterStop(t), r, z, m)
  <1>1. th[t] \in Calls /\ r.kind = th[t].kind BY DEF Facts, CallFine
  <1>2. CASE th[t].op = "stop" BY <1>2 DEF AfterStop
  <1> DEFINE c1 == [th[t] EXCEPT !.op = "settle", !.pc = "read"]
             c2 == [th[t] EXCEPT !.pc = "followUp"]
  <1>3. c1 \in Calls /\ c1.pc = "read" /\ c1.s = th[t].s /\ c1.kind = th[t].kind
    BY <1>1 DEF Calls, Operations, Places
  <1>4. CallFine(c1, r, z, m)
    <2> HIDE DEF c1
    <2> QED BY <1>1, <1>3, Afresh
  <1>5. /\ c2 \in Calls /\ c2.pc = "followUp" /\ c2.s = th[t].s /\ c2.kind = th[t].kind
        /\ c2.seen = th[t].seen
    <2>1. "followUp" \in Places BY DEF Places
    <2> QED BY <1>1, <2>1, Moves
  <1>6. CallFine(c2, r, z, m)
    BY <1>1, <1>5 DEF Facts, CallFine, Seeing, OnZellij, OnTsukai, Starting, AgentGone
  <1>7. th[t].op # "stop" => AfterStop(t) = c1 \/ AfterStop(t) = c2 BY DEF AfterStop
  <1> HIDE DEF c1, c2
  <1> QED BY <1>2, <1>3, <1>4, <1>5, <1>6, <1>7

-----------------------------------------------------------------------------
(***************************************************************************)
(* Every step of a call keeps IInv.                                        *)
(***************************************************************************)
LEMMA GoesTo ==
  ASSUME IInv, NEW t \in Threads, NEW from \in Working, At(t, from),
         NEW pc \in Places, pc # "prepare", Goto(t, pc),
         UNCHANGED <<row, zel, run>>,
         manifests' \subseteq Sessions, UNCHANGED <<sem, valid, missed, crashes>>,
         UNCHANGED faults \/ Fails,
         \A c \in Calls: /\ c.pc = pc /\ c.s = th[t].s /\ c.kind = th[t].kind
                         /\ c.seen = th[t].seen /\ c.obs = th[t].obs /\ c.ok = th[t].ok
                         => CallFine(c, row[th[t].s], zel[th[t].s], th[t].s \in missed)
  PROVE  IInv'
  <1> DEFINE c == [th[t] EXCEPT !.pc = pc]
  <1>1. th[t] \in Calls BY Turn DEF Facts
  <1>2. /\ c \in Calls /\ c.pc = pc /\ c.s = th[t].s /\ c.kind = th[t].kind
        /\ c.seen = th[t].seen /\ c.obs = th[t].obs /\ c.ok = th[t].ok
    BY <1>1, Moves
  <1>3. Become(t, c) BY DEF Goto
  <1> HIDE DEF c
  <1>4. CallFine(c, row[th[t].s], zel[th[t].s], th[t].s \in missed) BY <1>2
  <1> QED BY <1>2, <1>3, <1>4, Goes

LEMMA Returns ==
  ASSUME IInv, NEW t \in Threads, NEW from \in Working, At(t, from), Return(t),
         UNCHANGED <<row, zel, run>>,
         manifests' \subseteq Sessions, UNCHANGED <<sem, valid, missed, crashes>>,
         UNCHANGED faults \/ Fails
  PROVE  IInv'
  <1>1. PICK c: c = Idle /\ Become(t, c) BY DEF Return
  <1>2. c = Idle \/ (c \in Calls /\ c.s = th[t].s /\ c.pc # "prepare") BY <1>1
  <1>3. c # Idle => CallFine(c, row[th[t].s], zel[th[t].s], th[t].s \in missed) BY <1>1
  <1> QED BY <1>1, <1>2, <1>3, Goes

\* A step that lets its call wait or read again.
LEMMA Again ==
  ASSUME IInv, NEW t \in Threads, NEW from \in Working, At(t, from),
         NEW op \in Operations, NEW pc \in {"wait", "read"},
         Become(t, [th[t] EXCEPT !.op = op, !.pc = pc]),
         UNCHANGED <<row, zel, run>>, UNCHANGED <<manifests, sem, valid, missed, faults, crashes>>
  PROVE  IInv'
  <1> DEFINE c == [th[t] EXCEPT !.op = op, !.pc = pc]
  <1>1. th[t] \in Calls /\ row[th[t].s].kind = th[t].kind /\ manifests' \subseteq Sessions
    BY Turn DEF Facts, CallFine, IInv, TypeOK
  <1>2. pc \in Places BY DEF Places
  <1>3. c \in Calls /\ c.pc = pc /\ c.s = th[t].s /\ c.kind = th[t].kind
    BY <1>1, <1>2 DEF Calls
  <1> HIDE DEF c
  <1>4. CallFine(c, row[th[t].s], zel[th[t].s], th[t].s \in missed) BY <1>1, <1>3, Afresh
  <1> QED BY <1>1, <1>3, <1>4, Goes DEF c

LEMMA RefuseKeeps ==
  ASSUME IInv, NEW t \in Threads, Refuse(t)
  PROVE  IInv'
  <1>1. World0 /\ manifests' \subseteq Sessions
    BY DEF Refuse, World0, external, task, meter, IInv, TypeOK
  <1> QED BY <1>1, GivesBack DEF Refuse

LEMMA DecisionKeeps ==
  ASSUME IInv, NEW t \in Threads, Decision(t)
  PROVE  IInv'
  <1>1. UNCHANGED <<row, manifests, zel, run, sem, valid, missed, faults, crashes>>
    BY DEF Decision, DecideReconcile, DecideResume, DecideStop, DecideContinue, DecideSettle,
           DecideRestart, external, task, meter
  <1>2. "decide" \in Working /\ At(t, "decide")
    BY DEF Decision, DecideReconcile, DecideResume, DecideStop, DecideContinue, DecideSettle,
           DecideRestart, Deciding, Working, Places
  <1>3. Facts(t) /\ th[t].pc = "decide" BY <1>2, Turn
  <1>4. manifests' \subseteq Sessions BY <1>1 DEF IInv, TypeOK
  <1>5. CASE Return(t) BY <1>1, <1>2, <1>4, <1>5, Returns
  <1>6. ASSUME NEW op \in Operations, NEW pc \in {"wait", "read"},
               Become(t, [th[t] EXCEPT !.op = op, !.pc = pc])
        PROVE  IInv'
    BY <1>1, <1>2, <1>6, Again
  <1>7. ASSUME NEW pc \in {"followUp", "cancel", "identify", "retry", "confirm", "relaunch"},
               Goto(t, pc),
               pc \in {"cancel", "retry"} => th[t].kind = "run",
               pc \in {"identify", "confirm", "relaunch"} => th[t].kind = "zellij",
               pc = "relaunch" => th[t].seen.rt \in Ended
        PROVE  IInv'
    <2>1. pc \in Places /\ pc # "prepare" BY DEF Places
    <2>2. ASSUME NEW c \in Calls, c.pc = pc, c.s = th[t].s, c.kind = th[t].kind, c.seen = th[t].seen
          PROVE  CallFine(c, row[th[t].s], zel[th[t].s], th[t].s \in missed)
      BY <1>3, <1>7, <2>2
      DEF Facts, CallFine, PaneFine, Seeing, OnZellij, OnTsukai, Starting, AgentGone
    <2> QED BY <1>1, <1>2, <1>4, <1>7, <2>1, <2>2, GoesTo
  <1>8. "restart" \in Operations /\ "pause" \in Operations /\ "settle" \in Operations
    BY DEF Operations
  <1>9. th[t].kind \in {"zellij", "run"} /\ th[t].seen \in Rows /\ th[t].seen.kind = th[t].kind
    BY <1>3 DEF Facts, CallFine, Seeing
  <1>10. CASE DecideReconcile(t) BY <1>5, <1>10 DEF DecideReconcile
  <1>11. CASE DecideResume(t) BY <1>5, <1>6, <1>8, <1>11 DEF DecideResume
  <1>12. CASE DecideStop(t)
    <2>1. CASE Become(t, AfterStop(t))
      <3>1. \/ AfterStop(t) = Idle
            \/ /\ AfterStop(t) \in Calls /\ AfterStop(t).s = th[t].s /\ AfterStop(t).pc # "prepare"
               /\ CallFine(AfterStop(t), row[th[t].s], zel[th[t].s], th[t].s \in missed)
        BY <1>3, AfterStopFine DEF Seeing
      <3>2. PICK c: c = AfterStop(t) /\ Become(t, c) BY <2>1
      <3>3. c = Idle \/ (c \in Calls /\ c.s = th[t].s /\ c.pc # "prepare") BY <3>1, <3>2
      <3>4. c # Idle => CallFine(c, row[th[t].s], zel[th[t].s], th[t].s \in missed) BY <3>1, <3>2
      <3> QED BY <1>1, <1>2, <1>4, <3>2, <3>3, <3>4, Goes
    <2>2. CASE Goto(t, IF th[t].kind = "run" THEN "cancel" ELSE "identify")
      BY <1>7, <1>9, <2>2
    <2> QED BY <1>12, <2>1, <2>2 DEF DecideStop
  <1>13. CASE DecideContinue(t) BY <1>5, <1>6, <1>7, <1>8, <1>13 DEF DecideContinue
  <1>14. CASE DecideSettle(t) BY <1>7, <1>14 DEF DecideSettle
  <1>15. CASE DecideRestart(t)
    <2>1. CASE Return(t) BY <2>1, <1>5
    <2>2. CASE th[t].seen.rt \notin Live /\ Goto(t, RestartPc(th[t].seen))
      <3>1. th[t].seen.rt \in RuntimeStates BY <1>9 DEF Rows
      <3>2. RestartPc(th[t].seen) \in {"retry", "confirm", "relaunch"} BY DEF RestartPc
      <3>3. RestartPc(th[t].seen) = "retry" <=> th[t].kind = "run" BY <1>9 DEF RestartPc
      <3>4. RestartPc(th[t].seen) = "relaunch" => th[t].seen.rt \in Ended
        BY <2>2, <3>1 DEF RestartPc, RuntimeStates
      <3> QED BY <1>7, <1>9, <2>2, <3>2, <3>3, <3>4
    <2> QED BY <1>15, <2>1, <2>2 DEF DecideRestart
  <1> QED BY <1>10, <1>11, <1>12, <1>13, <1>14, <1>15 DEF Decision

LEMMA PersistKeeps ==
  ASSUME IInv, NEW t \in Threads, Persist(t)
  PROVE  IInv'
  <1>1. /\ UNCHANGED <<zel, run, sem, valid, missed, faults, crashes>>
        /\ manifests' \subseteq Sessions
    BY DEF Persist, external, task, meter, IInv, TypeOK
  <1>2. th[t] \in Calls /\ CallOK(t) /\ th[t].pc = "prepare" BY InFlight DEF Persist, At, IInv
  <1> DEFINE call == th[t]
  <1>3. CASE /\ Bound(call.key) = {}
             /\ row' = [row EXCEPT ![call.s] =
                    [life |-> "starting", rt |-> "starting", sem |-> "active", attempt |-> 0,
                     kind |-> call.kind, key |-> call.key, notes |-> {}]]
             /\ Goto(t, "validate")
    <2>1. PICK s \in Sessions: s = th[t].s BY <1>2 DEF Calls
    <2>2. PICK r \in Rows: r = [life |-> "starting", rt |-> "starting", sem |-> "active", attempt |-> 0,
                                kind |-> call.kind, key |-> call.key, notes |-> {}]
      <3>1. call.kind \in Kinds /\ call.key \in Keys \cup {NoKey} BY <1>2 DEF Calls
      <3>2. /\ 0 \in Attempts /\ {} \in SUBSET Notes /\ "active" \in Semantics
            /\ "starting" \in Lifecycles /\ "starting" \in RuntimeStates
        BY BoundsAreNatural DEF Attempts, Semantics, Lifecycles, RuntimeStates, Live
      <3> QED BY <3>1, <3>2 DEF Rows
    <2>3. PICK c \in Calls: /\ Become(t, c) /\ c.pc = "validate"
                            /\ c.s = s /\ c.kind = th[t].kind
      <3>1. "validate" \in Places BY DEF Places
      <3> QED BY <1>2, <1>3, <2>1, <3>1, Moves DEF Goto
    <2>4. /\ th' \in [Threads -> Calls \cup {Idle}]
          /\ th'[t] = c
      BY <2>3, BecomeType DEF IInv
    <2>5. ~Recorded(s) /\ SessionOK(s) BY <1>2, <2>1 DEF CallOK, IInv
    <2>6. row'[s] = r /\ r # NoRow /\ \A e \in Sessions \ {s}: row'[e] = row[e]
      BY <1>3, <2>1, <2>2 DEF IInv, TypeOK, NoRow, Rows
    <2>7. TypeOK'
      BY <1>1, <1>3, <2>1, <2>2, <2>4 DEF IInv, TypeOK
    <2>8. KeysUnique'
      <3>1. \A e \in Sessions: Recorded(e) /\ row[e].key = r.key => r.key = NoKey
        BY <1>3, <2>2 DEF Bound
      <3> QED BY <2>5, <2>6, <3>1 DEF IInv, KeysUnique, Recorded
    <2>9. SessionOK(s)'
      <3>1. zel[s].live = 0 /\ \A n \in Attempts: run[s][n].made = 0 BY <2>5 DEF SessionOK
      <3>2. \A n \in Attempts: run[s][n].state = "none" BY <2>5, <3>1 DEF SessionOK
      <3>3. r.attempt = 0 /\ r.kind = th[t].kind /\ r.life = "starting" /\ r.rt = "starting" BY <2>2
      <3> QED BY <1>1, <2>5, <2>6, <3>1, <3>2, <3>3 DEF SessionOK, RuntimeOver, Recorded, Ended
    <2>10. CallOK(t)'
      <3>1. zel[s].live = 0 BY <2>5 DEF SessionOK
      <3>2. r.kind = th[t].kind /\ r.life = "starting" /\ r.rt = "starting" BY <2>2
      <3> QED BY <1>1, <2>3, <2>4, <2>6, <3>1, <3>2
          DEF CallOK, Recorded, Seeing, OnZellij, OnTsukai, Starting, AgentGone
    <2>11. Only(s) BY <1>1, <2>5, <2>6 DEF Only
    <2>12. Holds(t, s) BY <1>2, <2>1 DEF Holds
    <2> QED BY <2>3, <2>7, <2>8, <2>9, <2>10, <2>11, <2>12, Work
  <1>4. CASE \E e \in Bound(call.key): Become(t, Resumed(e)) /\ UNCHANGED row
    <2>1. PICK e \in Bound(call.key): Become(t, Resumed(e)) /\ UNCHANGED row BY <1>4
    <2>2. e \in Sessions /\ Recorded(e) /\ row[e] \in Rows BY <2>1 DEF Bound, Recorded, IInv, TypeOK
    <2> DEFINE c == Resumed(e)
    <2>3. c \in Calls /\ c.pc = "wait" /\ c.s = e /\ c.kind = row[e].kind
      BY <2>2 DEF Resumed, Call, Calls, Operations, Places, Observations, Rows
    <2>4. th'[t] = c BY <2>1, <2>3, BecomeType DEF IInv
    <2>5. World0 BY <1>1, <2>1 DEF World0
    <2>6. CallOK(t)'
      BY <2>5, <2>2, <2>3, <2>4 DEF CallOK, World0, Recorded, Seeing, OnZellij, OnTsukai, Starting, AgentGone
    <2> HIDE DEF c
    <2> QED BY <1>1, <2>1, <2>3, <2>5, <2>6, Quiet DEF c, MayHold
  <1> QED BY <1>3, <1>4 DEF Persist

\* A failed launch leaves no agent behind.
LEMMA FailedFine ==
  ASSUME NEW r \in Rows, NEW z, NEW q, NEW m, PaneFine(r, z, m), RunsFine(r, q), ~m => z.live = 0
  PROVE  /\ Failed(r) \in Rows /\ Failed(r).kind = r.kind /\ Failed(r).key = r.key
         /\ PaneFine(Failed(r), z, m) /\ RunsFine(Failed(r), q)
  <1>1. /\ Failed(r) \in Rows /\ Failed(r).kind = r.kind /\ Failed(r).key = r.key
        /\ Failed(r).attempt = r.attempt
    BY DEF Failed, Rows, Lifecycles, RuntimeStates, Ended
  <1> QED BY <1>1 DEF PaneFine, RunsFine

LEMMA ValidateKeeps ==
  ASSUME IInv, NEW t \in Threads, Validate(t)
  PROVE  IInv'
  <1> USE DEF external, task, meter
  <1>1. "validate" \in Working /\ At(t, "validate") BY DEF Validate, Working, Places
  <1>2. Facts(t) /\ th[t].pc = "validate" BY <1>1, Turn
  <1>3. manifests' \subseteq Sessions BY DEF Validate, IInv, TypeOK
  <1>4. ~(th[t].s \in missed) => zel[th[t].s].live = 0
    BY <1>2 DEF Facts, CallFine, PaneFine, AgentGone
  <1>5. CASE Launch(t, LaunchPc(th[t].kind)) /\ UNCHANGED row
    <2>1. LaunchPc(th[t].kind) \in Places BY DEF LaunchPc, Places
    <2>2. PICK c \in Calls: /\ Become(t, c) /\ c.pc = LaunchPc(th[t].kind)
                            /\ c.s = th[t].s /\ c.kind = th[t].kind
      BY <1>2, <1>5, <2>1, Launches DEF Facts
    <2>3. CallFine(c, row[th[t].s], zel[th[t].s], th[t].s \in missed)
      BY <1>2, <1>4, <2>2
      DEF Facts, CallFine, LaunchPc, Seeing, OnZellij, OnTsukai, Starting, AgentGone
    <2>4. c.pc # "prepare" BY <2>2 DEF LaunchPc
    <2> QED BY <1>1, <1>3, <1>5, <2>2, <2>3, <2>4, Goes DEF Validate
  <1>6. CASE row' = [row EXCEPT ![th[t].s] = Failed(@)] /\ Return(t)
    <2>1. PICK r \in Rows: /\ r = Failed(row[th[t].s])
                           /\ r.kind = row[th[t].s].kind /\ r.key = row[th[t].s].key
                           /\ PaneFine(r, zel[th[t].s], th[t].s \in missed)
                           /\ RunsFine(r, run[th[t].s])
      BY <1>2, <1>4, FailedFine DEF Facts
    <2>2. row' = [row EXCEPT ![th[t].s] = r] BY <1>6, <2>1
    <2>3. PICK c: c = Idle /\ Become(t, c) BY <1>6 DEF Return
    <2>4. /\ th[t].s \in Sessions /\ zel[th[t].s] \in Panes /\ run[th[t].s] \in Runs
      BY <1>2 DEF Facts
    <2>5. /\ zel' = [zel EXCEPT ![th[t].s] = zel[th[t].s]]
          /\ run' = [run EXCEPT ![th[t].s] = run[th[t].s]]
      BY <2>4, Same DEF Validate, IInv
    <2> QED BY <1>1, <1>3, <2>1, <2>2, <2>3, <2>4, <2>5, Change DEF Validate
  <1> QED BY <1>5, <1>6 DEF Validate

-----------------------------------------------------------------------------
\* A step that ends the session's agents, or leaves the session as it is.
LEMMA PaneStep ==
  ASSUME IInv, NEW t \in Threads, NEW from \in Working, At(t, from),
         NEW c, c = Idle \/ (c \in Calls /\ c.s = th[t].s /\ c.pc # "prepare"), Become(t, c),
         NEW z \in Panes, zel' = [zel EXCEPT ![th[t].s] = z], z = zel[th[t].s] \/ z.live = 0,
         UNCHANGED <<row, run>>,
         manifests' \subseteq Sessions, UNCHANGED <<sem, valid, crashes>>,
         missed' = missed \/ missed' = missed \cup {th[t].s},
         UNCHANGED faults \/ Fails,
         c # Idle => CallFine(c, row[th[t].s], z, th[t].s \in missed')
  PROVE  IInv'
  <1>1. /\ th[t].s \in Sessions
        /\ row[th[t].s] \in Rows /\ run[th[t].s] \in Runs
        /\ PaneFine(row[th[t].s], zel[th[t].s], th[t].s \in missed)
        /\ RunsFine(row[th[t].s], run[th[t].s])
    BY Turn DEF Facts
  <1>2. /\ row' = [row EXCEPT ![th[t].s] = row[th[t].s]]
        /\ run' = [run EXCEPT ![th[t].s] = run[th[t].s]]
    BY <1>1, Same DEF IInv
  <1>3. PaneFine(row[th[t].s], z, th[t].s \in missed') BY <1>1 DEF PaneFine, Panes
  <1> QED BY <1>1, <1>2, <1>3, Change

\* A step that patches the row.
LEMMA RowStep ==
  ASSUME IInv, NEW t \in Threads, NEW from \in Working, At(t, from),
         NEW c, c = Idle \/ (c \in Calls /\ c.s = th[t].s /\ c.pc # "prepare"), Become(t, c),
         NEW r \in Rows, row' = [row EXCEPT ![th[t].s] = r],
         r.kind = row[th[t].s].kind, r.key = row[th[t].s].key,
         UNCHANGED <<zel, run>>,
         manifests' \subseteq Sessions, UNCHANGED <<sem, valid, missed, crashes>>,
         UNCHANGED faults \/ Fails,
         PaneFine(r, zel[th[t].s], th[t].s \in missed), RunsFine(r, run[th[t].s]),
         c # Idle => CallFine(c, r, zel[th[t].s], th[t].s \in missed)
  PROVE  IInv'
  <1>1. th[t].s \in Sessions /\ zel[th[t].s] \in Panes /\ run[th[t].s] \in Runs
    BY Turn DEF Facts
  <1>2. /\ zel' = [zel EXCEPT ![th[t].s] = zel[th[t].s]]
        /\ run' = [run EXCEPT ![th[t].s] = run[th[t].s]]
    BY <1>1, Same DEF IInv
  <1> QED BY <1>1, <1>2, Change

\* A step that changes the session's AgentRuns.
LEMMA RunStep ==
  ASSUME IInv, NEW t \in Threads, NEW from \in Working, At(t, from),
         NEW c, c = Idle \/ (c \in Calls /\ c.s = th[t].s /\ c.pc # "prepare"), Become(t, c),
         NEW q \in Runs, run' = [run EXCEPT ![th[t].s] = q], RunsFine(row[th[t].s], q),
         UNCHANGED <<row, zel>>,
         manifests' \subseteq Sessions, UNCHANGED <<sem, valid, missed, crashes>>,
         UNCHANGED faults \/ Fails,
         c # Idle => CallFine(c, row[th[t].s], zel[th[t].s], th[t].s \in missed)
  PROVE  IInv'
  <1>1. /\ th[t].s \in Sessions /\ zel[th[t].s] \in Panes /\ row[th[t].s] \in Rows
        /\ PaneFine(row[th[t].s], zel[th[t].s], th[t].s \in missed)
    BY Turn DEF Facts
  <1>2. /\ zel' = [zel EXCEPT ![th[t].s] = zel[th[t].s]]
        /\ row' = [row EXCEPT ![th[t].s] = row[th[t].s]]
    BY <1>1, Same DEF IInv
  <1> QED BY <1>1, <1>2, Change

\* What an inspection tells of a session.
LEMMA Observing ==
  ASSUME NEW z \in Panes, NEW r, NEW m, PaneFine(r, z, m), NEW o \in Observed(z)
  PROVE  /\ o \in {"absent", "running", "exited", "uncertain"}
         /\ o # "running" => z.live = 0
         /\ o = "absent" => ~z.up
  BY DEF Observed, PaneFine, Panes

LEMMA Killing ==
  ASSUME NEW t, Facts(t)
  PROVE  /\ Kill(th[t].s) =>
              \E z \in Panes: zel' = [zel EXCEPT ![th[t].s] = z] /\ z.live = 0
         /\ Spares(th[t].s) => UNCHANGED zel /\ zel[th[t].s].live = 0
  <1>1. NoSession \in Panes /\ NoSession.live = 0 BY DEF NoSession, Panes
  <1>2. Kill(th[t].s) => zel' = [zel EXCEPT ![th[t].s] = NoSession] BY DEF Kill
  <1>3. zel[th[t].s] \in Panes /\ PaneFine(row[th[t].s], zel[th[t].s], th[t].s \in missed)
    BY DEF Facts
  <1>4. ASSUME Spares(th[t].s) PROVE UNCHANGED zel /\ zel[th[t].s].live = 0
    <2>1. PICK o \in Observed(zel[th[t].s]): o \in {"absent", "uncertain"} BY <1>4 DEF Spares
    <2> QED BY <1>3, <1>4, <2>1, Observing DEF Spares
  <1> HIDE DEF NoSession
  <1> QED BY <1>1, <1>2, <1>4

LEMMA InspectKeeps ==
  ASSUME IInv, NEW t \in Threads, Inspect(t)
  PROVE  IInv'
  <1> USE DEF external, task, meter
  <1>1. "inspect" \in Working /\ At(t, "inspect") BY DEF Inspect, Working, Places
  <1>2. Facts(t) /\ th[t].pc = "inspect" BY <1>1, Turn
  <1>3. manifests' \subseteq Sessions BY DEF Inspect, IInv, TypeOK
  <1>4. PICK o \in Observations:
          /\ Inspects(t, o)
          /\ Become(t, [th[t] EXCEPT !.obs = o,
                 !.pc = IF ~th[t].ok /\ o = "running" THEN "evict" ELSE "apply"])
          /\ missed' = IF ~th[t].ok /\ o = "error" THEN missed \cup {th[t].s} ELSE missed
    BY DEF Inspect
  <1> DEFINE pc == IF ~th[t].ok /\ o = "running" THEN "evict" ELSE "apply"
             c == [th[t] EXCEPT !.obs = o, !.pc = pc]
  <1>5. /\ c \in Calls /\ c.pc = pc /\ c.obs = o /\ c.s = th[t].s /\ c.kind = th[t].kind
        /\ c.seen = th[t].seen /\ c.ok = th[t].ok /\ th[t].ok \in BOOLEAN
        /\ pc \in {"evict", "apply"}
    BY <1>2, <1>4 DEF Facts, Calls, Places
  <1>6. \/ o \in {"absent", "running", "exited", "uncertain"} /\ (o # "running" => zel[th[t].s].live = 0)
        \/ o = "error"
    BY <1>2, <1>4, Observing DEF Facts, Inspects
  <1>7. Become(t, c) BY <1>4
  <1> HIDE DEF c
  <1>8. CallFine(c, row[th[t].s], zel[th[t].s], th[t].s \in missed')
    BY <1>2, <1>4, <1>5, <1>6
    DEF Facts, CallFine, Seeing, OnZellij, OnTsukai, Starting, AgentGone
  <1>9. UNCHANGED faults \/ Fails BY <1>4 DEF Inspects
  <1>10. zel[th[t].s] \in Panes /\ zel' = [zel EXCEPT ![th[t].s] = zel[th[t].s]]
    BY <1>2, Same DEF Facts, Inspect, IInv
  <1>11. missed' = missed \/ missed' = missed \cup {th[t].s} BY <1>4
  <1>12. c = Idle \/ (c \in Calls /\ c.s = th[t].s /\ c.pc # "prepare") BY <1>5
  <1> QED BY <1>1, <1>3, <1>7, <1>8, <1>9, <1>10, <1>11, <1>12, PaneStep DEF Inspect

LEMMA EvictKeeps ==
  ASSUME IInv, NEW t \in Threads, Evict(t)
  PROVE  IInv'
  <1> USE DEF external, task, meter
  <1>1. "evict" \in Working /\ At(t, "evict") BY DEF Evict, Working, Places
  <1>2. Facts(t) /\ th[t].pc = "evict" BY <1>1, Turn
  <1>3. manifests' \subseteq Sessions BY DEF Evict, IInv, TypeOK
  <1> DEFINE c == [th[t] EXCEPT !.pc = "apply"]
  <1>4. /\ c \in Calls /\ c.pc = "apply" /\ c.s = th[t].s /\ c.kind = th[t].kind
        /\ c.seen = th[t].seen /\ c.obs = th[t].obs
    <2>1. "apply" \in Places BY DEF Places
    <2> QED BY <1>2, <2>1, Moves DEF Facts
  <1>5. Become(t, c) BY DEF Evict, Goto
  <1> HIDE DEF c
  <1>6. ASSUME NEW z, NEW m, m \/ z.live = 0
        PROVE  CallFine(c, row[th[t].s], z, m)
    BY <1>2, <1>4, <1>6
    DEF Facts, CallFine, Seeing, OnZellij, OnTsukai, Starting, AgentGone
  <1>7. c = Idle \/ (c \in Calls /\ c.s = th[t].s /\ c.pc # "prepare") BY <1>4
  <1>8. zel[th[t].s] \in Panes /\ zel = [zel EXCEPT ![th[t].s] = zel[th[t].s]]
    BY <1>2, Same DEF Facts, IInv
  <1>9. CASE (Ends(th[t].s) \/ Spares(th[t].s)) /\ UNCHANGED <<missed, faults>>
    <2>1. PICK z \in Panes: zel' = [zel EXCEPT ![th[t].s] = z] /\ z.live = 0
      BY <1>2, <1>8, <1>9, Killing DEF Ends
    <2>2. CallFine(c, row[th[t].s], z, th[t].s \in missed') BY <1>6, <2>1
    <2> QED BY <1>1, <1>3, <1>5, <1>7, <1>9, <2>1, <2>2, PaneStep DEF Evict
  <1>10. CASE Fails /\ missed' = missed \cup {th[t].s} /\ UNCHANGED zel
    <2>1. th[t].s \in missed' BY <1>10
    <2>2. CallFine(c, row[th[t].s], zel[th[t].s], th[t].s \in missed') BY <1>6, <2>1
    <2>3. zel' = [zel EXCEPT ![th[t].s] = zel[th[t].s]] BY <1>8, <1>10
    <2> QED BY <1>1, <1>3, <1>5, <1>7, <1>8, <1>10, <2>2, <2>3, PaneStep DEF Evict
  <1> QED BY <1>9, <1>10 DEF Evict

\* Binding a run to its session, and cancelling it, keep the runs in order.
LEMMA Binding ==
  ASSUME IInv, NEW s \in Sessions, NEW n \in Attempts
  PROVE  \E q \in Runs:
           /\ Bind(s, n) = [run EXCEPT ![s] = q]
           /\ \A k \in Attempts: q[k].made = run[s][k].made /\ q[k].state = run[s][k].state
  <1> DEFINE q == [run[s] EXCEPT ![n].bound = @ \/ Recoverable(s, n)]
  <1>1. run[s] \in Runs BY DEF IInv, TypeOK, Runs
  <1>3. q \in Runs /\ \A k \in Attempts: q[k].made = run[s][k].made /\ q[k].state = run[s][k].state
    BY <1>1 DEF Runs, Recoverable
  <1>4. Bind(s, n) = [run EXCEPT ![s] = q]
    BY DEF Bind, IInv, TypeOK
  <1> HIDE DEF q
  <1> QED BY <1>3, <1>4

\* Bindings do not matter to what is fine about a session's runs.
LEMMA SameRunsFine ==
  ASSUME NEW r, NEW p, NEW q, RunsFine(r, p),
         \A k \in Attempts: q[k].made = p[k].made /\ q[k].state = p[k].state
  PROVE  RunsFine(r, q)
  BY DEF RunsFine

LEMMA AskKeeps ==
  ASSUME IInv, NEW t \in Threads, Ask(t)
  PROVE  IInv'
  <1> USE DEF external, task, meter
  <1>1. "evidence" \in Working /\ At(t, "evidence") BY DEF Ask, Working, Places
  <1>2. Facts(t) /\ th[t].pc = "evidence" BY <1>1, Turn
  <1>3. manifests' \subseteq Sessions BY DEF Ask, IInv, TypeOK
  <1>4. th[t].seen.attempt \in Attempts /\ th[t].s \in Sessions
    BY <1>2 DEF Facts, CallFine, Seeing, Rows
  <1>5. PICK o \in Observations: Become(t, [th[t] EXCEPT !.obs = o, !.pc = "apply"])
    BY <1>2, <1>4 DEF Ask, Evidence, Observations, Facts, Runs, Recoverable
  <1> DEFINE c == [th[t] EXCEPT !.obs = o, !.pc = "apply"]
  <1>6. /\ c \in Calls /\ c.pc = "apply" /\ c.s = th[t].s /\ c.kind = th[t].kind
        /\ c.seen = th[t].seen
    BY <1>2 DEF Facts, Calls, Places
  <1>7. Become(t, c) BY <1>5
  <1> HIDE DEF c
  <1>8. CallFine(c, row[th[t].s], zel[th[t].s], th[t].s \in missed)
    BY <1>2, <1>6
    DEF Facts, CallFine, Seeing, OnZellij, OnTsukai, Starting, AgentGone
  <1>9. c = Idle \/ (c \in Calls /\ c.s = th[t].s /\ c.pc # "prepare") BY <1>6
  <1>10. CASE run' = Bind(th[t].s, th[t].seen.attempt) /\ UNCHANGED faults
    <2>1. PICK q \in Runs:
            /\ Bind(th[t].s, th[t].seen.attempt) = [run EXCEPT ![th[t].s] = q]
            /\ \A k \in Attempts: q[k].made = run[th[t].s][k].made /\ q[k].state = run[th[t].s][k].state
      BY <1>4, Binding
    <2>2. RunsFine(row[th[t].s], q)
      <3>1. RunsFine(row[th[t].s], run[th[t].s]) BY <1>2 DEF Facts
      <3> QED BY <2>1, <3>1, SameRunsFine
    <2> QED BY <1>1, <1>3, <1>7, <1>8, <1>9, <1>10, <2>1, <2>2, RunStep DEF Ask
  <1>11. CASE UNCHANGED run /\ Fails
    BY <1>1, <1>3, <1>7, <1>8, <1>9, <1>11, Goes DEF Ask
  <1> QED BY <1>10, <1>11 DEF Ask

\* A patch changes lifecycle and runtime state only.
LEMMA PatchType ==
  ASSUME NEW r \in Rows, NEW o \in Observations \ {"none"}
  PROVE  /\ RunPatch(r, o) \in Rows /\ RunPatch(r, o).kind = r.kind /\ RunPatch(r, o).key = r.key
         /\ RunPatch(r, o).attempt = r.attempt /\ RunPatch(r, o).notes = r.notes
  BY DEF RunPatch, Failed, Rows, Lifecycles, RuntimeStates, Ended, Live, Observations

LEMMA ZellijPatchType ==
  ASSUME NEW r \in Rows, NEW o \in {"absent", "running", "exited", "uncertain", "error"},
         NEW ok
  PROVE  /\ ZellijPatch(r, o, ok) \in Rows /\ ZellijPatch(r, o, ok).kind = r.kind
         /\ ZellijPatch(r, o, ok).attempt = r.attempt /\ ZellijPatch(r, o, ok).notes = r.notes
  <1>1. o # "error" => RuntimeFor(r, o) \in RuntimeStates
    BY DEF RuntimeFor, RuntimeStates, Ended, Live
  <1>2. LifecycleFor(RuntimeFor(r, o), r.life) \in Lifecycles
    BY DEF LifecycleFor, Rows, Lifecycles, Ended, Live
  <1>3. "stale" \in RuntimeStates /\ "failed" \in Lifecycles BY DEF RuntimeStates, Lifecycles, Ended
  <1> QED BY <1>1, <1>2, <1>3 DEF ZellijPatch, Rows

LEMMA ApplyKeeps ==
  ASSUME IInv, NEW t \in Threads, Apply(t)
  PROVE  IInv'
  <1> USE DEF external, task, meter
  <1>1. "apply" \in Working /\ At(t, "apply") BY DEF Apply, Working, Places
  <1>2. Facts(t) /\ th[t].pc = "apply" BY <1>1, Turn
  <1>3. manifests' \subseteq Sessions BY DEF Apply, IInv, TypeOK
  <1>4. PICK s \in Sessions: s = th[t].s BY <1>2 DEF Facts
  <1> DEFINE patch == Patched(th[t])
             r == Merge(row[s], patch)
             c == [th[t] EXCEPT !.seen = patch, !.ok = TRUE, !.obs = "none", !.pc = "decide"]
  <1>5. /\ patch \in Rows /\ patch.kind = th[t].kind /\ patch.attempt = row[s].attempt
        /\ patch.notes = row[s].notes
    <2>1. /\ th[t].seen \in Rows /\ th[t].seen.kind = th[t].kind
          /\ th[t].seen.attempt = row[s].attempt /\ th[t].seen.notes = row[s].notes
      BY <1>2, <1>4 DEF Facts, CallFine, Seeing
    <2>2. th[t].ok \in BOOLEAN /\ th[t].obs \in Observations BY <1>2 DEF Facts, Calls
    <2>3. CASE th[t].kind = "run"
      <3>1. CASE th[t].obs = "none"
        <4>1. patch = th[t].seen BY <2>3, <3>1 DEF Patched, RunPatch, Ended
        <4> QED BY <2>1, <4>1
      <3>2. CASE th[t].obs # "none" BY <2>1, <2>2, <2>3, <3>2, PatchType DEF Patched
      <3> QED BY <3>1, <3>2
    <2>4. CASE th[t].kind # "run"
      <3>1. CASE RuntimeOver(th[t].seen)
        BY <2>1, <2>4, <3>1 DEF Patched, ZellijPatch
      <3>2. CASE ~RuntimeOver(th[t].seen)
        <4>1. th[t].obs \in {"absent", "running", "exited", "uncertain", "error"}
          BY <1>2, <2>4, <3>2 DEF Facts, CallFine
        <4>2. patch = ZellijPatch(th[t].seen, th[t].obs, th[t].ok) BY <2>4 DEF Patched
        <4>3. PICK seen \in Rows: seen = th[t].seen BY <2>1
        <4>4. PICK ok: ok = th[t].ok OBVIOUS
        <4>5. PICK o \in {"absent", "running", "exited", "uncertain", "error"}: o = th[t].obs
          BY <4>1
        <4>6. /\ ZellijPatch(seen, o, ok) \in Rows /\ ZellijPatch(seen, o, ok).kind = seen.kind
              /\ ZellijPatch(seen, o, ok).attempt = seen.attempt
              /\ ZellijPatch(seen, o, ok).notes = seen.notes
          BY ZellijPatchType
        <4>7. patch = ZellijPatch(seen, o, ok) BY <4>2, <4>3, <4>4, <4>5
        <4> HIDE DEF patch
        <4>8. /\ patch \in Rows /\ patch.kind = th[t].seen.kind
              /\ patch.attempt = th[t].seen.attempt /\ patch.notes = th[t].seen.notes
          BY <4>3, <4>6, <4>7
        <4> QED BY <2>1, <4>8
      <3> QED BY <3>1, <3>2
    <2> QED BY <2>3, <2>4
  <1>6. row[s] \in Rows /\ row[s].kind = th[t].kind /\ row[s].attempt \in Attempts
    BY <1>2, <1>4 DEF Facts, CallFine
  <1>7. PaneFine(r, zel[s], s \in missed)
    <2>1. PaneFine(row[s], zel[s], s \in missed) BY <1>2, <1>4 DEF Facts
    <2>2. r.kind = row[s].kind /\ r.life = patch.life /\ r.rt = patch.rt
      BY <1>6 DEF Merge, Rows
    <2>3. CASE th[t].kind = "run" BY <1>6, <2>1, <2>2, <2>3 DEF PaneFine
    <2>4. CASE th[t].kind = "zellij" /\ RuntimeOver(th[t].seen)
      <3>1. patch.life = row[s].life /\ patch.rt = row[s].rt
        BY <1>2, <1>4, <2>4 DEF Facts, CallFine, Seeing, Patched, ZellijPatch
      <3> QED BY <2>1, <2>2, <3>1 DEF PaneFine, RuntimeOver
    <2>5. CASE th[t].kind = "zellij" /\ ~RuntimeOver(th[t].seen)
      <3>1. /\ th[t].obs \in {"absent", "running", "exited", "uncertain", "error"}
            /\ ~th[t].ok /\ ~(s \in missed) => zel[s].live = 0
            /\ th[t].obs \in {"absent", "exited"} => zel[s].live = 0
            /\ th[t].seen.kind = "zellij"
            /\ th[t].seen \in Rows
            /\ th[t].seen.life = row[s].life /\ th[t].seen.rt = row[s].rt
        BY <1>2, <1>4, <2>5 DEF Facts, CallFine, Seeing
      <3>2. th[t].seen.life \notin {"failed", "stopped"} BY <2>5, <3>1 DEF RuntimeOver
      <3>3. patch = ZellijPatch(th[t].seen, th[t].obs, th[t].ok) BY <2>5 DEF Patched
      <3>4. CASE ~th[t].ok BY <2>1, <2>2, <3>1, <3>4 DEF PaneFine
      <3>5. CASE th[t].ok /\ th[t].obs = "error"
        <4>1. patch.rt = "stale" /\ patch.life = row[s].life
          BY <2>5, <3>1, <3>3, <3>5 DEF ZellijPatch, Rows
        <4> QED BY <2>1, <2>2, <3>1, <3>2, <4>1 DEF PaneFine, RuntimeOver, Ended
      <3>6. CASE th[t].ok /\ th[t].obs # "error"
        <4>1. /\ patch.rt = RuntimeFor(th[t].seen, th[t].obs)
              /\ patch.life = LifecycleFor(patch.rt, row[s].life)
          BY <2>5, <3>1, <3>3, <3>6 DEF ZellijPatch, Rows
        <4>2. patch.life \notin {"failed", "stopped"} BY <3>1, <3>2, <4>1 DEF LifecycleFor
        <4>3. patch.rt \in Ended => th[t].obs \in {"absent", "exited"}
          BY <3>1, <4>1 DEF RuntimeFor, Ended
        <4> QED BY <2>1, <2>2, <3>1, <4>2, <4>3 DEF PaneFine, RuntimeOver
      <3> QED BY <3>4, <3>5, <3>6
    <2> QED BY <1>2, <2>3, <2>4, <2>5 DEF Facts
  <1>8. r \in Rows /\ r.kind = row[s].kind /\ r.key = row[s].key /\ r.attempt = row[s].attempt
        /\ r.notes = row[s].notes /\ r.life = patch.life /\ r.rt = patch.rt
    BY <1>5, <1>6 DEF Merge, Rows
  <1>9. RunsFine(r, run[s]) BY <1>2, <1>4, <1>8 DEF Facts, RunsFine
  <1>10. c \in Calls /\ c.pc = "decide" /\ c.s = s /\ c.kind = th[t].kind /\ c.seen = patch
    BY <1>2, <1>4, <1>5 DEF Facts, Calls, Places, Observations
  <1>11. Become(t, c) /\ row' = [row EXCEPT ![s] = r] BY <1>4 DEF Apply
  <1> HIDE DEF c, r, patch
  <1>12. CallFine(c, r, zel[s], s \in missed)
    BY <1>5, <1>6, <1>8, <1>10
    DEF CallFine, Seeing, OnZellij, OnTsukai, Starting, AgentGone
  <1>13. c = Idle \/ (c \in Calls /\ c.s = th[t].s /\ c.pc # "prepare") BY <1>4, <1>10
  <1> QED BY <1>1, <1>3, <1>4, <1>7, <1>8, <1>9, <1>11, <1>12, <1>13, RowStep DEF Apply

-----------------------------------------------------------------------------
\* A step that ends a stop.
LEMMA StopStep ==
  ASSUME IInv, NEW t \in Threads, NEW from \in Working, At(t, from), from \in Seeing,
         Become(t, AfterStop(t)),
         NEW r \in Rows, row' = [row EXCEPT ![th[t].s] = r],
         r.kind = row[th[t].s].kind, r.key = row[th[t].s].key,
         r.attempt = row[th[t].s].attempt, r.notes = row[th[t].s].notes,
         UNCHANGED <<zel, run>>,
         manifests' \subseteq Sessions, UNCHANGED <<sem, valid, missed, crashes>>,
         UNCHANGED faults \/ Fails,
         PaneFine(r, zel[th[t].s], th[t].s \in missed)
  PROVE  IInv'
  <1>1. Facts(t) /\ th[t].pc \in Seeing BY Turn
  <1>2. PICK c: c = AfterStop(t) /\ Become(t, c) OBVIOUS
  <1>3. \/ c = Idle
        \/ /\ c \in Calls /\ c.s = th[t].s /\ c.pc # "prepare"
           /\ CallFine(c, r, zel[th[t].s], th[t].s \in missed)
    BY <1>1, <1>2, AfterStopFine
  <1>4. c = Idle \/ (c \in Calls /\ c.s = th[t].s /\ c.pc # "prepare") BY <1>3
  <1>5. c # Idle => CallFine(c, r, zel[th[t].s], th[t].s \in missed) BY <1>3
  <1>6. RunsFine(r, run[th[t].s]) BY <1>1 DEF Facts, RunsFine
  <1> QED BY <1>2, <1>4, <1>5, <1>6, RowStep

LEMMA IdentifyKeeps ==
  ASSUME IInv, NEW t \in Threads, Identify(t)
  PROVE  IInv'
  <1> USE DEF external, task, meter
  <1>1. "identify" \in Working /\ At(t, "identify") /\ "identify" \in Seeing
    BY DEF Identify, Working, Places, Seeing
  <1>2. Facts(t) /\ th[t].pc = "identify" BY <1>1, Turn
  <1>3. manifests' \subseteq Sessions BY DEF Identify, IInv, TypeOK
  <1>4. UNCHANGED faults \/ Fails BY DEF Identify, Inspects
  <1>5. CASE Goto(t, "terminate") /\ UNCHANGED row
    <2>1. "terminate" \in Places /\ "terminate" # "prepare" BY DEF Places
    <2>2. ASSUME NEW c \in Calls, c.pc = "terminate", c.s = th[t].s, c.kind = th[t].kind,
                 c.seen = th[t].seen
          PROVE  CallFine(c, row[th[t].s], zel[th[t].s], th[t].s \in missed)
      BY <1>2, <2>2
      DEF Facts, CallFine, Seeing, OnZellij, OnTsukai, Starting, AgentGone
    <2> QED BY <1>1, <1>3, <1>4, <1>5, <2>1, <2>2, GoesTo DEF Identify
  <1>6. CASE Return(t) /\ UNCHANGED row
    BY <1>1, <1>3, <1>4, <1>6, Returns DEF Identify
  <1>7. CASE row' = [row EXCEPT ![th[t].s].rt = "stale"] /\ Become(t, AfterStop(t))
    <2> DEFINE r == [row[th[t].s] EXCEPT !.rt = "stale"]
    <2>1. row[th[t].s] \in Rows BY <1>2 DEF Facts
    <2>2. /\ r \in Rows /\ r.kind = row[th[t].s].kind /\ r.key = row[th[t].s].key
          /\ r.attempt = row[th[t].s].attempt /\ r.notes = row[th[t].s].notes
          /\ r.life = row[th[t].s].life /\ r.rt = "stale"
      BY <2>1 DEF Rows, RuntimeStates
    <2>3. row' = [row EXCEPT ![th[t].s] = r] BY <1>7
    <2> HIDE DEF r
    <2>4. PaneFine(r, zel[th[t].s], th[t].s \in missed)
      BY <1>2, <2>2 DEF Facts, PaneFine, RuntimeOver, Ended
    <2> QED BY <1>1, <1>3, <1>4, <1>7, <2>2, <2>3, <2>4, StopStep DEF Identify
  <1> QED BY <1>5, <1>6, <1>7 DEF Identify

LEMMA TerminateKeeps ==
  ASSUME IInv, NEW t \in Threads, Terminate(t)
  PROVE  IInv'
  <1> USE DEF external, task, meter
  <1>1. "terminate" \in Working /\ At(t, "terminate") BY DEF Terminate, Working, Places
  <1>2. Facts(t) /\ th[t].pc = "terminate" BY <1>1, Turn
  <1>3. manifests' \subseteq Sessions BY DEF Terminate, IInv, TypeOK
  <1>4. CASE Ends(th[t].s) /\ Goto(t, "stopped") /\ UNCHANGED faults
    <2>1. PICK z \in Panes: zel' = [zel EXCEPT ![th[t].s] = z] /\ z.live = 0
      BY <1>2, <1>4, Killing DEF Ends
    <2> DEFINE c == [th[t] EXCEPT !.pc = "stopped"]
    <2>2. "stopped" \in Places BY DEF Places
    <2>3. /\ c \in Calls /\ c.pc = "stopped" /\ c.s = th[t].s /\ c.kind = th[t].kind
          /\ c.seen = th[t].seen
      BY <1>2, <2>2, Moves DEF Facts
    <2>4. Become(t, c) BY <1>4 DEF Goto
    <2> HIDE DEF c
    <2>5. CallFine(c, row[th[t].s], z, th[t].s \in missed')
      BY <1>2, <2>1, <2>3
      DEF Facts, CallFine, Seeing, OnZellij, OnTsukai, Starting, AgentGone
    <2>6. c = Idle \/ (c \in Calls /\ c.s = th[t].s /\ c.pc # "prepare") BY <2>3
    <2> QED BY <1>1, <1>3, <1>4, <2>1, <2>4, <2>5, <2>6, PaneStep DEF Terminate
  <1>5. CASE Return(t) /\ UNCHANGED zel /\ (UNCHANGED faults \/ Fails)
    BY <1>1, <1>3, <1>5, Returns DEF Terminate
  <1>6. Spares(th[t].s) => UNCHANGED zel BY DEF Spares
  <1> QED BY <1>4, <1>5, <1>6 DEF Terminate

LEMMA RecordStoppedKeeps ==
  ASSUME IInv, NEW t \in Threads, RecordStopped(t)
  PROVE  IInv'
  <1> USE DEF external, task, meter
  <1>1. "stopped" \in Working /\ At(t, "stopped") /\ "stopped" \in Seeing
    BY DEF RecordStopped, Working, Places, Seeing
  <1>2. Facts(t) /\ th[t].pc = "stopped" BY <1>1, Turn
  <1>3. manifests' \subseteq Sessions BY DEF RecordStopped, IInv, TypeOK
  <1> DEFINE r == [row[th[t].s] EXCEPT !.life = "stopped", !.rt = "stopped"]
  <1>4. row[th[t].s] \in Rows BY <1>2 DEF Facts
  <1>5. /\ r \in Rows /\ r.kind = row[th[t].s].kind /\ r.key = row[th[t].s].key
        /\ r.attempt = row[th[t].s].attempt /\ r.notes = row[th[t].s].notes
    BY <1>4 DEF Rows, RuntimeStates, Lifecycles, Ended
  <1>6. row' = [row EXCEPT ![th[t].s] = r] BY <1>2 DEF RecordStopped, Facts, IInv, TypeOK
  <1> HIDE DEF r
  <1>7. PaneFine(r, zel[th[t].s], th[t].s \in missed)
    BY <1>2, <1>5 DEF Facts, PaneFine, CallFine, AgentGone, OnZellij
  <1> QED BY <1>1, <1>3, <1>5, <1>6, <1>7, StopStep DEF RecordStopped

\* What Tsukai answers is an observation.
LEMMA EvidenceType ==
  ASSUME IInv, NEW s \in Sessions, NEW n \in Attempts, NEW o \in Evidence(s, n)
  PROVE  /\ o \in Observations \ {"none"}
         /\ ~Recoverable(s, n) => run[s][n].made = 0
         /\ o \in Ended \cup {"absent"} => run[s][n].state # "live"
  <1>1. run[s] \in Runs /\ SessionOK(s) BY DEF IInv, TypeOK, Runs
  <1> QED BY <1>1 DEF Evidence, Observations, Runs, Recoverable, Ended, SessionOK

LEMMA CancelKeeps ==
  ASSUME IInv, NEW t \in Threads, Cancel(t)
  PROVE  IInv'
  <1> USE DEF external, task, meter
  <1>1. "cancel" \in Working /\ At(t, "cancel") BY DEF Cancel, Working, Places
  <1>2. Facts(t) /\ th[t].pc = "cancel" BY <1>1, Turn
  <1>3. manifests' \subseteq Sessions BY DEF Cancel, IInv, TypeOK
  <1>4. PICK s \in Sessions, n \in Attempts:
          s = th[t].s /\ n = th[t].seen.attempt /\ n = row[s].attempt
    BY <1>2 DEF Facts, CallFine, Seeing, Rows
  <1>5. ASSUME NEW q \in Runs, run' = [run EXCEPT ![s] = q], RunsFine(row[s], q),
               UNCHANGED faults, Goto(t, "cancelled")
        PROVE  IInv'
    <2> DEFINE c == [th[t] EXCEPT !.pc = "cancelled"]
    <2>1. "cancelled" \in Places BY DEF Places
    <2>2. /\ c \in Calls /\ c.pc = "cancelled" /\ c.s = th[t].s /\ c.kind = th[t].kind
          /\ c.seen = th[t].seen
      BY <1>2, <2>1, Moves DEF Facts
    <2>3. Become(t, c) BY <1>5 DEF Goto
    <2> HIDE DEF c
    <2>4. CallFine(c, row[th[t].s], zel[th[t].s], th[t].s \in missed)
      BY <1>2, <2>2
      DEF Facts, CallFine, Seeing, OnZellij, OnTsukai, Starting, AgentGone
    <2>5. c = Idle \/ (c \in Calls /\ c.s = th[t].s /\ c.pc # "prepare") BY <2>2
    <2> QED BY <1>1, <1>3, <1>4, <1>5, <2>3, <2>4, <2>5, RunStep DEF Cancel
  <1>6. PICK q \in Runs:
          /\ Bind(s, n) = [run EXCEPT ![s] = q]
          /\ \A k \in Attempts: q[k].made = run[s][k].made /\ q[k].state = run[s][k].state
    BY Binding
  <1>7. RunsFine(row[s], run[s]) BY <1>2, <1>4 DEF Facts
  <1>8. CASE /\ run[s][n].state = "live"
             /\ \E state \in {"live", "stopped"}: run' = [Bind(s, n) EXCEPT ![s][n].state = state]
             /\ UNCHANGED faults
             /\ Goto(t, "cancelled")
    <2>1. PICK state \in {"live", "stopped"}: run' = [Bind(s, n) EXCEPT ![s][n].state = state]
      BY <1>8
    <2> DEFINE p == [q EXCEPT ![n].state = state]
    <2>2. p \in Runs /\ \A k \in Attempts: /\ p[k].made = q[k].made
                                           /\ k # n => p[k].state = q[k].state
      BY DEF Runs, Ended
    <2>3. p[n].state \in {"live", "stopped"} BY DEF Runs
    <2>4. run' = [run EXCEPT ![s] = p] BY <1>6, <2>1 DEF IInv, TypeOK
    <2> HIDE DEF p
    <2>5. RunsFine(row[s], p)
      <3>1. \A k \in Attempts: k # n => p[k].made = run[s][k].made /\ p[k].state = run[s][k].state
        BY <1>6, <2>2
      <3>2. p[n].made = run[s][n].made /\ run[s][n].made # 0
        BY <1>6, <1>7, <1>8, <2>2 DEF RunsFine
      <3>3. ~(n < row[s].attempt) /\ ~(n > row[s].attempt) BY <1>4 DEF Attempts
      <3> QED BY <1>7, <2>3, <3>1, <3>2, <3>3 DEF RunsFine
    <2> QED BY <1>5, <1>8, <2>2, <2>4, <2>5
  <1>9. CASE run' = Bind(s, n) /\ UNCHANGED faults /\ Goto(t, "cancelled")
    <2>1. RunsFine(row[s], q) BY <1>6, <1>7 DEF RunsFine
    <2> QED BY <1>5, <1>6, <1>9, <2>1
  <1>10. CASE Return(t) /\ UNCHANGED run /\ (UNCHANGED faults \/ Fails)
    BY <1>1, <1>3, <1>10, Returns DEF Cancel
  <1> QED BY <1>4, <1>8, <1>9, <1>10 DEF Cancel

\* A patched AgentRun row leaves the session as it is.
LEMMA RunPatchFine ==
  ASSUME IInv, NEW s \in Sessions, NEW n \in Attempts, NEW o \in Evidence(s, n),
         row[s] \in Rows, row[s].kind = "run",
         PaneFine(row[s], zel[s], s \in missed), RunsFine(row[s], run[s])
  PROVE  /\ RunPatch(row[s], o) \in Rows
         /\ RunPatch(row[s], o).kind = row[s].kind /\ RunPatch(row[s], o).key = row[s].key
         /\ RunPatch(row[s], o).attempt = row[s].attempt
         /\ RunPatch(row[s], o).notes = row[s].notes
         /\ PaneFine(RunPatch(row[s], o), zel[s], s \in missed)
         /\ RunsFine(RunPatch(row[s], o), run[s])
  <1>1. o \in Observations \ {"none"} BY EvidenceType
  <1>2. PICK r \in Rows: /\ r = RunPatch(row[s], o) /\ r.kind = row[s].kind /\ r.key = row[s].key
                         /\ r.attempt = row[s].attempt /\ r.notes = row[s].notes
    BY <1>1, PatchType
  <1>3. PaneFine(r, zel[s], s \in missed) BY <1>2 DEF PaneFine
  <1>4. RunsFine(r, run[s]) BY <1>2 DEF RunsFine
  <1> QED BY <1>2, <1>3, <1>4

LEMMA RecordCancelledKeeps ==
  ASSUME IInv, NEW t \in Threads, RecordCancelled(t)
  PROVE  IInv'
  <1> USE DEF external, task, meter
  <1>1. "cancelled" \in Working /\ At(t, "cancelled") /\ "cancelled" \in Seeing
    BY DEF RecordCancelled, Working, Places, Seeing
  <1>2. Facts(t) /\ th[t].pc = "cancelled" BY <1>1, Turn
  <1>3. manifests' \subseteq Sessions BY DEF RecordCancelled, IInv, TypeOK
  <1>4. PICK s \in Sessions, n \in Attempts: s = th[t].s /\ n = th[t].seen.attempt
    BY <1>2 DEF Facts, CallFine, Seeing, Rows
  <1>5. PICK o \in Evidence(s, n): row' = [row EXCEPT ![s] = RunPatch(@, o)]
    BY <1>4 DEF RecordCancelled
  <1>6. /\ row[s] \in Rows /\ row[s].kind = "run"
        /\ PaneFine(row[s], zel[s], s \in missed) /\ RunsFine(row[s], run[s])
    BY <1>2, <1>4 DEF Facts, CallFine, OnTsukai
  <1>7. PICK r \in Rows: /\ r = RunPatch(row[s], o) /\ r.kind = row[s].kind /\ r.key = row[s].key
                         /\ r.attempt = row[s].attempt /\ r.notes = row[s].notes
                         /\ PaneFine(r, zel[s], s \in missed)
    BY <1>5, <1>6, RunPatchFine
  <1>8. row' = [row EXCEPT ![s] = r] BY <1>5, <1>7
  <1> QED BY <1>1, <1>3, <1>4, <1>7, <1>8, StopStep DEF RecordCancelled

LEMMA FollowUpKeeps ==
  ASSUME IInv, NEW t \in Threads, FollowUp(t)
  PROVE  IInv'
  <1> USE DEF external, task, meter
  <1>1. "followUp" \in Working /\ At(t, "followUp") BY DEF FollowUp, Working, Places
  <1>2. Facts(t) /\ th[t].pc = "followUp" BY <1>1, Turn
  <1>3. manifests' \subseteq Sessions BY DEF FollowUp, IInv, TypeOK
  <1> DEFINE r == [row[th[t].s] EXCEPT !.notes = th[t].seen.notes \cup th[t].note]
             c == [th[t] EXCEPT !.op = "restart", !.pc = "read"]
  <1>4. /\ row[th[t].s] \in Rows /\ th[t].seen.notes \subseteq Notes /\ th[t].note \subseteq Notes
        /\ row[th[t].s].kind = th[t].kind /\ th[t].s \in Sessions
    BY <1>2 DEF Facts, CallFine, Seeing, Calls, Rows
  <1>5. /\ r \in Rows /\ r.kind = row[th[t].s].kind /\ r.key = row[th[t].s].key
        /\ r.attempt = row[th[t].s].attempt /\ r.life = row[th[t].s].life /\ r.rt = row[th[t].s].rt
    BY <1>4 DEF Rows
  <1>6. row' = [row EXCEPT ![th[t].s] = r] BY <1>4 DEF FollowUp, IInv, TypeOK
  <1>7. c \in Calls /\ c.pc = "read" /\ c.s = th[t].s /\ c.kind = th[t].kind
    <2>1. "restart" \in Operations /\ "read" \in Places BY DEF Operations, Places
    <2>2. th[t] \in Calls BY <1>2 DEF Facts
    <2> QED BY <2>1, <2>2 DEF Calls
  <1>8. Become(t, c) BY DEF FollowUp
  <1> HIDE DEF c, r
  <1>9. PaneFine(r, zel[th[t].s], th[t].s \in missed) /\ RunsFine(r, run[th[t].s])
    BY <1>2, <1>5 DEF Facts, PaneFine, RunsFine, RuntimeOver
  <1>10. CallFine(c, r, zel[th[t].s], th[t].s \in missed) BY <1>4, <1>5, <1>7, Afresh
  <1>11. c = Idle \/ (c \in Calls /\ c.s = th[t].s /\ c.pc # "prepare") BY <1>7
  <1> QED BY <1>1, <1>3, <1>5, <1>6, <1>8, <1>9, <1>10, <1>11, RowStep DEF FollowUp

-----------------------------------------------------------------------------
LEMMA ConfirmKeeps ==
  ASSUME IInv, NEW t \in Threads, Confirm(t)
  PROVE  IInv'
  <1> USE DEF external, task, meter
  <1>1. "confirm" \in Working /\ At(t, "confirm") BY DEF Confirm, Working, Places
  <1>2. Facts(t) /\ th[t].pc = "confirm" BY <1>1, Turn
  <1>3. manifests' \subseteq Sessions BY DEF Confirm, IInv, TypeOK
  <1>4. PICK o \in Observations:
          Inspects(t, o) /\ IF o = "absent" THEN Goto(t, "relaunch") ELSE Return(t)
    BY DEF Confirm
  <1>5. UNCHANGED faults \/ Fails BY <1>4 DEF Inspects
  <1>6. CASE o = "absent"
    <2>1. zel[th[t].s].live = 0 BY <1>2, <1>4, <1>6, Observing DEF Inspects, Facts
    <2>2. "relaunch" \in Places /\ "relaunch" # "prepare" BY DEF Places
    <2>3. ASSUME NEW c \in Calls, c.pc = "relaunch", c.s = th[t].s, c.kind = th[t].kind,
                 c.seen = th[t].seen
          PROVE  CallFine(c, row[th[t].s], zel[th[t].s], th[t].s \in missed)
      BY <1>2, <2>1, <2>3
      DEF Facts, CallFine, Seeing, OnZellij, OnTsukai, Starting, AgentGone
    <2> QED BY <1>1, <1>3, <1>4, <1>5, <1>6, <2>2, <2>3, GoesTo DEF Confirm
  <1>7. CASE o # "absent" BY <1>1, <1>3, <1>4, <1>5, <1>7, Returns DEF Confirm
  <1> QED BY <1>6, <1>7

\* A new attempt starts with no agent and no run of its own.
LEMMA RelaunchedType ==
  ASSUME NEW r \in Rows, r.attempt < MaxAttempt
  PROVE  /\ Relaunched(r) \in Rows /\ Relaunched(r).kind = r.kind /\ Relaunched(r).key = r.key
         /\ Relaunched(r).attempt = r.attempt + 1 /\ Relaunched(r).life = "starting"
         /\ Relaunched(r).rt = "starting"
  <1>1. r.attempt + 1 \in Attempts BY BoundsAreNatural DEF Rows, Attempts
  <1>2. "starting" \in Lifecycles /\ "starting" \in RuntimeStates
    BY DEF Lifecycles, RuntimeStates, Live
  <1> QED BY <1>1, <1>2 DEF Relaunched, Rows

LEMMA RelaunchKeeps ==
  ASSUME IInv, NEW t \in Threads, Relaunch(t)
  PROVE  IInv'
  <1> USE DEF external, task, meter
  <1>1. "relaunch" \in Working /\ At(t, "relaunch") BY DEF Relaunch, Working, Places
  <1>2. Facts(t) /\ th[t].pc = "relaunch" BY <1>1, Turn
  <1>3. manifests' \subseteq Sessions BY DEF Relaunch, IInv, TypeOK
  <1>4. CASE Return(t) /\ UNCHANGED row BY <1>1, <1>3, <1>4, Returns DEF Relaunch
  <1>5. CASE /\ row[th[t].s].attempt < MaxAttempt
             /\ row' = [row EXCEPT ![th[t].s] = Relaunched(@)]
             /\ Launch(t, IF th[t].seen.rt = "exited" THEN "clear" ELSE "probe")
    <2> DEFINE pc == IF th[t].seen.rt = "exited" THEN "clear" ELSE "probe"
    <2>1. pc \in Places /\ pc \in {"clear", "probe"} BY DEF Places
    <2> HIDE DEF pc
    <2>2. PICK c \in Calls: /\ Become(t, c) /\ c.pc = pc
                            /\ c.s = th[t].s /\ c.kind = th[t].kind
      BY <1>2, <1>5, <2>1, Launches DEF Facts, pc
    <2>3. PICK r \in Rows: /\ r = Relaunched(row[th[t].s])
                           /\ r.kind = row[th[t].s].kind /\ r.key = row[th[t].s].key
                           /\ r.attempt = row[th[t].s].attempt + 1
                           /\ r.life = "starting" /\ r.rt = "starting"
      BY <1>2, <1>5, RelaunchedType DEF Facts
    <2>4. row' = [row EXCEPT ![th[t].s] = r] BY <1>5, <2>3
    <2>5. PaneFine(r, zel[th[t].s], th[t].s \in missed)
      BY <1>2, <2>3 DEF Facts, PaneFine, RuntimeOver, Ended
    <2>6. RunsFine(r, run[th[t].s])
      <3>1. row[th[t].s].kind = "zellij" BY <1>2 DEF Facts, CallFine, OnZellij
      <3> QED BY <1>2, <2>3, <3>1 DEF Facts, RunsFine
    <2>7. CallFine(c, r, zel[th[t].s], th[t].s \in missed)
      BY <1>2, <2>1, <2>2, <2>3
      DEF Facts, CallFine, Seeing, OnZellij, OnTsukai, Starting, AgentGone
    <2>8. c = Idle \/ (c \in Calls /\ c.s = th[t].s /\ c.pc # "prepare") BY <2>1, <2>2
    <2> QED BY <1>1, <1>3, <2>2, <2>3, <2>4, <2>5, <2>6, <2>7, <2>8, RowStep DEF Relaunch
  <1> QED BY <1>4, <1>5 DEF Relaunch

\* A step that ends the session's agents, or leaves the session, and moves on.
LEMMA PaneGoes ==
  ASSUME IInv, NEW t \in Threads, NEW from \in Working, At(t, from),
         NEW pc \in Places, pc # "prepare", Goto(t, pc),
         NEW z \in Panes, zel' = [zel EXCEPT ![th[t].s] = z], z = zel[th[t].s] \/ z.live = 0,
         UNCHANGED <<row, run>>,
         manifests' \subseteq Sessions, UNCHANGED <<sem, valid, crashes>>,
         missed' = missed \/ missed' = missed \cup {th[t].s},
         UNCHANGED faults \/ Fails,
         \A c \in Calls: c.pc = pc /\ c.s = th[t].s /\ c.kind = th[t].kind
                         => CallFine(c, row[th[t].s], z, th[t].s \in missed')
  PROVE  IInv'
  <1> DEFINE c == [th[t] EXCEPT !.pc = pc]
  <1>1. th[t] \in Calls BY Turn DEF Facts
  <1>2. c \in Calls /\ c.pc = pc /\ c.s = th[t].s /\ c.kind = th[t].kind BY <1>1, Moves
  <1>3. Become(t, c) BY DEF Goto
  <1> HIDE DEF c
  <1>4. CallFine(c, row[th[t].s], z, th[t].s \in missed') BY <1>2
  <1>5. c = Idle \/ (c \in Calls /\ c.s = th[t].s /\ c.pc # "prepare") BY <1>2
  <1> QED BY <1>3, <1>4, <1>5, PaneStep

LEMMA ClearKeeps ==
  ASSUME IInv, NEW t \in Threads, Clear(t)
  PROVE  IInv'
  <1> USE DEF external, task, meter
  <1>1. "clear" \in Working /\ At(t, "clear") BY DEF Clear, Working, Places
  <1>2. Facts(t) /\ th[t].pc = "clear" BY <1>1, Turn
  <1>3. manifests' \subseteq Sessions BY DEF Clear, IInv, TypeOK
  <1>4. "probe" \in Places /\ "probe" # "prepare" BY DEF Places
  <1>5. zel[th[t].s] \in Panes /\ zel = [zel EXCEPT ![th[t].s] = zel[th[t].s]]
    BY <1>2, Same DEF Facts, IInv
  <1>6. PICK z \in Panes: zel' = [zel EXCEPT ![th[t].s] = z] /\ (z = zel[th[t].s] \/ z.live = 0)
    BY <1>2, <1>5, Killing DEF Clear, Ends
  <1>7. ASSUME NEW c \in Calls, c.pc = "probe", c.s = th[t].s, c.kind = th[t].kind
        PROVE  CallFine(c, row[th[t].s], z, th[t].s \in missed')
    BY <1>2, <1>6, <1>7
    DEF Clear, Facts, CallFine, Seeing, OnZellij, OnTsukai, Starting, AgentGone
  <1>8. UNCHANGED faults \/ Fails BY DEF Clear
  <1> QED BY <1>1, <1>3, <1>4, <1>6, <1>7, <1>8, PaneGoes DEF Clear

LEMMA ProbeKeeps ==
  ASSUME IInv, NEW t \in Threads, Probe(t)
  PROVE  IInv'
  <1> USE DEF external, task, meter
  <1>1. "probe" \in Working /\ At(t, "probe") BY DEF Probe, Working, Places
  <1>2. Facts(t) /\ th[t].pc = "probe" BY <1>1, Turn
  <1>3. manifests' \subseteq Sessions BY DEF Probe, IInv, TypeOK
  <1>4. PICK o \in Observations:
          Inspects(t, o) /\ Goto(t, IF o = "absent" THEN "create" ELSE "unlaunched")
    BY DEF Probe
  <1>5. UNCHANGED faults \/ Fails BY <1>4 DEF Inspects
  <1> DEFINE pc == IF o = "absent" THEN "create" ELSE "unlaunched"
  <1>6. pc \in Places /\ pc # "prepare" BY DEF Places
  <1>7. o = "absent" => zel[th[t].s].live = 0 BY <1>2, <1>4, Observing DEF Inspects, Facts
  <1>8. ASSUME NEW c \in Calls, c.pc = pc, c.s = th[t].s, c.kind = th[t].kind
        PROVE  CallFine(c, row[th[t].s], zel[th[t].s], th[t].s \in missed)
    BY <1>2, <1>7, <1>8
    DEF Facts, CallFine, Seeing, OnZellij, OnTsukai, Starting, AgentGone
  <1>9. Goto(t, pc) BY <1>4
  <1> HIDE DEF pc
  <1> QED BY <1>1, <1>3, <1>5, <1>6, <1>8, <1>9, GoesTo DEF Probe

LEMMA CreateSessionKeeps ==
  ASSUME IInv, NEW t \in Threads, CreateSession(t)
  PROVE  IInv'
  <1> USE DEF external, task, meter
  <1>1. "create" \in Working /\ At(t, "create") BY DEF CreateSession, Working, Places
  <1>2. Facts(t) /\ th[t].pc = "create" BY <1>1, Turn
  <1>3. manifests' \subseteq Sessions BY DEF CreateSession, IInv, TypeOK
  <1>4. PICK pc \in {"pane", "unlaunched"}:
          Goto(t, pc) /\ (pc = "pane" => zel' = [zel EXCEPT ![th[t].s] = BareSession])
    BY DEF CreateSession
  <1>5. BareSession \in Panes /\ BareSession.live = 0 /\ BareSession.dead = 0
    BY DEF BareSession, Panes
  <1>6. zel[th[t].s] \in Panes /\ zel = [zel EXCEPT ![th[t].s] = zel[th[t].s]]
    BY <1>2, Same DEF Facts, IInv
  <1>7. zel[th[t].s].live = 0 BY <1>2 DEF Facts, CallFine
  <1> HIDE DEF BareSession
  <1>8. PICK z \in Panes: zel' = [zel EXCEPT ![th[t].s] = z] /\ z.live = 0 /\ (pc = "pane" => z.dead = 0)
    <2>1. CASE zel' = [zel EXCEPT ![th[t].s] = BareSession] BY <1>5, <2>1
    <2>2. CASE zel' = zel /\ pc # "pane" BY <1>6, <1>7, <2>2
    <2> QED BY <1>4, <2>1, <2>2 DEF CreateSession
  <1>9. pc \in Places /\ pc # "prepare" BY <1>4 DEF Places
  <1>10. ASSUME NEW c \in Calls, c.pc = pc, c.s = th[t].s, c.kind = th[t].kind
         PROVE  CallFine(c, row[th[t].s], z, th[t].s \in missed')
    BY <1>2, <1>4, <1>8, <1>10
    DEF Facts, CallFine, Seeing, OnZellij, OnTsukai, Starting, AgentGone
  <1>11. UNCHANGED faults \/ Fails BY DEF CreateSession
  <1> QED BY <1>1, <1>3, <1>4, <1>8, <1>9, <1>10, <1>11, PaneGoes DEF CreateSession

LEMMA KillCreatedKeeps ==
  ASSUME IInv, NEW t \in Threads, KillCreated(t)
  PROVE  IInv'
  <1> USE DEF external, task, meter
  <1>1. "undo" \in Working /\ At(t, "undo") BY DEF KillCreated, Working, Places
  <1>2. Facts(t) /\ th[t].pc = "undo" BY <1>1, Turn
  <1>3. manifests' \subseteq Sessions BY DEF KillCreated, IInv, TypeOK
  <1>4. "unlaunched" \in Places /\ "unlaunched" # "prepare" BY DEF Places
  <1>5. zel[th[t].s] \in Panes /\ zel = [zel EXCEPT ![th[t].s] = zel[th[t].s]]
    BY <1>2, Same DEF Facts, IInv
  <1>6. PICK z \in Panes: /\ zel' = [zel EXCEPT ![th[t].s] = z]
                          /\ z.live = 0 \/ (z = zel[th[t].s] /\ missed' = missed \cup {th[t].s})
    BY <1>2, <1>5, Killing DEF KillCreated
  <1>7. ASSUME NEW c \in Calls, c.pc = "unlaunched", c.s = th[t].s, c.kind = th[t].kind
        PROVE  CallFine(c, row[th[t].s], z, th[t].s \in missed')
    BY <1>2, <1>6, <1>7
    DEF Facts, CallFine, Seeing, OnZellij, OnTsukai, Starting, AgentGone
  <1>8. UNCHANGED faults \/ Fails BY DEF KillCreated
  <1>9. missed' = missed \/ missed' = missed \cup {th[t].s} BY DEF KillCreated
  <1>10. z = zel[th[t].s] \/ z.live = 0 BY <1>6
  <1> QED BY <1>1, <1>3, <1>4, <1>6, <1>7, <1>8, <1>9, <1>10, PaneGoes DEF KillCreated

\* The one step that adds a pane: the session had none, and its row is starting.
LEMMA OpenPaneKeeps ==
  ASSUME IInv, NEW t \in Threads, OpenPane(t)
  PROVE  IInv'
  <1> USE DEF external, task, meter
  <1>1. "pane" \in Working /\ At(t, "pane") BY DEF OpenPane, Working, Places
  <1>2. Facts(t) /\ th[t].pc = "pane" BY <1>1, Turn
  <1>3. manifests' \subseteq Sessions BY DEF OpenPane, IInv, TypeOK
  <1>4. PICK pc \in {"launched", "undo"}: Goto(t, pc) BY DEF OpenPane
  <1>5. PICK s \in Sessions: s = th[t].s BY <1>2 DEF Facts
  <1>6. /\ zel[s] \in Panes /\ zel = [zel EXCEPT ![s] = zel[s]]
        /\ row[s] \in Rows /\ row = [row EXCEPT ![s] = row[s]]
        /\ run[s] \in Runs /\ run = [run EXCEPT ![s] = run[s]]
    BY <1>2, <1>5, Same DEF Facts, IInv
  <1>7. /\ zel[s].live = 0 /\ zel[s].dead = 0 /\ row[s].kind = "zellij"
        /\ row[s].life = "starting" /\ row[s].rt = "starting"
        /\ PaneFine(row[s], zel[s], s \in missed) /\ RunsFine(row[s], run[s])
    BY <1>2, <1>5 DEF Facts, CallFine, OnZellij, Starting
  <1>8. PICK z \in Panes: zel' = [zel EXCEPT ![s] = z] /\ PaneFine(row[s], z, s \in missed)
    <2>1. CASE zel' = zel BY <1>6, <1>7, <2>1
    <2>2. CASE zel[s].up /\ zel' = [zel EXCEPT ![s].live = @ + 1]
      <3> DEFINE z == [zel[s] EXCEPT !.live = @ + 1]
      <3>1. z \in Panes /\ z.live = 1 /\ z.dead = 0 /\ z.up BY <1>6, <1>7, <2>2 DEF Panes
      <3>2. zel' = [zel EXCEPT ![s] = z] BY <2>2
      <3> HIDE DEF z
      <3>3. PaneFine(row[s], z, s \in missed)
        BY <1>7, <3>1 DEF PaneFine, RuntimeOver, Ended
      <3> QED BY <3>1, <3>2, <3>3
    <2> QED BY <1>5, <2>1, <2>2 DEF OpenPane
  <1> DEFINE c == [th[t] EXCEPT !.pc = pc]
  <1>9. c \in Calls /\ c.pc = pc /\ c.s = s /\ c.kind = th[t].kind
    <2>1. pc \in Places /\ th[t] \in Calls BY <1>2, <1>4 DEF Places, Facts
    <2> QED BY <1>5, <2>1, Moves
  <1>10. Become(t, c) BY <1>4 DEF Goto
  <1> HIDE DEF c
  <1>11. CallFine(c, row[s], z, s \in missed')
    BY <1>2, <1>4, <1>5, <1>7, <1>9
    DEF Facts, CallFine, Seeing, OnZellij, OnTsukai, Starting, AgentGone
  <1>12. c = Idle \/ (c \in Calls /\ c.s = th[t].s /\ c.pc # "prepare") BY <1>4, <1>5, <1>9
  <1>13. UNCHANGED faults \/ Fails BY DEF OpenPane
  <1> QED BY <1>1, <1>3, <1>5, <1>6, <1>7, <1>8, <1>10, <1>11, <1>12, <1>13, Change DEF OpenPane

\* A step that writes the row and ends its call.
LEMMA Records ==
  ASSUME IInv, NEW t \in Threads, NEW from \in Working, At(t, from), Return(t),
         NEW r \in Rows, row' = [row EXCEPT ![th[t].s] = r],
         r.kind = row[th[t].s].kind, r.key = row[th[t].s].key,
         UNCHANGED <<zel, run>>,
         manifests' \subseteq Sessions, UNCHANGED <<sem, valid, missed, faults, crashes>>,
         PaneFine(r, zel[th[t].s], th[t].s \in missed), RunsFine(r, run[th[t].s])
  PROVE  IInv'
  <1>1. PICK c: c = Idle /\ Become(t, c) BY DEF Return
  <1>2. c = Idle \/ (c \in Calls /\ c.s = th[t].s /\ c.pc # "prepare") BY <1>1
  <1>3. c # Idle => CallFine(c, r, zel[th[t].s], th[t].s \in missed) BY <1>1
  <1> QED BY <1>1, <1>2, <1>3, RowStep

LEMMA RecordLaunchedKeeps ==
  ASSUME IInv, NEW t \in Threads, RecordLaunched(t)
  PROVE  IInv'
  <1> USE DEF external, task, meter
  <1>1. "launched" \in Working /\ At(t, "launched") BY DEF RecordLaunched, Working, Places
  <1>2. Facts(t) /\ th[t].pc = "launched" BY <1>1, Turn
  <1>3. manifests' \subseteq Sessions BY DEF RecordLaunched, IInv, TypeOK
  <1> DEFINE r == [row[th[t].s] EXCEPT !.life = "running", !.rt = "running"]
  <1>4. row[th[t].s] \in Rows BY <1>2 DEF Facts
  <1>5. /\ r \in Rows /\ r.kind = row[th[t].s].kind /\ r.key = row[th[t].s].key
        /\ r.attempt = row[th[t].s].attempt /\ r.life = "running" /\ r.rt = "running"
    BY <1>4 DEF Rows, RuntimeStates, Lifecycles, Live
  <1>6. row' = [row EXCEPT ![th[t].s] = r] BY <1>2 DEF RecordLaunched, Facts, IInv, TypeOK
  <1> HIDE DEF r
  <1>7. PaneFine(r, zel[th[t].s], th[t].s \in missed) /\ RunsFine(r, run[th[t].s])
    BY <1>2, <1>5 DEF Facts, PaneFine, RunsFine, RuntimeOver, Ended
  <1> QED BY <1>1, <1>3, <1>5, <1>6, <1>7, Records DEF RecordLaunched

LEMMA RecordUnlaunchedKeeps ==
  ASSUME IInv, NEW t \in Threads, RecordUnlaunched(t)
  PROVE  IInv'
  <1> USE DEF external, task, meter
  <1>1. "unlaunched" \in Working /\ At(t, "unlaunched") BY DEF RecordUnlaunched, Working, Places
  <1>2. Facts(t) /\ th[t].pc = "unlaunched" BY <1>1, Turn
  <1>3. manifests' \subseteq Sessions BY DEF RecordUnlaunched, IInv, TypeOK
  <1>4. ~(th[t].s \in missed) => zel[th[t].s].live = 0
    BY <1>2 DEF Facts, CallFine, PaneFine, AgentGone
  <1>5. PICK r \in Rows: /\ r = Failed(row[th[t].s])
                         /\ r.kind = row[th[t].s].kind /\ r.key = row[th[t].s].key
                         /\ PaneFine(r, zel[th[t].s], th[t].s \in missed)
                         /\ RunsFine(r, run[th[t].s])
    BY <1>2, <1>4, FailedFine DEF Facts
  <1>6. row' = [row EXCEPT ![th[t].s] = r] BY <1>5 DEF RecordUnlaunched
  <1> QED BY <1>1, <1>3, <1>5, <1>6, Records DEF RecordUnlaunched

-----------------------------------------------------------------------------
\* A retry starts the next attempt only when the last one is over.
LEMMA RetryKeeps ==
  ASSUME IInv, NEW t \in Threads, Retry(t)
  PROVE  IInv'
  <1> USE DEF external, task, meter
  <1>1. "retry" \in Working /\ At(t, "retry") BY DEF Retry, Working, Places
  <1>2. Facts(t) /\ th[t].pc = "retry" BY <1>1, Turn
  <1>3. manifests' \subseteq Sessions BY DEF Retry, IInv, TypeOK
  <1>4. PICK s \in Sessions, n \in Attempts:
          s = th[t].s /\ n = th[t].seen.attempt /\ n = row[s].attempt
    BY <1>2 DEF Facts, CallFine, Seeing, Rows
  <1>5. PICK q \in Runs:
          /\ Bind(s, n) = [run EXCEPT ![s] = q]
          /\ \A k \in Attempts: q[k].made = run[s][k].made /\ q[k].state = run[s][k].state
    BY Binding
  <1>6. RunsFine(row[s], q)
    <2>1. RunsFine(row[s], run[s]) BY <1>2, <1>4 DEF Facts
    <2> QED BY <1>5, <2>1, SameRunsFine
  <1>7. CASE Return(t) /\ UNCHANGED row /\ run' = Bind(s, n) /\ UNCHANGED faults
    <2>1. PICK c: c = Idle /\ Become(t, c) BY <1>7 DEF Return
    <2>2. c = Idle \/ (c \in Calls /\ c.s = th[t].s /\ c.pc # "prepare") BY <2>1
    <2>3. c # Idle => CallFine(c, row[th[t].s], zel[th[t].s], th[t].s \in missed) BY <2>1
    <2> QED BY <1>1, <1>3, <1>4, <1>5, <1>6, <1>7, <2>1, <2>2, <2>3, RunStep DEF Retry
  <1>8. CASE Fails /\ Return(t) /\ UNCHANGED <<row, run>>
    BY <1>1, <1>3, <1>8, Returns DEF Retry
  <1>9. ASSUME NEW o \in Evidence(s, n), Retriable(s, o), n < MaxAttempt,
               row' = [row EXCEPT ![s] = Relaunched(@)], Launch(t, "admit"), run' = Bind(s, n),
               UNCHANGED faults
        PROVE  IInv'
    <2>1. run[s][n].state # "live" BY <1>9, EvidenceType DEF Retriable
    <2>2. PICK c \in Calls: /\ Become(t, c) /\ c.pc = "admit"
                            /\ c.s = th[t].s /\ c.kind = th[t].kind
      <3>1. "admit" \in Places BY DEF Places
      <3> QED BY <1>2, <1>9, <3>1, Launches DEF Facts
    <2>3. PICK r \in Rows: /\ r = Relaunched(row[s])
                           /\ r.kind = row[s].kind /\ r.key = row[s].key
                           /\ r.attempt = row[s].attempt + 1
                           /\ r.life = "starting" /\ r.rt = "starting"
      BY <1>2, <1>4, <1>9, RelaunchedType DEF Facts
    <2>4. row' = [row EXCEPT ![s] = r] BY <1>9, <2>3
    <2>5. PaneFine(r, zel[s], s \in missed)
      BY <1>2, <1>4, <2>3 DEF Facts, PaneFine, RuntimeOver, Ended
    <2>6. RunsFine(r, q)
      <3>1. row[s].kind = "run" BY <1>2, <1>4 DEF Facts, CallFine, OnTsukai
      <3>2. q[n].state # "live" BY <1>5, <2>1
      <3>3. r.kind = "run" /\ r.attempt = n + 1 BY <1>4, <2>3, <3>1
      <3> SUFFICES ASSUME NEW k \in Attempts
                   PROVE  /\ q[k].made <= 1
                          /\ q[k].made = 0 <=> q[k].state = "none"
                          /\ k > n + 1 => q[k].made = 0
                          /\ k < n + 1 => q[k].state # "live"
        BY <3>3 DEF RunsFine
      <3>4. /\ q[k].made <= 1 /\ (q[k].made = 0 <=> q[k].state = "none")
            /\ k > n => q[k].made = 0
            /\ k < n => q[k].state # "live"
        BY <1>4, <1>6 DEF RunsFine
      <3>5. k > n + 1 => k > n BY DEF Attempts
      <3>6. k < n + 1 => k < n \/ k = n BY DEF Attempts
      <3> QED BY <3>2, <3>4, <3>5, <3>6
    <2>7. CallFine(c, r, zel[s], s \in missed)
      BY <1>2, <1>4, <2>2, <2>3
      DEF Facts, CallFine, Seeing, OnZellij, OnTsukai, Starting, AgentGone
    <2>8. c = Idle \/ (c \in Calls /\ c.s = th[t].s /\ c.pc # "prepare") BY <2>2
    <2>9. zel[s] \in Panes /\ zel' = [zel EXCEPT ![s] = zel[s]]
      BY <1>2, <1>4, Same DEF Facts, Retry, IInv
    <2>10. run' = [run EXCEPT ![s] = q] BY <1>5, <1>9
    <2> QED BY <1>1, <1>3, <1>4, <1>9, <2>2, <2>3, <2>4, <2>5, <2>6, <2>7, <2>8, <2>9, <2>10, Change
        DEF Retry
  <1> QED BY <1>4, <1>7, <1>8, <1>9 DEF Retry

LEMMA AdmitKeeps ==
  ASSUME IInv, NEW t \in Threads, Admit(t)
  PROVE  IInv'
  <1> USE DEF external, task, meter
  <1>1. "admit" \in Working /\ At(t, "admit") BY DEF Admit, Working, Places
  <1>2. Facts(t) /\ th[t].pc = "admit" BY <1>1, Turn
  <1>3. manifests' \subseteq Sessions BY <1>2 DEF Admit, IInv, TypeOK, Facts
  <1>4. PICK pc \in {"createRun", "unlaunched"}: Goto(t, pc) BY DEF Admit
  <1>5. pc \in Places /\ pc # "prepare" BY <1>4 DEF Places
  <1>6. ASSUME NEW c \in Calls, c.pc = pc, c.s = th[t].s, c.kind = th[t].kind
        PROVE  CallFine(c, row[th[t].s], zel[th[t].s], th[t].s \in missed)
    BY <1>2, <1>4, <1>6
    DEF Facts, CallFine, Seeing, OnZellij, OnTsukai, Starting, AgentGone
  <1> QED BY <1>1, <1>3, <1>4, <1>5, <1>6, GoesTo DEF Admit

\* A step that changes the session's AgentRuns and moves on.
LEMMA RunGoes ==
  ASSUME IInv, NEW t \in Threads, NEW from \in Working, At(t, from), from \in OnTsukai,
         NEW pc \in {"bindRun", "recordRun", "unlaunched"}, Goto(t, pc),
         NEW q \in Runs, run' = [run EXCEPT ![th[t].s] = q], RunsFine(row[th[t].s], q),
         UNCHANGED <<row, zel>>,
         manifests' \subseteq Sessions, UNCHANGED <<sem, valid, missed, crashes>>,
         UNCHANGED faults \/ Fails
  PROVE  IInv'
  <1>1. Facts(t) /\ th[t].pc = from BY Turn
  <1> DEFINE c == [th[t] EXCEPT !.pc = pc]
  <1>2. c \in Calls /\ c.pc = pc /\ c.s = th[t].s /\ c.kind = th[t].kind
    <2>1. pc \in Places /\ th[t] \in Calls BY <1>1 DEF Places, Facts
    <2> QED BY <2>1, Moves
  <1>3. Become(t, c) BY DEF Goto
  <1> HIDE DEF c
  <1>4. CallFine(c, row[th[t].s], zel[th[t].s], th[t].s \in missed)
    BY <1>1, <1>2 DEF Facts, CallFine, Seeing, OnZellij, OnTsukai, Starting, AgentGone
  <1>5. c = Idle \/ (c \in Calls /\ c.s = th[t].s /\ c.pc # "prepare") BY <1>2
  <1> QED BY <1>3, <1>4, <1>5, RunStep

\* A run is created only where recover() found none.
LEMMA CreateRunKeeps ==
  ASSUME IInv, NEW t \in Threads, CreateRun(t)
  PROVE  IInv'
  <1> USE DEF external, task, meter
  <1>1. "createRun" \in Working /\ At(t, "createRun") /\ "createRun" \in OnTsukai
    BY DEF CreateRun, Working, Places, OnTsukai
  <1>2. Facts(t) /\ th[t].pc = "createRun" BY <1>1, Turn
  <1>3. manifests' \subseteq Sessions BY DEF CreateRun, IInv, TypeOK
  <1>4. PICK s \in Sessions, n \in Attempts: s = th[t].s /\ n = row[s].attempt
    BY <1>2 DEF Facts
  <1>5. RunsFine(row[s], run[s]) /\ run[s] \in Runs /\ row[s].kind = "run"
    BY <1>2, <1>4 DEF Facts, CallFine, OnTsukai
  <1>6. PICK q \in Runs:
          /\ Bind(s, n) = [run EXCEPT ![s] = q]
          /\ \A k \in Attempts: q[k].made = run[s][k].made /\ q[k].state = run[s][k].state
    BY Binding
  <1> DEFINE created == [run EXCEPT ![s][n].made = @ + 1, ![s][n].state = "live"]
             p == [run[s] EXCEPT ![n].made = @ + 1, ![n].state = "live"]
  <1>7. created = [run EXCEPT ![s] = p] BY DEF IInv, TypeOK
  <1>8. ASSUME ~Recoverable(s, n) PROVE p \in Runs /\ RunsFine(row[s], p)
    <2>1. run[s][n].made = 0 BY <1>5, <1>8 DEF Recoverable, Runs
    <2>2. /\ p \in Runs /\ p[n].made = 1 /\ p[n].state = "live"
          /\ \A k \in Attempts \ {n}: p[k] = run[s][k]
      BY <1>5, <2>1 DEF Runs
    <2> HIDE DEF p
    <2>3. ~(n < row[s].attempt) /\ ~(n > row[s].attempt) BY <1>4 DEF Attempts
    <2> QED BY <1>5, <2>2, <2>3 DEF RunsFine
  <1>9. run = [run EXCEPT ![s] = run[s]] BY Same DEF IInv
  <1> HIDE DEF p
  <1>10. PICK pc \in {"bindRun", "recordRun", "unlaunched"}: Goto(t, pc)
    BY DEF CreateRun
  <1>11. UNCHANGED faults \/ Fails BY DEF CreateRun
  <1>12. \E x \in Runs: run' = [run EXCEPT ![s] = x] /\ RunsFine(row[s], x)
    <2>1. CASE run' = Bind(s, n)
      <3>1. RunsFine(row[s], q) BY <1>5, <1>6 DEF RunsFine
      <3> QED BY <1>6, <2>1, <3>1
    <2>2. CASE run' = created /\ ~Recoverable(s, n) BY <1>7, <1>8, <2>2
    <2>3. CASE run' = run BY <1>5, <1>9, <2>3
    <2> QED BY <1>4, <2>1, <2>2, <2>3 DEF CreateRun
  <1> QED BY <1>1, <1>3, <1>4, <1>10, <1>11, <1>12, RunGoes DEF CreateRun

LEMMA BindRunKeeps ==
  ASSUME IInv, NEW t \in Threads, BindRun(t)
  PROVE  IInv'
  <1> USE DEF external, task, meter
  <1>1. "bindRun" \in Working /\ At(t, "bindRun") /\ "bindRun" \in OnTsukai
    BY DEF BindRun, Working, Places, OnTsukai
  <1>2. Facts(t) BY <1>1, Turn
  <1>3. manifests' \subseteq Sessions BY DEF BindRun, IInv, TypeOK
  <1>4. PICK s \in Sessions, n \in Attempts: s = th[t].s /\ n = row[s].attempt
    BY <1>2 DEF Facts
  <1>5. PICK q \in Runs:
          /\ Bind(s, n) = [run EXCEPT ![s] = q]
          /\ \A k \in Attempts: q[k].made = run[s][k].made /\ q[k].state = run[s][k].state
    BY Binding
  <1>6. RunsFine(row[s], q)
    <2>1. RunsFine(row[s], run[s]) BY <1>2, <1>4 DEF Facts
    <2> QED BY <1>5, <2>1, SameRunsFine
  <1>7. Goto(t, "recordRun") /\ run' = [run EXCEPT ![th[t].s] = q] BY <1>4, <1>5 DEF BindRun
  <1> QED BY <1>1, <1>3, <1>4, <1>6, <1>7, RunGoes DEF BindRun

LEMMA RecordRunKeeps ==
  ASSUME IInv, NEW t \in Threads, RecordRun(t)
  PROVE  IInv'
  <1> USE DEF external, task, meter
  <1>1. "recordRun" \in Working /\ At(t, "recordRun") BY DEF RecordRun, Working, Places
  <1>2. Facts(t) /\ th[t].pc = "recordRun" BY <1>1, Turn
  <1>3. manifests' \subseteq Sessions BY DEF RecordRun, IInv, TypeOK
  <1>4. PICK s \in Sessions, n \in Attempts: s = th[t].s /\ n = row[s].attempt
    BY <1>2 DEF Facts
  <1>5. PICK o \in Evidence(s, n): row' = [row EXCEPT ![s] = RunPatch(@, o)]
    BY <1>4 DEF RecordRun
  <1>6. /\ row[s] \in Rows /\ row[s].kind = "run"
        /\ PaneFine(row[s], zel[s], s \in missed) /\ RunsFine(row[s], run[s])
    BY <1>2, <1>4 DEF Facts, CallFine, OnTsukai
  <1>7. PICK r \in Rows: /\ r = RunPatch(row[s], o) /\ r.kind = row[s].kind /\ r.key = row[s].key
                         /\ PaneFine(r, zel[s], s \in missed) /\ RunsFine(r, run[s])
    BY <1>5, <1>6, RunPatchFine
  <1>8. row' = [row EXCEPT ![s] = r] BY <1>5, <1>7
  <1> QED BY <1>1, <1>3, <1>4, <1>7, <1>8, Records DEF RecordRun

-----------------------------------------------------------------------------
(***************************************************************************)
(* The world only takes agents away, and a crash only takes calls away.    *)
(***************************************************************************)
LEMMA WorldStep ==
  ASSUME IInv, UNCHANGED <<row, th, missed>>, TypeOK',
         \A s \in Sessions: \/ zel'[s] = zel[s]
                            \/ zel'[s].live = 0 /\ (zel'[s].dead = 0 \/ zel[s].live > 0),
         \A s \in Sessions: SessionOK(s)'
  PROVE  IInv'
  <1>1. Mutex' BY DEF IInv, Mutex, Holds
  <1>2. KeysUnique' BY DEF IInv, KeysUnique, Recorded
  <1>3. ASSUME NEW t \in Threads PROVE CallOK(t)'
    <2>1. CallOK(t) BY DEF IInv
    <2>2. CASE At(t, "idle")
      BY <2>2 DEF At, CallOK, Seeing, OnZellij, OnTsukai, Starting, AgentGone
    <2>3. CASE ~At(t, "idle")
      <3>1. th[t].s \in Sessions BY <2>3, InFlight DEF IInv, Calls
      <3>2. \/ zel'[th[t].s] = zel[th[t].s]
            \/ zel'[th[t].s].live = 0 /\ (zel'[th[t].s].dead = 0 \/ zel[th[t].s].live > 0)
        BY <3>1
      <3> QED BY <2>1, <3>1, <3>2 DEF CallOK, InspectedOK, Recorded, RuntimeOver
    <2> QED BY <2>2, <2>3
  <1> QED BY <1>1, <1>2, <1>3 DEF IInv

LEMMA AgentExitsKeeps ==
  ASSUME IInv, NEW s \in Sessions, AgentExits(s)
  PROVE  IInv'
  <1> USE DEF external, task, meter
  <1>1. zel[s] \in Panes /\ zel[s].live = 1 /\ SessionOK(s)
    BY DEF IInv, TypeOK, Panes, AgentExits, SessionOK
  <1> DEFINE z == [zel[s] EXCEPT !.live = @ - 1, !.dead = 1]
  <1>2. z \in Panes /\ z.live = 0 /\ z.dead = 1 /\ z.up = zel[s].up
    <2>1. zel[s].live - 1 = 0 /\ 0 \in Nat BY <1>1
    <2> QED BY <1>1, <2>1 DEF Panes
  <1>3. zel' = [zel EXCEPT ![s] = z] BY DEF AgentExits, IInv, TypeOK
  <1> HIDE DEF z
  <1>4. zel'[s] = z /\ \A e \in Sessions \ {s}: zel'[e] = zel[e] BY <1>3 DEF IInv, TypeOK
  <1>5. TypeOK'
    <2>1. zel' \in [Sessions -> Panes] BY <1>2, <1>3 DEF IInv, TypeOK, Panes
    <2> QED BY <2>1 DEF IInv, TypeOK, Panes, AgentExits
  <1>6. ASSUME NEW e \in Sessions PROVE SessionOK(e)'
    <2>1. SessionOK(e) BY DEF IInv
    <2>2. CASE e = s
      <3>1. zel'[e] = z /\ row' = row /\ run' = run /\ missed' = missed BY <1>4, <2>2 DEF AgentExits
      <3>2. Recorded(e) BY <1>1, <2>1, <2>2 DEF SessionOK
      <3>3. row[e].kind # "run" BY <1>1, <2>1, <2>2, <3>2 DEF SessionOK
      <3> QED BY <1>2, <2>1, <3>1, <3>2, <3>3 DEF SessionOK, Recorded, RuntimeOver
    <2>3. CASE e # s BY <1>4, <2>1, <2>3 DEF SessionOK, Recorded, RuntimeOver, AgentExits
    <2> QED BY <2>2, <2>3
  <1>7. \A e \in Sessions: \/ zel'[e] = zel[e]
                           \/ zel'[e].live = 0 /\ (zel'[e].dead = 0 \/ zel[e].live > 0)
    BY <1>1, <1>2, <1>4
  <1> QED BY <1>5, <1>6, <1>7, WorldStep DEF AgentExits

LEMMA SessionKilledKeeps ==
  ASSUME IInv, NEW s \in Sessions, SessionKilled(s)
  PROVE  IInv'
  <1> USE DEF external, task, meter
  <1>1. NoSession \in Panes /\ NoSession.live = 0 /\ NoSession.dead = 0 BY DEF NoSession, Panes
  <1>2. zel' = [zel EXCEPT ![s] = NoSession] BY DEF SessionKilled, Kill
  <1> HIDE DEF NoSession
  <1>3. zel'[s] = NoSession /\ \A e \in Sessions \ {s}: zel'[e] = zel[e] BY <1>2 DEF IInv, TypeOK
  <1>4. TypeOK' BY <1>1, <1>2 DEF IInv, TypeOK, Panes, SessionKilled
  <1>5. ASSUME NEW e \in Sessions PROVE SessionOK(e)'
    <2>1. SessionOK(e) BY DEF IInv
    <2>2. CASE e = s BY <1>1, <1>3, <2>1, <2>2 DEF SessionOK, Recorded, RuntimeOver, SessionKilled
    <2>3. CASE e # s BY <1>3, <2>1, <2>3 DEF SessionOK, Recorded, RuntimeOver, SessionKilled
    <2> QED BY <2>2, <2>3
  <1>6. \A e \in Sessions: \/ zel'[e] = zel[e]
                           \/ zel'[e].live = 0 /\ (zel'[e].dead = 0 \/ zel[e].live > 0)
    BY <1>1, <1>3
  <1> QED BY <1>4, <1>5, <1>6, WorldStep DEF SessionKilled

LEMMA RunEndsKeeps ==
  ASSUME IInv, NEW s \in Sessions, NEW n \in Attempts, RunEnds(s, n)
  PROVE  IInv'
  <1> USE DEF external, task, meter
  <1>1. PICK o \in Ended: run' = [run EXCEPT ![s][n].state = o] BY DEF RunEnds
  <1>2. run[s] \in Runs /\ run[s][n].state = "live" BY DEF RunEnds, IInv, TypeOK, Runs
  <1> DEFINE q == [run[s] EXCEPT ![n].state = o]
  <1>3. q \in Runs /\ \A k \in Attempts: q[k].made = run[s][k].made /\ (k # n => q[k].state = run[s][k].state)
    BY <1>2 DEF Runs
  <1>4. q[n].state \in Ended BY <1>2 DEF Runs
  <1>5. run' = [run EXCEPT ![s] = q] BY <1>1 DEF IInv, TypeOK
  <1> HIDE DEF q
  <1>6. run'[s] = q /\ \A e \in Sessions \ {s}: run'[e] = run[e] BY <1>5 DEF IInv, TypeOK
  <1>7. TypeOK' BY <1>3, <1>5 DEF IInv, TypeOK, Runs, RunEnds
  <1>8. ASSUME NEW e \in Sessions PROVE SessionOK(e)'
    <2>1. SessionOK(e) BY DEF IInv
    <2>2. CASE e = s
      <3>1. "none" \notin Ended /\ "live" \notin Ended BY DEF Ended
      <3>2. \A k \in Attempts: q[k].made = 0 <=> q[k].state = "none"
        BY <1>2, <1>3, <1>4, <2>1, <2>2, <3>1 DEF SessionOK
      <3>3. \A k \in Attempts: q[k].state = "live" => run[s][k].state = "live"
        BY <1>3, <1>4, <3>1
      <3> QED BY <1>3, <1>6, <2>1, <2>2, <3>2, <3>3 DEF SessionOK, Recorded, RuntimeOver, RunEnds
    <2>3. CASE e # s BY <1>6, <2>1, <2>3 DEF SessionOK, Recorded, RuntimeOver, RunEnds
    <2> QED BY <2>2, <2>3
  <1>9. \A e \in Sessions: zel'[e] = zel[e] BY DEF RunEnds
  <1> QED BY <1>7, <1>8, <1>9, WorldStep DEF RunEnds

LEMMA ElsewhereKeeps ==
  ASSUME IInv, UNCHANGED <<row, th, manifests, zel, run, missed, crashes>>, TypeOK'
  PROVE  IInv'
  <1>1. \A s \in Sessions: SessionOK(s)' BY DEF IInv, SessionOK, Recorded, RuntimeOver
  <1>2. \A s \in Sessions: zel'[s] = zel[s] OBVIOUS
  <1> QED BY <1>1, <1>2, WorldStep

LEMMA TaskCompletesKeeps ==
  ASSUME IInv, NEW s \in Sessions, TaskCompletes(s)
  PROVE  IInv'
  <1> USE DEF external, task, meter
  <1>1. TypeOK' BY DEF IInv, TypeOK, TaskCompletes, Semantics
  <1> QED BY <1>1, ElsewhereKeeps DEF TaskCompletes

LEMMA WorktreeVanishesKeeps ==
  ASSUME IInv, NEW s \in Sessions, WorktreeVanishes(s)
  PROVE  IInv'
  <1> USE DEF external, task, meter
  <1>1. TypeOK' BY BoundsAreNatural DEF IInv, TypeOK, WorktreeVanishes, Fails
  <1> QED BY <1>1, ElsewhereKeeps DEF WorktreeVanishes

LEMMA CrashKeeps ==
  ASSUME IInv, Crash
  PROVE  IInv'
  <1> USE DEF external, task, meter
  <1>1. \A t \in Threads: th'[t].pc = "idle" BY DEF Crash, Idle
  <1>2. TypeOK' BY BoundsAreNatural DEF IInv, TypeOK, Crash
  <1>3. Mutex' BY <1>1 DEF Mutex, Holds
  <1>4. KeysUnique' BY DEF IInv, KeysUnique, Recorded, Crash
  <1>5. ASSUME NEW s \in Sessions PROVE SessionOK(s)'
    BY DEF IInv, SessionOK, Recorded, RuntimeOver, Crash
  <1>6. ASSUME NEW t \in Threads PROVE CallOK(t)'
    BY <1>1 DEF CallOK, Seeing, OnZellij, OnTsukai, Starting, AgentGone
  <1> QED BY <1>2, <1>3, <1>4, <1>5, <1>6 DEF IInv

LEMMA InitIInv == Init => IInv
  <1> SUFFICES ASSUME Init PROVE IInv OBVIOUS
  <1>1. TypeOK
    BY BoundsAreNatural DEF Init, TypeOK, NoSession, NoRun, Attempts, Semantics
  <1>2. \A t \in Threads: th[t].pc = "idle" BY DEF Init, Idle
  <1>3. Mutex BY <1>2 DEF Mutex, Holds
  <1>4. \A s \in Sessions: ~Recorded(s) BY DEF Init, Recorded
  <1>5. KeysUnique BY <1>4 DEF KeysUnique
  <1>6. ASSUME NEW s \in Sessions PROVE SessionOK(s)
    BY <1>4 DEF Init, SessionOK, NoSession, NoRun
  <1>7. ASSUME NEW t \in Threads PROVE CallOK(t)
    BY <1>2 DEF CallOK, Seeing, OnZellij, OnTsukai, Starting, AgentGone
  <1> QED BY <1>1, <1>3, <1>5, <1>6, <1>7 DEF IInv

LEMMA NextKeeps == IInv /\ [Next]_vars => IInv'
  <1> SUFFICES ASSUME IInv, [Next]_vars PROVE IInv' OBVIOUS
  <1>1. CASE UNCHANGED vars
    <2>1. TypeOK' BY <1>1 DEF vars, IInv, TypeOK
    <2> QED BY <1>1, <2>1, ElsewhereKeeps DEF vars
  <1>2. ASSUME NEW t \in Threads, Requests(t) PROVE IInv'
    <2>1. \A op \in {"reconcile", "stop", "restart", "continue"}: op \in Operations BY DEF Operations
    <2> QED BY <1>2, <2>1, StartKeeps, RequestKeeps DEF Requests
  <1>3. ASSUME NEW t \in Threads, Step(t) PROVE IInv'
    <2>1. CASE Refuse(t) \/ Persist(t) \/ Validate(t) \/ Acquire(t)
      BY <2>1, RefuseKeeps, PersistKeeps, ValidateKeeps, AcquireKeeps
    <2>2. CASE Reconciling(t)
      BY <2>2, ReadKeeps, InspectKeeps, EvictKeeps, AskKeeps, ApplyKeeps DEF Reconciling
    <2>3. CASE Stopping(t)
      BY <2>3, IdentifyKeeps, TerminateKeeps, RecordStoppedKeeps, CancelKeeps,
         RecordCancelledKeeps, FollowUpKeeps DEF Stopping
    <2>4. CASE Launching(t)
      BY <2>4, ConfirmKeeps, RelaunchKeeps, ClearKeeps, ProbeKeeps, CreateSessionKeeps, OpenPaneKeeps,
         KillCreatedKeeps, RecordLaunchedKeeps, RecordUnlaunchedKeeps, RetryKeeps, AdmitKeeps,
         CreateRunKeeps, BindRunKeeps, RecordRunKeeps DEF Launching
    <2> QED BY <1>3, <2>1, <2>2, <2>3, <2>4, DecisionKeeps DEF Step
  <1>4. CASE World
    BY <1>4, AgentExitsKeeps, SessionKilledKeeps, TaskCompletesKeeps, WorktreeVanishesKeeps,
       RunEndsKeeps DEF World
  <1> QED BY <1>1, <1>2, <1>3, <1>4, CrashKeeps DEF Next

-----------------------------------------------------------------------------
(***************************************************************************)
(* The theorems.                                                           *)
(***************************************************************************)
\* The inductive invariant holds in every reachable state.
THEOREM Invariance == Spec => []IInv
  BY InitIInv, NextKeeps, PTL DEF Spec

\* Every variable stays in its range: service.ts and the stores never hold a
\* row, a call or a runtime outside the states the code distinguishes.
THEOREM TypeCorrect == Spec => []TypeOK
  <1>1. IInv => TypeOK BY DEF IInv
  <1> QED BY Invariance, <1>1, PTL

\* A session never executes two agents, whatever startAgentRun, start() of
\* ZellijCliRuntime and the retries of restartUnlocked are interleaved with.
THEOREM NeverTwoAgents == Spec => []OneAgent
  <1>1. ASSUME IInv PROVE OneAgent
    <2> SUFFICES ASSUME NEW s \in Sessions
                 PROVE  /\ zel[s].live <= 1
                        /\ zel[s].live = 1 => LiveRuns(s) = {}
                        /\ \A m, n \in LiveRuns(s): m = n
      BY DEF OneAgent
    <2>1. SessionOK(s) BY <1>1 DEF IInv
    <2>2. Recorded(s) => row[s].kind \in {"zellij", "run"} /\ row[s].attempt \in Attempts
      BY <1>1, KindsAreKnown DEF IInv, TypeOK, Recorded, Rows
    <2>3. \A n \in LiveRuns(s): n \in Attempts /\ run[s][n].made # 0
      BY <2>1 DEF LiveRuns, SessionOK
    <2>4. CASE ~Recorded(s) BY <2>1, <2>3, <2>4 DEF SessionOK
    <2>5. CASE Recorded(s)
      <3>1. \A n \in LiveRuns(s): n = row[s].attempt
        BY <2>1, <2>2, <2>3, <2>5 DEF SessionOK, LiveRuns, Attempts
      <3>2. zel[s].live = 1 => LiveRuns(s) = {}
        BY <2>1, <2>2, <2>3, <2>5 DEF SessionOK
      <3> QED BY <2>1, <3>1, <3>2 DEF SessionOK
    <2> QED BY <2>4, <2>5
  <1> QED BY Invariance, <1>1, PTL

\* Concurrent starts with one idempotency key leave one row, and an agent only
\* executes for a session that has its row (createManagerSession).
THEOREM KeyedOnce == Spec => []OneSessionPerKey
  <1>1. ASSUME IInv PROVE OneSessionPerKey
    <2>1. KeysUnique BY <1>1 DEF IInv
    <2>2. ASSUME NEW s \in Sessions, ~Recorded(s) PROVE ~HasAgent(s)
      <3>1. SessionOK(s) BY <1>1 DEF IInv
      <3>2. zel[s].live = 0 /\ \A n \in Attempts: run[s][n].state = "none"
        BY <2>2, <3>1 DEF SessionOK
      <3> QED BY <3>2 DEF HasAgent, LiveRuns
    <2> QED BY <2>1, <2>2 DEF OneSessionPerKey, KeysUnique
  <1> QED BY Invariance, <1>1, PTL

\* startOnce never creates a second AgentRun for a launch attempt.
THEOREM CreatedOnce == Spec => []AttemptCreatedOnce
  <1>1. IInv => AttemptCreatedOnce BY DEF IInv, SessionOK, AttemptCreatedOnce
  <1> QED BY Invariance, <1>1, PTL

\* A row that is never inspected again has no agent, unless a command that
\* should have ended it failed.
THEOREM OverIsDead == Spec => []EndedIsDead
  <1>1. IInv => EndedIsDead BY DEF IInv, SessionOK, EndedIsDead
  <1> QED BY Invariance, <1>1, PTL

\* Writing a row of the same or more follow-ups.
LEMMA Writes ==
  ASSUME IInv, NEW t \in Threads, Facts(t), NEW r \in Rows,
         row' = [row EXCEPT ![th[t].s] = r], row[th[t].s].notes \subseteq r.notes,
         NEW s \in Sessions, Recorded(s)
  PROVE  row'[s] # NoRow /\ row[s].notes \subseteq row'[s].notes
  <1>1. r # NoRow BY DEF Rows, NoRow, Lifecycles, Ended, Live
  <1>2. row'[s] = IF s = th[t].s THEN r ELSE row[s] BY DEF Facts, IInv, TypeOK
  <1> QED BY <1>1, <1>2 DEF Recorded

LEMMA PatchedNotes ==
  ASSUME IInv, NEW t \in Threads, Apply(t)
  PROVE  \E r \in Rows: /\ row' = [row EXCEPT ![th[t].s] = r] /\ r.notes = row[th[t].s].notes
                       /\ r.key = row[th[t].s].key /\ r.kind = row[th[t].s].kind
                       /\ r.attempt = row[th[t].s].attempt
  <1>1. "apply" \in Working /\ At(t, "apply") BY DEF Apply, Working, Places
  <1>2. Facts(t) BY <1>1, Turn
  <1>3. IInv' BY ApplyKeeps
  <1>4. /\ row' = [row EXCEPT ![th[t].s] = Merge(@, Patched(th[t]))]
        /\ row[th[t].s] \in Rows /\ th[t].s \in Sessions
    BY <1>2 DEF Apply, Facts
  <1> DEFINE r == Merge(row[th[t].s], Patched(th[t]))
  <1>5. /\ r.notes = row[th[t].s].notes /\ r.key = row[th[t].s].key
        /\ r.kind = row[th[t].s].kind /\ r.attempt = row[th[t].s].attempt
        /\ r # NoRow /\ r = row'[th[t].s]
    BY <1>4 DEF Merge, Rows, IInv, TypeOK, NoRow
  <1>6. r \in Rows BY <1>3, <1>4, <1>5 DEF IInv, TypeOK
  <1> QED BY <1>4, <1>5, <1>6

LEMMA NotesStay ==
  ASSUME IInv, NEW t \in Threads, Step(t), NEW s \in Sessions, Recorded(s)
  PROVE  row'[s] # NoRow /\ row[s].notes \subseteq row'[s].notes
  <1> USE DEF external, task, meter
  <1>1. CASE UNCHANGED row BY <1>1 DEF Recorded
  <1>2. ASSUME NEW pc \in Working, At(t, pc), NEW r \in Rows,
               row' = [row EXCEPT ![th[t].s] = r], row[th[t].s].notes \subseteq r.notes
        PROVE  row'[s] # NoRow /\ row[s].notes \subseteq row'[s].notes
    BY <1>2, Turn, Writes
  <1>3. \A pc \in Places \ {"prepare", "wait"}: At(t, pc) => row[th[t].s] \in Rows /\ pc \in Working
    BY Turn DEF Facts, Working
  <1>4. \A r \in Rows: Failed(r) \in Rows /\ Failed(r).notes = r.notes
    BY DEF Failed, Rows, Lifecycles, RuntimeStates, Ended
  <1>5. CASE Refuse(t) \/ Acquire(t) \/ Decision(t)
    BY <1>1, <1>5 DEF Refuse, Acquire, Decision, DecideReconcile, DecideResume, DecideStop,
                      DecideContinue, DecideSettle, DecideRestart
  <1>6. CASE Persist(t)
    <2>1. th[t] \in Calls /\ CallOK(t) /\ th[t].pc = "prepare" BY <1>6, InFlight DEF Persist, At, IInv
    <2>2. ~Recorded(th[t].s) BY <2>1 DEF CallOK
    <2>3. row'[s] = row[s] BY <1>6, <2>2 DEF Persist, IInv, TypeOK
    <2> QED BY <2>3 DEF Recorded
  <1>7. CASE Validate(t)
    <2>1. At(t, "validate") /\ "validate" \in Places BY <1>7 DEF Validate, Places
    <2> QED BY <1>1, <1>2, <1>3, <1>4, <1>7, <2>1 DEF Validate
  <1>8. CASE Reconciling(t)
    <2>1. CASE Apply(t)
      <3>1. "apply" \in Working /\ At(t, "apply") BY <2>1 DEF Apply, Working, Places
      <3> QED BY <1>2, <2>1, <3>1, PatchedNotes
    <2> QED BY <1>1, <1>8, <2>1 DEF Reconciling, Read, Inspect, Evict, Ask
  <1>9. CASE Stopping(t)
    <2>1. CASE Identify(t)
      <3>1. At(t, "identify") /\ "identify" \in Places BY <2>1 DEF Identify, Places
      <3> DEFINE r == [row[th[t].s] EXCEPT !.rt = "stale"]
      <3>2. row[th[t].s] \in Rows BY <1>3, <3>1
      <3>3. r \in Rows /\ r.notes = row[th[t].s].notes BY <3>2 DEF Rows, RuntimeStates
      <3>4. UNCHANGED row \/ row' = [row EXCEPT ![th[t].s] = r] BY <2>1 DEF Identify
      <3> HIDE DEF r
      <3> QED BY <1>1, <1>2, <1>3, <3>1, <3>3, <3>4
    <2>2. CASE RecordStopped(t)
      <3>1. At(t, "stopped") /\ "stopped" \in Places BY <2>2 DEF RecordStopped, Places
      <3> DEFINE r == [row[th[t].s] EXCEPT !.life = "stopped", !.rt = "stopped"]
      <3>2. row[th[t].s] \in Rows /\ th[t].s \in Sessions
        BY <1>3, <3>1, Turn DEF Facts
      <3>3. r \in Rows /\ r.notes = row[th[t].s].notes
        BY <3>2 DEF Rows, RuntimeStates, Lifecycles, Ended
      <3>4. row' = [row EXCEPT ![th[t].s] = r] BY <2>2, <3>2 DEF RecordStopped, IInv, TypeOK
      <3> HIDE DEF r
      <3> QED BY <1>2, <1>3, <3>1, <3>3, <3>4
    <2>3. CASE RecordCancelled(t)
      <3>1. At(t, "cancelled") /\ "cancelled" \in Working BY <2>3 DEF RecordCancelled, Working, Places
      <3>2. Facts(t) /\ th[t].pc = "cancelled" BY <3>1, Turn
      <3>3. PICK n \in Attempts: n = th[t].seen.attempt BY <3>2 DEF Facts, CallFine, Seeing, Rows
      <3>4. PICK o \in Evidence(th[t].s, n): row' = [row EXCEPT ![th[t].s] = RunPatch(@, o)]
        BY <2>3, <3>3 DEF RecordCancelled
      <3>5. o \in Observations \ {"none"} /\ row[th[t].s] \in Rows BY <3>2, EvidenceType DEF Facts
      <3>6. PICK r \in Rows: r = RunPatch(row[th[t].s], o) /\ r.notes = row[th[t].s].notes
        BY <3>5, PatchType
      <3> QED BY <1>2, <3>1, <3>4, <3>6
    <2>4. CASE FollowUp(t)
      <3>1. At(t, "followUp") /\ "followUp" \in Working BY <2>4 DEF FollowUp, Working, Places
      <3>2. Facts(t) /\ th[t].pc = "followUp" BY <3>1, Turn
      <3> DEFINE r == [row[th[t].s] EXCEPT !.notes = th[t].seen.notes \cup th[t].note]
      <3>3. /\ row[th[t].s] \in Rows /\ th[t].seen.notes \subseteq Notes /\ th[t].note \subseteq Notes
            /\ th[t].seen.notes = row[th[t].s].notes /\ th[t].s \in Sessions
        BY <3>2 DEF Facts, CallFine, Seeing, Calls, Rows
      <3>4. r \in Rows /\ row[th[t].s].notes \subseteq r.notes BY <3>3 DEF Rows
      <3>5. row' = [row EXCEPT ![th[t].s] = r] BY <2>4, <3>3 DEF FollowUp, IInv, TypeOK
      <3> HIDE DEF r
      <3> QED BY <1>2, <3>1, <3>4, <3>5
    <2> QED BY <1>1, <1>9, <2>1, <2>2, <2>3, <2>4 DEF Stopping, Terminate, Cancel
  <1>10. CASE Launching(t)
    <2>1. ASSUME NEW r \in Rows, r.attempt < MaxAttempt
          PROVE  Relaunched(r) \in Rows /\ Relaunched(r).notes = r.notes
      BY <2>1, RelaunchedType DEF Relaunched, Rows
    <2>2. CASE Relaunch(t)
      <3>1. At(t, "relaunch") /\ "relaunch" \in Places BY <2>2 DEF Relaunch, Places
      <3> QED BY <1>1, <1>2, <1>3, <2>1, <2>2, <3>1 DEF Relaunch
    <2>3. CASE RecordLaunched(t)
      <3>1. At(t, "launched") /\ "launched" \in Places BY <2>3 DEF RecordLaunched, Places
      <3> DEFINE r == [row[th[t].s] EXCEPT !.life = "running", !.rt = "running"]
      <3>2. row[th[t].s] \in Rows /\ th[t].s \in Sessions
        BY <1>3, <3>1, Turn DEF Facts
      <3>3. r \in Rows /\ r.notes = row[th[t].s].notes
        BY <3>2 DEF Rows, RuntimeStates, Lifecycles, Live
      <3>4. row' = [row EXCEPT ![th[t].s] = r] BY <2>3, <3>2 DEF RecordLaunched, IInv, TypeOK
      <3> HIDE DEF r
      <3> QED BY <1>2, <1>3, <3>1, <3>3, <3>4
    <2>4. CASE RecordUnlaunched(t)
      <3>1. At(t, "unlaunched") /\ "unlaunched" \in Places BY <2>4 DEF RecordUnlaunched, Places
      <3> QED BY <1>2, <1>3, <1>4, <2>4, <3>1 DEF RecordUnlaunched
    <2>5. CASE Retry(t)
      <3>1. At(t, "retry") /\ "retry" \in Working BY <2>5 DEF Retry, Working, Places
      <3>2. Facts(t) /\ th[t].pc = "retry" BY <3>1, Turn
      <3>3. row[th[t].s] \in Rows /\ th[t].seen.attempt = row[th[t].s].attempt
        BY <3>2 DEF Facts, CallFine, Seeing
      <3>4. \/ UNCHANGED row
            \/ /\ row[th[t].s].attempt < MaxAttempt
               /\ row' = [row EXCEPT ![th[t].s] = Relaunched(@)]
        BY <2>5, <3>3 DEF Retry
      <3> QED BY <1>1, <1>2, <2>1, <3>1, <3>3, <3>4
    <2>6. CASE RecordRun(t)
      <3>1. At(t, "recordRun") /\ "recordRun" \in Working BY <2>6 DEF RecordRun, Working, Places
      <3>2. Facts(t) BY <3>1, Turn
      <3>3. PICK n \in Attempts: n = row[th[t].s].attempt BY <3>2 DEF Facts
      <3>4. PICK o \in Evidence(th[t].s, n): row' = [row EXCEPT ![th[t].s] = RunPatch(@, o)]
        BY <2>6, <3>3 DEF RecordRun
      <3>5. o \in Observations \ {"none"} /\ row[th[t].s] \in Rows BY <3>2, EvidenceType DEF Facts
      <3>6. PICK r \in Rows: r = RunPatch(row[th[t].s], o) /\ r.notes = row[th[t].s].notes
        BY <3>5, PatchType
      <3> QED BY <1>2, <3>1, <3>4, <3>6
    <2>7. CASE \/ Confirm(t) \/ Clear(t) \/ Probe(t) \/ CreateSession(t) \/ OpenPane(t)
               \/ KillCreated(t) \/ Admit(t) \/ CreateRun(t) \/ BindRun(t)
      BY <1>1, <2>7 DEF Confirm, Clear, Probe, CreateSession, OpenPane, KillCreated, Admit, CreateRun, BindRun
    <2> QED BY <1>10, <2>2, <2>3, <2>4, <2>5, <2>6, <2>7 DEF Launching
  <1> QED BY <1>5, <1>6, <1>7, <1>8, <1>9, <1>10 DEF Step

\* continueWork appends to the instruction it read under the session lock, so
\* no recorded follow-up is ever lost.
THEOREM FollowUpsStay == Spec => FollowUpsKept
  <1>1. ASSUME IInv, [Next]_vars
        PROVE  [\A s \in Sessions:
                   Recorded(s) => row'[s] # NoRow /\ row[s].notes \subseteq row'[s].notes]_vars
    <2>1. CASE UNCHANGED vars BY <2>1
    <2>2. SUFFICES ASSUME Next, NEW s \in Sessions, Recorded(s)
                   PROVE  row'[s] # NoRow /\ row[s].notes \subseteq row'[s].notes
      BY <1>1, <2>1
    <2>3. CASE UNCHANGED row BY <2>3, <2>2 DEF Recorded
    <2>4. CASE \E t \in Threads: Step(t) BY <1>1, <2>2, <2>4, NotesStay
    <2>5. CASE \E t \in Threads: Requests(t) BY <2>3, <2>5 DEF Requests, Start, Request
    <2>6. CASE World \/ Crash
      BY <2>3, <2>6 DEF World, AgentExits, SessionKilled, TaskCompletes, WorktreeVanishes, RunEnds, Crash
    <2> QED BY <2>2, <2>4, <2>5, <2>6 DEF Next
  <1> QED BY Invariance, <1>1, PTL DEF Spec, FollowUpsKept

-----------------------------------------------------------------------------
(***************************************************************************)
(* The service keeps its contract.  A step touches one session; what it    *)
(* does there is one step of SessionContract.                              *)
(***************************************************************************)
\* A step that launches nothing
Modest == [S!Open \/ S!Follow \/ S!Retry \/ S!End]_(S!vars)

\* What a launch shows of its session
InSight ==
  \A s \in Sessions: ~HasAgent(s) /\ HasAgent(s)' => ShowsStarting(s) /\ row'[s] = row[s]

\* Row, agent and attempts of every session other than s are left alone.
Apart(s) == \A e \in Sessions \ {s}: row'[e] = row[e] /\ zel'[e] = zel[e] /\ run'[e] = run[e]

LEMMA ApartViews ==
  ASSUME NEW s \in Sessions, Apart(s), NEW e \in Sessions \ {s}
  PROVE  Book(e)' = Book(e) /\ (HasAgent(e)' <=> HasAgent(e)) /\ Used(e)' = Used(e)
  <1>1. row'[e] = row[e] /\ zel'[e] = zel[e] /\ run'[e] = run[e] BY DEF Apart
  <1>2. Book(e)' = Book(e) BY <1>1 DEF Book, Recorded
  <1>3. HasAgent(e)' <=> HasAgent(e) BY <1>1 DEF HasAgent, LiveRuns
  <1>4. Used(e)' = Used(e) BY <1>1 DEF Used
  <1> QED BY <1>2, <1>3, <1>4

\* Runs and panes that differ in their bindings only.
SameRuntime(s) ==
  /\ zel'[s] = zel[s]
  /\ \A n \in Attempts: run'[s][n].made = run[s][n].made /\ run'[s][n].state = run[s][n].state

LEMMA SameRuntimeViews ==
  ASSUME NEW s \in Sessions, SameRuntime(s)
  PROVE  (HasAgent(s)' <=> HasAgent(s)) /\ Used(s)' = Used(s)
  <1>1. LiveRuns(s)' = LiveRuns(s) BY DEF LiveRuns, SameRuntime
  <1>2. HasAgent(s)' <=> HasAgent(s) BY <1>1 DEF HasAgent, SameRuntime
  <1>3. Used(s)' = Used(s) BY DEF Used, SameRuntime
  <1> QED BY <1>2, <1>3

LEMMA ContractStutters ==
  ASSUME \A s \in Sessions: Book(s)' = Book(s) /\ (HasAgent(s)' <=> HasAgent(s)) /\ Used(s)' = Used(s)
  PROVE  UNCHANGED S!vars
  <1>1. [s \in Sessions |-> Book(s)]' = [s \in Sessions |-> Book(s)] OBVIOUS
  <1>2. {s \in Sessions: HasAgent(s)}' = {s \in Sessions: HasAgent(s)} OBVIOUS
  <1>3. [s \in Sessions |-> Used(s)]' = [s \in Sessions |-> Used(s)] OBVIOUS
  <1> QED BY <1>1, <1>2, <1>3 DEF S!vars

\* A row that keeps its key, kind and attempt only gains follow-ups.
LEMMA ContractFollows ==
  ASSUME NEW s \in Sessions, Apart(s), SameRuntime(s), Recorded(s),
         row[s] \in Rows, row'[s] \in Rows,
         row'[s].key = row[s].key, row'[s].kind = row[s].kind, row'[s].attempt = row[s].attempt,
         row[s].notes \subseteq row'[s].notes
  PROVE  S!Follow
  <1>1. row'[s] # NoRow /\ row'[s].notes \in SUBSET Notes
    BY DEF Rows, NoRow, Lifecycles, Ended, Live
  <1> DEFINE book == [e \in Sessions |-> Book(e)]
  <1>2. Book(s) # NoRow BY DEF Book, NoRow
  <1>3. /\ Book(s) = [key |-> row[s].key, kind |-> row[s].kind,
                      attempt |-> row[s].attempt, notes |-> row[s].notes]
        /\ Book(s)' = [key |-> row[s].key, kind |-> row[s].kind,
                       attempt |-> row[s].attempt, notes |-> row'[s].notes]
    BY <1>1 DEF Book, Recorded
  <1>4. Book(s)' = [Book(s) EXCEPT !.notes = @ \cup row'[s].notes]
    <2>1. Book(s).notes \cup row'[s].notes = row'[s].notes BY <1>3
    <2>2. Book(s)' = [Book(s) EXCEPT !.notes = row'[s].notes] BY <1>3
    <2> QED BY <2>1, <2>2
  <1>5. book' = [book EXCEPT ![s].notes = @ \cup row'[s].notes]
    BY <1>4, ApartViews
  <1>6. /\ {e \in Sessions: HasAgent(e)}' = {e \in Sessions: HasAgent(e)}
        /\ [e \in Sessions |-> Used(e)]' = [e \in Sessions |-> Used(e)]
    BY ApartViews, SameRuntimeViews
  <1> QED BY <1>1, <1>2, <1>5, <1>6 DEF S!Follow, S!Known

\* The next attempt of a session: not while an AgentRun executes.
LEMMA ContractRetries ==
  ASSUME NEW s \in Sessions, Apart(s), SameRuntime(s), Recorded(s), row[s] \in Rows,
         row'[s] = Relaunched(row[s]),
         row[s].kind = "run" => ~HasAgent(s)
  PROVE  S!Retry
  <1>1. row'[s] # NoRow BY DEF Relaunched, Rows, NoRow
  <1> DEFINE book == [e \in Sessions |-> Book(e)]
  <1>2. Book(s) # NoRow BY DEF Book, NoRow
  <1>3. /\ Book(s) = [key |-> row[s].key, kind |-> row[s].kind,
                      attempt |-> row[s].attempt, notes |-> row[s].notes]
        /\ Book(s)' = [key |-> row[s].key, kind |-> row[s].kind,
                       attempt |-> row[s].attempt + 1, notes |-> row[s].notes]
    BY <1>1 DEF Book, Recorded, Relaunched, Rows
  <1>4. Book(s)' = [Book(s) EXCEPT !.attempt = @ + 1] BY <1>3
  <1>5. book' = [book EXCEPT ![s].attempt = @ + 1]
    BY <1>4, ApartViews
  <1>6. /\ {e \in Sessions: HasAgent(e)}' = {e \in Sessions: HasAgent(e)}
        /\ [e \in Sessions |-> Used(e)]' = [e \in Sessions |-> Used(e)]
    BY ApartViews, SameRuntimeViews
  <1>7. book[s].kind = "run" => s \notin {e \in Sessions: HasAgent(e)} BY <1>3
  <1> QED BY <1>2, <1>5, <1>6, <1>7 DEF S!Retry, S!Known

\* A runtime that only loses its agent.
LEMMA ContractEnds ==
  ASSUME NEW s \in Sessions, Apart(s), row' = row,
         \A n \in Attempts: run'[s][n].made = run[s][n].made,
         HasAgent(s)' => HasAgent(s)
  PROVE  Modest
  <1>1. \A e \in Sessions: Book(e)' = Book(e) BY DEF Book, Recorded
  <1>2. Used(s)' = Used(s) BY DEF Used
  <1>3. /\ [e \in Sessions |-> Book(e)]' = [e \in Sessions |-> Book(e)]
        /\ [e \in Sessions |-> Used(e)]' = [e \in Sessions |-> Used(e)]
    BY <1>1, <1>2, ApartViews
  <1>4. CASE HasAgent(s)'
    <2>1. UNCHANGED S!vars BY <1>1, <1>2, <1>4, ApartViews, ContractStutters
    <2> QED BY <2>1 DEF Modest
  <1>5. CASE ~HasAgent(s)'
    <2>1. {e \in Sessions: HasAgent(e)}' = {e \in Sessions: HasAgent(e)} \ {s}
      BY <1>5, ApartViews
    <2> QED BY <1>3, <2>1 DEF Modest, S!End
  <1> QED BY <1>4, <1>5

\* A launch: the session is on the books, executes nothing, and its attempt
\* has no AgentRun yet.
LEMMA ContractLaunches ==
  ASSUME NEW s \in Sessions, Apart(s), row' = row, Recorded(s), ~HasAgent(s), HasAgent(s)',
         IF row[s].kind = "run"
         THEN /\ row[s].attempt \notin Used(s)
              /\ Used(s)' = Used(s) \cup {row[s].attempt}
         ELSE Used(s)' = Used(s),
         ShowsStarting(s)
  PROVE  S!Launch /\ InSight
  <1> DEFINE book == [e \in Sessions |-> Book(e)]
             agent == {e \in Sessions: HasAgent(e)}
             used == [e \in Sessions |-> Used(e)]
  <1>1. book' = book BY DEF Book, Recorded
  <1>2. Book(s) # NoRow BY DEF Book, NoRow
  <1>3. book[s].kind = row[s].kind /\ book[s].attempt = row[s].attempt BY DEF Book
  <1>4. s \notin agent /\ agent' = agent \cup {s} BY ApartViews
  <1>5. ASSUME row[s].kind = "run" PROVE S!Launch
    <2>1. used' = [used EXCEPT ![s] = @ \cup {row[s].attempt}] BY <1>5, ApartViews
    <2> QED BY <1>1, <1>2, <1>3, <1>4, <1>5, <2>1 DEF S!Launch, S!Known
  <1>6. ASSUME row[s].kind # "run" PROVE S!Launch
    <2>1. used' = used BY <1>6, ApartViews
    <2> QED BY <1>1, <1>2, <1>3, <1>4, <1>6, <2>1 DEF S!Launch, S!Known
  <1>7. InSight BY ApartViews DEF InSight
  <1> QED BY <1>5, <1>6, <1>7

\* A step of a working call that writes the row, and at most binds a run.
LEMMA WritesFollow ==
  ASSUME IInv, NEW t \in Threads, NEW pc \in Working, At(t, pc), NEW r \in Rows,
         row' = [row EXCEPT ![th[t].s] = r], UNCHANGED <<zel, run>>,
         r.key = row[th[t].s].key, r.kind = row[th[t].s].kind, r.attempt = row[th[t].s].attempt,
         row[th[t].s].notes \subseteq r.notes
  PROVE  S!Follow
  <1>1. PICK s \in Sessions: s = th[t].s /\ Recorded(s) /\ row[s] \in Rows BY Turn DEF Facts
  <1>2. row'[s] = r BY <1>1 DEF IInv, TypeOK
  <1>3. Apart(s) BY <1>1 DEF Apart, IInv, TypeOK
  <1>4. SameRuntime(s) BY DEF SameRuntime
  <1> QED BY <1>1, <1>2, <1>3, <1>4, ContractFollows

\* Steps that write nothing a contract is about.
LEMMA QuietStutters ==
  ASSUME UNCHANGED <<row, zel, run>>
  PROVE  Modest
  <1>1. ASSUME NEW s \in Sessions
        PROVE  Book(s)' = Book(s) /\ (HasAgent(s)' <=> HasAgent(s)) /\ Used(s)' = Used(s)
    BY DEF Book, Recorded, HasAgent, LiveRuns, Used
  <1>2. UNCHANGED S!vars BY <1>1, ContractStutters
  <1> QED BY <1>2 DEF Modest

\* Binding a run tells callers nothing new.
LEMMA BindStutters ==
  ASSUME IInv, NEW s \in Sessions, NEW n \in Attempts, run' = Bind(s, n), UNCHANGED <<row, zel>>
  PROVE  Modest
  <1>1. Apart(s) /\ SameRuntime(s) BY Binding DEF Apart, SameRuntime, IInv, TypeOK
  <1>2. \A e \in Sessions: Book(e)' = Book(e) BY DEF Book, Recorded
  <1>3. UNCHANGED S!vars BY <1>1, <1>2, ApartViews, SameRuntimeViews, ContractStutters
  <1> QED BY <1>3 DEF Modest

\* createManagerSession opens a session under a key no row has.
LEMMA PersistOpens ==
  ASSUME IInv, NEW t \in Threads, Persist(t)
  PROVE  Modest
  <1> USE DEF external
  <1>1. CASE UNCHANGED row BY <1>1, QuietStutters DEF Persist
  <1>2. CASE ~UNCHANGED row
    <2>1. PICK c \in Calls: c = th[t] /\ CallOK(t) /\ c.pc = "prepare"
      BY InFlight DEF Persist, At, IInv
    <2>2. PICK s \in Sessions, key \in Keys \cup {NoKey}, kind \in Kinds:
            s = c.s /\ key = c.key /\ kind = c.kind
      BY DEF Calls
    <2> DEFINE r == [life |-> "starting", rt |-> "starting", sem |-> "active", attempt |-> 0,
                     kind |-> kind, key |-> key, notes |-> {}]
    <2>3. Bound(key) = {} /\ row' = [row EXCEPT ![s] = r] BY <1>2, <2>1, <2>2 DEF Persist
    <2>4. ~Recorded(s) BY <2>1, <2>2 DEF CallOK
    <2>5. row'[s] = r BY <2>3 DEF IInv, TypeOK
    <2>6. r # NoRow BY DEF NoRow
    <2>7. Book(s) = NoRow BY <2>4 DEF Book
    <2>8. Book(s)' = [key |-> key, kind |-> kind, attempt |-> 0, notes |-> {}]
      BY <2>5, <2>6 DEF Book, Recorded
    <2>9. Apart(s) /\ SameRuntime(s) BY <2>3 DEF Apart, SameRuntime, IInv, TypeOK, Persist
    <2>10. /\ {e \in Sessions: HasAgent(e)}' = {e \in Sessions: HasAgent(e)}
           /\ [e \in Sessions |-> Used(e)]' = [e \in Sessions |-> Used(e)]
      BY <2>9, ApartViews, SameRuntimeViews
    <2>11. [e \in Sessions |-> Book(e)]' =
             [[e \in Sessions |-> Book(e)] EXCEPT
                ![s] = [key |-> key, kind |-> kind, attempt |-> 0, notes |-> {}]]
      BY <2>8, <2>9, ApartViews
    <2>12. ASSUME key # NoKey, NEW e \in Sessions, Book(e) # NoRow PROVE Book(e).key # key
      BY <2>3, <2>12 DEF Book, Bound, Recorded
    <2> QED BY <2>2, <2>7, <2>10, <2>11, <2>12 DEF Modest, S!Open, S!Known
  <1> QED BY <1>1, <1>2

\* Killing a Zellij session, or leaving it alone, takes agents away only.
LEMMA PaneEnds ==
  ASSUME IInv, NEW s \in Sessions, UNCHANGED <<row, run>>,
         UNCHANGED zel \/ Kill(s) \/ Ends(s) \/ Spares(s)
  PROVE  Modest
  <1>1. CASE UNCHANGED zel BY <1>1, QuietStutters
  <1>2. CASE Kill(s)
    <2>1. Apart(s) /\ zel'[s].live = 0 BY <1>2 DEF Kill, NoSession, Apart, IInv, TypeOK
    <2>2. HasAgent(s)' => HasAgent(s) BY <2>1 DEF HasAgent, LiveRuns
    <2> QED BY <2>1, <2>2, ContractEnds
  <1> QED BY <1>1, <1>2 DEF Ends, Spares

\* A cancelled run may go on for a while, but none comes to life.
LEMMA CancelEnds ==
  ASSUME IInv, NEW t \in Threads, Cancel(t)
  PROVE  Modest
  <1>1. "cancel" \in Working /\ At(t, "cancel") BY DEF Cancel, Working, Places
  <1>2. PICK s \in Sessions, n \in Attempts:
          s = th[t].s /\ n = th[t].seen.attempt /\ run[s] \in Runs
    BY <1>1, Turn DEF Facts, CallFine, Seeing, Rows
  <1>3. CASE UNCHANGED run BY <1>3, QuietStutters DEF Cancel
  <1>4. CASE run' = Bind(s, n) BY <1>2, <1>4, BindStutters DEF Cancel
  <1>5. ASSUME NEW state \in {"live", "stopped"}, run[s][n].state = "live",
               run' = [Bind(s, n) EXCEPT ![s][n].state = state]
        PROVE  Modest
    <2>1. PICK q \in Runs:
            /\ Bind(s, n) = [run EXCEPT ![s] = q]
            /\ \A k \in Attempts: q[k].made = run[s][k].made /\ q[k].state = run[s][k].state
      BY <1>2, Binding
    <2>2. run'[s] = [q EXCEPT ![n].state = state] /\ \A e \in Sessions \ {s}: run'[e] = run[e]
      BY <1>5, <2>1 DEF IInv, TypeOK
    <2>3. /\ \A k \in Attempts: run'[s][k].made = run[s][k].made
          /\ \A k \in Attempts \ {n}: run'[s][k].state = run[s][k].state
      BY <2>1, <2>2 DEF Runs
    <2>4. Apart(s) BY <2>2 DEF Apart, Cancel
    <2>5. LiveRuns(s)' # {} => LiveRuns(s) # {} BY <1>5 DEF LiveRuns
    <2>6. HasAgent(s)' => HasAgent(s) BY <2>5 DEF HasAgent, Cancel
    <2> QED BY <2>3, <2>4, <2>6, ContractEnds DEF Cancel
  <1> QED BY <1>2, <1>3, <1>4, <1>5 DEF Cancel

\* What is left of a session's runs once its current one is over.
LEMMA NoneLive ==
  ASSUME IInv, NEW s \in Sessions, Recorded(s), row[s].kind = "run",
         run[s][row[s].attempt].state # "live"
  PROVE  ~HasAgent(s)
  <1>1. SessionOK(s) /\ row[s].attempt \in Attempts BY DEF IInv, TypeOK, Recorded, Rows
  <1>2. zel[s].live = 0 BY <1>1 DEF SessionOK
  <1>3. ASSUME NEW n \in Attempts PROVE run[s][n].state # "live"
    <2>1. n > row[s].attempt \/ n < row[s].attempt \/ n = row[s].attempt
      BY <1>1, BoundsAreNatural DEF Attempts
    <2> QED BY <1>1, <2>1 DEF SessionOK
  <1> QED BY <1>2, <1>3 DEF HasAgent, LiveRuns

\* restartAgentRun leaves an attempt only when its run is absent or over.
LEMMA RetryRetries ==
  ASSUME IInv, NEW t \in Threads, Retry(t)
  PROVE  Modest
  <1>1. "retry" \in Working /\ At(t, "retry") BY DEF Retry, Working, Places
  <1>2. Facts(t) /\ th[t].pc = "retry" BY <1>1, Turn
  <1>3. PICK s \in Sessions, n \in Attempts:
          /\ s = th[t].s /\ n = th[t].seen.attempt /\ n = row[s].attempt
          /\ row[s] \in Rows /\ Recorded(s) /\ row[s].kind = "run"
    BY <1>2 DEF Facts, CallFine, Seeing, OnTsukai
  <1>4. CASE UNCHANGED <<row, run>> BY <1>4, QuietStutters DEF Retry
  <1>5. CASE run' = Bind(s, n) /\ UNCHANGED row BY <1>3, <1>5, BindStutters DEF Retry
  <1>6. ASSUME NEW o \in Evidence(s, n), Retriable(s, o), run' = Bind(s, n),
               row' = [row EXCEPT ![s] = Relaunched(@)]
        PROVE  Modest
    <2>1. ~HasAgent(s) BY <1>3, <1>6, EvidenceType, NoneLive DEF Retriable
    <2>2. row'[s] = Relaunched(row[s]) /\ \A e \in Sessions \ {s}: row'[e] = row[e]
      BY <1>6 DEF IInv, TypeOK
    <2>3. Apart(s) BY <1>6, <2>2, Binding DEF Apart, Retry, IInv, TypeOK
    <2>4. SameRuntime(s) BY <1>6, Binding DEF SameRuntime, Retry, IInv, TypeOK
    <2> QED BY <1>3, <2>1, <2>2, <2>3, <2>4, ContractRetries DEF Modest
  <1> QED BY <1>3, <1>4, <1>5, <1>6 DEF Retry

LEMMA RelaunchRetries ==
  ASSUME IInv, NEW t \in Threads, Relaunch(t)
  PROVE  Modest
  <1> USE DEF external
  <1>1. "relaunch" \in Working /\ At(t, "relaunch") BY DEF Relaunch, Working, Places
  <1>2. Facts(t) /\ th[t].pc = "relaunch" BY <1>1, Turn
  <1>3. PICK s \in Sessions: s = th[t].s /\ row[s] \in Rows /\ Recorded(s) /\ row[s].kind # "run"
    BY <1>2 DEF Facts, CallFine, OnZellij
  <1>4. CASE UNCHANGED row BY <1>4, QuietStutters DEF Relaunch
  <1>5. CASE row' = [row EXCEPT ![s] = Relaunched(@)]
    <2>1. row'[s] = Relaunched(row[s]) BY <1>5 DEF IInv, TypeOK
    <2>2. Apart(s) /\ SameRuntime(s) BY <1>5 DEF Apart, SameRuntime, Relaunch, IInv, TypeOK
    <2> QED BY <1>3, <2>1, <2>2, ContractRetries DEF Modest
  <1> QED BY <1>3, <1>4, <1>5 DEF Relaunch

\* The pane of ZellijCliRuntime.start opens in a session that has none.
LEMMA OpenPaneLaunches ==
  ASSUME IInv, NEW t \in Threads, OpenPane(t)
  PROVE  Modest \/ (S!Launch /\ InSight)
  <1>1. "pane" \in Working /\ At(t, "pane") BY DEF OpenPane, Working, Places
  <1>2. Facts(t) /\ th[t].pc = "pane" BY <1>1, Turn
  <1>3. PICK s \in Sessions:
          /\ s = th[t].s /\ Recorded(s) /\ row[s].kind = "zellij"
          /\ zel[s] \in Panes /\ zel[s].live = 0 /\ RunsFine(row[s], run[s])
          /\ row[s].life = "starting" /\ row[s].rt = "starting"
    BY <1>2 DEF Facts, CallFine, OnZellij, Starting
  <1>4. CASE UNCHANGED zel BY <1>4, QuietStutters DEF OpenPane
  <1>5. CASE zel' = [zel EXCEPT ![s].live = @ + 1]
    <2>1. zel'[s].live = 1 /\ \A e \in Sessions \ {s}: zel'[e] = zel[e]
      BY <1>3, <1>5 DEF IInv, TypeOK
    <2>2. Apart(s) BY <2>1 DEF Apart, OpenPane
    <2>3. LiveRuns(s) = {} BY <1>3 DEF LiveRuns, RunsFine
    <2>4. ~HasAgent(s) /\ HasAgent(s)' BY <1>3, <2>1, <2>3 DEF HasAgent
    <2>5. Used(s)' = Used(s) BY DEF Used, OpenPane
    <2>6. row' = row /\ row[s].kind # "run" BY <1>3 DEF OpenPane
    <2>7. ShowsStarting(s) BY <1>3 DEF ShowsStarting
    <2> QED BY <1>3, <2>2, <2>4, <2>5, <2>6, <2>7, ContractLaunches
  <1> QED BY <1>3, <1>4, <1>5 DEF OpenPane

\* startOnce creates the run of the row's attempt only where it found none.
LEMMA CreateRunLaunches ==
  ASSUME IInv, NEW t \in Threads, CreateRun(t)
  PROVE  Modest \/ (S!Launch /\ InSight)
  <1>1. "createRun" \in Working /\ At(t, "createRun") BY DEF CreateRun, Working, Places
  <1>2. Facts(t) /\ th[t].pc = "createRun" BY <1>1, Turn
  <1>3. PICK s \in Sessions, n \in Attempts:
          /\ s = th[t].s /\ n = row[s].attempt /\ Recorded(s) /\ row[s].kind = "run"
          /\ run[s] \in Runs /\ RunsFine(row[s], run[s])
          /\ row[s].life = "starting" /\ row[s].rt = "starting"
    BY <1>2 DEF Facts, CallFine, OnTsukai, Starting
  <1>4. CASE UNCHANGED run BY <1>4, QuietStutters DEF CreateRun
  <1>5. CASE run' = Bind(s, n) BY <1>3, <1>5, BindStutters DEF CreateRun
  <1>6. CASE /\ ~Recoverable(s, n)
             /\ run' = [run EXCEPT ![s][n].made = @ + 1, ![s][n].state = "live"]
    <2> DEFINE p == [run[s] EXCEPT ![n].made = @ + 1, ![n].state = "live"]
    <2>0. ~Recoverable(s, n) /\ run' = [run EXCEPT ![s] = p] BY <1>6 DEF IInv, TypeOK
    <2>1. run[s][n].made = 0
      <3>1. run[s] \in Runs BY <1>3
      <3>2. ~(run[s][n].made > 0) BY <1>6 DEF Recoverable
      <3> QED BY <3>1, <3>2 DEF Runs
    <2>2. run[s][n].state # "live" BY <1>3, <2>1 DEF RunsFine
    <2>3. ~HasAgent(s) BY <1>3, <2>2, NoneLive
    <2>4. /\ run'[s][n].made = 1 /\ run'[s][n].state = "live"
          /\ \A k \in Attempts \ {n}: run'[s][k] = run[s][k]
          /\ \A e \in Sessions \ {s}: run'[e] = run[e]
      <3>1. /\ p[n].made = 1 /\ p[n].state = "live"
            /\ \A k \in Attempts \ {n}: p[k] = run[s][k]
        <4>1. run[s] \in Runs BY <1>3
        <4> QED BY <2>1, <4>1 DEF Runs
      <3> HIDE DEF p
      <3> QED BY <2>0, <3>1 DEF IInv, TypeOK
    <2> HIDE DEF p
    <2>5. HasAgent(s)' BY <2>4 DEF HasAgent, LiveRuns
    <2>6. Apart(s) BY <2>4 DEF Apart, CreateRun
    <2>7. n \notin Used(s) /\ Used(s)' = Used(s) \cup {n} BY <2>1, <2>4 DEF Used
    <2>8. row' = row BY DEF CreateRun
    <2>9. ShowsStarting(s) BY <1>3 DEF ShowsStarting
    <2> QED BY <1>3, <2>3, <2>5, <2>6, <2>7, <2>8, <2>9, ContractLaunches
  <1> QED BY <1>3, <1>4, <1>5, <1>6 DEF CreateRun

\* The world takes agents away and never brings one.
LEMMA WorldEnds ==
  ASSUME IInv, World
  PROVE  Modest
  <1> USE DEF external, task
  <1>1. ASSUME NEW s \in Sessions, AgentExits(s) PROVE Modest
    <2>1. Apart(s) BY <1>1 DEF AgentExits, Apart, IInv, TypeOK
    <2>2. HasAgent(s) BY <1>1 DEF AgentExits, HasAgent
    <2> QED BY <1>1, <2>1, <2>2, ContractEnds DEF AgentExits
  <1>2. ASSUME NEW s \in Sessions, SessionKilled(s) PROVE Modest
    BY <1>2, PaneEnds DEF SessionKilled
  <1>3. ASSUME NEW s \in Sessions, NEW n \in Attempts, RunEnds(s, n) PROVE Modest
    <2>1. Apart(s) BY <1>3 DEF RunEnds, Apart, IInv, TypeOK
    <2>2. \A k \in Attempts: run'[s][k].made = run[s][k].made
      BY <1>3 DEF RunEnds, IInv, TypeOK
    <2>3. HasAgent(s) BY <1>3 DEF RunEnds, HasAgent, LiveRuns
    <2> QED BY <1>3, <2>1, <2>2, <2>3, ContractEnds DEF RunEnds
  <1>4. ASSUME NEW s \in Sessions, TaskCompletes(s) \/ WorktreeVanishes(s) PROVE Modest
    BY <1>4, QuietStutters DEF TaskCompletes, WorktreeVanishes
  <1> QED BY <1>1, <1>2, <1>3, <1>4 DEF World

\* Every other write of the row keeps key, kind, attempt and follow-ups.
LEMMA RowFollows ==
  ASSUME IInv, NEW t \in Threads,
         \/ Validate(t) \/ Apply(t) \/ Identify(t) \/ RecordStopped(t) \/ RecordCancelled(t)
         \/ FollowUp(t) \/ RecordLaunched(t) \/ RecordUnlaunched(t) \/ RecordRun(t)
  PROVE  Modest
  <1> USE DEF external, task, meter
  <1>1. ASSUME UNCHANGED <<row, zel, run>> PROVE Modest BY <1>1, QuietStutters
  <1>2. ASSUME NEW pc \in Working, At(t, pc), NEW r \in Rows,
               row' = [row EXCEPT ![th[t].s] = r], UNCHANGED <<zel, run>>,
               r.key = row[th[t].s].key, r.kind = row[th[t].s].kind,
               r.attempt = row[th[t].s].attempt, row[th[t].s].notes \subseteq r.notes
        PROVE  Modest
    BY <1>2, WritesFollow DEF Modest
  <1>3. ASSUME NEW pc \in Working, At(t, pc), NEW life \in Lifecycles, NEW rt \in RuntimeStates,
               row' = [row EXCEPT ![th[t].s].life = life, ![th[t].s].rt = rt], UNCHANGED <<zel, run>>
        PROVE  Modest
    <2>1. row[th[t].s] \in Rows /\ th[t].s \in Sessions BY <1>3, Turn DEF Facts
    <2> DEFINE r == [row[th[t].s] EXCEPT !.life = life, !.rt = rt]
    <2>2. /\ r \in Rows /\ r.key = row[th[t].s].key /\ r.kind = row[th[t].s].kind
          /\ r.attempt = row[th[t].s].attempt /\ r.notes = row[th[t].s].notes
      BY <2>1 DEF Rows
    <2>3. row' = [row EXCEPT ![th[t].s] = r] BY <1>3, <2>1 DEF IInv, TypeOK
    <2> HIDE DEF r
    <2> QED BY <1>2, <1>3, <2>2, <2>3
  <1>4. ASSUME NEW pc \in Working, At(t, pc), NEW n \in Attempts, NEW o \in Evidence(th[t].s, n),
               row' = [row EXCEPT ![th[t].s] = RunPatch(@, o)], UNCHANGED <<zel, run>>
        PROVE  Modest
    <2>1. row[th[t].s] \in Rows /\ th[t].s \in Sessions BY <1>4, Turn DEF Facts
    <2>2. o \in Observations \ {"none"} BY <1>4, <2>1, EvidenceType
    <2>3. PICK r \in Rows: /\ r = RunPatch(row[th[t].s], o) /\ r.kind = row[th[t].s].kind
                           /\ r.key = row[th[t].s].key /\ r.attempt = row[th[t].s].attempt
                           /\ r.notes = row[th[t].s].notes
      BY <2>1, <2>2, PatchType
    <2> QED BY <1>2, <1>4, <2>3
  <1>5. /\ {"starting", "running", "stopped", "failed"} \subseteq Lifecycles
        /\ {"starting", "running", "stopped", "failed", "stale"} \subseteq RuntimeStates
    BY DEF Lifecycles, RuntimeStates, Ended, Live
  <1>6. ASSUME NEW pc \in Working, At(t, pc), row' = [row EXCEPT ![th[t].s] = Failed(@)],
               UNCHANGED <<zel, run>>
        PROVE  Modest
    <2>1. row[th[t].s] \in Rows /\ th[t].s \in Sessions BY <1>6, Turn DEF Facts
    <2>2. row' = [row EXCEPT ![th[t].s].life = "failed", ![th[t].s].rt = "failed"]
      BY <1>6, <2>1 DEF Failed, IInv, TypeOK
    <2> QED BY <1>3, <1>5, <1>6, <2>2
  <1>7. CASE Validate(t)
    <2>1. At(t, "validate") /\ "validate" \in Working BY <1>7 DEF Validate, Working, Places
    <2> QED BY <1>1, <1>6, <1>7, <2>1 DEF Validate
  <1>8. CASE Apply(t)
    <2>1. At(t, "apply") /\ "apply" \in Working BY <1>8 DEF Apply, Working, Places
    <2> QED BY <1>2, <1>8, <2>1, PatchedNotes DEF Apply
  <1>9. CASE Identify(t)
    <2>1. At(t, "identify") /\ "identify" \in Working BY <1>9 DEF Identify, Working, Places
    <2>2. row[th[t].s] \in Rows /\ th[t].s \in Sessions BY <2>1, Turn DEF Facts
    <2> DEFINE r == [row[th[t].s] EXCEPT !.rt = "stale"]
    <2>3. /\ r \in Rows /\ r.key = row[th[t].s].key /\ r.kind = row[th[t].s].kind
          /\ r.attempt = row[th[t].s].attempt /\ r.notes = row[th[t].s].notes
      BY <1>5, <2>2 DEF Rows
    <2>4. UNCHANGED row \/ row' = [row EXCEPT ![th[t].s] = r] BY <1>9 DEF Identify
    <2>5. UNCHANGED <<zel, run>> BY <1>9 DEF Identify
    <2> HIDE DEF r
    <2> QED BY <1>1, <1>2, <2>1, <2>3, <2>4, <2>5
  <1>10. CASE RecordStopped(t)
    <2>1. At(t, "stopped") /\ "stopped" \in Working BY <1>10 DEF RecordStopped, Working, Places
    <2> QED BY <1>3, <1>5, <1>10, <2>1 DEF RecordStopped
  <1>11. CASE RecordCancelled(t)
    <2>1. At(t, "cancelled") /\ "cancelled" \in Working BY <1>11 DEF RecordCancelled, Working, Places
    <2>2. Facts(t) /\ th[t].pc = "cancelled" BY <2>1, Turn
    <2>3. th[t].seen.attempt \in Attempts BY <2>2 DEF Facts, CallFine, Seeing, Rows
    <2> QED BY <1>4, <1>11, <2>1, <2>3 DEF RecordCancelled
  <1>12. CASE FollowUp(t)
    <2>1. At(t, "followUp") /\ "followUp" \in Working BY <1>12 DEF FollowUp, Working, Places
    <2>2. Facts(t) /\ th[t].pc = "followUp" BY <2>1, Turn
    <2> DEFINE r == [row[th[t].s] EXCEPT !.notes = th[t].seen.notes \cup th[t].note]
    <2>3. /\ row[th[t].s] \in Rows /\ th[t].seen.notes \subseteq Notes /\ th[t].note \subseteq Notes
          /\ th[t].seen.notes = row[th[t].s].notes /\ th[t].s \in Sessions
      BY <2>2 DEF Facts, CallFine, Seeing, Calls, Rows
    <2>4. /\ r \in Rows /\ row[th[t].s].notes \subseteq r.notes /\ r.key = row[th[t].s].key
          /\ r.kind = row[th[t].s].kind /\ r.attempt = row[th[t].s].attempt
      BY <2>3 DEF Rows
    <2>5. row' = [row EXCEPT ![th[t].s] = r] BY <1>12, <2>3 DEF FollowUp, IInv, TypeOK
    <2>6. UNCHANGED <<zel, run>> BY <1>12 DEF FollowUp
    <2> HIDE DEF r
    <2> QED BY <1>2, <2>1, <2>4, <2>5, <2>6
  <1>13. CASE RecordLaunched(t)
    <2>1. At(t, "launched") /\ "launched" \in Working BY <1>13 DEF RecordLaunched, Working, Places
    <2> QED BY <1>3, <1>5, <1>13, <2>1 DEF RecordLaunched
  <1>14. CASE RecordUnlaunched(t)
    <2>1. At(t, "unlaunched") /\ "unlaunched" \in Working
      BY <1>14 DEF RecordUnlaunched, Working, Places
    <2> QED BY <1>6, <1>14, <2>1 DEF RecordUnlaunched
  <1>15. CASE RecordRun(t)
    <2>1. At(t, "recordRun") /\ "recordRun" \in Working BY <1>15 DEF RecordRun, Working, Places
    <2>2. row[th[t].s].attempt \in Attempts BY <2>1, Turn DEF Facts
    <2> QED BY <1>4, <1>15, <2>1, <2>2 DEF RecordRun
  <1> QED BY <1>7, <1>8, <1>9, <1>10, <1>11, <1>12, <1>13, <1>14, <1>15

LEMMA NextFits ==
  ASSUME IInv, [Next]_vars
  PROVE  Modest \/ (S!Launch /\ InSight)
  <1> USE DEF external, task, meter
  <1>1. CASE UNCHANGED vars BY <1>1, QuietStutters DEF vars
  <1>2. ASSUME NEW t \in Threads, Requests(t) PROVE Modest
    BY <1>2, QuietStutters DEF Requests, Start, Request
  <1>3. ASSUME NEW t \in Threads, Step(t) PROVE Modest \/ (S!Launch /\ InSight)
    <2>1. CASE Refuse(t) \/ Acquire(t) BY <2>1, QuietStutters DEF Refuse, Acquire
    <2>2. CASE Reconciling(t)
      <3>1. CASE Read(t) \/ Inspect(t) BY <3>1, QuietStutters DEF Read, Inspect
      <3>2. CASE Evict(t)
        <4>1. At(t, "evict") /\ "evict" \in Working BY <3>2 DEF Evict, Working, Places
        <4>2. th[t].s \in Sessions BY <4>1, Turn DEF Facts
        <4> QED BY <3>2, <4>2, PaneEnds DEF Evict
      <3>3. CASE Ask(t)
        <4>1. At(t, "evidence") /\ "evidence" \in Working BY <3>3 DEF Ask, Working, Places
        <4>2. Facts(t) /\ th[t].pc = "evidence" BY <4>1, Turn
        <4>3. th[t].s \in Sessions /\ th[t].seen.attempt \in Attempts
          BY <4>2 DEF Facts, CallFine, Seeing, Rows
        <4>4. run' = Bind(th[t].s, th[t].seen.attempt) \/ UNCHANGED run BY <3>3 DEF Ask
        <4> QED BY <3>3, <4>3, <4>4, BindStutters, QuietStutters DEF Ask
      <3> QED BY <2>2, <3>1, <3>2, <3>3, RowFollows DEF Reconciling
    <2>3. CASE Decision(t)
      BY <2>3, QuietStutters DEF Decision, DecideReconcile, DecideResume, DecideStop,
                                 DecideContinue, DecideSettle, DecideRestart
    <2>4. CASE Stopping(t)
      <3>1. CASE Terminate(t)
        <4>1. At(t, "terminate") /\ "terminate" \in Working BY <3>1 DEF Terminate, Working, Places
        <4>2. th[t].s \in Sessions BY <4>1, Turn DEF Facts
        <4> QED BY <3>1, <4>2, PaneEnds DEF Terminate
      <3> QED BY <2>4, <3>1, RowFollows, CancelEnds DEF Stopping
    <2>5. CASE Launching(t)
      <3>1. CASE Confirm(t) \/ Probe(t) \/ Admit(t)
        BY <3>1, QuietStutters DEF Confirm, Probe, Admit
      <3>2. CASE Clear(t)
        <4>1. At(t, "clear") /\ "clear" \in Working BY <3>2 DEF Clear, Working, Places
        <4>2. th[t].s \in Sessions BY <4>1, Turn DEF Facts
        <4> QED BY <3>2, <4>2, PaneEnds DEF Clear
      <3>3. CASE CreateSession(t)
        <4>1. At(t, "create") /\ "create" \in Working BY <3>3 DEF CreateSession, Working, Places
        <4>2. PICK s \in Sessions: s = th[t].s BY <4>1, Turn DEF Facts
        <4>3. CASE UNCHANGED zel BY <3>3, <4>3, QuietStutters DEF CreateSession
        <4>4. CASE zel' = [zel EXCEPT ![s] = BareSession]
          <5>1. Apart(s) /\ zel'[s].live = 0
            BY <3>3, <4>4 DEF BareSession, Apart, CreateSession, IInv, TypeOK
          <5>2. HasAgent(s)' => HasAgent(s) BY <3>3, <5>1 DEF HasAgent, LiveRuns, CreateSession
          <5> QED BY <3>3, <5>1, <5>2, ContractEnds DEF CreateSession
        <4> QED BY <3>3, <4>2, <4>3, <4>4 DEF CreateSession
      <3>4. CASE KillCreated(t)
        <4>1. At(t, "undo") /\ "undo" \in Working BY <3>4 DEF KillCreated, Working, Places
        <4>2. th[t].s \in Sessions BY <4>1, Turn DEF Facts
        <4> QED BY <3>4, <4>2, PaneEnds DEF KillCreated
      <3>5. CASE BindRun(t)
        <4>1. At(t, "bindRun") /\ "bindRun" \in Working BY <3>5 DEF BindRun, Working, Places
        <4>2. th[t].s \in Sessions /\ row[th[t].s].attempt \in Attempts BY <4>1, Turn DEF Facts
        <4> QED BY <3>5, <4>2, BindStutters DEF BindRun
      <3> QED BY <2>5, <3>1, <3>2, <3>3, <3>4, <3>5, RowFollows, RelaunchRetries, RetryRetries,
                 OpenPaneLaunches, CreateRunLaunches DEF Launching
    <2> QED BY <1>3, <2>1, <2>2, <2>3, <2>4, <2>5, PersistOpens, RowFollows DEF Step
  <1>4. CASE Crash BY <1>4, QuietStutters DEF Crash
  <1> QED BY <1>1, <1>2, <1>3, <1>4, WorldEnds DEF Next

LEMMA NextImplements ==
  ASSUME IInv, [Next]_vars
  PROVE  [S!Next]_(S!vars) /\ InSight
  <1>1. CASE Modest
    <2>1. {s \in Sessions: HasAgent(s)}' \subseteq {s \in Sessions: HasAgent(s)}
      BY <1>1 DEF Modest, S!Open, S!Follow, S!Retry, S!End, S!vars
    <2>2. InSight BY <2>1 DEF InSight
    <2>3. [S!Next]_(S!vars) BY <1>1 DEF Modest, S!Next
    <2> QED BY <2>2, <2>3
  <1>2. CASE S!Launch /\ InSight BY <1>2 DEF S!Next
  <1> QED BY <1>1, <1>2, NextFits

LEMMA InitImplements == Init => S!Init
  <1> SUFFICES ASSUME Init PROVE S!Init OBVIOUS
  <1>1. \A s \in Sessions: Book(s) = NoRow BY DEF Init, Book, Recorded
  <1>2. \A s \in Sessions: ~HasAgent(s)
    BY DEF Init, HasAgent, LiveRuns, NoSession, NoRun
  <1>3. \A s \in Sessions: Used(s) = {} BY DEF Init, Used, NoRun
  <1> QED BY <1>1, <1>2, <1>3 DEF S!Init

\* The session service keeps its contract: a key opens one session
\* (createManagerSession), continueWork only adds follow-ups, an agent is
\* launched only for a recorded session that executes none, once per attempt
\* (startOnce, ZellijCliRuntime.start), and restartUnlocked moves an AgentRun
\* session to its next attempt only when the run before is over.
THEOREM KeepsItsContract == Spec => ImplementsSessions
  <1>1. IInv /\ [Next]_vars => [S!Next]_(S!vars) BY NextImplements
  <1> QED BY Invariance, InitImplements, <1>1, PTL DEF Spec, ImplementsSessions, S!Spec

\* An agent is only launched while its session's row says starting, and the
\* launch leaves the row so (ZellijCliRuntime.start, startOnce): whatever
\* fails next, reconcileUnlocked does not take the row for one that is over.
THEOREM NeverLaunchedUnseen == Spec => LaunchedInSight
  <1>1. IInv /\ [Next]_vars => [InSight]_vars BY NextImplements
  <1> QED BY Invariance, <1>1, PTL DEF Spec, LaunchedInSight, InSight
=============================================================================
