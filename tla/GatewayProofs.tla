--------------------------- MODULE GatewayProofs ---------------------------
(***************************************************************************)
(* Gateway's parts share no variable, so each has an invariant of its own:  *)
(* RegInv, UpInv and RosterInv.  SeatInv ties the calls in flight to the    *)
(* seats of the roster.                                                     *)
(***************************************************************************)
EXTENDS Gateway, FiniteSetTheorems, SequenceTheorems, TLAPS

Living == {h \in Handles : child[h].os \in Alive}

\* What a child's entry says of the child.
ChildOK(c) ==
    /\ c.entry = "active" => c.os \in Alive
    /\ c.entry = "terminal" => c.os = "exited"
    /\ ~disposed /\ c.os \in Alive => c.entry = "active"
    /\ disposed => c.entry = "absent" /\ c.os # "running"

RegType ==
    /\ child \in [Handles -> Child]
    /\ terminalOrder \in Seq(Handles)
    /\ active \in Int
    /\ disposed \in BOOLEAN
    /\ closed \in Seq(Handles)
    /\ taken \in SUBSET Handles

RegInv == RegType /\ CapacityHeld /\ \A h \in Handles : ChildOK(child[h])

RegistryStep ==
    \/ Reap \/ Dispose
    \/ \E h \in Handles : Launch(h) \/ LaunchFails(h) \/ Collect(h) \/ Ages(h) \/ TimerFires(h) \/ Kill(h)
    \/ \E h \in Handles, awaited \in BOOLEAN : Exits(h, awaited)

LEMMA TrimmedType ==
  ASSUME NEW s \in Seq(Handles)
  PROVE  Trimmed(s) \in Seq(Handles)
  <1>1. CASE Len(s) <= MaxRetained BY <1>1 DEF Trimmed
  <1>2. CASE ~(Len(s) <= MaxRetained)
    <2>1. MaxRetained \in Nat /\ Len(s) \in Nat BY RegistryAssumption
    <2>2. \A i \in (Len(s) - MaxRetained + 1) .. Len(s) : s[i] \in Handles
      BY <1>2, <2>1, ElementOfSeq
    <2> QED BY <1>2, <2>1, <2>2, SubSeqProperties DEF Trimmed
  <1> QED BY <1>1, <1>2

LEMMA WithoutType ==
  ASSUME NEW s \in Seq(Handles), NEW h
  PROVE  Without(s, h) \in Seq(Handles)
  <1>1. CASE h \notin Elements(s) BY <1>1 DEF Without
  <1>2. CASE h \in Elements(s)
    <2> DEFINE i == CHOOSE i \in DOMAIN s : s[i] = h
    <2>1. i \in DOMAIN s BY <1>2 DEF Elements
    <2>2. i \in 1 .. Len(s) /\ Len(s) \in Nat BY <2>1
    <2>3. SubSeq(s, 1, i - 1) \in Seq(Handles) /\ SubSeq(s, i + 1, Len(s)) \in Seq(Handles)
      <3>0. \A j \in 1 .. Len(s) : s[j] \in Handles BY ElementOfSeq
      <3> HIDE DEF i
      <3>1. i - 1 \in Int /\ i + 1 \in Int /\ 1 \in Int /\ Len(s) \in Int BY <2>2
      <3>2. \A j \in 1 .. (i - 1) : s[j] \in Handles BY <2>2, <3>0
      <3>3. \A j \in (i + 1) .. Len(s) : s[j] \in Handles BY <2>2, <3>0
      <3> QED BY <3>1, <3>2, <3>3, SubSeqProperties
    <2>4. Without(s, h) = SubSeq(s, 1, i - 1) \o SubSeq(s, i + 1, Len(s))
      BY <1>2 DEF Without
    <2> HIDE DEF i
    <2> QED BY <2>3, <2>4, ConcatProperties
  <1> QED BY <1>1, <1>2

\* Forgetting entries and expiring children leaves alone what the operating
\* system runs.
LEMMA ForgetOK ==
  ASSUME NEW ch \in [Handles -> Child], NEW s
  PROVE  /\ Forget(ch, s) \in [Handles -> Child]
         /\ \A h \in Handles : /\ Forget(ch, s)[h].os = ch[h].os
                               /\ Forget(ch, s)[h].entry = ch[h].entry
                                    \/ (Forget(ch, s)[h].entry = "absent" /\ ch[h].entry = "terminal")
  <1>1. ASSUME NEW h \in Handles
        PROVE  /\ Forget(ch, s)[h] \in Child
               /\ Forget(ch, s)[h].os = ch[h].os
               /\ Forget(ch, s)[h].entry = ch[h].entry
                    \/ (Forget(ch, s)[h].entry = "absent" /\ ch[h].entry = "terminal")
    <2>1. ch[h] \in Child OBVIOUS
    <2> DEFINE e == [ch[h] EXCEPT !.entry = "absent"]
    <2>2. e \in Child /\ e.os = ch[h].os /\ e.entry = "absent" BY <2>1 DEF Child
    <2> HIDE DEF e
    <2>3. Forget(ch, s)[h] = IF ch[h].entry = "terminal" /\ h \notin Elements(s) THEN e ELSE ch[h]
      BY DEF Forget, e
    <2> QED BY <2>1, <2>2, <2>3
  <1>2. Forget(ch, s) = [h \in Handles |-> Forget(ch, s)[h]] BY DEF Forget
  <1> QED BY <1>1, <1>2

LEMMA ReapedOK ==
  ASSUME RegInv
  PROVE  /\ Reaped \in [Handles -> Child]
         /\ \A h \in Handles : /\ Reaped[h].os \in Alive <=> child[h].os \in Alive
                               /\ Reaped[h].entry = child[h].entry
                               /\ Reaped[h].os = child[h].os \/ Reaped[h].os = "killed"
                               /\ child[h].os \notin Alive => Reaped[h].os = child[h].os
  BY DEF RegInv, RegType, Reaped, Overdue, Child, Alive, ChildOK

\* The timer of a child that fires leaves processes and entries as a reap does.
LEMMA TimerSame ==
  ASSUME RegInv, NEW h \in Handles, TimerFires(h)
  PROVE  /\ child' \in [Handles -> Child]
         /\ \A g \in Handles : child'[g].os = Reaped[g].os /\ child'[g].entry = Reaped[g].entry
  <1>1. Reaped \in [Handles -> Child] BY ReapedOK
  <1>2. PICK c \in Child : c = Reaped[h] BY <1>1
  <1>3. /\ [c EXCEPT !.timer = FALSE] \in Child
        /\ [c EXCEPT !.timer = FALSE].os = c.os /\ [c EXCEPT !.timer = FALSE].entry = c.entry
    BY DEF Child
  <1>4. child' = [Reaped EXCEPT ![h] = [c EXCEPT !.timer = FALSE]] BY <1>2 DEF TimerFires
  <1> QED BY <1>1, <1>2, <1>3, <1>4

\* A child appears in, or leaves, the finite set of the living.
LEMMA LivingFinite ==
  IsFiniteSet(Living) /\ Cardinality(Living) \in Nat
  <1>1. Living \subseteq Handles BY DEF Living
  <1> QED BY <1>1, FS_Subset, FS_CardinalityType, RegistryAssumption

LEMMA LivingSame ==
  ASSUME \A h \in Handles : child'[h].os \in Alive <=> child[h].os \in Alive
  PROVE  Living' = Living
  BY DEF Living

LEMMA RegistryKept == RegInv /\ RegistryStep => RegInv'
  <1> SUFFICES ASSUME RegInv, RegistryStep PROVE RegInv' OBVIOUS
  <1> USE RegistryAssumption
  <1>0. CapacityHeld <=> (~disposed => active = Cardinality(Living) /\ active <= MaxActive)
    BY DEF CapacityHeld, Living
  <1>p. CapacityHeld' <=> (~disposed' => active' = Cardinality(Living') /\ active' <= MaxActive)
    BY DEF CapacityHeld, Living
  <1>1. CASE Reap
    <2>1. child' = Reaped BY <1>1 DEF Reap
    <2>2. RegType' BY <1>1, <2>1, ReapedOK DEF Reap, RegInv, RegType
    <2>3. Living' = Living BY <2>1, ReapedOK, LivingSame
    <2>4. CapacityHeld' BY <1>1, <1>0, <1>p, <2>3 DEF Reap, RegInv
    <2>5. \A h \in Handles : ChildOK(child[h])'
      BY <1>1, <2>1, ReapedOK DEF Reap, RegInv, ChildOK, Alive
    <2> QED BY <2>2, <2>4, <2>5 DEF RegInv
  <1>2. CASE Dispose
    <2>0. \A c \in Child : Disposed(c) \in Child BY DEF Disposed, Child, Alive
    <2>1. RegType' BY <1>2, <2>0 DEF Dispose, RegInv, RegType
    <2>2. CapacityHeld' BY <1>2, <1>p DEF Dispose
    <2>3. \A h \in Handles : ChildOK(child[h])'
      BY <1>2 DEF Dispose, Disposed, RegInv, RegType, Child, ChildOK, Alive
    <2> QED BY <2>1, <2>2, <2>3 DEF RegInv
  <1>3. ASSUME NEW h \in Handles, Launch(h) PROVE RegInv'
    <2>0. Started \in Child BY DEF Started, Child, Alive
    <2>1. child' \in [Handles -> Child] /\ child'[h] = Started
          /\ \A g \in Handles \ {h} : child'[g] = Reaped[g]
      BY <1>3, <2>0, ReapedOK DEF Launch
    <2>2. RegType' BY <1>3, <2>1 DEF Launch, RegInv, RegType
    <2>3. Living' = Living \cup {h} /\ h \notin Living
      BY <1>3, <2>1, ReapedOK DEF Launch, Living, Started, Alive
    <2>4. CapacityHeld'
      <3>1. Cardinality(Living') = Cardinality(Living) + 1
        BY <2>3, LivingFinite, FS_AddElement
      <3> QED BY <1>3, <1>0, <1>p, <3>1 DEF Launch, Refuses, RegInv, RegType
    <2>5. \A g \in Handles : ChildOK(child[g])'
      BY <1>3, <2>1, ReapedOK DEF Launch, Refuses, RegInv, ChildOK, Alive, Started
    <2> QED BY <2>2, <2>4, <2>5 DEF RegInv
  <1>4. ASSUME NEW h \in Handles, LaunchFails(h) PROVE RegInv'
    <2> DEFINE ch == [Reaped EXCEPT ![h] = Ended]
    <2>0. Ended \in Child /\ Ended.os = "exited" /\ Ended.entry = "terminal"
      BY DEF Ended, NoChild, Child, Alive
    <2>1. ch \in [Handles -> Child] /\ ch[h] = Ended /\ \A g \in Handles \ {h} : ch[g] = Reaped[g]
      BY <2>0, ReapedOK
    <2>2. child' = Forget(ch, terminalOrder') BY <1>4 DEF LaunchFails
    <2> HIDE DEF ch
    <2>3. child' \in [Handles -> Child]
          /\ \A g \in Handles : /\ child'[g].os = ch[g].os
                                /\ child'[g].entry = ch[g].entry
                                     \/ (child'[g].entry = "absent" /\ ch[g].entry = "terminal")
      BY <2>1, <2>2, ForgetOK
    <2>4. Append(terminalOrder, h) \in Seq(Handles) /\ Append(closed, h) \in Seq(Handles)
      BY DEF RegInv, RegType
    <2>5. RegType' BY <1>4, <2>3, <2>4, TrimmedType DEF LaunchFails, RegInv, RegType
    <2>6. Living' = Living
      <3>1. child[h].os \notin Alive /\ child'[h].os \notin Alive
        BY <1>4, <2>0, <2>1, <2>3 DEF LaunchFails, Alive
      <3>2. \A g \in Handles \ {h} : child'[g].os \in Alive <=> child[g].os \in Alive
        BY <2>1, <2>3, ReapedOK
      <3> QED BY <3>1, <3>2, LivingSame
    <2>7. CapacityHeld' BY <1>4, <1>0, <1>p, <2>6 DEF LaunchFails, RegInv
    <2>8. \A g \in Handles : ChildOK(child[g])'
      <3>1. ~disposed /\ disposed' = disposed BY <1>4 DEF LaunchFails, Refuses
      <3>2. ChildOK(child[h])' BY <3>1, <2>0, <2>1, <2>3 DEF ChildOK, Alive
      <3>3. \A g \in Handles \ {h} : ChildOK(child[g])'
        BY <3>1, <2>1, <2>3, ReapedOK DEF RegInv, ChildOK, Alive
      <3> QED BY <3>2, <3>3
    <2> QED BY <2>5, <2>7, <2>8 DEF RegInv
  <1>5. ASSUME NEW h \in Handles, Collect(h) PROVE RegInv'
    <2>1. child' = Forget(Reaped, terminalOrder') BY <1>5 DEF Collect
    <2>2. child' \in [Handles -> Child]
          /\ \A g \in Handles : /\ child'[g].os = Reaped[g].os
                                /\ child'[g].entry = Reaped[g].entry
                                     \/ (child'[g].entry = "absent" /\ Reaped[g].entry = "terminal")
      BY <2>1, ReapedOK, ForgetOK
    <2>3. RegType' BY <1>5, <2>2, WithoutType DEF Collect, RegInv, RegType
    <2>4. Living' = Living BY <2>2, ReapedOK, LivingSame
    <2>5. CapacityHeld' BY <1>5, <1>0, <1>p, <2>4 DEF Collect, RegInv
    <2>6. \A g \in Handles : ChildOK(child[g])'
      BY <1>5, <2>2, ReapedOK DEF Collect, RegInv, ChildOK, Alive
    <2> QED BY <2>3, <2>5, <2>6 DEF RegInv
  <1>6. ASSUME NEW h \in Handles, Ages(h) \/ Kill(h) PROVE RegInv'
    <2>0. child[h] \in Child BY DEF RegInv, RegType
    <2> DEFINE a == [child[h] EXCEPT !.due = TRUE]
               k == [child[h] EXCEPT !.os = "killed"]
    <2>a. /\ a \in Child /\ a.entry = child[h].entry /\ a.os = child[h].os
          /\ k \in Child /\ k.entry = child[h].entry /\ k.os = "killed"
      BY <2>0 DEF Child, Alive
    <2>b. /\ child' \in [Handles -> Child]
          /\ \A g \in Handles \ {h} : child'[g] = child[g]
          /\ child'[h].entry = child[h].entry
          /\ child'[h].os = child[h].os \/ (child[h].os = "running" /\ child'[h].os = "killed")
      <3>1. CASE Ages(h)
        <4>1. child' = [child EXCEPT ![h] = a] BY <3>1 DEF Ages
        <4> HIDE DEF a
        <4> QED BY <4>1, <2>0, <2>a DEF RegInv, RegType
      <3>2. CASE Kill(h)
        <4>1. child' = [child EXCEPT ![h] = k] /\ child[h].os = "running" BY <3>2 DEF Kill
        <4> HIDE DEF k
        <4> QED BY <4>1, <2>0, <2>a DEF RegInv, RegType
      <3> QED BY <1>6, <3>1, <3>2
    <2>1. RegType' BY <1>6, <2>b DEF Ages, Kill, RegInv, RegType
    <2>2. Living' = Living
      <3>1. \A g \in Handles : child'[g].os \in Alive <=> child[g].os \in Alive
        BY <2>b DEF Alive
      <3> QED BY <3>1, LivingSame
    <2>3. CapacityHeld' BY <1>6, <1>0, <1>p, <2>2 DEF Ages, Kill, RegInv
    <2>4. \A g \in Handles : ChildOK(child[g])'
      BY <1>6, <2>b DEF Ages, Kill, RegInv, ChildOK, Alive
    <2> QED BY <2>1, <2>3, <2>4 DEF RegInv
  <1>7. ASSUME NEW h \in Handles, TimerFires(h) PROVE RegInv'
    <2>1. child' \in [Handles -> Child]
          /\ \A g \in Handles : child'[g].os = Reaped[g].os /\ child'[g].entry = Reaped[g].entry
      BY <1>7, TimerSame
    <2>2. RegType' BY <1>7, <2>1 DEF TimerFires, RegInv, RegType
    <2>3. Living' = Living BY <2>1, ReapedOK, LivingSame
    <2>4. CapacityHeld' BY <1>7, <1>0, <1>p, <2>3 DEF TimerFires, RegInv
    <2>5. \A g \in Handles : ChildOK(child[g])'
      BY <1>7, <2>1, ReapedOK DEF TimerFires, RegInv, ChildOK, Alive
    <2> QED BY <2>2, <2>4, <2>5 DEF RegInv
  <1>8. ASSUME NEW h \in Handles, NEW awaited \in BOOLEAN, Exits(h, awaited) PROVE RegInv'
    <2>1. CASE disposed
      <3>1. child[h] \in Child /\ [child[h] EXCEPT !.os = "exited"] \in Child
        BY DEF RegInv, RegType, Child
      <3>2. /\ child' \in [Handles -> Child]
            /\ \A g \in Handles \ {h} : child'[g] = child[g]
            /\ child'[h].entry = child[h].entry /\ child'[h].os = "exited"
        BY <1>8, <2>1, <3>1 DEF Exits, RegInv, RegType, Child
      <3>3. Append(closed, h) \in Seq(Handles) BY DEF RegInv, RegType
      <3>4. RegType' BY <1>8, <2>1, <3>2, <3>3 DEF Exits, RegInv, RegType
      <3>5. \A g \in Handles : ChildOK(child[g])'
        BY <1>8, <2>1, <3>2 DEF Exits, RegInv, ChildOK, Alive
      <3> QED BY <1>8, <2>1, <1>p, <3>4, <3>5 DEF Exits, RegInv
    <2>2. CASE ~disposed
      <3> DEFINE ch == [IF awaited THEN Reaped ELSE child EXCEPT ![h] = Ended]
      <3>0. Ended \in Child /\ Ended.os = "exited" /\ Ended.entry = "terminal"
        BY DEF Ended, NoChild, Child, Alive
      <3>1. /\ ch \in [Handles -> Child]
            /\ ch[h] = Ended
            /\ \A g \in Handles \ {h} : ch[g] = Reaped[g] \/ ch[g] = child[g]
        BY <3>0, ReapedOK DEF RegInv, RegType
      <3>2. child' = Forget(ch, terminalOrder') BY <1>8, <2>2 DEF Exits
      <3> HIDE DEF ch
      <3>3. child' \in [Handles -> Child]
            /\ \A g \in Handles : /\ child'[g].os = ch[g].os
                                  /\ child'[g].entry = ch[g].entry
                                       \/ (child'[g].entry = "absent" /\ ch[g].entry = "terminal")
        BY <3>1, <3>2, ForgetOK
      <3>4. Append(terminalOrder, h) \in Seq(Handles) /\ Append(closed, h) \in Seq(Handles)
        BY DEF RegInv, RegType
      <3>5. terminalOrder' \in Seq(Handles)
        BY <1>8, <2>2, <3>4, TrimmedType, WithoutType DEF Exits
      <3>a. taken' \in SUBSET Handles BY <1>8 DEF Exits, RegInv, RegType
      <3>b. active' \in Int /\ closed' \in Seq(Handles) /\ disposed' \in BOOLEAN
        BY <1>8, <2>2, <3>4 DEF Exits, RegInv, RegType
      <3>6. RegType' BY <3>3, <3>5, <3>a, <3>b DEF RegType
      <3>7. Living' = Living \ {h} /\ h \in Living
        <4>1. child[h].os \in Alive BY <1>8 DEF Exits, Alive
        <4>2. child'[h].os \notin Alive BY <3>0, <3>1, <3>3 DEF Alive
        <4>3. \A g \in Handles \ {h} : child'[g].os \in Alive <=> child[g].os \in Alive
          BY <3>1, <3>3, ReapedOK
        <4> QED BY <4>1, <4>2, <4>3 DEF Living
      <3>8. Cardinality(Living') = Cardinality(Living) - 1
        BY <3>7, LivingFinite, FS_RemoveElement
      <3>9. CapacityHeld'
        BY <1>8, <2>2, <1>0, <1>p, <3>8 DEF Exits, RegInv, RegType
      <3>10. \A g \in Handles : ChildOK(child[g])'
        <4>1. disposed' = disposed BY <1>8, <2>2 DEF Exits
        <4>2. ChildOK(child[h])' BY <2>2, <3>0, <3>1, <3>3, <4>1 DEF ChildOK, Alive
        <4>3. ASSUME NEW g \in Handles \ {h} PROVE ChildOK(child[g])'
          <5>1. ChildOK(child[g]) BY DEF RegInv
          <5>2. ChildOK(Reaped[g])
            BY <2>2, <5>1, ReapedOK DEF ChildOK, Alive
          <5>3. ChildOK(ch[g]) BY <3>1, <5>1, <5>2
          <5> QED BY <2>2, <3>3, <4>1, <5>3 DEF ChildOK, Alive
        <4> QED BY <4>2, <4>3
      <3> QED BY <3>6, <3>9, <3>10 DEF RegInv
    <2> QED BY <2>1, <2>2
  <1> QED BY <1>1, <1>2, <1>3, <1>4, <1>5, <1>6, <1>7, <1>8 DEF RegistryStep

-----------------------------------------------------------------------------
(* The upstream connections.                                                *)

UpType ==
    /\ record \in [Providers -> [handle: Conns \cup {NoConn}, starting: Conns \cup {NoConn}]]
    /\ conn \in [Conns -> ConnStates]
    /\ closing \in BOOLEAN

Serving == {"open", "dead"}

\* A record's handle and its start are connections in that state, of no other
\* record, and every connection in that state belongs to a record.
UpInv ==
    /\ UpType
    /\ \A p \in Providers :
         /\ Ready(p) => ~closing /\ ~Starting(p) /\ conn[record[p].handle] \in Serving
         /\ Starting(p) => conn[record[p].starting] = "opening"
    /\ \A p, q \in Providers :
         p # q => /\ Ready(p) => record[p].handle # record[q].handle
                  /\ Starting(p) => record[p].starting # record[q].starting
    /\ \A k \in Conns :
         /\ conn[k] \in Serving => \E p \in Providers : record[p].handle = k
         /\ conn[k] = "opening" => \E p \in Providers : record[p].starting = k

UpstreamStep ==
    \/ \E p \in Providers : ConnectorReady(p) \/ ConnectorFails(p) \/ Invalidate(p)
    \/ \E p \in Providers, k \in Conns : Connect(p, k)
    \/ \E k \in Conns : LateTransport(k) \/ CloseAnswers(k) \/ ProviderDies(k)
    \/ CloseAll

LEMMA UpstreamKept == UpInv /\ UpstreamStep => UpInv'
  <1> SUFFICES ASSUME UpInv, UpstreamStep PROVE UpInv' OBVIOUS
  <1> USE UpstreamAssumption DEF UpInv, UpType, Ready, Starting, Serving, ConnStates
  <1>1. ASSUME NEW p \in Providers, ConnectorReady(p) PROVE UpInv'
    <2> DEFINE k == record[p].starting
    <2>1. k \in Conns /\ conn[k] = "opening" BY <1>1 DEF ConnectorReady
    <2>2. CASE closing
      BY <1>1, <2>1, <2>2 DEF ConnectorReady, Promoted
    <2>3. CASE ~closing
      BY <1>1, <2>1, <2>3 DEF ConnectorReady, Promoted
    <2> QED BY <2>2, <2>3
  <1>2. ASSUME NEW p \in Providers, ConnectorFails(p) PROVE UpInv'
    BY <1>2 DEF ConnectorFails
  <1>3. ASSUME NEW p \in Providers, Invalidate(p) PROVE UpInv'
    BY <1>3 DEF Invalidate, Closed
  <1>4. ASSUME NEW p \in Providers, NEW k \in Conns, Connect(p, k) PROVE UpInv'
    BY <1>4 DEF Connect
  <1>5. ASSUME NEW k \in Conns, LateTransport(k) \/ CloseAnswers(k) \/ ProviderDies(k) PROVE UpInv'
    BY <1>5 DEF LateTransport, CloseAnswers, ProviderDies
  <1>6. CASE CloseAll
    <2>1. /\ record' \in [Providers -> [handle: Conns \cup {NoConn}, starting: Conns \cup {NoConn}]]
          /\ \A p \in Providers : ~Ready(p)' /\ record'[p].starting = record[p].starting
      BY <1>6 DEF CloseAll
    <2>2. /\ conn' \in [Conns -> ConnStates]
          /\ \A k \in Conns : IF conn[k] \in Serving THEN conn'[k] = "closing" ELSE conn'[k] = conn[k] \/ conn'[k] = "closing"
      BY <1>6 DEF CloseAll, Closed
    <2>3. \A k \in Conns : conn[k] = "opening" => conn'[k] = "opening"
      BY <1>6 DEF CloseAll, Closed
    <2>4. closing' = TRUE BY <1>6 DEF CloseAll
    <2>5. UpType' BY <2>1, <2>2, <2>4
    <2>6. \A p \in Providers :
            (Ready(p) => ~closing /\ ~Starting(p) /\ conn[record[p].handle] \in Serving)'
      BY <2>1
    <2>7. \A p \in Providers : (Starting(p) => conn[record[p].starting] = "opening")'
      BY <2>1, <2>3
    <2>8. \A p, q \in Providers :
            p # q => (Starting(p) => record[p].starting # record[q].starting)'
      BY <2>1
    <2>9. \A k \in Conns : conn'[k] \notin Serving
      BY <2>2
    <2>10. \A k \in Conns : conn'[k] = "opening" => \E p \in Providers : record'[p].starting = k
      BY <2>1, <2>2
    <2> QED BY <2>1, <2>5, <2>6, <2>7, <2>8, <2>9, <2>10
  <1> QED BY <1>1, <1>2, <1>3, <1>4, <1>5, <1>6 DEF UpstreamStep

-----------------------------------------------------------------------------
(* The burst's roster.                                                      *)

\* Seats before m that, as far as one knows, are not ahead of every plain one.
Ahead(r, m) == {j \in 1 .. (m - 1) : r[j].is # "blocking"}

\* What was ahead of an admitted plain result when it was admitted is all that
\* can ever be ahead of it: seats are decided once, and a blocking one is out.
Plain(r) == {i \in DOMAIN r : r[i].is = "plain" /\ r[i].admitted}

Early(r) ==
    /\ \A m \in Plain(r) : Cardinality(Ahead(r, m)) < Fits
    /\ Plain(r) = {} \/ \E m \in Plain(r) : \A j \in Plain(r) : j <= m

RosterInv ==
    /\ roster \in Seq(Seat)
    /\ open \in SUBSET DOMAIN roster
    /\ over \in BOOLEAN
    /\ open = {} => roster = <<>>
    /\ over => open = {}
    /\ Early(roster)

LEMMA SeatType == Seat = [is: {"blocking", "unresolved", "plain"}, admitted: BOOLEAN]
  <1>1. DOMAIN Tier = {"blocking", "unresolved", "plain"} BY DEF Tier
  <1> QED BY <1>1 DEF Seat

LEMMA AheadFinite ==
  ASSUME NEW m \in Int, NEW r
  PROVE  IsFiniteSet(Ahead(r, m)) /\ Cardinality(Ahead(r, m)) \in Nat
  <1>1. IsFiniteSet(1 .. (m - 1)) BY FS_Interval
  <1>2. Ahead(r, m) \subseteq 1 .. (m - 1) BY DEF Ahead
  <1> QED BY <1>1, <1>2, FS_Subset, FS_CardinalityType

LEMMA ReserveKept ==
  ASSUME RosterInv, Reserve
  PROVE  /\ RosterInv'
         /\ NextSeat \in Nat \ {0} /\ NextSeat \notin DOMAIN roster
         /\ roster'[NextSeat].is = "unresolved"
         /\ \A j \in DOMAIN roster : roster'[j] = roster[j]
  <1> DEFINE n == Len(roster)
             e == [is |-> "unresolved", admitted |-> FALSE]
  <1>1. e \in Seat /\ n \in Nat /\ DOMAIN roster = 1 .. n /\ roster \in Seq(Seat)
    BY SeatType DEF RosterInv
  <1>2. roster' = Append(roster, e) BY DEF Reserve
  <1>3. /\ roster' \in Seq(Seat) /\ Len(roster') = n + 1
        /\ \A j \in 1 .. n : roster'[j] = roster[j]
        /\ roster'[n + 1] = e
    BY <1>1, <1>2, AppendProperties
  <1>4. DOMAIN roster' = 1 .. (n + 1) BY <1>3
  <1>5. Early(roster')
    <2>1. Plain(roster') = Plain(roster) BY <1>1, <1>3, <1>4 DEF Plain
    <2>2. \A m \in Plain(roster) : Ahead(roster', m) = Ahead(roster, m)
      BY <1>1, <1>3 DEF Ahead, Plain
    <2> QED BY <2>1, <2>2 DEF RosterInv, Early
  <1>6. open' \in SUBSET DOMAIN roster' /\ open' # {}
    BY <1>1, <1>4 DEF Reserve, RosterInv, NextSeat
  <1> QED BY <1>1, <1>3, <1>4, <1>5, <1>6 DEF Reserve, RosterInv, NextSeat

\* Deciding a seat that was open keeps what is known of the others.
LEMMA DecidedKept ==
  ASSUME RosterInv, NEW i \in DOMAIN roster, roster[i].is = "unresolved",
         NEW is \in {"blocking", "plain"}, NEW roomy \in BOOLEAN
  PROVE  /\ Decided(i, is, roomy) \in Seq(Seat)
         /\ DOMAIN Decided(i, is, roomy) = DOMAIN roster
         /\ \A j \in DOMAIN roster \ {i} : Decided(i, is, roomy)[j] = roster[j]
         /\ Early(Decided(i, is, roomy))
  <1> DEFINE known == [roster EXCEPT ![i].is = is]
             ok == roomy /\ Rank(known, i) < Fits
             r == Decided(i, is, roomy)
  <1>1. roster \in Seq(Seat) /\ i \in 1 .. Len(roster) /\ DOMAIN roster = 1 .. Len(roster)
        /\ Len(roster) \in Nat
    BY DEF RosterInv
  <1>2. [is |-> is, admitted |-> roster[i].admitted] \in Seat /\ [is |-> is, admitted |-> ok] \in Seat
        /\ roster[i] \in Seat
    BY <1>1, SeatType, ElementOfSeq
  <1>3. known = [roster EXCEPT ![i] = [is |-> is, admitted |-> roster[i].admitted]]
    BY <1>1, <1>2, SeatType
  <1>4. /\ known \in Seq(Seat) /\ Len(known) = Len(roster)
        /\ \A j \in 1 .. Len(roster) :
             known[j] = IF j = i THEN [is |-> is, admitted |-> roster[i].admitted] ELSE roster[j]
    BY <1>1, <1>2, <1>3, ExceptSeq
  <1>5. r = [known EXCEPT ![i].admitted = ok] BY DEF Decided
  <1> HIDE DEF known
  <1>6. r = [known EXCEPT ![i] = [is |-> is, admitted |-> ok]]
    <2>1. known[i] = [is |-> is, admitted |-> roster[i].admitted] BY <1>1, <1>4
    <2>2. [known[i] EXCEPT !.admitted = ok] = [is |-> is, admitted |-> ok] BY <2>1
    <2>3. r = [known EXCEPT ![i] = [known[i] EXCEPT !.admitted = ok]] BY <1>5
    <2> QED BY <2>2, <2>3
  <1>7. /\ r \in Seq(Seat) /\ Len(r) = Len(roster)
        /\ \A j \in 1 .. Len(roster) : r[j] = IF j = i THEN [is |-> is, admitted |-> ok] ELSE known[j]
    BY <1>1, <1>2, <1>4, <1>6, ExceptSeq
  <1> HIDE DEF r
  <1>8. \A j \in 1 .. Len(roster) : r[j] = IF j = i THEN [is |-> is, admitted |-> ok] ELSE roster[j]
    BY <1>4, <1>7
  <1>9. Early(r)
    <2>0. Plain(r) = Plain(roster) \/ Plain(r) = Plain(roster) \cup {i}
      BY <1>1, <1>7, <1>8 DEF Plain
    <2>a. Plain(r) = {} \/ \E m \in Plain(r) : \A j \in Plain(r) : j <= m
      <3>1. CASE Plain(r) = Plain(roster) BY <3>1 DEF RosterInv, Early
      <3>2. CASE Plain(r) = Plain(roster) \cup {i} /\ Plain(roster) = {} BY <1>1, <3>2
      <3>3. CASE Plain(r) = Plain(roster) \cup {i} /\ Plain(roster) # {}
        <4>1. PICK m \in Plain(roster) : \A j \in Plain(roster) : j <= m
          BY <3>3 DEF RosterInv, Early
        <4>2. Plain(roster) \subseteq Int BY <1>1 DEF Plain
        <4>3. CASE i <= m BY <3>3, <4>1, <4>3
        <4>4. CASE ~(i <= m) BY <1>1, <3>3, <4>1, <4>2, <4>4
        <4> QED BY <4>3, <4>4
      <3> QED BY <2>0, <3>1, <3>2, <3>3
    <2> SUFFICES ASSUME NEW m \in 1 .. Len(roster), r[m].is = "plain", r[m].admitted
                 PROVE  Cardinality(Ahead(r, m)) < Fits
      BY <1>7, <2>a DEF Early, Plain
    <2>1. Ahead(r, m) \subseteq Ahead(roster, m) BY <1>1, <1>8 DEF Ahead
    <2>2. CASE m # i
      <3>1. Cardinality(Ahead(roster, m)) < Fits BY <1>1, <1>8, <2>2 DEF RosterInv, Early, Plain
      <3>2. Cardinality(Ahead(r, m)) <= Cardinality(Ahead(roster, m))
        BY <2>1, AheadFinite, FS_Subset
      <3> QED BY <3>1, <3>2, AheadFinite, BurstAssumption
    <2>3. CASE m = i
      <3> DEFINE B == {j \in DOMAIN known : Before(known, j, i)}
      <3>0. ok
        <4>1. r[i] = [is |-> is, admitted |-> ok] BY <1>1, <1>8
        <4>2. r[i].admitted = ok BY <4>1
        <4> QED BY <2>3, <4>2
      <3>1. Cardinality(B) < Fits BY <3>0 DEF Rank
      <3>2. is = "plain" BY <1>1, <1>8, <2>3
      <3>3. Ahead(r, m) \subseteq B
        <4> SUFFICES ASSUME NEW j \in 1 .. (i - 1), r[j].is # "blocking" PROVE j \in B
          BY <2>3 DEF Ahead
        <4>1. j \in 1 .. Len(roster) /\ j # i /\ j < i BY <1>1
        <4>2. j \in DOMAIN known /\ known[j] = roster[j] /\ r[j] = roster[j] /\ known[i].is = "plain"
          BY <1>1, <1>4, <1>8, <3>2, <4>1
        <4>3. roster[j].is \in {"unresolved", "plain"}
          <5>1. roster[j] \in Seat BY <1>1, <4>1, ElementOfSeq
          <5>2. roster[j].is \in {"blocking", "unresolved", "plain"} BY <5>1, SeatType
          <5> QED BY <4>2, <5>2
        <4>4. Before(known, j, i) BY <4>1, <4>2, <4>3 DEF Before, Tier
        <4> QED BY <4>2, <4>4
      <3>4. IsFiniteSet(B)
        <4>1. B \subseteq 1 .. Len(roster) BY <1>4
        <4>2. IsFiniteSet(1 .. Len(roster)) BY <1>1, FS_Interval
        <4> QED BY <4>1, <4>2, FS_Subset
      <3> HIDE DEF B
      <3>5. Cardinality(Ahead(r, m)) <= Cardinality(B) BY <3>3, <3>4, FS_Subset
      <3> QED BY <3>1, <3>4, <3>5, FS_CardinalityType, AheadFinite, BurstAssumption
    <2> QED BY <2>2, <2>3
  <1> QED BY <1>1, <1>7, <1>8, <1>9 DEF r

\* The last admitted plain result has all others ahead of it.
LEMMA FitsTogether == RosterInv => PlainFits
  <1> SUFFICES ASSUME RosterInv PROVE PlainFits OBVIOUS
  <1> DEFINE P == Plain(roster)
             n == Len(roster)
  <1>1. n \in Nat /\ DOMAIN roster = 1 .. n BY DEF RosterInv
  <1>2. IsFiniteSet(P) /\ Cardinality(P) \in Nat
    <2>1. P \subseteq 1 .. n BY <1>1 DEF Plain
    <2>2. IsFiniteSet(1 .. n) BY <1>1, FS_Interval
    <2> HIDE DEF P, n
    <2> QED BY <2>1, <2>2, FS_Subset, FS_CardinalityType
  <1>3. CASE P = {}
    BY <1>3, FS_EmptySet, BurstAssumption DEF PlainFits, Plain
  <1>4. CASE P # {}
    <2>1. PICK m \in P : \A j \in P : j <= m
      BY <1>4 DEF RosterInv, Early
    <2>2. P \ {m} \subseteq Ahead(roster, m) BY <1>1, <2>1 DEF Ahead, Plain
    <2>3. Cardinality(Ahead(roster, m)) < Fits BY <2>1 DEF RosterInv, Early
    <2>4. m \in Int BY <1>1 DEF Plain
    <2>5. Cardinality(P \ {m}) = Cardinality(P) - 1 BY <1>2, <2>1, FS_RemoveElement
    <2>6. Cardinality(P \ {m}) <= Cardinality(Ahead(roster, m))
      BY <2>2, <2>4, AheadFinite, FS_Subset
    <2> QED BY <1>2, <2>3, <2>4, <2>5, <2>6, AheadFinite, BurstAssumption DEF PlainFits, Plain
  <1> QED BY <1>3, <1>4

-----------------------------------------------------------------------------
(* The calls in flight and their seats.                                     *)

SeatInv ==
    /\ \A c \in Calls : At(c, "idle") => call[c].seat = 0
    /\ ~over =>
         /\ \A c \in Calls :
              call[c].seat # 0 => call[c].seat \in open /\ roster[call[c].seat].is = "unresolved"
         /\ \A c, d \in Calls : c # d /\ call[c].seat # 0 => call[c].seat # call[d].seat
         /\ \A i \in open : \E c \in Calls : call[c].seat = i

\* Who connects to a provider, or calls one, names it.
Named(r) == r.pc \in {"connect", "connecting", "calling"} => r.provider \in Providers

CallsInv == call \in [Calls -> Call] /\ SeatInv /\ \A c \in Calls : Named(call[c])

\* No call takes or gives back a seat.
SameSeats ==
    /\ call' \in [Calls -> Call]
    /\ \A c \in Calls : /\ call'[c].seat = call[c].seat
                        /\ call'[c].pc = "idle" => call[c].pc = "idle"
                        /\ Named(call'[c])

LEMMA SeatsKept ==
  ASSUME CallsInv, SameSeats, UNCHANGED burst
  PROVE  CallsInv'
  <1>1. roster' = roster /\ open' = open /\ over' = over BY DEF burst
  <1>2. \A c \in Calls : call'[c].seat = call[c].seat BY DEF SameSeats
  <1>3. \A c \in Calls : At(c, "idle")' => call'[c].seat = 0
    BY <1>2 DEF CallsInv, SeatInv, SameSeats, At
  <1>4. ~over => \A i \in open : \E c \in Calls : call'[c].seat = i
    BY <1>2 DEF CallsInv, SeatInv
  <1> QED BY <1>1, <1>2, <1>3, <1>4 DEF CallsInv, SeatInv, SameSeats

\* The records a call becomes.
LEMMA ReturnedType ==
  ASSUME NEW r \in Call, NEW pc \in {"finish", "failed"}, NEW blocking \in BOOLEAN
  PROVE  /\ Returned(r, pc, blocking) \in Call
         /\ Returned(r, pc, blocking).seat = r.seat
         /\ Returned(r, pc, blocking).pc = pc
         /\ Named(Returned(r, pc, blocking))
  BY EmptySeq DEF Returned, Call, Named

LEMMA WaitingType ==
  ASSUME NEW r \in Call, NEW h \in Handles
  PROVE  LET w == [[r EXCEPT !.pc = "waiting"] EXCEPT !.handle = h]
         IN  w \in Call /\ w.seat = r.seat /\ w.pc = "waiting" /\ Named(w)
  BY DEF Call, Named

LEMMA ConnectingType ==
  ASSUME NEW r \in Call
  PROVE  LET w == [r EXCEPT !.pc = "connecting"]
         IN  w \in Call /\ w.seat = r.seat /\ w.pc = "connecting" /\ w.provider = r.provider
  BY DEF Call

LEMMA ConnectedType ==
  ASSUME NEW r \in Call, NEW k \in Conns \cup {NoConn}, r.provider \in Providers
  PROVE  /\ Connected(r, k) \in Call
         /\ Connected(r, k).seat = r.seat
         /\ Connected(r, k).pc # "idle"
         /\ Named(Connected(r, k))
  <1> DEFINE q == [r EXCEPT !.pc = "calling", !.conn = k]
  <1>1. q \in Call /\ q.seat = r.seat /\ q.pc = "calling" /\ Named(q) BY DEF Call, Named
  <1>2. Connected(r, k) = Returned(r, "finish", FALSE) \/ Connected(r, k) = q
    BY DEF Connected
  <1> HIDE DEF q
  <1>3. /\ Returned(r, "finish", FALSE) \in Call
        /\ Returned(r, "finish", FALSE).seat = r.seat
        /\ Returned(r, "finish", FALSE).pc = "finish"
        /\ Named(Returned(r, "finish", FALSE))
    BY ReturnedType
  <1> QED BY <1>1, <1>2, <1>3

LEMMA FailedType ==
  ASSUME NEW r \in Call
  PROVE  Failed(r) \in Call /\ Failed(r).seat = r.seat /\ Failed(r).pc # "idle" /\ Named(Failed(r))
  <1>1. CASE r.rest = <<>>
    BY <1>1, ReturnedType DEF Failed
  <1>2. CASE r.rest # <<>>
    <2> DEFINE q == [r EXCEPT !.pc = "connect", !.provider = Head(r.rest), !.rest = Tail(r.rest), !.conn = NoConn]
    <2>1. r.rest \in Seq(Providers) BY DEF Call
    <2>2. Head(r.rest) \in Providers /\ Tail(r.rest) \in Seq(Providers)
      BY <1>2, <2>1, HeadTailProperties
    <2>3. q \in Call /\ q.seat = r.seat /\ q.pc = "connect" /\ Named(q) BY <2>2 DEF Call, Named
    <2>4. Failed(r) = q BY <1>2 DEF Failed
    <2> QED BY <2>3, <2>4
  <1> QED BY <1>1, <1>2

\* One call moves on, the others stay.
LEMMA OneMoves ==
  ASSUME CallsInv, NEW c \in Calls, NEW r \in Call,
         call' = [call EXCEPT ![c] = r], r.seat = call[c].seat, r.pc # "idle", Named(r)
  PROVE  SameSeats
  BY DEF SameSeats, CallsInv

\* A call that has an answer gives its seat back.
LEMMA SeatReturned ==
  ASSUME CallsInv, RosterInv, NEW c \in Calls, NEW r,
         call[c].seat # 0, call' = [call EXCEPT ![c] = Idle], Released(r, call[c].seat),
         ~over => /\ r \in Seq(Seat) /\ DOMAIN r = DOMAIN roster /\ Early(r)
                  /\ \A j \in DOMAIN roster \ {call[c].seat} : r[j] = roster[j]
  PROVE  CallsInv' /\ RosterInv'
  <1> DEFINE i == call[c].seat
  <1>1. Idle \in Call /\ Idle.seat = 0 BY EmptySeq DEF Idle, Call, Local
  <1>2. /\ call' \in [Calls -> Call]
        /\ call'[c].seat = 0
        /\ \A d \in Calls \ {c} : call'[d] = call[d]
        /\ \A d \in Calls : Named(call'[d])
    BY <1>1 DEF CallsInv, Named, Idle
  <1>3. open' = open \ {i} /\ over' = over /\ roster' = IF open' = {} THEN <<>> ELSE r
    BY DEF Released
  <1>4. Early(<<>>) /\ <<>> \in Seq(Seat) /\ DOMAIN <<>> = {}
    BY EmptySeq DEF Early, Plain
  <1>5. CASE over
    <2>1. open' = {} /\ roster' = <<>> BY <1>3, <1>5 DEF RosterInv
    <2>2. RosterInv' BY <1>3, <1>4, <1>5, <2>1 DEF RosterInv
    <2>3. SeatInv' BY <1>2, <1>3, <1>5 DEF SeatInv, CallsInv, At
    <2> QED BY <1>2, <2>2, <2>3 DEF CallsInv
  <1>6. CASE ~over
    <2>1. RosterInv' BY <1>3, <1>4, <1>6 DEF RosterInv
    <2>2. ASSUME NEW d \in Calls, call'[d].seat # 0
          PROVE  call'[d].seat \in open' /\ roster'[call'[d].seat].is = "unresolved"
      <3>1. d # c /\ call'[d].seat = call[d].seat BY <1>2, <2>2
      <3>2. /\ call[d].seat \in open /\ call[d].seat # i
            /\ roster[call[d].seat].is = "unresolved"
        BY <1>6, <2>2, <3>1 DEF CallsInv, SeatInv
      <3>3. call[d].seat \in open' /\ roster' = r BY <1>3, <3>2
      <3>4. call[d].seat \in DOMAIN roster BY <3>2 DEF RosterInv
      <3> QED BY <1>6, <3>1, <3>2, <3>3, <3>4
    <2>3. \A d, e \in Calls : d # e /\ call'[d].seat # 0 => call'[d].seat # call'[e].seat
      BY <1>2, <1>6 DEF CallsInv, SeatInv
    <2>4. \A j \in open' : \E d \in Calls : call'[d].seat = j
      BY <1>2, <1>3, <1>6 DEF CallsInv, SeatInv
    <2>5. \A d \in Calls : At(d, "idle")' => call'[d].seat = 0
      BY <1>2 DEF CallsInv, SeatInv, At
    <2> QED BY <1>2, <2>1, <2>2, <2>3, <2>4, <2>5 DEF CallsInv, SeatInv
  <1> QED BY <1>5, <1>6

-----------------------------------------------------------------------------
(* The connection as a whole.                                               *)

IInv ==
    /\ RegInv
    /\ UpInv
    /\ RosterInv
    /\ CallsInv
    /\ closing => disposed

LEMMA InitOK == Init => IInv
  <1> SUFFICES ASSUME Init PROVE IInv OBVIOUS
  <1> USE DEF Init
  <1>1. RegInv
    <2>1. NoChild \in Child /\ NoChild.os = "none" /\ NoChild.entry = "absent"
      BY DEF NoChild, Child, Alive
    <2>2. \A h \in Handles : child[h] = NoChild BY DEF RegistryInit
    <2>3. {h \in Handles : child[h].os \in Alive} = {} BY <2>1, <2>2 DEF Alive
    <2>4. CapacityHeld
      <3>1. Cardinality({h \in Handles : child[h].os \in Alive}) = 0 BY <2>3, FS_EmptySet
      <3> QED BY <3>1, RegistryAssumption DEF CapacityHeld, RegistryInit
    <2>5. RegType
      <3>1. <<>> \in Seq(Handles) BY EmptySeq
      <3>2. child \in [Handles -> Child] BY <2>1 DEF RegistryInit
      <3>3. terminalOrder = <<>> /\ closed = <<>> /\ active = 0 /\ disposed = FALSE /\ taken = {}
        BY DEF RegistryInit
      <3>4. terminalOrder \in Seq(Handles) /\ closed \in Seq(Handles) BY <3>1, <3>3
      <3>5. active \in Int BY <3>3
      <3>6. disposed \in BOOLEAN BY <3>3
      <3>7. taken \in SUBSET Handles BY <3>3
      <3> QED BY <3>2, <3>4, <3>5, <3>6, <3>7 DEF RegType
    <2>6. \A h \in Handles : ChildOK(child[h])
      BY <2>1, <2>2 DEF ChildOK, Alive, RegistryInit
    <2> QED BY <2>4, <2>5, <2>6 DEF RegInv
  <1>2. UpInv
    BY DEF UpInv, UpType, UpstreamInit, Ready, Starting, Serving, ConnStates
  <1>3. RosterInv
    <2>1. Early(<<>>) BY EmptySeq DEF Early, Plain
    <2>2. <<>> \in Seq(Seat) BY EmptySeq
    <2> QED BY <2>1, <2>2 DEF RosterInv, BurstInit
  <1>4. CallsInv
    <2>1. Idle \in Call /\ Idle.seat = 0 /\ Named(Idle) BY EmptySeq DEF Idle, Call, Local, Named
    <2> QED BY <2>1 DEF CallsInv, SeatInv, BurstInit
  <1>5. ~closing BY DEF UpstreamInit
  <1> QED BY <1>1, <1>2, <1>3, <1>4, <1>5 DEF IInv

LEMMA RegistryStill == ASSUME RegInv, UNCHANGED registry PROVE RegInv' /\ disposed' = disposed
  BY DEF RegInv, RegType, CapacityHeld, ChildOK, registry

LEMMA UpstreamStill == ASSUME UpInv, UNCHANGED upstreams PROVE UpInv' /\ closing' = closing
  BY DEF UpInv, UpType, Ready, Starting, upstreams

LEMMA RosterStill == ASSUME RosterInv, UNCHANGED burst PROVE RosterInv'
  BY DEF RosterInv, burst

\* Only Dispose changes disposed, and nothing takes it back.
LEMMA StaysDisposed == ASSUME RegistryStep PROVE disposed => disposed'
  BY DEF RegistryStep, Reap, Dispose, Launch, LaunchFails, Collect, Ages, TimerFires, Kill, Exits

\* What a step leaves of each part, put together.
LEMMA Together ==
  ASSUME IInv, CallsInv', RosterInv',
         RegistryStep \/ UNCHANGED registry,
         UpstreamStep \/ UNCHANGED upstreams,
         closing' = closing \/ disposed'
  PROVE  IInv'
  <1>1. RegInv' /\ (disposed => disposed')
    BY RegistryKept, RegistryStill, StaysDisposed DEF IInv
  <1>2. UpInv' BY UpstreamKept, UpstreamStill DEF IInv
  <1> QED BY <1>1, <1>2 DEF IInv

\* A step that leaves the burst and the seats alone.
LEMMA Plainly ==
  ASSUME IInv, SameSeats, UNCHANGED burst,
         RegistryStep \/ UNCHANGED registry,
         UpstreamStep \/ UNCHANGED upstreams,
         closing' = closing \/ disposed'
  PROVE  IInv'
  <1>1. CallsInv' BY SeatsKept DEF IInv
  <1>2. RosterInv' BY RosterStill DEF IInv
  <1> QED BY <1>1, <1>2, Together

LEMMA Still == ASSUME IInv, UNCHANGED call PROVE SameSeats
  BY DEF IInv, CallsInv, SameSeats

LEMMA ReturnMoves ==
  ASSUME IInv, NEW c \in Calls, NEW pc \in {"finish", "failed"}, NEW b \in BOOLEAN, Return(c, pc, b)
  PROVE  SameSeats
  <1>1. call[c] \in Call BY DEF IInv, CallsInv
  <1> QED BY <1>1, ReturnedType, OneMoves DEF IInv, Return

LEMMA SettleMoves ==
  ASSUME IInv, NEW cs, NEW d \in [Calls -> Call],
         call' = [c \in Calls |-> IF c \in cs THEN d[c] ELSE call[c]],
         \A c \in Calls : d[c].seat = call[c].seat /\ d[c].pc # "idle" /\ (c \in cs => Named(d[c]))
  PROVE  SameSeats
  BY DEF IInv, CallsInv, SameSeats

LEMMA FailMoves ==
  ASSUME IInv, NEW cs, Settle(cs, Failed)
  PROVE  SameSeats
  <1> DEFINE d == [c \in Calls |-> Failed(call[c])]
  <1>1. \A c \in Calls : call[c] \in Call BY DEF IInv, CallsInv
  <1>2. d \in [Calls -> Call] /\ \A c \in Calls : d[c].seat = call[c].seat /\ d[c].pc # "idle" /\ Named(d[c])
    BY <1>1, FailedType
  <1>3. call' = [c \in Calls |-> IF c \in cs THEN d[c] ELSE call[c]] BY DEF Settle
  <1> HIDE DEF d
  <1> QED BY <1>2, <1>3, SettleMoves

LEMMA NextKeeps == IInv /\ [Next]_vars => IInv'
  <1> SUFFICES ASSUME IInv, [Next]_vars PROVE IInv' OBVIOUS
  <1>t. /\ \A c \in Calls : call[c] \in Call
        /\ call \in [Calls -> Call]
    BY DEF IInv, CallsInv
  <1>1. ASSUME NEW c \in Calls, NEW kind \in Local, BeginLocal(c, kind) PROVE IInv'
    <2> DEFINE r == [Idle EXCEPT !.pc = "dispatch", !.kind = kind, !.seat = NextSeat]
    <2>1. Reserve /\ call' = [call EXCEPT ![c] = r] /\ call[c].seat = 0
      BY <1>1 DEF BeginLocal, IInv, CallsInv, SeatInv
    <2>2. /\ RosterInv'
          /\ NextSeat \in Nat \ {0} /\ NextSeat \notin DOMAIN roster
          /\ roster'[NextSeat].is = "unresolved"
          /\ \A j \in DOMAIN roster : roster'[j] = roster[j]
      BY <2>1, ReserveKept DEF IInv
    <2>3. r \in Call /\ r.seat = NextSeat /\ r.pc = "dispatch" /\ Named(r)
      BY <2>2, EmptySeq DEF Idle, Call, Local, Named
    <2> HIDE DEF r
    <2>4. /\ call' \in [Calls -> Call] /\ call'[c] = r
          /\ \A d \in Calls \ {c} : call'[d] = call[d]
      BY <1>t, <2>1, <2>3
    <2>5. ~over /\ over' = over /\ open' = open \cup {NextSeat} BY <2>1 DEF Reserve
    <2>6. open \subseteq DOMAIN roster BY DEF IInv, RosterInv
    <2>7. \A d \in Calls : At(d, "idle")' => call'[d].seat = 0
      BY <2>3, <2>4 DEF At, IInv, CallsInv, SeatInv
    <2>8. ASSUME NEW d \in Calls, call'[d].seat # 0
          PROVE  call'[d].seat \in open' /\ roster'[call'[d].seat].is = "unresolved"
      <3>1. CASE d = c BY <2>2, <2>3, <2>4, <2>5, <3>1
      <3>2. CASE d # c
        <4>1. /\ call[d].seat \in open /\ roster[call[d].seat].is = "unresolved"
              /\ call'[d].seat = call[d].seat
          BY <2>4, <2>5, <2>8, <3>2 DEF IInv, CallsInv, SeatInv
        <4> QED BY <2>2, <2>5, <2>6, <4>1
      <3> QED BY <3>1, <3>2
    <2>9. ASSUME NEW d \in Calls, NEW e \in Calls, d # e, call'[d].seat # 0
          PROVE  call'[d].seat # call'[e].seat
      <3>1. \A x \in Calls : call[x].seat # NextSeat
        BY <2>2, <2>5, <2>6 DEF IInv, CallsInv, SeatInv
      <3> QED BY <2>3, <2>4, <2>5, <2>9, <3>1 DEF IInv, CallsInv, SeatInv
    <2>10. \A i \in open' : \E d \in Calls : call'[d].seat = i
      <3>1. \A i \in open : \E d \in Calls : call[d].seat = i /\ i # 0
        BY <2>5, <2>6 DEF IInv, CallsInv, SeatInv, RosterInv
      <3>2. \A i \in open : \E d \in Calls : call'[d].seat = i BY <2>1, <2>4, <3>1
      <3> QED BY <2>3, <2>4, <2>5, <3>2
    <2>a. \A d \in Calls : Named(call'[d]) BY <2>3, <2>4 DEF IInv, CallsInv
    <2>11. CallsInv' BY <2>4, <2>7, <2>8, <2>9, <2>10, <2>a DEF CallsInv, SeatInv
    <2> QED BY <1>1, <2>2, <2>11, Together DEF BeginLocal, upstreams
  <1>2. ASSUME NEW c \in Calls, NEW kind \in {"list", "upstream"}, NEW p \in Providers,
               NEW rest \in Seq(Providers), BeginRemote(c, kind, p, rest) PROVE IInv'
    <2> DEFINE r == [Idle EXCEPT !.pc = "connect", !.kind = kind, !.provider = p, !.rest = rest]
    <2>1. r \in Call /\ r.seat = 0 /\ r.pc = "connect" /\ Named(r)
      BY EmptySeq DEF Idle, Call, Local, Named
    <2>2. call' = [call EXCEPT ![c] = r] /\ call[c].seat = 0
      BY <1>2 DEF BeginRemote, IInv, CallsInv, SeatInv
    <2> HIDE DEF r
    <2>3. SameSeats BY <2>1, <2>2, OneMoves DEF IInv
    <2> QED BY <1>2, <2>3, Plainly DEF BeginRemote, upstreams
  <1>3. ASSUME NEW c \in Calls, RunTool(c) \/ WaitEnds(c) \/ Answer(c) PROVE IInv'
    <2>1. SameSeats BY <1>3, ReturnMoves DEF RunTool, WaitEnds, Answer
    <2>2. UNCHANGED <<registry, upstreams, burst>> BY <1>3 DEF RunTool, WaitEnds, Answer
    <2> QED BY <2>1, <2>2, Plainly DEF upstreams
  <1>4. ASSUME NEW c \in Calls, ExecStart(c) PROVE IInv'
    <2>1. SameSeats BY <1>4, ReturnMoves DEF ExecStart
    <2>2. RegistryStep BY <1>4 DEF ExecStart, StartRefused, RegistryStep
    <2> QED BY <1>4, <2>1, <2>2, Plainly DEF ExecStart, upstreams
  <1>5. ASSUME NEW c \in Calls, NEW h \in Handles, ExecAwait(c, h) PROVE IInv'
    <2>1. SameSeats
      <3>1. CASE \E pc \in {"finish", "failed"}, b \in BOOLEAN : Return(c, pc, b)
        BY <3>1, ReturnMoves
      <3>2. CASE call' = [call EXCEPT ![c].pc = "waiting", ![c].handle = h]
        <4> DEFINE w == [[call[c] EXCEPT !.pc = "waiting"] EXCEPT !.handle = h]
        <4>1. w \in Call /\ w.seat = call[c].seat /\ w.pc = "waiting" /\ Named(w) BY <1>t, WaitingType
        <4>2. call' = [call EXCEPT ![c] = w] BY <1>t, <3>2
        <4> HIDE DEF w
        <4> QED BY <4>1, <4>2, OneMoves DEF IInv
      <3> QED BY <1>5, <3>1, <3>2 DEF ExecAwait
    <2>2. RegistryStep BY <1>5 DEF ExecAwait, RegistryStep
    <2> QED BY <1>5, <2>1, <2>2, Plainly DEF ExecAwait, upstreams
  <1>6. ASSUME NEW h \in Handles, ChildExits(h) PROVE IInv'
    <2>1. PICK b \in BOOLEAN :
            call' = [c \in Calls |-> IF c \in Waiting(h) THEN Returned(call[c], "finish", b) ELSE call[c]]
      BY <1>6 DEF ChildExits
    <2> DEFINE d == [c \in Calls |-> Returned(call[c], "finish", b)]
    <2>2. d \in [Calls -> Call] /\ \A c \in Calls : d[c].seat = call[c].seat /\ d[c].pc # "idle" /\ Named(d[c])
      BY <1>t, ReturnedType
    <2>3. call' = [c \in Calls |-> IF c \in Waiting(h) THEN d[c] ELSE call[c]] BY <2>1
    <2> HIDE DEF d
    <2>4. SameSeats BY <2>2, <2>3, SettleMoves
    <2>5. RegistryStep
      <3>1. (Waiting(h) # {}) \in BOOLEAN OBVIOUS
      <3> QED BY <1>6, <3>1 DEF ChildExits, RegistryStep
    <2> QED BY <1>6, <2>4, <2>5, Plainly DEF ChildExits, upstreams
  <1>7. ASSUME NEW h \in Handles, Registry(h) PROVE IInv'
    <2>1. RegistryStep BY <1>7 DEF Registry, RegistryStep
    <2> QED BY <1>7, <2>1, Still, Plainly DEF Registry, upstreams
  <1>8. ASSUME NEW c \in Calls, Start(c) PROVE IInv'
    <2> DEFINE p == call[c].provider
    <2>0. p \in Providers BY <1>8 DEF Start, At, IInv, CallsInv, Named
    <2>1. CASE Settle({c}, Failed) /\ UNCHANGED upstreams
      BY <1>8, <2>1, FailMoves, Plainly DEF Start, upstreams
    <2>2. CASE ~closing /\ Ready(p) /\ UNCHANGED upstreams
               /\ call' = [call EXCEPT ![c] = Connected(call[c], record[p].handle)]
      <3>1. record[p].handle \in Conns \cup {NoConn} BY <2>0 DEF IInv, UpInv, UpType
      <3> DEFINE w == Connected(call[c], record[p].handle)
      <3>2. w \in Call /\ w.seat = call[c].seat /\ w.pc # "idle" /\ Named(w) BY <1>t, <2>0, <3>1, ConnectedType
      <3> HIDE DEF w
      <3>3. SameSeats BY <2>2, <3>2, OneMoves DEF IInv, w
      <3> QED BY <1>8, <2>2, <3>3, Plainly DEF Start, upstreams
    <2>3. CASE Goto(c, "connecting") /\ (UNCHANGED upstreams \/ \E k \in Conns : Connect(p, k))
      <3> DEFINE w == [call[c] EXCEPT !.pc = "connecting"]
      <3>1. w \in Call /\ w.seat = call[c].seat /\ w.pc = "connecting" /\ w.provider = p BY <1>t, ConnectingType
      <3>2. call' = [call EXCEPT ![c] = w] BY <2>3 DEF Goto
      <3> HIDE DEF w
      <3>3. SameSeats BY <2>0, <3>1, <3>2, OneMoves DEF IInv, Named
      <3>4. UpstreamStep \/ UNCHANGED upstreams BY <2>0, <2>3 DEF UpstreamStep
      <3>5. closing' = closing BY <2>3 DEF Connect, upstreams
      <3> QED BY <1>8, <3>3, <3>4, <3>5, Plainly DEF Start
    <2> QED BY <1>8, <2>1, <2>2, <2>3 DEF Start
  <1>9. ASSUME NEW p \in Providers, StartSettles(p) PROVE IInv'
    <2>1. ConnectorReady(p) \/ ConnectorFails(p) BY <1>9 DEF StartSettles
    <2>2. UpstreamStep /\ closing' = closing
      BY <2>1 DEF UpstreamStep, ConnectorReady, ConnectorFails
    <2>3. SameSeats
      <3>1. CASE Settle(Connecting(p), Failed) BY <3>1, FailMoves
      <3>2. CASE Settle(Connecting(p), LAMBDA r: Connected(r, record[p].starting))
        <4>1. record[p].starting \in Conns \cup {NoConn} BY DEF IInv, UpInv, UpType
        <4> DEFINE d == [c \in Calls |-> IF c \in Connecting(p) THEN Connected(call[c], record[p].starting)
                                         ELSE Failed(call[c])]
        <4>a. \A c \in Calls \cap Connecting(p) : call[c].provider \in Providers BY DEF Connecting
        <4>b. d = [c \in Calls |-> IF c \in Connecting(p) THEN Connected(call[c], record[p].starting) ELSE Failed(call[c])]
          OBVIOUS
        <4>2. d \in [Calls -> Call]
              /\ \A c \in Calls : d[c].seat = call[c].seat /\ d[c].pc # "idle" /\ Named(d[c])
          <5>1. ASSUME NEW c \in Calls
                PROVE  d[c] \in Call /\ d[c].seat = call[c].seat /\ d[c].pc # "idle" /\ Named(d[c])
            BY <1>t, <4>1, <4>a, ConnectedType, FailedType
          <5> HIDE DEF d
          <5> QED BY <4>b, <5>1
        <4>3. call' = [c \in Calls |-> IF c \in Connecting(p) THEN d[c] ELSE call[c]]
          BY <3>2 DEF Settle
        <4> HIDE DEF d
        <4> QED BY <4>2, <4>3, SettleMoves
      <3> QED BY <1>9, <3>1, <3>2 DEF StartSettles
    <2> QED BY <1>9, <2>2, <2>3, Plainly DEF StartSettles
  <1>10. ASSUME NEW c \in Calls, CallFails(c) PROVE IInv'
    <2>1. SameSeats BY <1>10, FailMoves DEF CallFails
    <2>0. call[c].provider \in Providers BY <1>10 DEF CallFails, At, IInv, CallsInv, Named
    <2>2. UpstreamStep BY <1>10, <2>0 DEF CallFails, UpstreamStep
    <2>3. closing' = closing BY <1>10 DEF CallFails, Invalidate
    <2> QED BY <1>10, <2>1, <2>2, <2>3, Plainly DEF CallFails
  <1>11. ASSUME NEW k \in Conns, Upstream(k) PROVE IInv'
    <2>1. UpstreamStep /\ closing' = closing
      BY <1>11 DEF Upstream, UpstreamStep, LateTransport, CloseAnswers, ProviderDies
    <2> QED BY <1>11, <2>1, Still, Plainly DEF Upstream
  <1>12. ASSUME NEW c \in Calls, Finalize(c) \/ Throw(c) PROVE IInv'
    <2> DEFINE i == call[c].seat
    <2>1. call' = [call EXCEPT ![c] = Idle] /\ UNCHANGED <<registry, upstreams>>
      BY <1>12 DEF Finalize, Throw
    <2>2. CASE i = 0 /\ UNCHANGED burst
      <3>1. Idle \in Call /\ Idle.seat = 0 /\ Named(Idle) BY EmptySeq DEF Idle, Call, Local, Named
      <3>2. /\ call' \in [Calls -> Call]
            /\ \A d \in Calls : call'[d].seat = call[d].seat
            /\ call'[c].seat = 0 /\ \A d \in Calls \ {c} : call'[d] = call[d]
        BY <1>t, <2>1, <2>2, <3>1
      <3>3. SeatInv' BY <2>2, <3>2 DEF IInv, CallsInv, SeatInv, At, burst
      <3>a. \A d \in Calls : Named(call'[d]) BY <1>t, <2>1, <3>1 DEF IInv, CallsInv
      <3>4. CallsInv' BY <3>2, <3>3, <3>a DEF CallsInv
      <3>5. RosterInv' BY <2>2, RosterStill DEF IInv
      <3> QED BY <2>1, <3>4, <3>5, Together DEF upstreams
    <2>3. CASE i # 0 /\ Released(roster, i)
      <3>1. CallsInv' /\ RosterInv' BY <2>1, <2>3, SeatReturned DEF IInv, RosterInv
      <3> QED BY <2>1, <3>1, Together DEF upstreams
    <2>4. CASE /\ i # 0 /\ i \in DOMAIN roster
               /\ \E is \in {"blocking", "plain"}, roomy \in BOOLEAN : Released(Decided(i, is, roomy), i)
      <3>1. PICK is \in {"blocking", "plain"}, roomy \in BOOLEAN : Released(Decided(i, is, roomy), i)
        BY <2>4
      <3>2. ~over BY <2>4, EmptySeq DEF IInv, RosterInv
      <3>3. roster[i].is = "unresolved" BY <2>4, <3>2 DEF IInv, CallsInv, SeatInv
      <3> DEFINE r == Decided(i, is, roomy)
      <3>4. /\ r \in Seq(Seat) /\ DOMAIN r = DOMAIN roster /\ Early(r)
            /\ \A j \in DOMAIN roster \ {i} : r[j] = roster[j]
        BY <2>4, <3>3, DecidedKept DEF IInv
      <3> HIDE DEF r
      <3>5. CallsInv' /\ RosterInv' BY <2>1, <2>4, <3>1, <3>4, SeatReturned DEF IInv, r
      <3> QED BY <2>1, <3>5, Together DEF upstreams
    <2>5. CASE Finalize(c)
      <3>1. call[c].blocking \in BOOLEAN BY <1>t DEF Call
      <3> QED BY <2>2, <2>3, <2>4, <2>5, <3>1 DEF Finalize
    <2>6. CASE Throw(c) BY <2>2, <2>3, <2>6 DEF Throw
    <2> QED BY <1>12, <2>5, <2>6
  <1>13. ASSUME Shutdown PROVE IInv'
    <2>1. UpstreamStep /\ RegistryStep /\ disposed'
      BY <1>13 DEF Shutdown, UpstreamStep, RegistryStep, Dispose
    <2> QED BY <1>13, <2>1, Still, Plainly DEF Shutdown
  <1>14. ASSUME ServerCloses \/ Hangup PROVE IInv'
    <2>1. DisposeBurst /\ UNCHANGED call BY <1>14 DEF ServerCloses, Hangup
    <2>2. RosterInv' BY <2>1, EmptySeq DEF DisposeBurst, RosterInv, Early, Plain
    <2>3. CallsInv' BY <2>1 DEF DisposeBurst, IInv, CallsInv, SeatInv, At
    <2>4. /\ RegistryStep \/ UNCHANGED registry
          /\ UpstreamStep \/ UNCHANGED upstreams
          /\ closing' = closing \/ disposed'
      BY <1>14 DEF ServerCloses, Hangup, RegistryStep, UpstreamStep, Dispose, upstreams
    <2> QED BY <2>2, <2>3, <2>4, Together
  <1>15. CASE UNCHANGED vars
    <2>1. SameSeats BY <1>15, Still DEF vars
    <2> QED BY <1>15, <2>1, Plainly DEF vars, registry, upstreams, burst
  <1>16. \A p \in Providers : Fallbacks(p) \subseteq Seq(Providers) /\ <<>> \in Seq(Providers)
    <2>1. <<>> \in Seq(Providers) BY EmptySeq
    <2>2. \A q \in Providers : <<q>> \in Seq(Providers) OBVIOUS
    <2> QED BY <2>1, <2>2 DEF Fallbacks
  <1>17. CASE World
    BY <1>6, <1>7, <1>9, <1>11, <1>13, <1>14, <1>17 DEF World
  <1>18. ASSUME NEW c \in Calls, Request(c) PROVE IInv'
    BY <1>1, <1>2, <1>16, <1>18 DEF Request
  <1>19. ASSUME NEW c \in Calls, Turn(c) PROVE IInv'
    BY <1>3, <1>4, <1>5, <1>8, <1>10, <1>12, <1>19 DEF Turn
  <1> QED BY <1>15, <1>17, <1>18, <1>19 DEF Next

-----------------------------------------------------------------------------
\* Processes, connections, seats and calls keep to their invariants together.
THEOREM Invariance == Spec => []IInv
  BY InitOK, NextKeeps, PTL DEF Spec

\* Every variable stays within the states the code distinguishes.
THEOREM TypeCorrect == Spec => []TypeOK
  <1>1. IInv => TypeOK
    BY DEF IInv, RegInv, RegType, UpInv, UpType, RosterInv, CallsInv, TypeOK
  <1> QED BY <1>1, Invariance, PTL

\* Active children are counted exactly, dying ones included, and never exceed
\* the policy (ProcessRegistry.start, markTerminal).
THEOREM CapacityIsHeld == Spec => []CapacityHeld
  <1>1. IInv => CapacityHeld BY DEF IInv, RegInv
  <1> QED BY <1>1, Invariance, PTL

\* No connection and no child is left behind by failing calls, racing starts or
\* the shutdown (UpstreamRegistry.start, invalidate, close; dispose).
THEOREM NothingIsStranded == Spec => []NoneStranded
  <1>1. IInv => NoneStranded
    <2> SUFFICES ASSUME IInv PROVE NoneStranded OBVIOUS
    <2> USE UpstreamAssumption DEF IInv, UpInv, UpType, Serving, Ready, Starting
    <2>1. {k \in Conns : conn[k] \in {"open", "dead"}} = {record[p].handle : p \in Providers} \ {NoConn}
      OBVIOUS
    <2>2. {k \in Conns : conn[k] = "opening"} = {record[p].starting : p \in Providers} \ {NoConn}
      OBVIOUS
    <2>3. closing => /\ \A p \in Providers : ~Ready(p)
                     /\ \A h \in Handles : child[h].os # "running"
      BY DEF RegInv, ChildOK
    <2> QED BY <2>1, <2>2, <2>3 DEF NoneStranded
  <1> QED BY <1>1, Invariance, PTL

\* Plain results of a burst fit its budget together whatever order they settle in
\* (BurstBudgetController.admitOptional), and reservations and calls in flight
\* correspond (BurstBudgetController.release).
THEOREM BurstIsHeld == Spec => []BurstHolds
  <1>1. IInv => PlainFits BY FitsTogether DEF IInv
  <1>2. IInv => SeatsReturn
    <2> SUFFICES ASSUME IInv PROVE SeatsReturn OBVIOUS
    <2>1. open = {} => roster = <<>> BY DEF IInv, RosterInv
    <2>2. ASSUME ~over PROVE open = {call[c].seat : c \in Calls} \ {0}
      <3>1. 0 \notin open BY DEF IInv, RosterInv
      <3> QED BY <2>2, <3>1 DEF IInv, CallsInv, SeatInv
    <2> QED BY <2>1, <2>2 DEF SeatsReturn
  <1>3. IInv => BurstHolds BY <1>1, <1>2 DEF BurstHolds
  <1> QED BY <1>3, Invariance, PTL

-----------------------------------------------------------------------------
(* Retained results.  terminalOrder is a part of closed, in the same order, so *)
(* what a trim drops has as many later ones as the trim keeps.              *)

\* The elements of t are elements of s, in the order of s.
PartOf(t, s) ==
    /\ Elements(t) \subseteq Elements(s)
    /\ \A i, j \in DOMAIN t :
         i < j => \E a, b \in DOMAIN s : a < b /\ t[i] = s[a] /\ t[j] = s[b]

\* While the registry is in use, closed lists the children that have ended and
\* terminalOrder those of them that are still retained, in the same order.
KeptInv ==
    ~disposed =>
        /\ IsInjective(closed)
        /\ \A h \in Handles : child[h].os = "exited" <=> h \in Elements(closed)
        /\ \A h \in Handles : child[h].entry = "terminal" <=> h \in Elements(terminalOrder)
        /\ PartOf(terminalOrder, closed)
        /\ ResultKept

\* Later, of any sequence
LaterIn(c, h) == {g \in Handles : \E i, j \in DOMAIN c : i < j /\ c[i] = h /\ c[j] = g}

\* A part of a part is a part.
LEMMA PartTransitive ==
  ASSUME NEW t, NEW s, NEW c, PartOf(t, s), PartOf(s, c)
  PROVE  PartOf(t, c)
  <1>1. ASSUME NEW i \in DOMAIN t, NEW j \in DOMAIN t, i < j
        PROVE  \E a, b \in DOMAIN c : a < b /\ t[i] = c[a] /\ t[j] = c[b]
    <2>1. PICK a \in DOMAIN s, b \in DOMAIN s : a < b /\ t[i] = s[a] /\ t[j] = s[b]
      BY <1>1 DEF PartOf
    <2> QED BY <2>1 DEF PartOf
  <1>2. Elements(t) \subseteq Elements(c) BY DEF PartOf
  <1> QED BY <1>1, <1>2 DEF PartOf

\* The end of a child is appended to both.
LEMMA PartAppend ==
  ASSUME NEW s \in Seq(Handles), NEW c \in Seq(Handles), NEW h \in Handles, PartOf(s, c)
  PROVE  PartOf(Append(s, h), Append(c, h))
  <1> DEFINE t == Append(s, h)
             d == Append(c, h)
             n == Len(s)
             m == Len(c)
  <1>1. /\ n \in Nat /\ m \in Nat /\ DOMAIN s = 1 .. n /\ DOMAIN c = 1 .. m
        /\ DOMAIN t = 1 .. (n + 1) /\ DOMAIN d = 1 .. (m + 1)
        /\ t[n + 1] = h /\ \A i \in 1 .. n : t[i] = s[i]
        /\ d[m + 1] = h /\ \A i \in 1 .. m : d[i] = c[i]
    BY AppendProperties
  <1> HIDE DEF t, d, n, m
  <1>2. Elements(t) = Elements(s) \cup {h}
    <2>1. Elements(t) = {t[i] : i \in 1 .. n} \cup {t[n + 1]} BY <1>1 DEF Elements
    <2>2. {t[i] : i \in 1 .. n} = Elements(s) BY <1>1 DEF Elements
    <2> QED BY <1>1, <2>1, <2>2
  <1>3. Elements(d) = Elements(c) \cup {h}
    <2>1. Elements(d) = {d[i] : i \in 1 .. m} \cup {d[m + 1]} BY <1>1 DEF Elements
    <2>2. {d[i] : i \in 1 .. m} = Elements(c) BY <1>1 DEF Elements
    <2> QED BY <1>1, <2>1, <2>2
  <1>4. ASSUME NEW i \in DOMAIN t, NEW j \in DOMAIN t, i < j
        PROVE  \E a, b \in DOMAIN d : a < b /\ t[i] = d[a] /\ t[j] = d[b]
    <2>0. i \in 1 .. n BY <1>1, <1>4
    <2>1. CASE j \in 1 .. n
      <3>1. PICK a \in 1 .. m, b \in 1 .. m : a < b /\ s[i] = c[a] /\ s[j] = c[b]
        BY <1>1, <1>4, <2>0, <2>1 DEF PartOf
      <3>2. a \in DOMAIN d /\ b \in DOMAIN d BY <1>1
      <3> QED BY <1>1, <2>0, <2>1, <3>1, <3>2
    <2>2. CASE j = n + 1
      <3>1. PICK a \in 1 .. m : s[i] = c[a] BY <1>1, <2>0 DEF PartOf, Elements
      <3>2. a \in DOMAIN d /\ m + 1 \in DOMAIN d /\ a < m + 1 BY <1>1
      <3> QED BY <1>1, <2>0, <2>2, <3>1, <3>2
    <2> QED BY <1>1, <2>1, <2>2
  <1>5. Elements(t) \subseteq Elements(d) BY <1>2, <1>3 DEF PartOf
  <1> QED BY <1>4, <1>5 DEF PartOf, t, d

\* trimTerminalHandles keeps the order, and drops a handle only when it keeps
\* MaxRetained that come after it.
LEMMA TrimmedPart ==
  ASSUME NEW s \in Seq(Handles)
  PROVE  LET t == Trimmed(s) IN
         /\ PartOf(t, s)
         /\ \A g \in Elements(s) \ Elements(t) :
              \E k \in DOMAIN s, m \in Int :
                /\ g = s[k] /\ k <= m /\ m + MaxRetained = Len(s)
  <1> DEFINE t == Trimmed(s)
             n == Len(s)
             m == IF n <= MaxRetained THEN 0 ELSE n - MaxRetained
  <1>0. n \in Nat /\ DOMAIN s = 1 .. n /\ MaxRetained \in Nat \ {0} BY RegistryAssumption
  <1>1. DOMAIN t = 1 .. (n - m) /\ \A i \in 1 .. (n - m) : t[i] = s[m + i]
    <2>1. CASE n <= MaxRetained BY <1>0, <2>1 DEF Trimmed
    <2>2. CASE ~(n <= MaxRetained)
      <3>1. t = SubSeq(s, m + 1, n) BY <1>0, <2>2 DEF Trimmed
      <3>2. \A i \in (m + 1) .. n : s[i] \in Handles BY <1>0, <2>2, ElementOfSeq
      <3>3. m + 1 \in Int /\ n \in Int /\ m + 1 <= n BY <1>0, <2>2
      <3> HIDE DEF m, n, t
      <3>4. /\ SubSeq(s, m + 1, n) \in Seq(Handles)
            /\ Len(SubSeq(s, m + 1, n)) = n - (m + 1) + 1
            /\ \A i \in 1 .. n - (m + 1) + 1 : SubSeq(s, m + 1, n)[i] = s[(m + 1) + i - 1]
        BY <3>2, <3>3, SubSeqProperties
      <3>5. m \in Int BY <3>3, <1>0 DEF m
      <3> QED BY <3>1, <3>3, <3>4, <3>5
    <2> QED BY <2>1, <2>2
  <1>2. m \in Nat /\ m <= n BY <1>0
  <1> HIDE DEF m, n, t
  <1>3. PartOf(t, s)
    <2>1. ASSUME NEW i \in DOMAIN t PROVE m + i \in DOMAIN s /\ t[i] = s[m + i]
      BY <1>0, <1>1, <1>2
    <2>2. ASSUME NEW i \in DOMAIN t, NEW j \in DOMAIN t, i < j PROVE m + i < m + j
      BY <1>1, <1>2, <2>2
    <2> QED BY <2>1, <2>2 DEF PartOf, Elements
  <1>4. ASSUME NEW g \in Elements(s) \ Elements(t)
        PROVE  \E k \in DOMAIN s : g = s[k] /\ k <= m /\ m + MaxRetained = n
    <2>1. PICK k \in DOMAIN s : g = s[k] BY DEF Elements
    <2>2. k <= m
      <3> SUFFICES ASSUME k > m PROVE FALSE BY <1>0, <1>2, <2>1
      <3>1. k - m \in DOMAIN t /\ t[k - m] = s[k] BY <1>0, <1>1, <1>2, <2>1
      <3> QED BY <2>1, <3>1 DEF Elements
    <2>3. m + MaxRetained = n BY <1>0, <2>1, <2>2 DEF m
    <2> QED BY <2>1, <2>2, <2>3
  <1> QED BY <1>2, <1>3, <1>4 DEF t, n

\* Releasing a handle keeps the order of the others.
LEMMA WithoutPart ==
  ASSUME NEW s \in Seq(Handles), NEW h
  PROVE  LET t == Without(s, h) IN
         /\ PartOf(t, s)
         /\ Elements(s) \ {h} \subseteq Elements(t)
  <1> DEFINE t == Without(s, h)
             n == Len(s)
  <1>0. n \in Nat /\ DOMAIN s = 1 .. n OBVIOUS
  <1>1. CASE h \notin Elements(s)
    BY <1>0, <1>1 DEF Without, PartOf
  <1>2. CASE h \in Elements(s)
    <2> DEFINE k == CHOOSE i \in DOMAIN s : s[i] = h
    <2>1. k \in 1 .. n /\ s[k] = h BY <1>0, <1>2 DEF Elements
    <2>2. t = SubSeq(s, 1, k - 1) \o SubSeq(s, k + 1, n) BY <1>2 DEF Without
    <2> HIDE DEF k, t, n
    <2> DEFINE l == SubSeq(s, 1, k - 1)
               r == SubSeq(s, k + 1, n)
    <2>3. \A j \in 1 .. n : s[j] \in Handles BY <1>0, ElementOfSeq
    <2>4. /\ l \in Seq(Handles) /\ Len(l) = k - 1
          /\ \A i \in 1 .. (k - 1) : l[i] = s[i]
      <3>1. 1 \in Int /\ k - 1 \in Int /\ \A j \in 1 .. (k - 1) : s[j] \in Handles
        BY <1>0, <2>1, <2>3
      <3>2. /\ l \in Seq(Handles) /\ Len(l) = IF 1 <= k - 1 THEN k - 1 - 1 + 1 ELSE 0
            /\ \A i \in 1 .. k - 1 - 1 + 1 : l[i] = s[1 + i - 1]
        BY <3>1, SubSeqProperties
      <3> HIDE DEF l
      <3> QED BY <1>0, <2>1, <3>2
    <2>5. /\ r \in Seq(Handles) /\ Len(r) = n - k
          /\ \A i \in 1 .. (n - k) : r[i] = s[k + i]
      <3>1. k + 1 \in Int /\ n \in Int /\ \A j \in (k + 1) .. n : s[j] \in Handles
        BY <1>0, <2>1, <2>3
      <3>2. /\ r \in Seq(Handles) /\ Len(r) = IF k + 1 <= n THEN n - (k + 1) + 1 ELSE 0
            /\ \A i \in 1 .. n - (k + 1) + 1 : r[i] = s[(k + 1) + i - 1]
        BY <3>1, SubSeqProperties
      <3>3. n - (k + 1) + 1 = n - k /\ \A i \in 1 .. (n - k) : (k + 1) + i - 1 = k + i
        BY <1>0, <2>1
      <3>4. k + 1 <= n \/ n - k = 0 BY <1>0, <2>1
      <3> HIDE DEF r
      <3> QED BY <1>0, <2>1, <3>2, <3>3, <3>4
    <2>a. t = l \o r BY <2>2
    <2> HIDE DEF l, r
    <2>6. /\ l \o r \in Seq(Handles) /\ Len(l \o r) = n - 1
          /\ \A i \in 1 .. (n - 1) : (l \o r)[i] = IF i < k THEN s[i] ELSE s[i + 1]
      <3>1. /\ l \o r \in Seq(Handles) /\ Len(l \o r) = Len(l) + Len(r)
            /\ \A i \in 1 .. Len(l) + Len(r) :
                 (l \o r)[i] = IF i <= Len(l) THEN l[i] ELSE r[i - Len(l)]
        BY <2>4, <2>5, ConcatProperties
      <3>2. Len(l) + Len(r) = n - 1 BY <1>0, <2>1, <2>4, <2>5
      <3>3. ASSUME NEW i \in 1 .. (n - 1)
            PROVE  (l \o r)[i] = IF i < k THEN s[i] ELSE s[i + 1]
        <4>1. CASE i < k
          <5>1. i \in 1 .. (k - 1) /\ i <= Len(l) BY <4>1, <2>1, <2>4
          <5> QED BY <3>1, <3>2, <5>1, <4>1, <2>4
        <4>2. CASE ~(i < k)
          <5>1. i - (k - 1) \in 1 .. (n - k) /\ ~(i <= Len(l)) /\ k + (i - (k - 1)) = i + 1
            BY <1>0, <4>2, <2>1, <2>4
          <5> QED BY <3>1, <3>2, <5>1, <4>2, <2>4, <2>5
        <4> QED BY <4>1, <4>2
      <3> QED BY <3>1, <3>2, <3>3
    <2>7. DOMAIN t = 1 .. (n - 1) /\ \A i \in 1 .. (n - 1) : t[i] = IF i < k THEN s[i] ELSE s[i + 1]
      BY <1>0, <2>1, <2>a, <2>6
    <2>8. PartOf(t, s)
      <3> DEFINE at(i) == IF i < k THEN i ELSE i + 1
      <3>1. ASSUME NEW i \in DOMAIN t PROVE at(i) \in DOMAIN s /\ t[i] = s[at(i)]
        BY <1>0, <2>1, <2>7
      <3>2. ASSUME NEW i \in DOMAIN t, NEW j \in DOMAIN t, i < j PROVE at(i) < at(j)
        BY <1>0, <2>1, <2>7, <3>2
      <3> HIDE DEF at
      <3> QED BY <3>1, <3>2 DEF PartOf, Elements
    <2>9. ASSUME NEW g \in Elements(s) \ {h} PROVE g \in Elements(t)
      <3>1. PICK a \in DOMAIN s : g = s[a] BY DEF Elements
      <3>2. a # k BY <2>1, <3>1
      <3> DEFINE i == IF a < k THEN a ELSE a - 1
      <3>3. i \in DOMAIN t /\ t[i] = g BY <1>0, <2>1, <2>7, <3>1, <3>2
      <3> QED BY <3>3 DEF Elements
    <2> QED BY <2>8, <2>9 DEF t
  <1> QED BY <1>1, <1>2

\* Later handles are some of the handles.
LEMMA LaterFinite ==
  ASSUME NEW c, NEW g
  PROVE  IsFiniteSet(LaterIn(c, g)) /\ Cardinality(LaterIn(c, g)) \in Nat
  <1>1. LaterIn(c, g) \subseteq Handles BY DEF LaterIn
  <1> QED BY <1>1, FS_Subset, FS_CardinalityType, RegistryAssumption

\* A child that ends makes none of the others less late.
LEMMA LaterGrows ==
  ASSUME NEW c \in Seq(Handles), NEW h \in Handles, NEW g
  PROVE  Cardinality(LaterIn(c, g)) <= Cardinality(LaterIn(Append(c, h), g))
  <1>1. LaterIn(c, g) \subseteq LaterIn(Append(c, h), g)
    <2>1. /\ DOMAIN c = 1 .. Len(c) /\ Len(c) \in Nat
          /\ DOMAIN Append(c, h) = 1 .. (Len(c) + 1)
          /\ \A i \in 1 .. Len(c) : Append(c, h)[i] = c[i]
      BY AppendProperties
    <2>2. \A i \in DOMAIN c : i \in DOMAIN Append(c, h) /\ Append(c, h)[i] = c[i] BY <2>1
    <2> QED BY <2>2 DEF LaterIn
  <1> QED BY <1>1, LaterFinite, FS_Subset

\* Whatever the trim drops has MaxRetained later ones.
LEMMA DroppedIsOld ==
  ASSUME NEW s \in Seq(Handles), NEW c \in Seq(Handles), IsInjective(c), PartOf(s, c),
         NEW g \in Elements(s) \ Elements(Trimmed(s))
  PROVE  Cardinality(LaterIn(c, g)) >= MaxRetained
  <1>0. MaxRetained \in Nat \ {0} BY RegistryAssumption
  <1>1. PICK k \in DOMAIN s, m \in Int : g = s[k] /\ k <= m /\ m + MaxRetained = Len(s)
    BY TrimmedPart
  <1>2. DOMAIN s = 1 .. Len(s) /\ Len(s) \in Nat /\ DOMAIN c \subseteq Int OBVIOUS
  <1> DEFINE I == 1 .. MaxRetained
             f == [i \in I |-> s[m + i]]
  <1>3. \A i \in I : m + i \in DOMAIN s /\ k < m + i BY <1>0, <1>1, <1>2
  <1>4. ASSUME NEW i \in DOMAIN s, NEW j \in DOMAIN s, i < j
        PROVE  s[j] \in LaterIn(c, s[i]) /\ s[i] # s[j]
    <2>1. PICK a \in DOMAIN c, b \in DOMAIN c : a < b /\ s[i] = c[a] /\ s[j] = c[b]
      BY <1>4 DEF PartOf
    <2>2. a # b BY <1>2, <2>1
    <2>3. s[j] \in Handles BY <1>2, ElementOfSeq
    <2> QED BY <2>1, <2>2, <2>3 DEF LaterIn, IsInjective
  <1>5. f \in [I -> LaterIn(c, g)] BY <1>1, <1>3, <1>4
  <1>6. IsInjective(f)
    <2> SUFFICES ASSUME NEW i \in I, NEW j \in I, i < j PROVE f[i] # f[j]
      BY <1>0 DEF IsInjective
    <2>1. m + i \in DOMAIN s /\ m + j \in DOMAIN s /\ m + i < m + j BY <1>3
    <2> QED BY <1>4, <2>1
  <1>7. f \in Injection(I, LaterIn(c, g)) BY <1>5, <1>6 DEF Injection
  <1> HIDE DEF f
  <1>8. Cardinality(I) <= Cardinality(LaterIn(c, g)) BY <1>7, LaterFinite, FS_Injection
  <1>9. Cardinality(I) = MaxRetained BY <1>0, FS_Interval
  <1> QED BY <1>0, <1>8, <1>9, LaterFinite

\* Exactly the entries in the order stay.
LEMMA ForgetExact ==
  ASSUME NEW ch \in [Handles -> Child], NEW s, NEW h \in Handles
  PROVE  /\ Forget(ch, s)[h].os = ch[h].os
         /\ Forget(ch, s)[h].entry = "terminal" <=> ch[h].entry = "terminal" /\ h \in Elements(s)
  <1>1. ch[h] \in Child OBVIOUS
  <1> DEFINE e == [ch[h] EXCEPT !.entry = "absent"]
  <1>2. e.os = ch[h].os /\ e.entry = "absent" BY <1>1 DEF Child
  <1> HIDE DEF e
  <1>3. Forget(ch, s)[h] = IF ch[h].entry = "terminal" /\ h \notin Elements(s) THEN e ELSE ch[h]
    BY DEF Forget, e
  <1> QED BY <1>2, <1>3

\* ResultKept, in terms of LaterIn
Kept(h) ==
    h \in taken \/ child[h].entry = "terminal" \/ Cardinality(LaterIn(closed, h)) >= MaxRetained

LEMMA KeptMeaning ==
  /\ ResultKept <=> \A h \in Handles : child[h].os = "exited" /\ ~disposed => Kept(h)
  /\ ResultKept' <=> \A h \in Handles : child'[h].os = "exited" /\ ~disposed' => Kept(h)'
  <1>1. \A h : Later(h) = LaterIn(closed, h) /\ Later(h)' = LaterIn(closed', h)
    BY DEF Later, LaterIn
  <1> QED BY <1>1 DEF ResultKept, Kept

\* Callbacks that end no child and release no result
LEMMA KeptStill ==
  ASSUME RegInv, KeptInv, UNCHANGED <<terminalOrder, closed, taken, disposed>>,
         \A h \in Handles : /\ child'[h].os = "exited" <=> child[h].os = "exited"
                            /\ child'[h].entry = "terminal" <=> child[h].entry = "terminal"
  PROVE  KeptInv'
  <1>1. ResultKept => ResultKept' BY KeptMeaning DEF Kept
  <1> QED BY <1>1 DEF KeptInv

\* A child ends: what its trim drops is old enough, and everything else stays.
LEMMA KeptEnd ==
  ASSUME RegInv, KeptInv, ~disposed, ~disposed',
         NEW h \in Handles, child[h].os # "exited",
         NEW ch \in [Handles -> Child], ch[h] = Ended,
         \A g \in Handles \ {h} : /\ ch[g].os = "exited" <=> child[g].os = "exited"
                                  /\ ch[g].entry = "terminal" <=> child[g].entry = "terminal",
         NEW kept, kept = Trimmed(Append(terminalOrder, h)),
         \/ terminalOrder' = kept /\ taken' = taken
         \/ terminalOrder' = Without(kept, h) /\ taken' = taken \cup {h},
         child' = Forget(ch, terminalOrder'),
         closed' = Append(closed, h)
  PROVE  KeptInv'
  <1> DEFINE s == Append(terminalOrder, h)
  <1>0. /\ terminalOrder \in Seq(Handles) /\ closed \in Seq(Handles)
        /\ s \in Seq(Handles) /\ closed' \in Seq(Handles) /\ kept \in Seq(Handles)
    <2>1. terminalOrder \in Seq(Handles) /\ closed \in Seq(Handles) BY DEF RegInv, RegType
    <2>2. s \in Seq(Handles) /\ closed' \in Seq(Handles) BY <2>1
    <2>3. kept = Trimmed(s) OBVIOUS
    <2> HIDE DEF s
    <2> QED BY <2>1, <2>2, <2>3, TrimmedType
  <1>1. Elements(closed') = Elements(closed) \cup {h} /\ Elements(s) = Elements(terminalOrder) \cup {h}
    <2>1. ASSUME NEW q \in Seq(Handles) PROVE Elements(Append(q, h)) = Elements(q) \cup {h}
      <3>1. /\ DOMAIN q = 1 .. Len(q) /\ Len(q) \in Nat
            /\ DOMAIN Append(q, h) = 1 .. (Len(q) + 1)
            /\ \A i \in 1 .. Len(q) : Append(q, h)[i] = q[i]
            /\ Append(q, h)[Len(q) + 1] = h
        BY AppendProperties
      <3>2. \A i \in DOMAIN Append(q, h) : i \in DOMAIN q \/ i = Len(q) + 1 BY <3>1
      <3>3. \A i \in DOMAIN q : i \in DOMAIN Append(q, h) BY <3>1
      <3>4. Len(q) + 1 \in DOMAIN Append(q, h) BY <3>1
      <3> QED BY <3>1, <3>2, <3>3, <3>4 DEF Elements
    <2> QED BY <1>0, <2>1
  <1>2. IsInjective(closed')
    <2>1. h \notin Elements(closed) BY DEF KeptInv
    <2>2. /\ DOMAIN closed = 1 .. Len(closed) /\ Len(closed) \in Nat
          /\ DOMAIN closed' = 1 .. (Len(closed) + 1)
          /\ \A i \in 1 .. Len(closed) : closed'[i] = closed[i]
          /\ closed'[Len(closed) + 1] = h
      BY <1>0, AppendProperties
    <2>3. IsInjective(closed) BY DEF KeptInv
    <2>4. \A i \in DOMAIN closed' : i \in DOMAIN closed \/ i = Len(closed) + 1 BY <2>2
    <2> QED BY <2>1, <2>2, <2>3, <2>4 DEF IsInjective, Elements
  <1> HIDE DEF s
  <1>3. PartOf(s, closed') BY <1>0, PartAppend DEF KeptInv, s
  <1>4. /\ PartOf(terminalOrder', kept)
        /\ Elements(kept) \ {h} \subseteq Elements(terminalOrder')
        /\ terminalOrder' = kept \/ h \in taken'
    <2>1. PartOf(kept, kept) BY DEF PartOf
    <2> QED BY <1>0, <2>1, WithoutPart
  <1>5. PartOf(kept, s) BY <1>0, TrimmedPart DEF s
  <1>6. PartOf(terminalOrder', closed') BY <1>3, <1>4, <1>5, PartTransitive
  <1>7. \A g \in Handles : /\ child'[g].os = ch[g].os
                           /\ child'[g].entry = "terminal" <=>
                                ch[g].entry = "terminal" /\ g \in Elements(terminalOrder')
    BY ForgetExact
  <1>8. ch[h].os = "exited" /\ ch[h].entry = "terminal" BY DEF Ended, NoChild
  <1>9. \A g \in Handles : child'[g].os = "exited" <=> g \in Elements(closed')
    BY <1>1, <1>7, <1>8 DEF KeptInv
  <1>10. \A g \in Handles : child'[g].entry = "terminal" <=> g \in Elements(terminalOrder')
    <2>1. Elements(terminalOrder') \subseteq Elements(s)
      BY <1>4, <1>5 DEF PartOf
    <2>2. \A g \in Elements(s) : ch[g].entry = "terminal" \/ g \notin Handles
      BY <1>1, <1>8 DEF KeptInv
    <2> QED BY <1>7, <2>1, <2>2
  <1>11. ASSUME NEW g \in Handles, child'[g].os = "exited" PROVE Kept(g)'
    <2>1. CASE g \in Elements(s) \ Elements(kept)
      <3>1. Cardinality(LaterIn(closed', g)) >= MaxRetained
        BY <1>0, <1>2, <1>3, <2>1, DroppedIsOld DEF s
      <3> QED BY <3>1 DEF Kept
    <2>2. CASE g \in Elements(kept)
      BY <1>4, <1>10, <2>2 DEF Kept
    <2>3. CASE g \notin Elements(s)
      <3>1. g # h /\ child[g].os = "exited" /\ child[g].entry # "terminal"
        BY <1>1, <1>7, <1>11, <2>3 DEF KeptInv
      <3>2. g \in taken \/ Cardinality(LaterIn(closed, g)) >= MaxRetained
        BY <3>1, KeptMeaning DEF KeptInv, Kept
      <3>3. Cardinality(LaterIn(closed, g)) <= Cardinality(LaterIn(closed', g))
        BY <1>0, LaterGrows
      <3>4. Cardinality(LaterIn(closed, g)) \in Nat /\ Cardinality(LaterIn(closed', g)) \in Nat
            /\ MaxRetained \in Nat
        BY LaterFinite, RegistryAssumption
      <3>5. taken \subseteq taken' OBVIOUS
      <3> QED BY <3>2, <3>3, <3>4, <3>5 DEF Kept
    <2> QED BY <2>1, <2>2, <2>3
  <1>12. ResultKept' BY <1>11, KeptMeaning
  <1> QED BY <1>2, <1>6, <1>9, <1>10, <1>12 DEF KeptInv

\* Every callback of the registry keeps results that nobody has received.
LEMMA KeptStep == ASSUME RegInv, KeptInv, RegistryStep PROVE KeptInv'
  <1>0. disposed' => KeptInv' BY DEF KeptInv
  <1>r. \A h \in Handles : /\ Reaped[h].os = "exited" <=> child[h].os = "exited"
                           /\ Reaped[h].entry = child[h].entry
    BY ReapedOK DEF Alive
  <1>1. CASE Reap BY <1>1, <1>r, KeptStill DEF Reap
  <1>2. CASE Dispose BY <1>0, <1>2 DEF Dispose
  <1>3. ASSUME NEW h \in Handles, Launch(h) PROVE KeptInv'
    <2>1. child'[h] = Started /\ \A g \in Handles \ {h} : child'[g] = Reaped[g]
      BY <1>3, ReapedOK DEF Launch
    <2>2. child[h].entry # "terminal" /\ child[h].os # "exited"
      BY <1>3 DEF Launch, RegInv, ChildOK
    <2>3. Started.os # "exited" /\ Started.entry # "terminal" BY DEF Started
    <2> QED BY <1>3, <1>r, <2>1, <2>2, <2>3, KeptStill DEF Launch
  <1>4. ASSUME NEW h \in Handles, LaunchFails(h) PROVE KeptInv'
    <2> DEFINE ch == [Reaped EXCEPT ![h] = Ended]
    <2>0. Ended \in Child BY DEF Ended, NoChild, Child, Alive
    <2>1. /\ ch \in [Handles -> Child] /\ ch[h] = Ended
          /\ \A g \in Handles \ {h} : ch[g] = Reaped[g]
      BY <2>0, ReapedOK
    <2>2. child' = Forget(ch, terminalOrder') BY <1>4 DEF LaunchFails
    <2>3. child[h].os # "exited" /\ ~disposed /\ ~disposed' BY <1>4 DEF LaunchFails, Refuses
    <2>4. /\ terminalOrder' = Trimmed(Append(terminalOrder, h)) /\ taken' = taken
          /\ closed' = Append(closed, h)
      BY <1>4 DEF LaunchFails
    <2> HIDE DEF ch
    <2> QED BY <1>r, <2>1, <2>2, <2>3, <2>4, KeptEnd
  <1>5. ASSUME NEW h \in Handles, Collect(h) PROVE KeptInv'
    <2> SUFFICES ASSUME ~disposed PROVE KeptInv'
      BY <1>0, <1>5 DEF Collect
    <2>1. /\ terminalOrder' = Without(terminalOrder, h) /\ child' = Forget(Reaped, terminalOrder')
          /\ taken' = taken \cup {h} /\ UNCHANGED <<disposed, closed>>
      BY <1>5 DEF Collect
    <2>2. terminalOrder \in Seq(Handles) /\ closed \in Seq(Handles) BY DEF RegInv, RegType
    <2>3. PartOf(terminalOrder', terminalOrder)
          /\ Elements(terminalOrder) \ {h} \subseteq Elements(terminalOrder')
      BY <2>1, <2>2, WithoutPart
    <2>4. PartOf(terminalOrder', closed) BY <2>3, PartTransitive DEF KeptInv
    <2>5. \A g \in Handles : /\ child'[g].os = Reaped[g].os
                             /\ child'[g].entry = "terminal" <=>
                                  Reaped[g].entry = "terminal" /\ g \in Elements(terminalOrder')
      BY <2>1, ReapedOK, ForgetExact
    <2>6. \A g \in Handles : child'[g].entry = "terminal" <=> g \in Elements(terminalOrder')
      BY <1>r, <2>3, <2>5 DEF KeptInv, PartOf
    <2>7. ASSUME NEW g \in Handles, child'[g].os = "exited" PROVE Kept(g)'
      <3>1. child[g].os = "exited" BY <1>r, <2>5, <2>7
      <3>2. Kept(g) BY <3>1, KeptMeaning DEF KeptInv
      <3>3. child[g].entry = "terminal" /\ g # h => child'[g].entry = "terminal"
        BY <2>3, <2>6 DEF KeptInv
      <3> QED BY <2>1, <3>2, <3>3 DEF Kept
    <2>8. ResultKept' BY <2>7, KeptMeaning
    <2>9. \A g \in Handles : child'[g].os = "exited" <=> g \in Elements(closed)
      BY <1>r, <2>5 DEF KeptInv
    <2> QED BY <2>1, <2>4, <2>6, <2>8, <2>9 DEF KeptInv
  <1>6. ASSUME NEW h \in Handles, Ages(h) \/ Kill(h) PROVE KeptInv'
    <2>0. child[h] \in Child BY DEF RegInv, RegType
    <2> DEFINE a == [child[h] EXCEPT !.due = TRUE]
               k == [child[h] EXCEPT !.os = "killed"]
    <2>1. /\ a.entry = child[h].entry /\ a.os = child[h].os
          /\ k.entry = child[h].entry /\ k.os = "killed"
      BY <2>0 DEF Child
    <2>2. CASE Ages(h)
      <3>1. child' = [child EXCEPT ![h] = a] BY <2>2 DEF Ages
      <3> HIDE DEF a
      <3> QED BY <2>1, <2>2, <3>1, KeptStill DEF Ages, RegInv, RegType
    <2>3. CASE Kill(h)
      <3>1. child' = [child EXCEPT ![h] = k] /\ child[h].os = "running" BY <2>3 DEF Kill
      <3> HIDE DEF k
      <3> QED BY <2>1, <2>3, <3>1, KeptStill DEF Kill, RegInv, RegType
    <2> QED BY <1>6, <2>2, <2>3
  <1>7. ASSUME NEW h \in Handles, TimerFires(h) PROVE KeptInv'
    <2>1. \A g \in Handles : child'[g].os = Reaped[g].os /\ child'[g].entry = Reaped[g].entry
      BY <1>7, TimerSame
    <2> QED BY <1>7, <1>r, <2>1, KeptStill DEF TimerFires
  <1>8. ASSUME NEW h \in Handles, NEW awaited \in BOOLEAN, Exits(h, awaited) PROVE KeptInv'
    <2> SUFFICES ASSUME ~disposed PROVE KeptInv'
      BY <1>0, <1>8 DEF Exits
    <2> DEFINE ch == [IF awaited THEN Reaped ELSE child EXCEPT ![h] = Ended]
               kept == Trimmed(Append(terminalOrder, h))
    <2>0. Ended \in Child BY DEF Ended, NoChild, Child, Alive
    <2>1. /\ ch \in [Handles -> Child] /\ ch[h] = Ended
          /\ \A g \in Handles \ {h} : ch[g] = Reaped[g] \/ ch[g] = child[g]
      BY <2>0, ReapedOK DEF RegInv, RegType
    <2>2. child' = Forget(ch, terminalOrder') BY <1>8 DEF Exits
    <2>3. child[h].os # "exited" /\ ~disposed' /\ closed' = Append(closed, h)
      BY <1>8 DEF Exits, Alive
    <2>4. \/ terminalOrder' = kept /\ taken' = taken
          \/ terminalOrder' = Without(kept, h) /\ taken' = taken \cup {h}
      BY <1>8 DEF Exits
    <2> HIDE DEF ch, kept
    <2>5. kept = Trimmed(Append(terminalOrder, h)) BY DEF kept
    <2> QED BY <1>r, <2>1, <2>2, <2>3, <2>4, <2>5, KeptEnd
  <1> QED BY <1>1, <1>2, <1>3, <1>4, <1>5, <1>6, <1>7, <1>8 DEF RegistryStep

\* A turn of the event loop runs at most one callback of the registry.
LEMMA OneCallback == [Next]_vars => RegistryStep \/ UNCHANGED registry
  <1> SUFFICES ASSUME [Next]_vars PROVE RegistryStep \/ UNCHANGED registry OBVIOUS
  <1>1. CASE UNCHANGED vars BY <1>1 DEF vars
  <1>2. CASE World
    BY <1>2 DEF World, ChildExits, Registry, StartSettles, Upstream, Shutdown, ServerCloses,
                Hangup, RegistryStep, Waiting
  <1>3. ASSUME NEW c \in Calls, Request(c) PROVE UNCHANGED registry
    BY <1>3 DEF Request, BeginLocal, BeginRemote
  <1>4. ASSUME NEW c \in Calls, Turn(c) PROVE RegistryStep \/ UNCHANGED registry
    BY <1>4 DEF Turn, RunTool, ExecStart, StartRefused, ExecAwait, WaitEnds, Start, Answer,
                CallFails, Finalize, Throw, RegistryStep
  <1> QED BY <1>1, <1>2, <1>3, <1>4 DEF Next

\* The result of a child that has ended is there until some exec_await receives
\* it or MaxRetained later children have ended (ProcessRegistry.markTerminal,
\* trimTerminalHandles, release), whatever waits end, time out or meet the exit.
THEOREM ResultsAreKept == Spec => []ResultKept
  <1>1. Init => KeptInv
    BY EmptySeq DEF Init, RegistryInit, NoChild, KeptInv, IsInjective, Elements, PartOf, ResultKept
  <1>2. ASSUME IInv, KeptInv, [Next]_vars PROVE KeptInv'
    <2>1. CASE RegistryStep BY <1>2, <2>1, KeptStep DEF IInv
    <2>2. CASE UNCHANGED registry BY <1>2, <2>2, KeptStill DEF registry, IInv
    <2> QED BY <1>2, <2>1, <2>2, OneCallback
  <1>3. KeptInv => ResultKept BY DEF KeptInv, ResultKept
  <1> QED BY <1>1, <1>2, <1>3, Invariance, PTL DEF Spec
=============================================================================
