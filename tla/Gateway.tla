------------------------------ MODULE Gateway ------------------------------
(***************************************************************************)
(* One MCP connection of the gateway (src/src/proxy.ts, server.ts): tool     *)
(* calls in flight at once over its background processes, its upstream       *)
(* connections and its burst budget.  An action is one turn of the event     *)
(* loop: a callback and the continuations it sets off.                       *)
(***************************************************************************)
EXTENDS ProcessRegistry, UpstreamRegistry, BurstBudget

CONSTANTS
    Calls,     \* requests in flight
    NoHandle,
    NoProvider

ASSUME GatewayAssumption == NoHandle \notin Handles /\ NoProvider \notin Providers

VARIABLE call

vars == <<registry, upstreams, burst, call>>

Local == {"exec_start", "exec_await", "tool"}

Call == [
    pc: {"idle", "dispatch", "waiting", "connect", "connecting", "calling", "finish", "failed"},
    kind: Local \cup {"list", "upstream"},
    seat: Nat,                              \* burst reservation, 0 without
    handle: Handles \cup {NoHandle},        \* that an exec_await waits for
    provider: Providers \cup {NoProvider},
    rest: Seq(Providers),                   \* candidates of a fallback not tried yet
    conn: Conns \cup {NoConn},              \* that the upstream tool is called on
    blocking: BOOLEAN]                      \* the result is a failure or has error diagnostics

Idle == [pc |-> "idle", kind |-> "tool", seat |-> 0, handle |-> NoHandle, provider |-> NoProvider,
         rest |-> <<>>, conn |-> NoConn, blocking |-> FALSE]

Init == RegistryInit /\ UpstreamInit /\ BurstInit /\ call = [c \in Calls |-> Idle]

At(c, pc) == call[c].pc = pc

Goto(c, pc) == call' = [call EXCEPT ![c].pc = pc]

\* The tool has returned; what it had in hand is forgotten.
Returned(r, pc, blocking) ==
    [r EXCEPT !.pc = pc, !.blocking = blocking, !.handle = NoHandle,
              !.provider = NoProvider, !.rest = <<>>, !.conn = NoConn]

Return(c, pc, blocking) == call' = [call EXCEPT ![c] = Returned(@, pc, blocking)]

-----------------------------------------------------------------------------
(* The request handler: a reservation before a local tool is dispatched.    *)
BeginLocal(c, kind) ==
    /\ At(c, "idle")
    /\ Reserve
    /\ call' = [call EXCEPT ![c] = [Idle EXCEPT !.pc = "dispatch", !.kind = kind, !.seat = NextSeat]]
    /\ UNCHANGED <<registry, upstreams>>

BeginRemote(c, kind, p, rest) ==
    /\ At(c, "idle") /\ ~over
    /\ call' = [call EXCEPT ![c] = [Idle EXCEPT !.pc = "connect", !.kind = kind, !.provider = p, !.rest = rest]]
    /\ UNCHANGED <<registry, upstreams, burst>>

(* Any other local tool: it answers or throws.                              *)
RunTool(c) ==
    /\ At(c, "dispatch") /\ call[c].kind = "tool"
    /\ \E pc \in {"finish", "failed"}, blocking \in BOOLEAN : Return(c, pc, blocking)
    /\ UNCHANGED <<registry, upstreams, burst>>

(* execStartTool                                                            *)
ExecStart(c) ==
    /\ At(c, "dispatch") /\ call[c].kind = "exec_start"
    /\ \/ StartRefused /\ Return(c, "finish", TRUE)
       \/ \E h \in Handles : (Launch(h) \/ LaunchFails(h)) /\ Return(c, "finish", FALSE)
    /\ UNCHANGED <<upstreams, burst>>

(* execAwaitTool: an unknown handle, a finished child, or a wait.           *)
ExecAwait(c, h) ==
    /\ At(c, "dispatch") /\ call[c].kind = "exec_await"
    /\ child[h].os # "none"
    /\ \/ ~Has(h) /\ Reap /\ Return(c, "failed", FALSE)
       \/ Collect(h) /\ \E blocking \in BOOLEAN : Return(c, "finish", blocking)
       \/ /\ child[h].entry = "active" /\ Reap
          /\ call' = [call EXCEPT ![c].pc = "waiting", ![c].handle = h]
    /\ UNCHANGED <<upstreams, burst>>

(* The wait times out, or the request is cancelled: only the wait ends.     *)
WaitEnds(c) ==
    /\ At(c, "waiting")
    /\ Return(c, "finish", FALSE)
    /\ UNCHANGED <<registry, upstreams, burst>>

Waiting(h) == {c \in Calls : At(c, "waiting") /\ call[c].handle = h}

ChildExits(h) ==
    /\ Exits(h, Waiting(h) # {})
    /\ \E blocking \in BOOLEAN :
         call' = [c \in Calls |-> IF c \in Waiting(h) THEN Returned(call[c], "finish", blocking) ELSE call[c]]
    /\ UNCHANGED <<upstreams, burst>>

Registry(h) ==
    /\ TimerFires(h) \/ Ages(h) \/ Kill(h)
    /\ UNCHANGED <<upstreams, burst, call>>

-----------------------------------------------------------------------------
(* What a call does with the connection its start returned: list_tools only *)
(* wanted it ready.                                                         *)
Connected(r, k) ==
    IF r.kind = "list" THEN Returned(r, "finish", FALSE)
    ELSE [r EXCEPT !.pc = "calling", !.conn = k]

(* A provider that failed: the next candidate of the fallback, if any.      *)
Failed(r) ==
    IF r.rest = <<>> THEN Returned(r, "failed", FALSE)
    ELSE [r EXCEPT !.pc = "connect", !.provider = Head(r.rest), !.rest = Tail(@), !.conn = NoConn]

Settle(cs, Outcome(_)) == call' = [c \in Calls |-> IF c \in cs THEN Outcome(call[c]) ELSE call[c]]

Fallbacks(p) == {<<>>} \cup {<<q>> : q \in Providers \ {p}}

(* UpstreamRegistry.start, as callUpstreamTool and catalog call it.         *)
Start(c) ==
    /\ At(c, "connect")
    /\ LET p == call[c].provider
       IN  \/ /\ closing
              /\ Settle({c}, Failed) /\ UNCHANGED upstreams
           \/ /\ ~closing /\ Ready(p)
              /\ call' = [call EXCEPT ![c] = Connected(@, record[p].handle)] /\ UNCHANGED upstreams
           \/ /\ ~closing /\ ~Ready(p) /\ Starting(p)
              /\ Goto(c, "connecting") /\ UNCHANGED upstreams
           \/ /\ \E k \in Conns : Connect(p, k)
              /\ Goto(c, "connecting")
    /\ UNCHANGED <<registry, burst>>

Connecting(p) == {c \in Calls : At(c, "connecting") /\ call[c].provider = p}

(* The start settles; everybody who shares it goes on.                      *)
StartSettles(p) ==
    /\ \/ /\ ConnectorReady(p)
          /\ IF closing THEN Settle(Connecting(p), Failed)
             ELSE Settle(Connecting(p), LAMBDA r: Connected(r, record[p].starting))
       \/ ConnectorFails(p) /\ Settle(Connecting(p), Failed)
    /\ UNCHANGED <<registry, burst>>

Answer(c) ==
    /\ At(c, "calling") /\ conn[call[c].conn] = "open"
    /\ Return(c, "finish", FALSE)
    /\ UNCHANGED <<registry, upstreams, burst>>

(* callTool rejects: the connection is gone, the call timed out, or the     *)
(* server refused the request.                                              *)
CallFails(c) ==
    /\ At(c, "calling")
    /\ Invalidate(call[c].provider)
    /\ Settle({c}, Failed)
    /\ UNCHANGED <<registry, burst>>

Upstream(k) ==
    /\ LateTransport(k) \/ CloseAnswers(k) \/ ProviderDies(k)
    /\ UNCHANGED <<registry, burst, call>>

-----------------------------------------------------------------------------
(* finalizeToolResult, then release.  Only a result with a structured       *)
(* envelope is ranked; the controller knows no seat after its disposal.     *)
Finalize(c) ==
    /\ At(c, "finish")
    /\ LET i == call[c].seat
           is == IF call[c].blocking THEN "blocking" ELSE "plain"
       IN  IF i = 0 THEN UNCHANGED burst
           ELSE \/ Released(roster, i)
                \/ \E roomy \in BOOLEAN : i \in DOMAIN roster /\ Released(Decided(i, is, roomy), i)
    /\ call' = [call EXCEPT ![c] = Idle]
    /\ UNCHANGED <<registry, upstreams>>

(* A call that threw is answered with its error; only release is left.      *)
Throw(c) ==
    /\ At(c, "failed")
    /\ IF call[c].seat = 0 THEN UNCHANGED burst ELSE Released(roster, call[c].seat)
    /\ call' = [call EXCEPT ![c] = Idle]
    /\ UNCHANGED <<registry, upstreams>>

(* A signal or the end of the input: shutdown, then server.close.           *)
Shutdown ==
    /\ ~closing
    /\ Dispose /\ CloseAll
    /\ UNCHANGED <<burst, call>>

ServerCloses ==
    /\ closing /\ ~over
    /\ DisposeBurst
    /\ UNCHANGED <<registry, upstreams, call>>

(* The transport closes first: both at once.                                *)
Hangup ==
    /\ ~closing
    /\ Dispose /\ CloseAll /\ DisposeBurst
    /\ UNCHANGED call

Request(c) ==
    \/ \E kind \in Local : BeginLocal(c, kind)
    \/ \E p \in Providers : BeginRemote(c, "list", p, <<>>)
    \/ \E p \in Providers : \E rest \in Fallbacks(p) : BeginRemote(c, "upstream", p, rest)

Turn(c) ==
    \/ RunTool(c) \/ ExecStart(c) \/ WaitEnds(c) \/ Start(c) \/ Answer(c) \/ CallFails(c)
    \/ Finalize(c) \/ Throw(c)
    \/ \E h \in Handles : ExecAwait(c, h)

World ==
    \/ \E h \in Handles : ChildExits(h) \/ Registry(h)
    \/ \E p \in Providers : StartSettles(p)
    \/ \E k \in Conns : Upstream(k)
    \/ Shutdown \/ ServerCloses \/ Hangup

Next == World \/ \E c \in Calls : Request(c) \/ Turn(c)

Spec == Init /\ [][Next]_vars

-----------------------------------------------------------------------------
TypeOK ==
    /\ child \in [Handles -> Child]
    /\ terminalOrder \in Seq(Handles)
    /\ active \in Int
    /\ disposed \in BOOLEAN
    /\ closed \in Seq(Handles)
    /\ taken \in SUBSET Handles
    /\ record \in [Providers -> [handle: Conns \cup {NoConn}, starting: Conns \cup {NoConn}]]
    /\ conn \in [Conns -> ConnStates]
    /\ closing \in BOOLEAN
    /\ roster \in Seq(Seat)
    /\ open \in SUBSET DOMAIN roster
    /\ over \in BOOLEAN
    /\ call \in [Calls -> Call]

\* activeCount, which alone limits how many children a connection may have,
\* counts exactly those that have not ended, killed ones included.
CapacityHeld ==
    ~disposed => /\ active = Cardinality({h \in Handles : child[h].os \in Alive})
                 /\ active <= MaxActive

Later(h) == {g \in Handles : \E i, j \in DOMAIN closed : i < j /\ closed[i] = h /\ closed[j] = g}

\* Whatever waits are cancelled, time out or meet the exit: the result of a
\* child that has ended has been received, or is still there, or had to make
\* room for as many later ones as are retained.
ResultKept ==
    \A h \in Handles :
        child[h].os = "exited" /\ ~disposed
            => h \in taken \/ child[h].entry = "terminal" \/ Cardinality(Later(h)) >= MaxRetained

\* Every connection with a client that nobody has told to close is the one its
\* provider's record holds, or that record's start: failing calls, starts that
\* race with them and the shutdown strand none, and no closed connection is
\* handed out again.  After the shutdown began there is neither a ready
\* connection nor a background process that nobody has killed.
NoneStranded ==
    /\ {k \in Conns : conn[k] \in {"open", "dead"}} = {record[p].handle : p \in Providers} \ {NoConn}
    /\ {k \in Conns : conn[k] = "opening"} = {record[p].starting : p \in Providers} \ {NoConn}
    /\ closing => /\ \A p \in Providers : ~Ready(p)
                  /\ \A h \in Handles : child[h].os # "running"

\* Results of one burst that are no failures fit in the budget together, in
\* whatever order their calls settle.
PlainFits == Cardinality({i \in DOMAIN roster : roster[i].is = "plain" /\ roster[i].admitted}) <= Fits

\* A reservation is open exactly as long as its call: none is left behind that
\* would keep the burst's roster for ever.
SeatsReturn ==
    /\ ~over => open = {call[c].seat : c \in Calls} \ {0}
    /\ open = {} => roster = <<>>

\* The burst's budget holds for what was admitted, and is given back in the end.
BurstHolds == PlainFits /\ SeatsReturn
=============================================================================
