-------------------------- MODULE UpstreamRegistry --------------------------
(***************************************************************************)
(* Connections to upstream MCP servers, opened on demand and shared by all  *)
(* calls of the gateway (src/src/upstream.ts).  What a record says of       *)
(* itself for diagnosis (state, failure count, last error) is left out: no   *)
(* decision reads it.                                                       *)
(***************************************************************************)
EXTENDS Integers

CONSTANTS
    Providers,   \* names of enabled upstream servers
    Conns,       \* connections: a client with its transport
    NoConn

ASSUME UpstreamAssumption == NoConn \notin Conns

VARIABLES
    record,      \* per provider, the ready handle and the start under way
    conn,        \* per connection, how far it is
    closing      \* shutdown has begun

upstreams == <<record, conn, closing>>

\* A "late" connection has no client yet: its transport is still being
\* created although its start has timed out.
ConnStates == {"unused", "opening", "late", "open", "dead", "closing", "closed"}

UpstreamInit ==
    /\ record = [p \in Providers |-> [handle |-> NoConn, starting |-> NoConn]]
    /\ conn = [k \in Conns |-> "unused"]
    /\ closing = FALSE

Ready(p) == record[p].handle # NoConn
Starting(p) == record[p].starting # NoConn

(* start: nothing to share, so the connector is called.                     *)
Connect(p, k) ==
    /\ ~closing /\ ~Ready(p) /\ ~Starting(p)
    /\ conn[k] = "unused"
    /\ record' = [record EXCEPT ![p].starting = k]
    /\ conn' = [conn EXCEPT ![k] = "opening"]
    /\ UNCHANGED closing

(* The connector has initialized the client and listed its tools; after the *)
(* shutdown began the connection is closed again instead of becoming ready. *)
\* Mutant of Promoted: a start that outlives the shutdown becomes ready.
PromotedAnyway(p) == record[p].starting

Promoted(p) == IF closing THEN NoConn ELSE record[p].starting

ConnectorReady(p) ==
    /\ Starting(p)
    /\ record' = [record EXCEPT ![p] = [handle |-> Promoted(p), starting |-> NoConn]]
    /\ conn' = [conn EXCEPT ![record[p].starting] = IF closing THEN "closing" ELSE "open"]
    /\ UNCHANGED closing

(* A phase fails or times out: what exists of the client is closed.         *)
ConnectorFails(p) ==
    /\ Starting(p)
    /\ record' = [record EXCEPT ![p].starting = NoConn]
    /\ \E left \in {"late", "closing", "closed"} :
         conn' = [conn EXCEPT ![record[p].starting] = left]
    /\ UNCHANGED closing

(* onLateResult: the transport of a start that timed out is closed.         *)
LateTransport(k) ==
    /\ conn[k] = "late"
    /\ \E left \in {"closing", "closed"} : conn' = [conn EXCEPT ![k] = left]
    /\ UNCHANGED <<record, closing>>

(* closeClient has an answer; a client that never answers stays closing.    *)
CloseAnswers(k) ==
    /\ conn[k] = "closing"
    /\ conn' = [conn EXCEPT ![k] = "closed"]
    /\ UNCHANGED <<record, closing>>

(* The server goes away; nobody notices before a call fails.                *)
ProviderDies(k) ==
    /\ conn[k] = "open"
    /\ conn' = [conn EXCEPT ![k] = "dead"]
    /\ UNCHANGED <<record, closing>>

Closed(ks) == [k \in Conns |-> IF k \in ks THEN "closing" ELSE conn[k]]

(* invalidate: whatever handle the record has by now.                       *)
Invalidate(p) ==
    /\ record' = [record EXCEPT ![p].handle = NoConn]
    /\ conn' = Closed({record[p].handle})
    /\ UNCHANGED closing

(* close: every handle is closed, starts under way are not waited for.      *)
CloseAll ==
    /\ closing' = TRUE
    /\ record' = [p \in Providers |-> [record[p] EXCEPT !.handle = NoConn]]
    /\ conn' = Closed({record[p].handle : p \in Providers})
=============================================================================
