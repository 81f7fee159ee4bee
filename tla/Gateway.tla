------------------------------ MODULE Gateway ------------------------------
(***************************************************************************)
(* Gateway dispatch (bin/src/server/gateway/remote_rpc_handler.rs).        *)
(*                                                                         *)
(* Each signalling call is an async handler; several run at once.  A       *)
(* connect handler (whip_connect, whep_connect, webrtc_connect,            *)
(* rtp_engine_create_offer, rtp_engine_create_answer: the same control     *)
(* flow) sends RouteBegin on the bounded connector channel, asks the       *)
(* selector for a node, forwards the request to that node and reports      *)
(* RouteSuccess or RouteError on the channel.  A relay handler (remote     *)
(* ice, close, restart ice, set answer, delete) parses the ClusterConnId   *)
(* and forwards without telemetry.  The edge node's side of a forwarded    *)
(* connect is whether it created the session.                              *)
(***************************************************************************)
EXTENDS Integers, Sequences

CONSTANTS
    Calls,     \* concurrent connect calls (model values)
    Relays,    \* concurrent relay calls (model values)
    Nodes,     \* media edge nodes the selector may pick
    ChanCap,   \* capacity of the connector_agent_tx channel
    MaxTime,   \* bound on the real time, in ms, a behaviour lasts
    StepBack,  \* may the wall clock behind now_ms() be set back once?
    W64,       \* width of u64, scaled down for TLC
    W32        \* width of u32, scaled down for TLC (W32 < W64)

ASSUME ChanCap \in Nat \ {0}
ASSUME MaxTime \in Nat /\ StepBack \in BOOLEAN
ASSUME W32 \in Nat /\ W64 \in Nat /\ W32 < W64 /\ MaxTime < 2^W32

VARIABLES
    pc,        \* connect call -> where its handler is suspended
    node,      \* connect call -> node picked by the selector, or NoNode
    created,   \* connect calls whose session the edge node created
    result,    \* connect call -> what the handler returned
    chan,      \* connector channel: telemetry events in FIFO order
    reported,  \* connect calls whose terminal event the connector consumed
    relayPc,   \* relay call -> state of its handler
    now,       \* real time elapsed, in ms
    wall,      \* the wall clock now_ms() reads
    stepped,   \* the wall clock has been set back
    started_at,\* connect call -> now_ms() when its handler started
    begun,     \* connect call -> real time when its handler started
    after_ms   \* connect call -> after_ms its route event carried, or -1

vars == <<pc, node, created, result, chan, reported, relayPc, now, wall,
          stepped, started_at, begun, after_ms>>
clock == <<now, wall, stepped>>

NoNode == "none"
Events == [ev : {"RouteBegin", "RouteSuccess", "RouteError"}, call : Calls,
           error : {"none", "PoolEmpty", "Timeout"}, dest : Nodes \cup {NoNode}]

Event(ev, c, err, n) == [ev |-> ev, call |-> c, error |-> err, dest |-> n]

TypeOK ==
    /\ pc \in [Calls -> {"start", "select", "rpc", "success", "timeout",
                         "pool_empty", "done"}]
    /\ node \in [Calls -> Nodes \cup {NoNode}]
    /\ created \subseteq Calls
    /\ result \in [Calls -> {"pending", "Some", "None"}]
    /\ chan \in Seq(Events) /\ Len(chan) <= ChanCap
    /\ reported \subseteq Calls
    /\ relayPc \in [Relays -> {"start", "rpc", "done"}]
    /\ now \in 0..MaxTime /\ wall \in 0..MaxTime + 1 /\ stepped \in BOOLEAN
    /\ started_at \in [Calls -> 0..MaxTime + 1]
    /\ begun \in [Calls -> 0..MaxTime]
    /\ after_ms \in [Calls -> -1..2^W32 - 1]

Init ==
    /\ pc = [c \in Calls |-> "start"]
    /\ node = [c \in Calls |-> NoNode]
    /\ created = {}
    /\ result = [c \in Calls |-> "pending"]
    /\ chan = <<>>
    /\ reported = {}
    /\ relayPc = [r \in Relays |-> "start"]
    /\ now = 0 /\ wall = 1 /\ stepped = FALSE
    /\ started_at = [c \in Calls |-> 0]
    /\ begun = [c \in Calls |-> 0]
    /\ after_ms = [c \in Calls |-> -1]

-----------------------------------------------------------------------------------------------------------------------------------------------------
(* Mutants                                                                  *)

\* The telemetry sent without waiting for room in the channel.
SendUnbounded(e) == chan' = Append(chan, e)

\* The timeout branch returns None without reporting the route error.
ReportTimeoutSilently(c) ==
    /\ pc[c] = "timeout"
    /\ pc' = [pc EXCEPT ![c] = "done"]
    /\ result' = [result EXCEPT ![c] = "None"]
    /\ UNCHANGED <<node, created, chan, reported, relayPc, clock, started_at,
                   begun, after_ms>>

\* The route duration computed as started_at - now_ms().
AfterMsSwapped(c) == ((started_at[c] - wall) % 2^W64) % 2^W32

-----------------------------------------------------------------------------

\* The wall clock: real time passes and now_ms() with it; an NTP step or an
\* operator may set the wall clock back (once in a behaviour).
Tick ==
    /\ now < MaxTime
    /\ now' = now + 1 /\ wall' = wall + 1
    /\ UNCHANGED stepped
Back ==
    /\ StepBack /\ ~stepped /\ wall > 0
    /\ wall' = wall - 1 /\ stepped' = TRUE
    /\ UNCHANGED now
ClockStep ==
    /\ Tick \/ Back
    /\ UNCHANGED <<pc, node, created, result, chan, reported, relayPc,
                   started_at, begun, after_ms>>

\* now_ms() - started_at, a u64 subtraction (wrapping in a release build),
\* then `after_ms as u32`.
AfterMs(c) == ((wall - started_at[c]) % 2^W64) % 2^W32

\* feedback_route_*: connector_agent_tx.send(..).await, suspended while the
\* channel is full.
Send(e) ==
    /\ Len(chan) < ChanCap
    /\ chan' = Append(chan, e)

\* started_at = now_ms(), session id and app are read, then
\* feedback_route_begin.
RouteBegin(c) ==
    /\ pc[c] = "start"
    /\ Send(Event("RouteBegin", c, "none", NoNode))
    /\ pc' = [pc EXCEPT ![c] = "select"]
    /\ started_at' = [started_at EXCEPT ![c] = wall]
    /\ begun' = [begun EXCEPT ![c] = now]
    /\ UNCHANGED <<node, created, result, reported, relayPc, clock, after_ms>>

\* selector.select(ServiceKind::Webrtc, location): a node, or none when the
\* pool is empty (the geo-location only steers the choice).
Select(c) ==
    /\ pc[c] = "select"
    /\ \/ \E n \in Nodes :
            /\ node' = [node EXCEPT ![c] = n]
            /\ pc' = [pc EXCEPT ![c] = "rpc"]
       \/ /\ pc' = [pc EXCEPT ![c] = "pool_empty"]
          /\ UNCHANGED node
    /\ UNCHANGED <<created, result, chan, reported, relayPc, clock, started_at,
                   begun, after_ms>>

\* The edge node receives the forwarded request and creates the session;
\* this may happen after the gateway has given up waiting.
EdgeCreate(c) ==
    /\ pc[c] \in {"rpc", "timeout", "done"}
    /\ node[c] # NoNode
    /\ c \notin created
    /\ created' = created \cup {c}
    /\ UNCHANGED <<pc, node, result, chan, reported, relayPc, clock, started_at,
                   begun, after_ms>>

\* client.<method>(node_addr, req).await returns Some(res): only after the
\* edge answered.
RpcAnswer(c) ==
    /\ pc[c] = "rpc"
    /\ c \in created
    /\ pc' = [pc EXCEPT ![c] = "success"]
    /\ UNCHANGED <<node, created, result, chan, reported, relayPc, clock,
                   started_at, begun, after_ms>>

\* client.<method>(..).await returns None: the RPC deadline passed or the
\* answer was lost, whether or not the edge created the session.
RpcTimeout(c) ==
    /\ pc[c] = "rpc"
    /\ pc' = [pc EXCEPT ![c] = "timeout"]
    /\ UNCHANGED <<node, created, result, chan, reported, relayPc, clock,
                   started_at, begun, after_ms>>

\* The three ways a connect handler ends: the route event with
\* now_ms() - started_at, then the answer to the caller.
Report(c, from, ev, err, n, res) ==
    /\ pc[c] = from
    /\ Send(Event(ev, c, err, n))
    /\ pc' = [pc EXCEPT ![c] = "done"]
    /\ result' = [result EXCEPT ![c] = res]
    /\ after_ms' = [after_ms EXCEPT ![c] = AfterMs(c)]
    /\ UNCHANGED <<node, created, reported, relayPc, clock, started_at, begun>>

\* feedback_route_success then Some(res).
ReportSuccess(c) == Report(c, "success", "RouteSuccess", "none", node[c], "Some")

\* feedback_route_error(Some(node), Timeout) then None.
ReportTimeout(c) == Report(c, "timeout", "RouteError", "Timeout", node[c], "None")

\* Mutant of ReportPoolEmpty: the error kind of the timeout branch.
ReportPoolEmptyAsTimeout(c) ==
    Report(c, "pool_empty", "RouteError", "Timeout", NoNode, "None")

\* feedback_route_error(None, PoolEmpty) then None.
ReportPoolEmpty(c) ==
    Report(c, "pool_empty", "RouteError", "PoolEmpty", NoNode, "None")

\* The connector agent receives the next telemetry event.
ConnectorRecv ==
    /\ chan # <<>>
    /\ reported' = IF Head(chan).ev = "RouteBegin" THEN reported
                   ELSE reported \cup {Head(chan).call}
    /\ chan' = Tail(chan)
    /\ UNCHANGED <<pc, node, created, result, relayPc, clock, started_at,
                   begun, after_ms>>

\* A relay handler: req.conn.parse().ok()? returns None on a malformed
\* ClusterConnId; otherwise the request is forwarded to the node named in it.
RelayParse(r) ==
    /\ relayPc[r] = "start"
    /\ \/ relayPc' = [relayPc EXCEPT ![r] = "done"]
       \/ relayPc' = [relayPc EXCEPT ![r] = "rpc"]
    /\ UNCHANGED <<pc, node, created, result, chan, reported, clock,
                   started_at, begun, after_ms>>

\* ctx.client.<method>(dest_addr, req).await, returned as is.
RelayForward(r) ==
    /\ relayPc[r] = "rpc"
    /\ relayPc' = [relayPc EXCEPT ![r] = "done"]
    /\ UNCHANGED <<pc, node, created, result, chan, reported, clock,
                   started_at, begun, after_ms>>

ConnectStep(c) ==
    \/ RouteBegin(c) \/ Select(c) \/ RpcAnswer(c) \/ RpcTimeout(c)
    \/ ReportSuccess(c) \/ ReportTimeout(c) \/ ReportPoolEmpty(c)

Next ==
    \/ \E c \in Calls : ConnectStep(c) \/ EdgeCreate(c)
    \/ ConnectorRecv
    \/ \E r \in Relays : RelayParse(r) \/ RelayForward(r)
    \/ ClockStep

\* Tokio polls every ready handler, the RPC client enforces its deadline and
\* the connector agent keeps receiving: each is weakly fair.
Spec ==
    /\ Init /\ [][Next]_vars
    /\ \A c \in Calls : WF_vars(ConnectStep(c))
    /\ \A r \in Relays : WF_vars(RelayParse(r) \/ RelayForward(r))
    /\ WF_vars(ConnectorRecv)

-----------------------------------------------------------------------------
(* Properties                                                               *)

\* Route accounting is complete (spec 9: needed for billing): every connect
\* call that started routing eventually has its RouteSuccess or RouteError
\* received by the connector, whatever the selector and the edge do.
RouteAccountingComplete ==
    \A c \in Calls : (pc[c] # "start") ~> (c \in reported)

\* The route duration a connect call reports (RouteSuccess or RouteError
\* after_ms, computed as now_ms() - started_at) is never more than the real
\* time the call took: the connector bills and alerts on it.
AfterMsPlausible ==
    \A c \in Calls : pc[c] = "done" => after_ms[c] <= now - begun[c]

\* A session exists on an edge node only for a call whose client got the
\* answer: no session is created that the client never learns about.
NoOrphanSession ==
    \A c \in created : pc[c] = "done" => result[c] = "Some"

-----------------------------------------------------------------------------
(* Refinement of RouteDispatch                                              *)

\* The abstract route state a handler is in: a call is still Selecting
\* until PoolEmpty is reported, and still Routing until the RPC outcome is
\* reported, because the abstract route changes with its telemetry.
RouteOf(c) ==
    CASE pc[c] = "start"                          -> "Init"
      [] pc[c] \in {"select", "pool_empty"}        -> "Selecting"
      [] pc[c] \in {"rpc", "success", "timeout"}   -> "Routing"
      [] result[c] = "Some"                       -> "Success"
      [] node[c] = NoNode                         -> "PoolEmpty"
      [] OTHER                                    -> "Timeout"

\* The connector channel as seen by one call: its own events, in order.
ChanOf(c) ==
    LET own == SelectSeq(chan, LAMBDA e : e.call = c)
    IN  [i \in 1..Len(own) |->
            [ev |-> own[i].ev, error |-> own[i].error, dest |-> own[i].dest]]

Route == INSTANCE RouteDispatch WITH
    route   <- [c \in Calls |-> RouteOf(c)],
    dest    <- node,
    pending <- [c \in Calls |-> ChanOf(c)],
    answer  <- result

\* The connect handlers implement the route state machine of spec 4.5:
\* each call begins once, ends in exactly one of Success, Failed(PoolEmpty)
\* or Failed(Timeout) with the telemetry event and the answer that state
\* calls for, and the connector receives each call's events in order,
\* however the handlers interleave on the shared bounded channel.
RouteRefined == Route!Spec

=============================================================================
