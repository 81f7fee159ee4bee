---------------------------- MODULE RouteDispatch ----------------------------
(***************************************************************************)
(* What the gateway promises per connect call (spec 4.5 and 7), whatever   *)
(* the handlers' interleaving: the route goes                              *)
(*                                                                         *)
(*   Init -> Selecting -> Failed(PoolEmpty)                                *)
(*                     -> Routing -> Success | Failed(Timeout)             *)
(*                                                                         *)
(* terminal in one call, with no retry.  RouteBegin is announced on        *)
(* leaving Init, and the terminal event (RouteSuccess with the node, or    *)
(* RouteError with the error and the node, none for PoolEmpty) together    *)
(* with the answer to the caller on reaching a terminal state.  The        *)
(* connector receives each call's events in the order they were made.      *)
(*                                                                         *)
(* route    per call, the state above                                      *)
(* dest     per call, the node chosen, or NoNode                           *)
(* pending  per call, the telemetry announced but not yet received         *)
(* answer   per call, "pending", "Some" or "None"                          *)
(***************************************************************************)
EXTENDS Sequences

CONSTANTS Calls, Nodes, NoNode

VARIABLES route, dest, pending, answer

vars == <<route, dest, pending, answer>>

Telemetry(ev, err, n) == [ev |-> ev, error |-> err, dest |-> n]

Init ==
    /\ route = [c \in Calls |-> "Init"]
    /\ dest = [c \in Calls |-> NoNode]
    /\ pending = [c \in Calls |-> <<>>]
    /\ answer = [c \in Calls |-> "pending"]

\* The call is accepted: RouteBegin.
Begin(c) ==
    /\ route[c] = "Init"
    /\ route' = [route EXCEPT ![c] = "Selecting"]
    /\ pending' = [pending EXCEPT ![c] = Append(@, Telemetry("RouteBegin", "none", NoNode))]
    /\ UNCHANGED <<dest, answer>>

\* Reaching a terminal state: its event is announced and the caller answered.
Finish(c, from, to, ev, err, res) ==
    /\ route[c] = from
    /\ route' = [route EXCEPT ![c] = to]
    /\ pending' = [pending EXCEPT ![c] = Append(@, Telemetry(ev, err, dest[c]))]
    /\ answer' = [answer EXCEPT ![c] = res]
    /\ UNCHANGED dest

\* The selector offers no node.
SelectNone(c) == Finish(c, "Selecting", "PoolEmpty", "RouteError", "PoolEmpty", "None")

\* The selector offers node n; the request is forwarded to it.
SelectNode(c, n) ==
    /\ route[c] = "Selecting"
    /\ route' = [route EXCEPT ![c] = "Routing"]
    /\ dest' = [dest EXCEPT ![c] = n]
    /\ UNCHANGED <<pending, answer>>

RpcOk(c) == Finish(c, "Routing", "Success", "RouteSuccess", "none", "Some")

RpcTimeout(c) == Finish(c, "Routing", "Timeout", "RouteError", "Timeout", "None")

\* The connector receives the oldest telemetry event of a call.
Deliver(c) ==
    /\ pending[c] # <<>>
    /\ pending' = [pending EXCEPT ![c] = Tail(@)]
    /\ UNCHANGED <<route, dest, answer>>

Step(c) ==
    \/ Begin(c) \/ SelectNone(c) \/ RpcOk(c) \/ RpcTimeout(c)
    \/ \E n \in Nodes : SelectNode(c, n)

Next == \E c \in Calls : Step(c) \/ Deliver(c)

\* Every call that has begun reaches a terminal state, and all of its
\* telemetry is received.
Spec ==
    /\ Init /\ [][Next]_vars
    /\ \A c \in Calls : WF_vars(Step(c)) /\ WF_vars(Deliver(c))

=============================================================================
