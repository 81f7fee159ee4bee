------------------------------- MODULE Worker -------------------------------
(***************************************************************************)
(* MediaWorkerWebrtc (packages/transport_webrtc/src/worker.rs) with the    *)
(* two structures it delegates to: the TaskGroup of endpoint tasks and the *)
(* SharedUdpPort demux (both outside src/, modelled from spec 4.6 and 9).  *)
(*                                                                         *)
(* An endpoint task is identified by its slot in the TaskGroup; the slot   *)
(* is the WebrtcSession handle that clients and the cluster address it by. *)
(* Each spawned endpoint also gets a serial number (its session), which    *)
(* doubles as its ICE ufrag; the serial is how the model tells apart two   *)
(* endpoints that occupied the same slot one after the other.              *)
(***************************************************************************)
EXTENDS Naturals, Sequences, FiniteSets

CONSTANTS
    Slots,          \* TaskGroup slots the model lets endpoints occupy
    LocalAddrs,     \* addresses the worker is asked to bind
    RemoteAddrs,    \* remote UDP addresses packets can come from
    MaxSpawns,      \* bound on the number of endpoints ever spawned
    MaxQueue,       \* bound on the worker's output queue
    RestartAfterShutdown  \* may a RestartIce for a gone session arrive after shutdown?

ASSUME MaxSpawns \in Nat /\ MaxQueue \in Nat \ {0}
ASSUME RestartAfterShutdown \in BOOLEAN

VARIABLES
    tasks,       \* slot -> serial of the endpoint in it, 0 when free
    ufrags,      \* SharedUdpPort ufrag index: ufrag -> slot
    remotes,     \* SharedUdpPort peer-address index: remote addr -> slot
    learnt,      \* remote addr -> serial the address was learnt for (history)
    closing,     \* slots whose endpoint was told to disconnect or shut down
    nextSerial,  \* serial of the next spawned endpoint
    issued,      \* <<slot, serial>> handles handed to clients
    clusterMsgs, \* cluster events in flight, <<slot, serial they were meant for>>
    queue,       \* the worker's own output queue
    listening,   \* UdpListen requests the backend has not answered
    addrs,       \* bound local addresses
    shutdown

vars == <<tasks, ufrags, remotes, learnt, closing, nextSerial, issued,
          clusterMsgs, queue, listening, addrs, shutdown>>

Serials == 1..MaxSpawns
NoSlot == "none"
Free(i) == tasks[i] = 0
Live == {i \in Slots : ~Free(i)}

ExtKinds == {"RemoteIce", "RestartIce", "Disconnect"}
Outputs == [kind : {"UdpListen"}, addr : LocalAddrs]
           \cup [kind : {"ExtReply"}, ext : ExtKinds, slot : Slots, ok : BOOLEAN]

TypeOK ==
    /\ tasks \in [Slots -> 0..MaxSpawns]
    /\ ufrags \in [Serials -> Slots \cup {NoSlot}]
    /\ remotes \in [RemoteAddrs -> Slots \cup {NoSlot}]
    /\ learnt \in [RemoteAddrs -> 0..MaxSpawns]
    /\ closing \subseteq Slots
    /\ nextSerial \in 1..MaxSpawns + 1
    /\ issued \subseteq Slots \X Serials
    /\ clusterMsgs \subseteq Slots \X Serials
    /\ queue \in Seq(Outputs) /\ Len(queue) <= MaxQueue
    /\ listening \subseteq LocalAddrs
    /\ addrs \subseteq LocalAddrs
    /\ shutdown \in BOOLEAN

\* MediaWorkerWebrtc::new: one UdpListen output per address to bind.
Init ==
    /\ tasks = [i \in Slots |-> 0]
    /\ ufrags = [u \in Serials |-> NoSlot]
    /\ remotes = [r \in RemoteAddrs |-> NoSlot]
    /\ learnt = [r \in RemoteAddrs |-> 0]
    /\ closing = {}
    /\ nextSerial = 1
    /\ issued = {}
    /\ clusterMsgs = {}
    /\ \E order \in [1..Cardinality(LocalAddrs) -> LocalAddrs] :
         /\ \A a \in LocalAddrs : \E j \in DOMAIN order : order[j] = a
         /\ queue = [j \in DOMAIN order |-> [kind |-> "UdpListen", addr |-> order[j]]]
    /\ listening = {}
    /\ addrs = {}
    /\ shutdown = FALSE

Reply(ext, i, ok) == [kind |-> "ExtReply", ext |-> ext, slot |-> i, ok |-> ok]

-----------------------------------------------------------------------------
(* Mutants: plausible bugs of the handlers below.                          *)

\* The destroyed endpoint's entries are dropped from the ufrag index only.
RemoveTaskKeepRemotes(i) ==
    /\ ufrags' = [u \in Serials |-> IF ufrags[u] = i THEN NoSlot ELSE ufrags[u]]
    /\ UNCHANGED <<remotes, learnt>>

\* shutdown sets the flag but never forwards on_shutdown to the endpoints.
ShutdownFlagOnly ==
    /\ ~shutdown
    /\ shutdown' = TRUE
    /\ UNCHANGED <<tasks, ufrags, remotes, learnt, closing, nextSerial, issued,
                   clusterMsgs, queue, listening, addrs>>

-----------------------------------------------------------------------------

\* TaskGroup::add_task puts the task in a free slot (a freed slot is reused).
AddTask(i, serial) ==
    /\ Free(i)
    /\ tasks' = [tasks EXCEPT ![i] = serial]

\* spawn: build the transport (its ICE candidates come from addrs and
\* addrs_alt, which no property here is about), add the endpoint task and
\* register its ufrag with the shared port.  TransportWebrtc::new failing
\* is an early return that changes nothing.
SpawnAt(i) ==
    /\ nextSerial <= MaxSpawns
    /\ AddTask(i, nextSerial)
    /\ ufrags' = [ufrags EXCEPT ![nextSerial] = i]
    /\ nextSerial' = nextSerial + 1

\* A whip/whep/webrtc connect request spawns an endpoint; the handle goes
\* back to the client.  Callers stop sending new sessions to a worker that
\* is shutting down.
Spawn ==
    /\ ~shutdown
    /\ \E i \in Slots :
         /\ SpawnAt(i)
         /\ issued' = issued \cup {<<i, nextSerial>>}
    /\ UNCHANGED <<remotes, learnt, closing, clusterMsgs, queue, listening,
                   addrs, shutdown>>

\* SharedUdpPort::remove_task: drop every registration of the slot.
RemoveTask(i) ==
    /\ ufrags' = [u \in Serials |-> IF ufrags[u] = i THEN NoSlot ELSE ufrags[u]]
    /\ remotes' = [r \in RemoteAddrs |-> IF remotes[r] = i THEN NoSlot ELSE remotes[r]]
    /\ UNCHANGED learnt

\* process_output on EndpointOutput::OnResourceEmpty: the endpoint has
\* finished; remove it from the task group and from the shared port.  It
\* is reached through pop_output, which returns the worker's own queue
\* first (return_if_some!), so only when that queue is empty.
EndpointResourceEmpty(i) ==
    /\ queue = <<>>
    /\ ~Free(i)
    /\ tasks' = [tasks EXCEPT ![i] = 0]
    /\ RemoveTask(i)
    /\ closing' = closing \ {i}
    /\ UNCHANGED <<nextSerial, issued, clusterMsgs, queue, listening, addrs,
                   shutdown>>

\* on_event(UdpListenResult): a successful bind is remembered.
UdpListenResult(a, ok) ==
    /\ a \in listening
    /\ listening' = listening \ {a}
    /\ addrs' = IF ok THEN addrs \cup {a} ELSE addrs
    /\ UNCHANGED <<tasks, ufrags, remotes, learnt, closing, nextSerial, issued,
                   clusterMsgs, queue, shutdown>>

\* on_event(UdpPacket) through SharedUdpPort::map_remote: a known remote
\* address wins; otherwise the STUN username's ufrag is looked up and the
\* address cached for that slot.  `u` is the ufrag the packet carries, 0
\* for a packet that is not a STUN binding request.  A packet matching
\* nothing is dropped (no step).
UdpPacket(from, u) ==
    /\ remotes[from] = NoSlot
    /\ u # 0
    /\ ufrags[u] # NoSlot
    /\ remotes' = [remotes EXCEPT ![from] = ufrags[u]]
    /\ learnt' = [learnt EXCEPT ![from] = tasks[ufrags[u]]]
    /\ UNCHANGED <<tasks, ufrags, closing, nextSerial, issued, clusterMsgs,
                   queue, listening, addrs, shutdown>>

\* The room addresses an event to an endpoint it knows (spec 4.3); the
\* event travels to the worker as GroupInput::Cluster.
ClusterSend(i) ==
    /\ ~Free(i)
    /\ clusterMsgs' = clusterMsgs \cup {<<i, tasks[i]>>}
    /\ UNCHANGED <<tasks, ufrags, remotes, learnt, closing, nextSerial, issued,
                   queue, listening, addrs, shutdown>>

\* on_event(Cluster(owner, event)): handed to endpoints.on_event(owner.index())
\* with no check of who now owns the slot; a free slot ignores it.
ClusterEvent(m) ==
    /\ m \in clusterMsgs
    /\ clusterMsgs' = clusterMsgs \ {m}
    /\ UNCHANGED <<tasks, ufrags, remotes, learnt, closing, nextSerial, issued,
                   queue, listening, addrs, shutdown>>

\* on_event(Ext(owner, ext)) when the slot holds a task: the input goes to
\* that endpoint; a Disconnect makes it close.
ExtToEndpoint(h, ext) ==
    /\ h \in issued
    /\ ~Free(h[1])
    /\ closing' = IF ext = "Disconnect" THEN closing \cup {h[1]} ELSE closing
    /\ UNCHANGED <<tasks, ufrags, remotes, learnt, nextSerial, issued,
                   clusterMsgs, queue, listening, addrs, shutdown>>

\* Mutant of ExtToAbsent: the RestartIce branch without its else, so a
\* successful restart is answered twice, with Ok and with the error.
ExtToAbsentReplyTwice(h, ext) ==
    /\ h \in issued
    /\ Free(h[1])
    /\ Len(queue) < MaxQueue
    /\ \/ /\ ext \in {"RemoteIce", "Disconnect"}
          /\ queue' = Append(queue, Reply(ext, h[1], FALSE))
          /\ UNCHANGED <<tasks, ufrags, nextSerial, issued>>
       \/ /\ ext = "RestartIce"
          /\ RestartAfterShutdown \/ ~shutdown
          /\ \E i \in Slots :
               /\ SpawnAt(i)
               /\ issued' = issued \cup {<<i, nextSerial>>}
               /\ queue' = queue \o <<Reply(ext, i, TRUE), Reply(ext, h[1], FALSE)>>
    /\ UNCHANGED <<remotes, learnt, closing, clusterMsgs, listening, addrs,
                   shutdown>>

\* on_event(Ext(owner, ext)) when the slot is free: RemoteIce and Disconnect
\* are answered RpcEndpointNotFound; RestartIce spawns a new Webrtc
\* endpoint with a fresh session id and answers from the new slot, or,
\* when spawn fails (TransportWebrtc::new rejects the offer), answers
\* RpcEndpointNotFound to the old handle.
ExtToAbsent(h, ext) ==
    /\ h \in issued
    /\ Free(h[1])
    /\ Len(queue) < MaxQueue
    /\ \/ /\ ext \in {"RemoteIce", "Disconnect", "RestartIce"}
          /\ queue' = Append(queue, Reply(ext, h[1], FALSE))
          /\ UNCHANGED <<tasks, ufrags, nextSerial, issued>>
       \/ /\ ext = "RestartIce"
          /\ RestartAfterShutdown \/ ~shutdown
          /\ \E i \in Slots :
               /\ SpawnAt(i)
               /\ issued' = issued \cup {<<i, nextSerial>>}
               /\ queue' = Append(queue, Reply(ext, i, TRUE))
    /\ UNCHANGED <<remotes, learnt, closing, clusterMsgs, listening, addrs,
                   shutdown>>

\* shutdown: once only; every endpoint is told to shut down.
Shutdown ==
    /\ ~shutdown
    /\ shutdown' = TRUE
    /\ closing' = Live
    /\ UNCHANGED <<tasks, ufrags, remotes, learnt, nextSerial, issued,
                   clusterMsgs, queue, listening, addrs>>

\* pop_output: the worker's own queue first; a UdpListen goes to the backend.
PopOutput ==
    /\ queue # <<>>
    /\ listening' = IF Head(queue).kind = "UdpListen"
                    THEN listening \cup {Head(queue).addr} ELSE listening
    /\ queue' = Tail(queue)
    /\ UNCHANGED <<tasks, ufrags, remotes, learnt, closing, nextSerial, issued,
                   clusterMsgs, addrs, shutdown>>

\* is_empty
IsEmpty == shutdown /\ queue = <<>> /\ Live = {}

Next ==
    \/ Spawn
    \/ \E i \in Slots : EndpointResourceEmpty(i)
    \/ \E a \in LocalAddrs, ok \in BOOLEAN : UdpListenResult(a, ok)
    \/ \E r \in RemoteAddrs, u \in 0..MaxSpawns : UdpPacket(r, u)
    \/ \E i \in Slots : ClusterSend(i)
    \/ \E m \in clusterMsgs : ClusterEvent(m)
    \/ \E h \in issued, ext \in ExtKinds : ExtToEndpoint(h, ext)
    \/ \E h \in issued, ext \in ExtKinds : ExtToAbsent(h, ext)
    \/ Shutdown
    \/ PopOutput

\* The worker loop drains pop_output; an endpoint told to close finishes
\* closing and reports OnResourceEmpty (the transport's own timers).  That
\* output is taken once the queue is empty, and the loop calls pop_output
\* until it returns None, so every time the queue runs dry: strong
\* fairness, since a client may refill the queue in between.
Fairness ==
    /\ WF_vars(PopOutput)
    /\ \A i \in Slots : SF_vars(i \in closing /\ EndpointResourceEmpty(i))

Spec == Init /\ [][Next]_vars /\ Fairness

-----------------------------------------------------------------------------
(* Properties                                                               *)

\* The shared port never routes by a registration of an endpoint that is
\* gone: a ufrag maps to the slot of the endpoint that registered it, and a
\* cached remote address to the endpoint it was learnt for, even after the
\* slot has been freed and reused by a later spawn.
DemuxFresh ==
    /\ \A u \in Serials : ufrags[u] # NoSlot => tasks[ufrags[u]] = u
    /\ \A r \in RemoteAddrs : remotes[r] # NoSlot => tasks[remotes[r]] = learnt[r]

\* After shutdown every endpoint is eventually destroyed and removed from
\* the task group (the worker's is_empty needs Live = {}).
ShutdownReleasesEndpoints == shutdown ~> (Live = {})

\* An input addressed to a session, by a client through Ext or by the room
\* through Cluster, reaches that session's endpoint or none: never another
\* endpoint that occupies the slot now (spec 4.6: "route to existing
\* endpoint; if absent, fail with RpcEndpointNotFound").
NoMisdelivery ==
    [][/\ \A h \in issued, ext \in ExtKinds :
          ExtToEndpoint(h, ext) => tasks[h[1]] = h[2]
       /\ \A m \in clusterMsgs :
          ClusterEvent(m) /\ ~Free(m[1]) => tasks[m[1]] = m[2]]_vars

=============================================================================
