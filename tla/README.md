# TLA+ models of the cluster media routing core

This directory holds TLA+ models of the SFU's cluster media routing core and
the TLC configurations that check them. The models follow the Rust sources
under `src/` and the design in `spec.md`. Every definition that stands for
code is listed in `PROJECT.json` ("map") with the lines it translates. Code
that is not in this repository is modelled from the specification: the room,
the `TaskGroup`, `SharedUdpPort`, `id_generator`, the pub/sub fabric, the edge
node and the connector agent. Those definitions are marked `spec_modelled`.

## The system and how its parts interact

Media takes this path:

    UDP → SharedUdpPort → endpoint task → room → RoomChannelPublisher →
    pub/sub fabric → subscriber on another node → endpoint → UDP

Signalling takes this path:

    HTTP/RPC → gateway (MediaRemoteRpcHandlerImpl) → edge worker
    (MediaWorkerWebrtc::spawn / on_event(Ext))

Every component is a sans-io state machine. It takes an input through an
`on_*` call that runs to completion, and queues its outputs. The worker loop
then drains them with `pop_output` until it returns `None`. The only
concurrency inside a node is therefore the interleaving of inputs with that
draining. The gateway's handlers are different: they are tokio tasks that run
concurrently, and they suspend on the bounded telemetry channel and on the
RPC to the edge.

| Part | Source | Module | Status |
|---|---|---|---|
| Channel Publisher | `packages/media_core/src/cluster/room/media_track/publisher.rs` | `Publisher` | modelled |
| Cluster Engine | `packages/media_core/src/cluster.rs` | `Cluster`, refining `RoomDirectory` | modelled (room and TaskGroup abstracted from the spec) |
| Edge Worker Group | `packages/transport_webrtc/src/worker.rs` | `Worker` | partly (the endpoint task is abstracted) |
| Shared UDP Demux | not under `src/` (spec 4.6) | `Worker` | partly, spec-modelled |
| Gateway Dispatch | `bin/src/server/gateway/remote_rpc_handler.rs` | `Gateway`, refining `RouteDispatch` | modelled |
| Room layers (subscriber, mixer, message channels) | not under `src/` | (`Cluster`, membership only) | not modelled |
| HTTP RPC server | `servers/media-server/src/rpc/http.rs` | none | not modelled: pure I/O |
| Content-type cleaner | `bin/src/content_type.rs` | `ContentType` | modelled (logging left out) |
| ClusterRoomHash::generate | `cluster.rs` | Cluster | modelled: the byte stream hashed (`generate`); `finish()` taken as injective |

## Modules

### Publisher: `RoomChannelPublisher`

**State.** `tracks` maps (endpoint, track id) to a channel, with `NoChannel`
when the key is absent. `tracks_source` maps a channel to its set of sources.
`queue` is the output `VecDeque`. `fabric` is the state of each channel as the
pub/sub fabric has been told it, either "started" or "stopped".

**Channels.** `gen_track_channel_id(peer, name)` is the pair itself. This is
the injective id that spec 6 requires.

**Actions.** There is one action per handler:
- `OnTrackFeedback` decodes with `FeedbackKind::try_from`; kind 2 is dropped.
  It then queues one endpoint event per source, in any `IndexSet` order.
- `OnTrackPublish`
- `OnTrackData`
- `OnTrackUnpublish`
- `PopOutput`, which hands the head of the queue to the fabric.

**Environment.** The constant `RepublishAllowed` says whether an endpoint may
send `Started` for a track it already publishes.

**Refinement.** `ChannelAnnounce` is the abstract promise the publisher makes
to the fabric (spec 4.1 and 8). A channel is `Open`ed with PubStart when it
gains its first source, and `Close`d with PubStop when it loses its last one.
Each announcement is `Deliver`ed in order. `Publisher` instantiates it as
`Announce` with this mapping:
- `live` is the set of channels with a non-empty `tracks_source`;
- `pending[c]` is the PubStart/PubStop kinds queued for `c`, in queue order
  (`PendingOf`, a `SelectSeq` of the queue);
- `fabric` is the publisher's own `fabric`.

`AnnounceRefined == Announce!Spec` is checked as a temporal property. It
covers the safety part (no double announcement, no withdrawal of an
unannounced channel, in-order delivery). It also covers the liveness part,
which comes from `WF(PopOutput)`. Queued PubData steps map to stuttering
steps of the abstract spec.

### Worker: `MediaWorkerWebrtc`

The TaskGroup is `tasks`, a map from slot to the serial of the endpoint in it,
where 0 means free. The serial stands in for the identity of a session. The
shared port's indexes are:
- `ufrags`, from serial to slot;
- `remotes`, the cached remote address to slot. `learnt` records which serial
  each cache entry was learnt for.

`issued` holds the `WebrtcSession` handles given to clients. `clusterMsgs`
holds room events in flight to a handle. The local addresses a session's
transport is built with (`self.addrs` and `self.addrs_alt`) are not tracked:
no property is about them.

**Actions:**
- `Spawn` and `SpawnAt` model `spawn`.
- `EndpointResourceEmpty` models `process_output` on `OnResourceEmpty`. It
  calls `remove_task` on both the TaskGroup and the shared port.
  It is guarded by an empty worker queue, as `pop_output` serves that queue first.
- Every branch of `on_event` has an action: `UdpListenResult`, `UdpPacket`,
  `ClusterEvent`, `ExtToEndpoint` and `ExtToAbsent`. `ExtToAbsent` covers the
  RemoteIce and Disconnect error replies, the respawn on RestartIce, and the
  error reply when that respawn fails.
- `Shutdown`
- `PopOutput`

**Not modelled.** The endpoint itself is reduced to "alive" and "told to
close" (`closing`).

### Gateway: `MediaRemoteRpcHandlerImpl`

The five connect handlers share one control flow. Each call is a program
counter `pc` through these steps:
- `RouteBegin`
- `Select`, which picks a node or finds the pool empty;
- `RpcAnswer` or `RpcTimeout`;
- `ReportSuccess`, `ReportTimeout` or `ReportPoolEmpty`.

`Send` blocks while the connector channel (capacity `ChanCap`) is full.

**Clock.** `now` is real time. `wall` is what `now_ms()` returns. `Tick`
advances both. `Back` (allowed only when `StepBack`) sets the wall clock back
once by 1 ms, as an NTP or manual clock correction does. `RouteBegin` records
`started_at = now_ms()`. Each report computes
`AfterMs(c) == ((wall - started_at[c]) % 2^W64) % 2^W32`, which is the u64
subtraction (wrapping in a release build) followed by `as u32`. The three
reports share the one operator `Report`, so the duration is computed the same
way on all three paths.

Relay handlers parse the `ClusterConnId` and forward (`RelayParse`,
`RelayForward`).

The environment has two actions:
- `EdgeCreate`: the edge creates the session, possibly after the gateway has
  given up waiting.
- `ConnectorRecv`: the connector agent receives an event.

**Refinement.** `RouteDispatch` is the promise of spec 4.5: per call,
Init, Selecting, then Failed(PoolEmpty), or Routing and then Success or
Failed(Timeout), with RouteBegin announced on leaving Init and the terminal
event and the answer on reaching a terminal state; the connector receives each
call's events in order. The mapping translates the handler's `pc`: a call
stays Selecting until PoolEmpty is reported and Routing until the RPC outcome
is reported, because the abstract state changes with its telemetry.
`pending` is the call's own events in `chan` (`ChanOf`), `dest` is `node` and
`answer` is `result`. The abstract fairness (every call finishes, every event
is received) follows from the handlers' and the connector's weak fairness.

### ContentType: `ContentTypeCleaner`

The middleware is a step pair per request:
- `Receive` takes any request from `Requests`.
- `Call` either fails the body read (the `?` on `into_bytes`), or forwards
  the request with the body set back and the header `Rewrite`n.

A header value is a sequence of tokens:
- `"sdp"` stands for the text `application/sdp`;
- `"SDP"` is the same text in another letter case;
- `"other"` is any other visible text;
- `";"` and `" "` are themselves;
- `"obs"` is a byte that HTTP allows but `HeaderValue::to_str` rejects.

`Rewrite` is composed of `ToStr`, `FirstField` (`split(';').next()`), `Trim`
(RECURSIVE `TrimStart`/`TrimEnd`) and the comparison, in the code's order.

### Cluster: `MediaCluster`

**Room keys.** A room is keyed by `ClusterRoomHash::generate(app, room)`:
both strings go into one `DefaultHasher`, and `impl Hash for str` writes the
bytes followed by `0xff`. `generate` models that byte stream
(`app ++ <<ff>> ++ room ++ <<ff>>`); `Apps` and `RoomIds` are byte sequences.
`0xff` never occurs in UTF-8, so the stream determines the pair. The 64-bit
`finish()` is taken as injective: SipHash collisions are out of scope.

**State.** `rooms_map` maps a hash to a slot. `task` maps a TaskGroup slot to
the hash of the room in it. Each room is abstracted to `members` (its joined
endpoints), `tracks` (the endpoints with a remote track published in it)
and `roomQ` (its pending outputs). A room is empty when all three are
(`RoomIsEmpty`); its audio-mixer subscriptions are left out. The module also keeps
`shutdown`, and `groupEmptied` for the TaskGroup's own `OnResourceEmpty`.

**Actions:**
- `Join(e, a, r)` hashes the endpoint's app and room id. `Leave` uses the
  pair the endpoint joined.
- `OnEndpointControl` looks up the room, or creates it in a free slot and
  registers it. It is used by `Join`, `Leave` and `TrackControl`.
- `TrackControl(e, ctl)` is `RemoteTrack Started/Ended` for the room the
  endpoint joined. An endpoint starts a track only when it has none there and
  ends only one it started (the publish-once contract that the `publisher`
  run also assumes; `publisher_leak` shows what a republish does).
  `Leave` releases the peer's tracks (spec 4.3).
- `OnSdnEvent` drops events for unknown rooms.
- `Shutdown` is idempotent.
- `PopRoom(i)` translates a queued output. When the room is empty, it yields
  `OnResourceEmpty`, which `Reap` handles with `swap_remove` and
  `remove_task`.
- `PopGroupEmpty`

`on_tick` only forwards to the rooms, whose timers are not modelled, so it is
a stutter step.

**Refinement.** `RoomDirectory` is what the engine promises in terms of
(app, room id) keys instead of hashes and slots: a control for a key
creates its room if needed and changes that room's peers and tracks and no
other; a room is destroyed only without peers and tracks, and such a room is eventually
destroyed (weak fairness on `Destroy`). The mapping: a key is live while
`rooms_map` has an entry for its hash (`LiveKeys`), and its peers are the
members of that slot and its tracks that slot's `tracks`. `Reap` is `Destroy`; `PopRoom` steps that only pop an
output, `OnSdnEvent` and `PopGroupEmpty` are stutters.

## Runs

Each `MC_*.tla` module fixes the model values. Each `.cfg` picks the bounds
and the properties.

| Run | Expect | What it shows |
|---|---|---|
| `publisher` (`MC_Publisher.cfg`) | pass | The indexes agree (`SourcesMatchTracks`). A channel without sources is eventually stopped (`EventuallyStopped`). The stream and quiescence properties are checked by `publisher_republish`, which covers these behaviours and more. |
| `publisher_republish` | pass | Even with republish, the lookups behind `expect`/`assert!` in `on_track_unpublish` cannot fail (`SourceIndexConsistent`). The stream stays well formed. The publisher refines `ChannelAnnounce` (`AnnounceRefined`). |
| `publisher_leak` | violation | `DropClean`: republish under a new name, then unpublish. The old channel keeps a source and stays started, so Drop would panic. |
| `worker` | pass | `DemuxFresh`: ufrag and remote-address entries always name the endpoint they were registered for, across slot reuse. `ShutdownReleasesEndpoints`: after shutdown every endpoint is destroyed. |
| `worker_stale_handle` | violation | `NoMisdelivery`: a late Ext or cluster input for a destroyed session reaches the session now in its slot. |
| `worker_restart_after_shutdown` | violation | `ShutdownReleasesEndpoints`: a RestartIce after shutdown spawns an endpoint that is never closed. |
| `gateway` | pass | `RouteAccountingComplete`: every started connect call's RouteSuccess or RouteError reaches the connector. `RouteRefined`: the handlers implement `RouteDispatch`, the per-call route state machine of spec 4.5. |
| `gateway_clock_back` | violation | `AfterMsPlausible`: a 1 ms step back of the wall clock during a call wraps the u64 subtraction, and `as u32` reports `u32::MAX` ms (7 at the scaled widths). |
| `gateway_late_answer` | violation | `NoOrphanSession`: the edge creates a session that the gateway reported as a Timeout and answered with None. |
| `content_type` | pass | `ForwardedFaithfully`: for every header of up to four tokens, the body reaches the endpoint unchanged. The header becomes exactly `application/sdp` iff a declarative media-type grammar (`DeclaresSdp`) says it declares that type: optional whitespace, the type, optional whitespace, then the end or `;`. A value with a byte `to_str` rejects is left alone. |
| `cluster` | pass | `RegistryConsistent`: `rooms_map` is a bijection with the live rooms, so the `expect` in `pop_output` holds. `MembersInLiveRoom`: no room is reaped under a joined peer. `TenantIsolation`: every member of a room joined with the same (app, room) pair, even for pairs whose strings concatenate alike. `RoomsReaped`: a room with no peers and no tracks is eventually removed. `DirectoryRefined`: the engine implements `RoomDirectory`. |

`PROJECT.json` lists the findings behind the violation runs. It also lists a
mutant for every property of every passing run: a plausible bug of the mapped
code under which TLC finds the property violated.

## Bounds

**Publisher.** Two endpoints, one track id, one peer and two names, with
`MaxQueue = 3`. Two endpoints are enough for two sources of one channel.
Two names are enough for a republish to move a key between channels. Three
queued outputs let a PubStart, a PubData and a PubStop be pending together.

**Worker.** Two slots and three spawns, so a freed slot is reused by a later
session. One local address, one remote address, and `MaxQueue = 1`.

**Gateway.** Two connect calls, one relay and two nodes. `ChanCap = 1`, so
handlers contend for the telemetry channel. The clock runs to `MaxTime = 2`.
The integer widths are scaled down to `W64 = 6` and `W32 = 3`. Wrapping a
subtraction modulo 2^W64 and truncating modulo 2^W32 behaves at any widths
with W32 < W64 as it does at 64/32. A step back of 1 ms is enough to wrap,
and the result, 2^W32 - 1, is the scaled `u32::MAX`.

**ContentType.** Header values of up to four tokens (1555 values) and one
body. Four tokens fit whitespace on both sides of the type followed by `;`.
They also fit a parameter before the type, and a rejected byte after it.
`CHECK_DEADLOCK FALSE` is set because a request ends forwarded or failed,
with nothing after that.

**Cluster.** Apps `"a"` and `"ab"`, room ids `"b"` and `"bb"` (four pairs,
two of which, `("a","bb")` and `("ab","b")`, concatenate to the same bytes),
two slots, two endpoints, four joins and `MaxRoomQueue = 2`. A room can be
reaped and its slot taken by another room.
A peer can join a room that is empty but not yet reaped.

## Fairness

The worker loop calls `pop_output` until it returns `None`, so draining is
weakly fair. This gives `WF(PopOutput)` in Publisher and Worker, and per-room
`WF(PopRoom(i))` in Cluster, where the TaskGroup polls its tasks in turn.

In Worker, an endpoint that was told to close finishes through its own
timers. Its `OnResourceEmpty` leaves through `pop_output`, which returns the
worker's own queue first, so `EndpointResourceEmpty` needs an empty queue.
A client may refill the queue in between, so it is only intermittently
enabled. The loop calls `pop_output` until it returns `None`, so the output is
taken each time the queue runs dry: `EndpointResourceEmpty` is strongly fair
for slots in `closing`.

In Gateway, tokio polls every ready handler, the RPC client enforces a
deadline, and the connector agent keeps receiving.

Endpoints and clients are never obliged to act. Where a system legitimately
stops, the cfg sets `CHECK_DEADLOCK FALSE` and says why.

## Not modelled, and next steps

- Endpoint internals: the WebRTC transport, ICE/DTLS and media.
- The room's subscriber, audio mixer and message-channel layers, which are
  not in this repository. Room emptiness counts peers and published tracks
  only; a mixer subscription that outlived its peer would keep a room alive
  and is not modelled.
- HTTP I/O: `HttpRpcServer` (`servers/media-server/src/rpc/http.rs`) only
  reads TLS files, binds sockets and forwards requests over a channel. It has
  no state machine of its own.
- The logging in `ContentTypeCleaner`, which changes no state.
- The connector agent's lifetime. Its dropped receiver would make
  `expect("Should send")` panic (a hazard with no property).

- The composition of Worker and Cluster. The endpoint that turns a
  session's signalling into `ClusterEndpointControl` (Join/Leave) and the
  glue that carries them between the worker and the cluster engine are not
  in this repository; a composed model would check assumptions, not code.
- Telemetry keys: the connector tells calls apart by `session_id` taken from
  the request; the model gives each call its own identity.

Larger Cluster instances: three slots and three endpoints did not finish
within ten minutes. Two slots and two endpoints already cover slot reuse by
another room, a join into an emptied room before it is reaped, and the two
pairs whose strings concatenate alike.
