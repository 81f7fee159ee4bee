------------------------------ MODULE Publisher ------------------------------
(***************************************************************************)
(* RoomChannelPublisher of one room                                        *)
(* (packages/media_core/src/cluster/room/media_track/publisher.rs).        *)
(*                                                                         *)
(* The publisher keeps two indexes, `tracks` from (endpoint, track id) to  *)
(* the channel the track publishes on, and `tracks_source` from a channel  *)
(* to the set of (endpoint, track id) feeding it, and a FIFO `queue` of    *)
(* outputs that the room drains with pop_output.  The consumer of the      *)
(* Pubsub outputs, the cluster pub/sub fabric, is modelled by `fabric`:    *)
(* the state of each channel as the fabric has been told it.               *)
(***************************************************************************)
EXTENDS Naturals, Sequences, FiniteSets, SequencesExt

CONSTANTS
    Endpoints,        \* endpoint handles of the room (model values)
    TrackIds,         \* RemoteTrackId values, scoped per endpoint
    Peers,            \* PeerId values
    Names,            \* TrackName values
    MaxQueue,         \* bound on the length of the output queue
    RepublishAllowed  \* may an endpoint send Started for a track it already publishes?

ASSUME MaxQueue \in Nat \ {0}
ASSUME RepublishAllowed \in BOOLEAN

VARIABLES tracks, tracks_source, queue, fabric
vars == <<tracks, tracks_source, queue, fabric>>

Keys == Endpoints \X TrackIds

\* gen_track_channel_id(room, peer, name): a collision-free hash of the
\* (peer, name) pair inside one room.
gen_track_channel_id(peer, name) == <<peer, name>>

Channels == {gen_track_channel_id(p, n) : p \in Peers, n \in Names}

NoChannel == <<>>

\* Feedback.kind as decoded by FeedbackKind::try_from; any other kind is Err.
FeedbackKinds == {0, 1, 2}

\* The outputs pushed on `queue`: Pubsub controls carry a channel, Endpoint
\* events carry the (endpoint, track) they are addressed to.
NoKey == <<>>
PubsubOut(kind, c) == [kind |-> kind, ch |-> c, key |-> NoKey]
EndpointOut(kind, k) == [kind |-> kind, ch |-> NoChannel, key |-> k]
Outputs ==
    {PubsubOut(x, c) : x \in {"PubStart", "PubData", "PubStop"}, c \in Channels}
    \cup {EndpointOut(x, k) : x \in {"LimitBitrate", "RequestKeyFrame"}, k \in Keys}

TypeOK ==
    /\ tracks \in [Keys -> Channels \cup {NoChannel}]
    /\ tracks_source \in [Channels -> SUBSET Keys]
    /\ queue \in Seq(Outputs)
    /\ Len(queue) <= MaxQueue
    /\ fabric \in [Channels -> {"stopped", "started"}]

\* RoomChannelPublisher::new
Init ==
    /\ tracks = [k \in Keys |-> NoChannel]
    /\ tracks_source = [c \in Channels |-> {}]
    /\ queue = <<>>
    /\ fabric = [c \in Channels |-> "stopped"]

-----------------------------------------------------------------------------
(* Mutants: plausible bugs of the handlers below, each one used in place   *)
(* of the handler it is named after.                                        *)

\* PubStart emitted on every publish, not only on the empty->non-empty edge.
OnTrackPublishAlwaysStart(e, t, p, n) ==
    LET c == gen_track_channel_id(p, n) IN
    /\ RepublishAllowed \/ tracks[<<e, t>>] = NoChannel
    /\ Len(queue) < MaxQueue
    /\ tracks' = [tracks EXCEPT ![<<e, t>>] = c]
    /\ tracks_source' = [tracks_source EXCEPT ![c] = @ \cup {<<e, t>>}]
    /\ queue' = Append(queue, PubsubOut("PubStart", c))
    /\ UNCHANGED fabric

\* The source inserted only when it opens the channel (insert inside the if).
OnTrackPublishInsertOnlyFirst(e, t, p, n) ==
    LET c == gen_track_channel_id(p, n) IN
    /\ RepublishAllowed \/ tracks[<<e, t>>] = NoChannel
    /\ Len(queue) < MaxQueue
    /\ tracks' = [tracks EXCEPT ![<<e, t>>] = c]
    /\ tracks_source' = IF tracks_source[c] = {}
                        THEN [tracks_source EXCEPT ![c] = {<<e, t>>}]
                        ELSE tracks_source
    /\ queue' = IF tracks_source[c] = {}
                THEN Append(queue, PubsubOut("PubStart", c)) ELSE queue
    /\ UNCHANGED fabric

\* The source is left in tracks_source when the track is unpublished.
OnTrackUnpublishKeepSource(e, t) ==
    LET k == <<e, t>>
        c == tracks[k] IN
    /\ c # NoChannel
    /\ Len(queue) < MaxQueue
    /\ tracks' = [tracks EXCEPT ![k] = NoChannel]
    /\ queue' = IF tracks_source[c] \ {k} = {}
                THEN Append(queue, PubsubOut("PubStop", c)) ELSE queue
    /\ UNCHANGED <<tracks_source, fabric>>

\* The emptiness test made before the source is removed: PubStop is never sent.
OnTrackUnpublishTestFirst(e, t) ==
    LET k == <<e, t>>
        c == tracks[k] IN
    /\ c # NoChannel
    /\ Len(queue) < MaxQueue
    /\ tracks' = [tracks EXCEPT ![k] = NoChannel]
    /\ tracks_source' = [tracks_source EXCEPT ![c] = @ \ {k}]
    /\ queue' = IF tracks_source[c] = {}
                THEN Append(queue, PubsubOut("PubStop", c)) ELSE queue
    /\ UNCHANGED fabric

\* Media forwarded on the channel derived from the track id alone, without
\* looking the track up first.
OnTrackDataNoLookup(e, t) ==
    \E c \in Channels :
        /\ Len(queue) < MaxQueue
        /\ queue' = Append(queue, PubsubOut("PubData", c))
        /\ UNCHANGED <<tracks, tracks_source, fabric>>

\* The feedback kind forwarded without decoding: unknown kinds reach the
\* endpoint as events it has no variant for.
OnTrackFeedbackNoDecode(c, kind) ==
    /\ tracks_source[c] # {}
    /\ Len(queue) + Cardinality(tracks_source[c]) <= MaxQueue
    /\ \E order \in SetToSeqs(tracks_source[c]) :
         queue' = queue \o [i \in 1..Len(order) |->
                   EndpointOut(CASE kind = 0 -> "LimitBitrate"
                                 [] kind = 1 -> "RequestKeyFrame"
                                 [] OTHER    -> "Unknown", order[i])]
    /\ UNCHANGED <<tracks, tracks_source, fabric>>

-----------------------------------------------------------------------------

\* FeedbackKind::try_from: kind 0 is a bitrate limit, 1 a key-frame request.
FeedbackEvent(kind) == IF kind = 0 THEN "LimitBitrate" ELSE "RequestKeyFrame"

\* on_track_feedback: an unknown kind or a channel without sources is dropped;
\* otherwise one Endpoint event per source, in the index's order.
OnTrackFeedback(c, kind) ==
    /\ kind \in {0, 1}
    /\ tracks_source[c] # {}
    /\ Len(queue) + Cardinality(tracks_source[c]) <= MaxQueue
    /\ \E order \in SetToSeqs(tracks_source[c]) :
         queue' = queue \o [i \in 1..Len(order) |->
                              EndpointOut(FeedbackEvent(kind), order[i])]
    /\ UNCHANGED <<tracks, tracks_source, fabric>>

\* on_track_publish: insert into both indexes; PubStart when the channel's
\* source set goes from empty to non-empty.  The environment guard says
\* whether the endpoint may repeat Started for a track it already publishes.
OnTrackPublish(e, t, p, n) ==
    LET c == gen_track_channel_id(p, n) IN
    /\ RepublishAllowed \/ tracks[<<e, t>>] = NoChannel
    /\ Len(queue) < MaxQueue
    /\ tracks' = [tracks EXCEPT ![<<e, t>>] = c]
    /\ tracks_source' = [tracks_source EXCEPT ![c] = @ \cup {<<e, t>>}]
    /\ queue' = IF tracks_source[c] = {}
                THEN Append(queue, PubsubOut("PubStart", c)) ELSE queue
    /\ UNCHANGED fabric

\* on_track_data: media of an unknown track is dropped; otherwise PubData on
\* the track's channel.
OnTrackData(e, t) ==
    /\ tracks[<<e, t>>] # NoChannel
    /\ Len(queue) < MaxQueue
    /\ queue' = Append(queue, PubsubOut("PubData", tracks[<<e, t>>]))
    /\ UNCHANGED <<tracks, tracks_source, fabric>>

\* on_track_unpublish: remove from both indexes; PubStop when the channel's
\* source set becomes empty (the entry is then removed).
OnTrackUnpublish(e, t) ==
    LET k == <<e, t>>
        c == tracks[k] IN
    /\ c # NoChannel
    /\ Len(queue) < MaxQueue
    /\ tracks' = [tracks EXCEPT ![k] = NoChannel]
    /\ tracks_source' = [tracks_source EXCEPT ![c] = @ \ {k}]
    /\ queue' = IF tracks_source[c] \ {k} = {}
                THEN Append(queue, PubsubOut("PubStop", c)) ELSE queue
    /\ UNCHANGED fabric

\* The pub/sub fabric applies a channel control (spec section 6).
FabricApply(out) ==
    CASE out.kind = "PubStart" -> [fabric EXCEPT ![out.ch] = "started"]
      [] out.kind = "PubStop"  -> [fabric EXCEPT ![out.ch] = "stopped"]
      [] OTHER                 -> fabric

\* pop_output: the head of the queue is handed to the room, and from it to
\* the pub/sub fabric or the endpoint.
PopOutput ==
    /\ queue # <<>>
    /\ fabric' = FabricApply(Head(queue))
    /\ queue' = Tail(queue)
    /\ UNCHANGED <<tracks, tracks_source>>

\* is_empty: every index and the queue are empty.
IsEmpty ==
    /\ \A k \in Keys : tracks[k] = NoChannel
    /\ \A c \in Channels : tracks_source[c] = {}
    /\ queue = <<>>

Next ==
    \/ \E e \in Endpoints, t \in TrackIds, p \in Peers, n \in Names :
         OnTrackPublish(e, t, p, n)
    \/ \E e \in Endpoints, t \in TrackIds : OnTrackData(e, t)
    \/ \E e \in Endpoints, t \in TrackIds : OnTrackUnpublish(e, t)
    \/ \E c \in Channels, kind \in FeedbackKinds : OnTrackFeedback(c, kind)
    \/ PopOutput

\* The room drains its children's queues in its own pop_output, which the
\* worker loop calls until it returns None: PopOutput is weakly fair.
Spec == Init /\ [][Next]_vars /\ WF_vars(PopOutput)

-----------------------------------------------------------------------------
(* Refinement: the publisher implements ChannelAnnounce.  A channel is live *)
(* when it has a source, and its pending announcements are its PubStart and *)
(* PubStop outputs still in the queue, in queue order.                     *)

IsAnnouncement(o) == o.kind \in {"PubStart", "PubStop"}

PendingOf(c) ==
    LET s == SelectSeq(queue, LAMBDA o : IsAnnouncement(o) /\ o.ch = c)
    IN  [i \in DOMAIN s |-> s[i].kind]

Announce == INSTANCE ChannelAnnounce WITH
    Channels <- Channels,
    live <- {c \in Channels : tracks_source[c] # {}},
    pending <- [c \in Channels |-> PendingOf(c)],
    fabric <- fabric

-----------------------------------------------------------------------------
(* Properties                                                               *)

\* The index lookups of on_track_unpublish cannot fail: every published
\* track is a source of the channel it publishes on, so the
\* expect("Should have track_source") and assert!(removed) never fire.
SourceIndexConsistent ==
    \A k \in Keys : tracks[k] # NoChannel => k \in tracks_source[tracks[k]]

\* The two indexes describe the same relation: a channel's sources are
\* exactly the tracks whose entry names that channel.  This is what lets
\* PubStop be sent exactly when the last publisher of a channel leaves.
SourcesMatchTracks ==
    \A c \in Channels : tracks_source[c] = {k \in Keys : tracks[k] = c}

\* The pub/sub fabric sees each channel as a well-formed stream: PubStart
\* only on a stopped channel, PubData and PubStop only on a started one,
\* however publish, data and unpublish of several endpoints interleave with
\* the draining of the queue (spec: one PubStart and one PubStop per
\* publication, even for two publishers of the same track).
StreamWellFormed ==
    [][PopOutput =>
        LET o == Head(queue) IN
        /\ o.kind = "PubStart" => fabric[o.ch] = "stopped"
        /\ o.kind \in {"PubData", "PubStop"} => fabric[o.ch] = "started"]_vars

\* Whenever the queue is drained, the fabric has a channel started exactly
\* when the publisher has a source for it (spec section 8).
QuiescentAgreement ==
    queue = <<>> =>
        \A c \in Channels : (fabric[c] = "started") <=> (tracks_source[c] # {})

\* A channel whose last source has gone is eventually stopped in the fabric:
\* the PubStop of on_track_unpublish is queued and drained.
EventuallyStopped ==
    \A c \in Channels : (tracks_source[c] = {}) ~> (fabric[c] = "stopped")

\* The publisher announces each channel to the fabric exactly as
\* ChannelAnnounce allows: PubStart only when on_track_publish gives a
\* channel its first source, PubStop only when on_track_unpublish removes
\* its last, delivered per channel in order by pop_output, and every
\* announcement eventually delivered.
AnnounceRefined == Announce!Spec

\* Termination invariant of section 4.1 and the Drop impl: once every track
\* has been unpublished and the queue drained, the publisher is empty (the
\* Drop assertions hold) and no channel is left started in the fabric.
DropClean ==
    (\A k \in Keys : tracks[k] = NoChannel) /\ queue = <<>> =>
        /\ IsEmpty
        /\ \A c \in Channels : fabric[c] = "stopped"

=============================================================================
