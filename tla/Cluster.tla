------------------------------ MODULE Cluster ------------------------------
(***************************************************************************)
(* The room cluster engine, MediaCluster (packages/media_core/src/        *)
(* cluster.rs), with the two structures it delegates to abstracted: the   *)
(* TaskGroup of rooms (a slot per room, freed slots reused) and the room   *)
(* itself, reduced to its set of joined endpoints and its output queue.    *)
(* The room and the TaskGroup are not in this repository; they follow the  *)
(* specification (4.3, 4.4).  The endpoints are the environment: each one  *)
(* joins one room at a time, named by an (app, room id) pair, and later    *)
(* leaves it.  The pair reaches the engine only as its ClusterRoomHash.    *)
(***************************************************************************)
EXTENDS Naturals, Sequences, FiniteSets

CONSTANTS
    Slots,          \* TaskGroup slots the model lets rooms occupy
    Apps,           \* AppId strings, as byte sequences
    RoomIds,        \* RoomId strings, as byte sequences
    Endpoints,      \* endpoint handles of the worker layer
    MaxJoins,       \* bound on Join controls sent in a behaviour
    MaxRoomQueue,   \* bound on outputs pending in one room
    NoSlot,         \* rooms_map has no entry for the hash (model value)
    NoRoom          \* the TaskGroup slot holds no room (model value)

ASSUME MaxJoins \in Nat /\ MaxRoomQueue \in Nat \ {0}
ASSUME Apps \subseteq Seq(STRING) /\ RoomIds \subseteq Seq(STRING)
ASSUME NoSlot \notin Slots

VARIABLES
    rooms_map,      \* MediaCluster::rooms_map: room hash -> slot, or NoSlot
    task,           \* TaskGroup: slot -> hash of the room in it, or NoRoom
    members,        \* room in a slot -> endpoints joined to it
    tracks,         \* room in a slot -> endpoints with a remote track published in it
    roomQ,          \* room in a slot -> outputs it has queued
    shutdown,       \* MediaCluster::shutdown
    groupEmptied,   \* the TaskGroup has yielded its OnResourceEmpty
    joined,         \* endpoint -> <<app, room id>> it has joined, or NoRoom
    joins           \* Join controls sent so far

vars == <<rooms_map, task, members, tracks, roomQ, shutdown, groupEmptied, joined,
          joins>>

\* Hash for str (AppId and RoomId hash as their text): the bytes, then the
\* 0xff terminator, which no UTF-8 text contains.
StrTerminator == "ff"

\* Mutant of generate: the two strings fed to the hasher without their
\* terminators, as hashing format!("{app}{room}") would.
generateConcat(app, room) == app \o room

\* ClusterRoomHash::generate(app, room): the byte stream written to the
\* DefaultHasher; finish() is taken as injective on streams (SipHash
\* collisions are out of reach of a finite model).
generate(app, room) == app \o <<StrTerminator>> \o room \o <<StrTerminator>>

RoomKeys == Apps \X RoomIds
HashOf(k) == generate(k[1], k[2])
Hashes == {HashOf(k) : k \in RoomKeys}

ASSUME NoRoom \notin Hashes

RoomOuts == {"Sdn", "Endpoint"}
Controls == {"Join", "Leave", "TrackStarted", "TrackEnded"}

TypeOK ==
    /\ rooms_map \in [Hashes -> Slots \cup {NoSlot}]
    /\ task \in [Slots -> Hashes \cup {NoRoom}]
    /\ members \in [Slots -> SUBSET Endpoints]
    /\ tracks \in [Slots -> SUBSET Endpoints]
    /\ roomQ \in [Slots -> Seq(RoomOuts)]
    /\ \A i \in Slots : Len(roomQ[i]) <= MaxRoomQueue
    /\ shutdown \in BOOLEAN /\ groupEmptied \in BOOLEAN
    /\ joined \in [Endpoints -> RoomKeys \cup {NoRoom}]
    /\ joins \in 0..MaxJoins

\* MediaCluster::default: no rooms, not shut down.
Init ==
    /\ rooms_map = [h \in Hashes |-> NoSlot]
    /\ task = [i \in Slots |-> NoRoom]
    /\ members = [i \in Slots |-> {}]
    /\ tracks = [i \in Slots |-> {}]
    /\ roomQ = [i \in Slots |-> <<>>]
    /\ shutdown = FALSE /\ groupEmptied = FALSE
    /\ joined = [e \in Endpoints |-> NoRoom]
    /\ joins = 0

-----------------------------------------------------------------------------
(* The room (spec 4.3), as far as the engine sees it.                       *)

\* Mutant of RoomOnEndpoint: Leave drops the peer but not its tracks.
RoomOnEndpointKeepTracks(i, e, ctl) ==
    /\ Len(roomQ[i]) < MaxRoomQueue
    /\ members' = [members EXCEPT ![i] = CASE ctl = "Join"  -> @ \cup {e}
                                           [] ctl = "Leave" -> @ \ {e}
                                           [] OTHER         -> @]
    /\ tracks' = [tracks EXCEPT ![i] = CASE ctl = "TrackStarted" -> @ \cup {e}
                                         [] ctl = "TrackEnded"   -> @ \ {e}
                                         [] OTHER                -> @]
    /\ roomQ' = [roomQ EXCEPT ![i] = Append(@, "Sdn")]

\* A Join adds the endpoint and queues the peer-set Sdn output; a Leave
\* removes it, releases all of its tracks and queues the Sdn delete; a
\* RemoteTrack Started or Ended adds or removes the endpoint's track in the
\* room's publisher and queues its PubStart or PubStop.
RoomOnEndpoint(i, e, ctl) ==
    /\ Len(roomQ[i]) < MaxRoomQueue
    /\ members' = [members EXCEPT ![i] = CASE ctl = "Join"  -> @ \cup {e}
                                           [] ctl = "Leave" -> @ \ {e}
                                           [] OTHER         -> @]
    /\ tracks' = [tracks EXCEPT ![i] = CASE ctl = "TrackStarted" -> @ \cup {e}
                                         [] ctl = "TrackEnded"   -> @ \ {e}
                                         [] ctl = "Leave"        -> @ \ {e}
                                         [] OTHER                -> @]
    /\ roomQ' = [roomQ EXCEPT ![i] = Append(@, "Sdn")]

\* Mutant of RoomIsEmpty: only the pending outputs are looked at.
RoomIsEmptyQueueOnly(i) == roomQ[i] = <<>>

\* The room is empty, and yields OnResourceEmpty(room_hash), when it holds
\* no peers, no tracks (its publisher's is_empty) and no pending outputs.
\* Audio-mixer subscriptions, which a peer takes with its Join (spec 4.3),
\* are left out.
RoomIsEmpty(i) == members[i] = {} /\ tracks[i] = {} /\ roomQ[i] = <<>>

-----------------------------------------------------------------------------
(* Mutants of the engine                                                    *)

\* on_endpoint_control without the rooms_map lookup: always a new room.
OnEndpointControlAlwaysCreate(e, h, ctl) ==
    \E i \in Slots :
        /\ task[i] = NoRoom
        /\ task' = [task EXCEPT ![i] = h]
        /\ rooms_map' = [rooms_map EXCEPT ![h] = i]
        /\ RoomOnEndpoint(i, e, ctl)

\* on_endpoint_control registering the new room under the number of rooms
\* it had (a position) instead of the index add_task returned.
OnEndpointControlIndexByLen(e, h, ctl) ==
    \/ /\ rooms_map[h] # NoSlot
       /\ RoomOnEndpoint(rooms_map[h], e, ctl)
       /\ UNCHANGED <<rooms_map, task>>
    \/ /\ rooms_map[h] = NoSlot
       /\ \E i \in Slots :
            /\ task[i] = NoRoom
            /\ task' = [task EXCEPT ![i] = h]
            /\ rooms_map' = [rooms_map EXCEPT
                               ![h] = Cardinality({j \in Slots : task[j] # NoRoom})]
            /\ RoomOnEndpoint(i, e, ctl)

\* pop_output removes the task but leaves its rooms_map entry.
ReapKeepMapEntry(i) ==
    /\ task' = [task EXCEPT ![i] = NoRoom]
    /\ UNCHANGED rooms_map

\* pop_output turns the room's OnResourceEmpty into Continue and keeps it.
ReapNothing(i) == UNCHANGED <<rooms_map, task>>

-----------------------------------------------------------------------------
(* The engine                                                               *)

\* on_endpoint_control: dispatch to the room of room_hash, creating it in a
\* free TaskGroup slot and registering it in rooms_map when there is none.
OnEndpointControl(e, h, ctl) ==
    \/ /\ rooms_map[h] # NoSlot
       /\ RoomOnEndpoint(rooms_map[h], e, ctl)
       /\ UNCHANGED <<rooms_map, task>>
    \/ /\ rooms_map[h] = NoSlot
       /\ \E i \in Slots :
            /\ task[i] = NoRoom
            /\ task' = [task EXCEPT ![i] = h]
            /\ rooms_map' = [rooms_map EXCEPT ![h] = i]
            /\ RoomOnEndpoint(i, e, ctl)

\* An endpoint joins room r of app a: ClusterEndpointControl::Join sent with
\* ClusterRoomHash::generate(a, r).
Join(e, a, r) ==
    /\ joined[e] = NoRoom
    /\ joins < MaxJoins
    /\ OnEndpointControl(e, generate(a, r), "Join")
    /\ joined' = [joined EXCEPT ![e] = <<a, r>>]
    /\ joins' = joins + 1
    /\ UNCHANGED <<shutdown, groupEmptied>>

\* An endpoint leaves its room: ClusterEndpointControl::Leave.
Leave(e) ==
    /\ joined[e] # NoRoom
    /\ OnEndpointControl(e, HashOf(joined[e]), "Leave")
    /\ joined' = [joined EXCEPT ![e] = NoRoom]
    /\ UNCHANGED <<shutdown, groupEmptied, joins>>

\* The endpoint of a joined peer publishes a remote track, or ends it:
\* ClusterEndpointControl::RemoteTrack(track, Started | Ended) to its room.
\* Each endpoint publishes a track once until it ends it (the endpoint's
\* contract of the publisher run; a republish leaks a source, see
\* publisher_leak).
TrackControl(e, ctl) ==
    /\ joined[e] # NoRoom
    /\ rooms_map[HashOf(joined[e])] # NoSlot
    /\ (e \in tracks[rooms_map[HashOf(joined[e])]]) = (ctl = "TrackEnded")
    /\ OnEndpointControl(e, HashOf(joined[e]), ctl)
    /\ UNCHANGED <<shutdown, groupEmptied, joined, joins>>

\* on_sdn_event: return_if_none on an unknown room (a no-op step); the room
\* of a known hash answers an overlay event with an Endpoint output to its
\* members.
OnSdnEvent(h) ==
    /\ rooms_map[h] # NoSlot
    /\ LET i == rooms_map[h] IN
         /\ members[i] # {}
         /\ Len(roomQ[i]) < MaxRoomQueue
         /\ roomQ' = [roomQ EXCEPT ![i] = Append(@, "Endpoint")]
    /\ UNCHANGED <<rooms_map, task, members, tracks, shutdown, groupEmptied, joined,
                   joins>>

\* shutdown: rooms.on_shutdown once, then the flag; a second call returns.
\* The rooms keep their peers until these leave.
Shutdown ==
    /\ ~shutdown
    /\ shutdown' = TRUE
    /\ UNCHANGED <<rooms_map, task, members, tracks, roomQ, groupEmptied, joined,
                   joins>>

\* The room's OnResourceEmpty(room): swap_remove the hash from rooms_map and
\* remove_task the slot.
Reap(i) ==
    /\ rooms_map' = [rooms_map EXCEPT ![task[i]] = NoSlot]
    /\ task' = [task EXCEPT ![i] = NoRoom]

\* pop_output while the TaskGroup polls the room in slot i.  A queued Sdn or
\* Endpoint output is translated and returned; an empty room yields
\* OnResourceEmpty(room), handled by Reap and returned as Continue.
PopRoom(i) ==
    /\ task[i] # NoRoom
    /\ \/ /\ roomQ[i] # <<>>
          /\ roomQ' = [roomQ EXCEPT ![i] = Tail(@)]
          /\ UNCHANGED <<rooms_map, task>>
       \/ /\ RoomIsEmpty(i)
          /\ Reap(i)
          /\ UNCHANGED roomQ
    /\ UNCHANGED <<members, tracks, shutdown, groupEmptied, joined, joins>>

\* pop_output once shut down with no rooms left: the TaskGroup yields its own
\* OnResourceEmpty, returned as Continue.
PopGroupEmpty ==
    /\ shutdown /\ ~groupEmptied
    /\ \A i \in Slots : task[i] = NoRoom
    /\ groupEmptied' = TRUE
    /\ UNCHANGED <<rooms_map, task, members, tracks, roomQ, shutdown, joined, joins>>

PopOutput == (\E i \in Slots : PopRoom(i)) \/ PopGroupEmpty

\* is_empty: shut down and no room left.
IsEmpty == shutdown /\ \A i \in Slots : task[i] = NoRoom

Next ==
    \/ \E e \in Endpoints, a \in Apps, r \in RoomIds : Join(e, a, r)
    \/ \E e \in Endpoints : Leave(e)
    \/ \E e \in Endpoints, ctl \in {"TrackStarted", "TrackEnded"} : TrackControl(e, ctl)
    \/ \E h \in Hashes : OnSdnEvent(h)
    \/ Shutdown
    \/ PopOutput

\* The worker drains pop_output until it returns None after every input, and
\* the TaskGroup polls its tasks in turn, so every room that has an output
\* is eventually popped.  Endpoints are not obliged to leave.
Spec ==
    /\ Init /\ [][Next]_vars
    /\ \A i \in Slots : WF_vars(PopRoom(i))
    /\ WF_vars(PopGroupEmpty)

-----------------------------------------------------------------------------
(* Properties                                                               *)

\* The room registry stays a bijection: every rooms_map entry names a slot
\* holding a room of that hash, and every live room is the one rooms_map
\* names for its hash, so pop_output's swap_remove(..).expect("Should have
\* room with index") never panics and no two rooms share a hash.
RegistryConsistent ==
    /\ \A h \in Hashes : rooms_map[h] # NoSlot => task[rooms_map[h]] = h
    /\ \A i \in Slots : task[i] # NoRoom => rooms_map[task[i]] = i

\* An endpoint that joined a room and has not left is a member of the live
\* room rooms_map names for that hash: no room is reaped, and no control is
\* routed to another room, while one of its peers is still in it.
MembersInLiveRoom ==
    \A e \in Endpoints :
        joined[e] # NoRoom =>
            /\ rooms_map[HashOf(joined[e])] # NoSlot
            /\ e \in members[rooms_map[HashOf(joined[e])]]

\* Rooms of different tenants, or different rooms of one tenant, are never
\* merged: all members of a live room joined the same (app, room id), so
\* rooms_map, keyed by ClusterRoomHash alone, never routes one tenant's
\* endpoint into another's room (spec 3: different apps sharing a room name
\* never collide).
TenantIsolation ==
    \A i \in Slots : \A e1, e2 \in members[i] : joined[e1] = joined[e2]

\* A room left with no peers is eventually removed from the TaskGroup and
\* rooms_map, unless a peer joins it again first (spec 3, room invariant
\* 3): Leave releases the peer's tracks, so the room's publisher empties
\* too.  This rests on each endpoint publishing a track once until it ends
\* it; a republish leaves a source behind (publisher_leak) and the room
\* would then never be empty.
RoomsReaped ==
    \A i \in Slots :
        (task[i] # NoRoom /\ members[i] = {}) ~>
            (task[i] = NoRoom \/ members[i] # {})

-----------------------------------------------------------------------------
(* Refinement of RoomDirectory                                              *)

\* The (app, room id) key of a room hash; generate is injective on keys.
KeyOf(h) == CHOOSE k \in RoomKeys : HashOf(k) = h

\* A key's room exists while rooms_map has an entry for its hash; its peers
\* are the members of the room in that slot.
LiveKeys == {k \in RoomKeys : rooms_map[HashOf(k)] # NoSlot}

\* What a live key's room holds in its slot, {} for a key with no room.
InRoom(f, k) == IF k \in LiveKeys THEN f[rooms_map[HashOf(k)]] ELSE {}

Directory == INSTANCE RoomDirectory WITH
    Keys     <- RoomKeys,
    live     <- LiveKeys,
    peers    <- [k \in RoomKeys |-> InRoom(members, k)],
    tracks   <- [k \in RoomKeys |-> InRoom(tracks, k)],
    shutdown <- shutdown

\* The engine implements the room directory endpoints rely on: a control
\* sent with ClusterRoomHash::generate(app, room) changes the peers and
\* tracks of that (app, room id) room and of no other, whatever room reuses
\* a slot or hashes alike; a room is reaped (swap_remove, remove_task) only
\* when it has no peer and no track, and such a room is eventually reaped.
DirectoryRefined == Directory!Spec

=============================================================================
