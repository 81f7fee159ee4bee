---------------------------- MODULE RoomDirectory ----------------------------
(***************************************************************************)
(* What the cluster engine promises its endpoints (spec 3, 4.4 and 9), in  *)
(* terms of rooms named by their (app, room id) key rather than by hashes  *)
(* and TaskGroup slots: a control for a key reaches the room of that key,  *)
(* which exists from the first control for it, and changes no other room;  *)
(* a room is destroyed only when it holds no peer and no track, and such a *)
(* room is eventually destroyed.                                           *)
(*                                                                         *)
(* live      the keys whose room exists                                    *)
(* peers     per key, the endpoints joined to its room                     *)
(* tracks    per key, the endpoints with a track published in its room     *)
(* shutdown  the engine has been asked to shut down                        *)
(***************************************************************************)
CONSTANTS Keys, Endpoints

VARIABLES live, peers, tracks, shutdown

vars == <<live, peers, tracks, shutdown>>

Init ==
    /\ live = {}
    /\ peers = [k \in Keys |-> {}]
    /\ tracks = [k \in Keys |-> {}]
    /\ shutdown = FALSE

Controls == {"Join", "Leave", "TrackStarted", "TrackEnded"}

\* An endpoint's control for key k: the room of k is created if need be,
\* and only its peers and tracks change.  Leave releases the peer's tracks.
Control(e, k, ctl) ==
    /\ live' = live \cup {k}
    /\ peers' = [peers EXCEPT ![k] = CASE ctl = "Join"  -> @ \cup {e}
                                       [] ctl = "Leave" -> @ \ {e}
                                       [] OTHER         -> @]
    /\ tracks' = [tracks EXCEPT ![k] = CASE ctl = "TrackStarted"        -> @ \cup {e}
                                         [] ctl \in {"TrackEnded", "Leave"} -> @ \ {e}
                                         [] OTHER                       -> @]
    /\ UNCHANGED shutdown

\* A room with no peers and no tracks is destroyed.
Destroy(k) ==
    /\ k \in live
    /\ peers[k] = {} /\ tracks[k] = {}
    /\ live' = live \ {k}
    /\ UNCHANGED <<peers, tracks, shutdown>>

Shutdown ==
    /\ ~shutdown
    /\ shutdown' = TRUE
    /\ UNCHANGED <<live, peers, tracks>>

Next ==
    \/ \E e \in Endpoints, k \in Keys, ctl \in Controls : Control(e, k, ctl)
    \/ \E k \in Keys : Destroy(k)
    \/ Shutdown

Spec == Init /\ [][Next]_vars /\ \A k \in Keys : WF_vars(Destroy(k))

=============================================================================
