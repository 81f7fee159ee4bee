--------------------------- MODULE ChannelAnnounce ---------------------------
(***************************************************************************)
(* What a room's channel publisher promises the pub/sub fabric (spec 4.1  *)
(* and 8), independent of how it indexes tracks: a channel is announced    *)
(* with PubStart when it gains its first source and withdrawn with PubStop *)
(* when it loses its last one, and these announcements reach the fabric    *)
(* per channel in the order they were made.                                *)
(*                                                                         *)
(* live     the channels that currently have a source                      *)
(* pending  per channel, the announcements made but not yet delivered      *)
(* fabric   per channel, the state the fabric was last told                *)
(***************************************************************************)
EXTENDS Sequences

CONSTANT Channels

VARIABLES live, pending, fabric

vars == <<live, pending, fabric>>

Announcements == {"PubStart", "PubStop"}

Init ==
    /\ live = {}
    /\ pending = [c \in Channels |-> <<>>]
    /\ fabric = [c \in Channels |-> "stopped"]

\* A channel gains its first source: PubStart is announced.
Open(c) ==
    /\ c \notin live
    /\ live' = live \cup {c}
    /\ pending' = [pending EXCEPT ![c] = Append(@, "PubStart")]
    /\ UNCHANGED fabric

\* A channel loses its last source: PubStop is announced.
Close(c) ==
    /\ c \in live
    /\ live' = live \ {c}
    /\ pending' = [pending EXCEPT ![c] = Append(@, "PubStop")]
    /\ UNCHANGED fabric

\* The oldest announcement of a channel reaches the fabric.
Deliver(c) ==
    /\ pending[c] # <<>>
    /\ fabric' = [fabric EXCEPT ![c] = IF Head(pending[c]) = "PubStart"
                                       THEN "started" ELSE "stopped"]
    /\ pending' = [pending EXCEPT ![c] = Tail(@)]
    /\ UNCHANGED live

Next == \E c \in Channels : Open(c) \/ Close(c) \/ Deliver(c)

\* Every announcement is eventually delivered.
Spec == Init /\ [][Next]_vars /\ \A c \in Channels : WF_vars(Deliver(c))

=============================================================================
