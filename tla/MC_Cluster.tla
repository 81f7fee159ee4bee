----------------------------- MODULE MC_Cluster -----------------------------
(* Two apps and two room ids whose texts concatenate to the same bytes,   *)
(* "a" + "bb" = "ab" + "b": only the str terminators keep their hashes    *)
(* apart.                                                                  *)
EXTENDS Cluster, TLC

CONSTANTS s1, s2, e1, e2

MC_Slots == {s1, s2}
MC_Apps == {<<"a">>, <<"a", "b">>}
MC_RoomIds == {<<"b">>, <<"b", "b">>}
MC_Endpoints == {e1, e2}

=============================================================================
