---------------------------- MODULE MC_Publisher ----------------------------
(* Two endpoints publishing the same track id of the same peer under two   *)
(* names: enough for two sources on one channel and for two channels.      *)
EXTENDS Publisher, TLC

CONSTANTS e1, e2, t1, p1, n1, n2

MC_Endpoints == {e1, e2}
MC_TrackIds == {t1}
MC_Peers == {p1}
MC_Names == {n1, n2}

=============================================================================
