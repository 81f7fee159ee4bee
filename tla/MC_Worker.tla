------------------------------ MODULE MC_Worker ------------------------------
(* Two slots and three spawns: a slot is freed and reused at least once.   *)
EXTENDS Worker, TLC

CONSTANTS s1, s2, l1, r1

MC_Slots == {s1, s2}
MC_LocalAddrs == {l1}
MC_RemoteAddrs == {r1}

=============================================================================
