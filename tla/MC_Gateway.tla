----------------------------- MODULE MC_Gateway -----------------------------
(* Two connect calls and one relay sharing a one-slot connector channel.    *)
EXTENDS Gateway, TLC

CONSTANTS c1, c2, r1, n1, n2

MC_Calls == {c1, c2}
MC_Relays == {r1}
MC_Nodes == {n1, n2}

=============================================================================
